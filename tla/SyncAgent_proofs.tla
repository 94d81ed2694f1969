-------------------------- MODULE SyncAgent_proofs --------------------------
(***************************************************************************)
(* What SyncAgent promises, for any number of paths, contents, edits,      *)
(* failing posts and restarts, and any limits of batches and retries.      *)
(***************************************************************************)
EXTENDS SyncAgent, FiniteSetTheorems, WellFoundedInduction, TLAPS

-----------------------------------------------------------------------------
(* The pending list.                                                       *)

\* A set of natural numbers has a least element.
LEMMA Least ==
    ASSUME NEW T, T \subseteq Nat, T # {}
    PROVE  \E m \in T : \A k \in T : ~(k < m)
<1>1. IsWellFoundedOn(OpToRel(<, Nat), Nat)
  BY NatLessThanWellFounded
<1>2. \E m \in T : \A k \in T : ~(<<k, m>> \in OpToRel(<, Nat))
  BY <1>1, WFMin
<1> QED
  BY <1>2 DEF OpToRel

\* What a sequence holds once an element is appended.
LEMMA RangeAppend ==
    ASSUME NEW S, NEW s \in Seq(S), NEW e \in S
    PROVE  Range(Append(s, e)) = Range(s) \cup {e}
<1>1. /\ DOMAIN Append(s, e) = 1..(Len(s) + 1) /\ DOMAIN s = 1..Len(s)
      /\ Append(s, e)[Len(s) + 1] = e
      /\ \A i \in 1..Len(s) : Append(s, e)[i] = s[i]
      /\ Len(s) \in Nat
  OBVIOUS
<1>2. 1..(Len(s) + 1) = 1..Len(s) \cup {Len(s) + 1}
  BY <1>1
<1> QED
  BY <1>1, <1>2 DEF Range

\* What two sequences hold together.
LEMMA RangeConcat ==
    ASSUME NEW S, NEW s \in Seq(S), NEW t \in Seq(S)
    PROVE  s \o t \in Seq(S) /\ Range(s \o t) = Range(s) \cup Range(t)
<1>1. /\ s \o t \in Seq(S) /\ DOMAIN (s \o t) = 1..(Len(s) + Len(t))
      /\ DOMAIN s = 1..Len(s) /\ DOMAIN t = 1..Len(t)
      /\ \A i \in 1..Len(s) : (s \o t)[i] = s[i]
      /\ \A i \in 1..Len(t) : (s \o t)[Len(s) + i] = t[i]
      /\ Len(s) \in Nat /\ Len(t) \in Nat
  OBVIOUS
<1>2. ASSUME NEW i \in 1..(Len(s) + Len(t)), i \notin 1..Len(s)
      PROVE  \E j \in 1..Len(t) : i = Len(s) + j
  <2>1. i - Len(s) \in 1..Len(t) /\ i = Len(s) + (i - Len(s))
    BY <1>1, <1>2
  <2> QED
    BY <2>1
<1>3. Range(s \o t) \subseteq Range(s) \cup Range(t)
  <2>1. ASSUME NEW i \in 1..(Len(s) + Len(t))
        PROVE  (s \o t)[i] \in Range(s) \cup Range(t)
    <3>1. CASE i \in 1..Len(s)
      BY <1>1, <3>1 DEF Range
    <3>2. CASE i \notin 1..Len(s)
      <4>1. PICK j \in 1..Len(t) : i = Len(s) + j
        BY <1>2, <3>2
      <4> QED
        BY <1>1, <4>1 DEF Range
    <3> QED
      BY <3>1, <3>2
  <2> QED
    BY <1>1, <2>1 DEF Range
<1>4. Range(s) \subseteq Range(s \o t)
  BY <1>1 DEF Range
<1>5. Range(t) \subseteq Range(s \o t)
  <2>1. \A j \in 1..Len(t) : Len(s) + j \in 1..(Len(s) + Len(t))
    BY <1>1
  <2> QED
    BY <1>1, <2>1 DEF Range
<1> QED
  BY <1>1, <1>3, <1>4, <1>5

\* What the recursion of Without computes of the first n entries.
Kept(s, paths, n) ==
    {f \in [0..n -> Seq(Range(s))] :
        \A i \in 0..n :
            f[i] = IF i = 0 THEN <<>>
                   ELSE IF s[i].path \in paths THEN f[i - 1]
                   ELSE Append(f[i - 1], s[i])}

\* The recursion of Without has a solution, by way of the least n that has
\* none.
LEMMA KeptExists ==
    ASSUME NEW S, NEW s \in Seq(S), NEW paths, NEW n \in 0..Len(s)
    PROVE  Kept(s, paths, n) # {}
<1> DEFINE T == {m \in Nat : m <= Len(s) /\ Kept(s, paths, m) = {}}
<1> SUFFICES ASSUME T # {} PROVE FALSE
  OBVIOUS
<1>1. PICK m \in T : \A k \in T : ~(k < m)
  BY Least
<1> HIDE DEF T
<1>2. m \in Nat /\ m <= Len(s) /\ Kept(s, paths, m) = {}
  BY DEF T
<1>3. CASE m = 0
  <2> DEFINE f == [i \in 0..0 |-> <<>>]
  <2>1. f \in Kept(s, paths, 0)
    BY DEF Kept
  <2> QED
    BY <2>1, <1>2, <1>3
<1>4. CASE m # 0
  <2>1. m - 1 \in Nat /\ m - 1 <= Len(s) /\ m - 1 < m /\ Len(s) \in Nat
    BY <1>2, <1>4
  <2>2. PICK g : g \in Kept(s, paths, m - 1)
    BY <2>1, <1>1, <1>2 DEF T
  <2>3. /\ g \in [0..(m - 1) -> Seq(Range(s))]
        /\ \A i \in 0..(m - 1) :
              g[i] = IF i = 0 THEN <<>>
                     ELSE IF s[i].path \in paths THEN g[i - 1]
                     ELSE Append(g[i - 1], s[i])
    BY <2>2 DEF Kept
  <2> DEFINE e == IF s[m].path \in paths THEN g[m - 1]
                  ELSE Append(g[m - 1], s[m])
             f == [i \in 0..m |-> IF i = m THEN e ELSE g[i]]
  <2>4. m - 1 \in 0..(m - 1) /\ g[m - 1] \in Seq(Range(s))
    BY <2>1, <2>3
  <2>5. s[m] \in Range(s)
    BY <1>2, <1>4 DEF Range
  <2>6. e \in Seq(Range(s))
    BY <2>4, <2>5
  <2> HIDE DEF e
  <2>7. f \in [0..m -> Seq(Range(s))]
    <3>1. ASSUME NEW i \in 0..m
          PROVE  (IF i = m THEN e ELSE g[i]) \in Seq(Range(s))
      BY <2>6, <2>3, <2>1, <1>2
    <3> QED
      BY <3>1
  <2>8. ASSUME NEW i \in 0..m
        PROVE  f[i] = IF i = 0 THEN <<>>
                      ELSE IF s[i].path \in paths THEN f[i - 1]
                      ELSE Append(f[i - 1], s[i])
    <3>1. CASE i = m
      <4>1. f[i] = e /\ f[i - 1] = g[m - 1] /\ i # 0
        BY <3>1, <1>4, <1>2
      <4> QED
        BY <4>1, <3>1 DEF e
    <3>2. CASE i # m
      <4>1. /\ i \in 0..(m - 1) /\ f[i] = g[i]
            /\ i # 0 => f[i - 1] = g[i - 1]
        BY <3>2, <1>2
      <4> QED
        BY <4>1, <2>3
    <3> QED
      BY <3>1, <3>2
  <2> HIDE DEF f
  <2>9. f \in Kept(s, paths, m)
    BY <2>7, <2>8 DEF Kept
  <2> QED
    BY <2>9, <1>2
<1> QED
  BY <1>3, <1>4

\* Without is the last of these.
LEMMA WithoutIsKept ==
    ASSUME NEW S, NEW s \in Seq(S), NEW paths
    PROVE  \E f \in Kept(s, paths, Len(s)) : Without(s, paths) = f[Len(s)]
<1> DEFINE D == 0..Len(s)
           F(f) == [n \in D |-> IF n = 0 THEN <<>>
                                ELSE IF s[n].path \in paths THEN f[n - 1]
                                ELSE Append(f[n - 1], s[n])]
           h == CHOOSE f : f = F(f)
<1>1. PICK g : g \in Kept(s, paths, Len(s))
  BY KeptExists
<1>2. g = F(g)
  BY <1>1 DEF Kept
<1>3. h = F(h)
  BY <1>2
<1>4. Without(s, paths) = h[Len(s)]
  BY DEF Without
<1> HIDE DEF h
<1>5. h = [n \in D |-> IF n = 0 THEN <<>>
                       ELSE IF s[n].path \in paths THEN h[n - 1]
                       ELSE Append(h[n - 1], s[n])]
  BY <1>3
<1>6. \A n \in D : h[n] = g[n]
  <2> DEFINE T == {n \in D : h[n] # g[n]}
  <2> SUFFICES ASSUME T # {} PROVE FALSE
    OBVIOUS
  <2>1. T \subseteq Nat
    OBVIOUS
  <2>2. PICK m \in T : \A k \in T : ~(k < m)
    BY Least, <2>1
  <2>3. m = 0 \/ (m - 1 \in D /\ h[m - 1] = g[m - 1])
    BY <2>2
  <2>4. g[m] = IF m = 0 THEN <<>>
               ELSE IF s[m].path \in paths THEN g[m - 1]
               ELSE Append(g[m - 1], s[m])
    BY <2>2, <1>1 DEF Kept
  <2>5. h[m] = IF m = 0 THEN <<>>
               ELSE IF s[m].path \in paths THEN h[m - 1]
               ELSE Append(h[m - 1], s[m])
    BY <2>2, <1>5
  <2> QED
    BY <2>2, <2>3, <2>4, <2>5
<1> QED
  BY <1>4, <1>6, <1>1

\* Without keeps exactly the entries of other paths.
LEMMA WithoutFacts ==
    ASSUME NEW S, NEW s \in Seq(S), NEW paths
    PROVE  /\ Without(s, paths) \in Seq(Range(s))
           /\ Range(Without(s, paths)) = {e \in Range(s) : e.path \notin paths}
<1>1. PICK f \in Kept(s, paths, Len(s)) : Without(s, paths) = f[Len(s)]
  BY WithoutIsKept
<1>2. /\ f \in [0..Len(s) -> Seq(Range(s))]
      /\ \A i \in 0..Len(s) :
            f[i] = IF i = 0 THEN <<>>
                   ELSE IF s[i].path \in paths THEN f[i - 1]
                   ELSE Append(f[i - 1], s[i])
  BY <1>1 DEF Kept
<1>3. Len(s) \in Nat /\ Len(s) \in 0..Len(s)
  OBVIOUS
<1> DEFINE First(n) == {s[i] : i \in {j \in 1..n : s[j].path \notin paths}}
           T == {n \in 0..Len(s) : Range(f[n]) # First(n)}
<1>4. T = {}
  <2> SUFFICES ASSUME T # {} PROVE FALSE
    OBVIOUS
  <2>1. T \subseteq Nat
    OBVIOUS
  <2>2. PICK m \in T : \A k \in T : ~(k < m)
    BY Least, <2>1
  <2>3. m \in 0..Len(s) /\ Range(f[m]) # First(m)
    BY <2>2
  <2>4. CASE m = 0
    <3>1. f[m] = <<>>
      BY <2>4, <1>2, <1>3
    <3>2. Range(<<>>) = {}
      BY DEF Range
    <3>3. First(0) = {}
      OBVIOUS
    <3> QED
      BY <3>1, <3>2, <3>3, <2>3, <2>4
  <2>5. CASE m # 0
    <3>1. m - 1 \in 0..Len(s) /\ m - 1 < m
      BY <2>3, <2>5
    <3>2. m - 1 \notin T
      BY <2>2, <3>1
    <3>3. Range(f[m - 1]) = First(m - 1)
      BY <3>1, <3>2
    <3>4. f[m - 1] \in Seq(Range(s))
      BY <3>1, <1>2
    <3>5. f[m] = IF s[m].path \in paths THEN f[m - 1]
                 ELSE Append(f[m - 1], s[m])
      BY <2>3, <2>5, <1>2
    <3>6. First(m) = First(m - 1) \cup
                     (IF s[m].path \in paths THEN {} ELSE {s[m]})
      <4>1. 1..m = 1..(m - 1) \cup {m}
        BY <2>3, <2>5
      <4> QED
        BY <4>1
    <3>7. s[m] \in Range(s)
      BY <2>3, <2>5 DEF Range
    <3>8. Range(Append(f[m - 1], s[m])) = Range(f[m - 1]) \cup {s[m]}
      BY <3>4, <3>7, RangeAppend
    <3> QED
      BY <3>3, <3>5, <3>6, <3>8, <2>3
  <2> QED
    BY <2>4, <2>5
<1>5. Range(f[Len(s)]) = First(Len(s))
  BY <1>4, <1>3
<1>6. First(Len(s)) = {e \in Range(s) : e.path \notin paths}
  BY <1>3 DEF Range
<1> QED
  BY <1>1, <1>2, <1>3, <1>5, <1>6

-----------------------------------------------------------------------------
(* The inductive invariant. *)

Near == Ahead \cup adrift
Entries(mf) == Range(mf.pending)

\* Where the agent stands and what it holds; the tool has one patch to mark.
ControlOK ==
    /\ ~watching => events = {}
    /\ pc = "idle" => burst = NoBurst
    /\ pc \in {"idle", "burst"} => hand = {}
    /\ call = "none" => hand = {}
    /\ pc \in {"idle", "burst", "flush", "send"} => msg = NoMessage
    /\ tool \in {"load", "mark"} => \E p \in Paths : batch.dels = {p}
    /\ unreadable => manifest = EmptyManifest

\* A pending entry has the hash that the manifest records for its path.
Consistent(mf) == \A e \in Entries(mf) : e.hash = mf.files[e.path]
FilesOK == Consistent(manifest) /\ Consistent(own) /\ Consistent(copy)

\* A file that was seen modified and is gone was seen deleted as well.
EventsOK ==
    \A p \in OfKind("modified") : disk[p] = None => p \in OfKind("deleted")

\* A file the agent is about to push and that is gone is also about to be
\* deleted.
BurstOK ==
    \A p \in burst.modified \cup (IF call = "push" THEN hand ELSE {}) :
        disk[p] = None =>
            p \in burst.deleted \cup OfKind("deleted") \cup adrift

\* A pending delete of a file that is there is about to be corrected.
PendingOK == Contradicted(manifest) \subseteq Near \cup Named(msg)

\* What the cloud holds of a path once it has taken a message, the files it
\* has filtered out included.
Posted(m, p) == IF p \in m.dels THEN None ELSE m.text[p]

\* What is being posted is what the disk holds, or a newer change is about to
\* follow; once the post is answered this is what the cloud holds.
PostOK ==
    /\ pc = "post" =>
          \A p \in Named(msg) : Posted(msg, p) = DiskText(p) \/ p \in Near
    /\ pc = "ack" => Apart(cloud, Named(msg)) \subseteq Near

\* Whatever the agent is going to save, it has not lost sight of a delete that
\* is pending for a file that is there, and what was posted is dealt with once
\* it is saved.
Saving == {"save", "saving"}
OwnOK ==
    /\ pc = "mark" => Contradicted(own) \subseteq Near \cup Named(msg)
    /\ pc \in Saving =>
          /\ Contradicted(own) \subseteq Near
          /\ Apart(cloud, Named(msg)) \subseteq Near \cup PendingPaths(own)

\* No revision that is kept anywhere is ahead of the cloud.
RevisionsOK ==
    /\ manifest.accepted <= accepted /\ own.accepted <= accepted
    /\ copy.accepted <= accepted
    /\ told <= accepted /\ answer <= accepted

IInv ==
    /\ TypeOK /\ ControlOK /\ FilesOK /\ EventsOK /\ BurstOK /\ PendingOK
    /\ PostOK /\ OwnOK /\ RevisionsOK /\ Accounted

-----------------------------------------------------------------------------
(* What the operations make of a manifest and of a message.                *)

\* The pending list as a set of entries.
LEMMA EntriesFacts ==
    ASSUME NEW mf \in Manifest
    PROVE  /\ Entries(mf) \subseteq PendingEntry
           /\ PendingPaths(mf) = {e.path : e \in Entries(mf)}
           /\ Contradicted(mf) =
                 {p \in Paths : /\ disk[p] # None
                                /\ [path |-> p, hash |-> None] \in Entries(mf)}
BY DEF Manifest, Entries, Range, PendingPaths, Contradicted

\* A manifest that was never saved has nothing pending.
LEMMA EmptyManifestFacts ==
    EmptyManifest \in Manifest /\ Entries(EmptyManifest) = {}
<1>1. NoFiles \in Tree
  BY DEF NoFiles, Tree, Entry
<1>2. <<>> \in Seq(PendingEntry) /\ Range(<<>>) = {}
  BY DEF Range
<1> QED
  BY <1>1, <1>2 DEF EmptyManifest, Manifest, Entries

\* A message of nobody names nothing.
LEMMA NoMessageFacts == NoMessage \in Message /\ Named(NoMessage) = {}
<1>1. NoFiles \in Tree
  BY DEF NoFiles, Tree, Entry
<1> QED
  BY <1>1 DEF NoMessage, Message, Named, NoFiles

\* A sequence of a finite set's elements without repetition has them all.
LEMMA SeqsFacts ==
    ASSUME NEW S, IsFiniteSet(S), NEW order \in SetToSeqs(S)
    PROVE  order \in Seq(S) /\ Range(order) = S
<1>1. Cardinality(S) \in Nat
  BY FS_CardinalityType
<1>2. /\ order \in [1..Cardinality(S) -> S]
      /\ \A i, j \in 1..Cardinality(S) : i # j => order[i] # order[j]
  BY DEF SetToSeqs
<1>3. order \in Injection(1..Cardinality(S), S)
  BY <1>2 DEF Injection, IsInjective
<1>4. Cardinality(1..Cardinality(S)) = Cardinality(S)
  BY <1>1, FS_Interval
<1>5. order \in Surjection(1..Cardinality(S), S)
  BY <1>3, <1>4, FS_Injection
<1>6. order \in Seq(S)
  BY <1>1, <1>2
<1> QED
  BY <1>2, <1>5, <1>6 DEF Surjection, Range

\* The one sequence of a single path.
LEMMA SeqFacts ==
    ASSUME NEW p
    PROVE  SetToSeq({p}) \in Seq({p}) /\ Range(SetToSeq({p})) = {p}
<1>1. Cardinality({p}) = 1
  BY FS_Singleton
<1> DEFINE f == [i \in 1..1 |-> p]
<1>2. f \in [1..1 -> {p}] /\ IsInjective(f)
  BY DEF IsInjective
<1>3. SetToSeq({p}) \in [1..1 -> {p}]
  BY <1>1, <1>2 DEF SetToSeq
<1> DEFINE s == SetToSeq({p})
<1> HIDE DEF s
<1>4. s \in [1..1 -> {p}]
  BY <1>3 DEF s
<1>5. \E n \in Nat : s \in [1..n -> {p}]
  BY <1>4
<1>6. s \in Seq({p})
  BY <1>5
<1>7. s[1] = p /\ DOMAIN s = 1..1
  BY <1>4
<1>8. Range(s) = {p}
  BY <1>7 DEF Range
<1> QED
  BY <1>6, <1>8 DEF s

\* mark_changed: the paths have an entry each, with the hash of the disk.
LEMMA MarkFacts ==
    ASSUME AgentAssumption, disk \in Tree,
           NEW mf \in Manifest, NEW S \in SUBSET Paths,
           NEW order \in Seq(S), Range(order) = S
    PROVE  LET new == MarkChanged(mf, order) IN
           /\ new \in Manifest
           /\ new.files = [p \in Paths |-> IF p \in S THEN disk[p]
                                           ELSE mf.files[p]]
           /\ new.accepted = mf.accepted
           /\ Entries(new) = {e \in Entries(mf) : e.path \notin S} \cup
                             {[path |-> p, hash |-> disk[p]] : p \in S}
<1> DEFINE fresh == [i \in DOMAIN order |-> [path |-> order[i],
                                             hash |-> disk[order[i]]]]
           old == Without(mf.pending, S)
<1>1. /\ mf.files \in Tree /\ mf.pending \in Seq(PendingEntry)
      /\ mf.local \in Nat /\ mf.accepted \in Nat
  BY DEF Manifest
<1>2. Len(order) \in Nat /\ DOMAIN order = 1..Len(order)
      /\ \A i \in DOMAIN order : order[i] \in S
  OBVIOUS
<1>3. fresh \in Seq(PendingEntry)
  <2>1. \A i \in DOMAIN order :
           [path |-> order[i], hash |-> disk[order[i]]] \in PendingEntry
    BY <1>2 DEF PendingEntry, Tree
  <2> QED
    BY <2>1, <1>2
<1>4. Range(fresh) = {[path |-> p, hash |-> disk[p]] : p \in S}
  BY <1>2 DEF Range
<1>5. /\ old \in Seq(Range(mf.pending))
      /\ Range(old) = {e \in Range(mf.pending) : e.path \notin S}
  BY <1>1, WithoutFacts
<1>6. old \in Seq(PendingEntry)
  BY <1>1, <1>5 DEF Range
<1> HIDE DEF old, fresh
<1>7. old \o fresh \in Seq(PendingEntry)
      /\ Range(old \o fresh) = Range(old) \cup Range(fresh)
  BY <1>3, <1>6, RangeConcat
<1> DEFINE files == [p \in Paths |-> IF p \in S THEN disk[p] ELSE mf.files[p]]
<1>8. files \in Tree
  BY <1>1 DEF Tree
<1> HIDE DEF files
<1>9. MarkChanged(mf, order) =
         [mf EXCEPT !.files = files, !.pending = old \o fresh,
                    !.local = mf.local + Len(order)]
  BY DEF MarkChanged, files, old, fresh
<1>10. mf.local + Len(order) \in Nat
  BY <1>1, <1>2
<1>11. /\ MarkChanged(mf, order) \in Manifest
       /\ MarkChanged(mf, order).files = files
       /\ MarkChanged(mf, order).accepted = mf.accepted
       /\ MarkChanged(mf, order).pending = old \o fresh
  BY <1>1, <1>7, <1>8, <1>9, <1>10 DEF Manifest
<1> QED
  BY <1>4, <1>5, <1>7, <1>11 DEF Entries, files

\* _record_manifest_ack: the paths of the message are no longer pending.
LEMMA AckFacts ==
    ASSUME NEW mf \in Manifest, NEW m \in Message, NEW revision \in Nat
    PROVE  LET new == AfterAck(mf, m, revision) IN
           /\ new \in Manifest
           /\ new.files = [p \in Paths |-> IF p \in Named(m) THEN m.hash[p]
                                           ELSE mf.files[p]]
           /\ new.accepted = revision
           /\ Entries(new) = {e \in Entries(mf) : e.path \notin Named(m)}
<1> DEFINE kept == Without(mf.pending, Named(m))
           files == [p \in Paths |-> IF p \in Named(m) THEN m.hash[p]
                                     ELSE mf.files[p]]
<1>1. /\ mf.files \in Tree /\ mf.pending \in Seq(PendingEntry)
      /\ mf.local \in Nat /\ m.hash \in Tree
  BY DEF Manifest, Message
<1>2. /\ kept \in Seq(Range(mf.pending))
      /\ Range(kept) = {e \in Range(mf.pending) : e.path \notin Named(m)}
  BY <1>1, WithoutFacts
<1>3. kept \in Seq(PendingEntry)
  BY <1>1, <1>2 DEF Range
<1>4. files \in Tree
  BY <1>1 DEF Tree
<1>5. Larger(mf.local, revision) \in Nat
  BY <1>1 DEF Larger
<1> HIDE DEF kept, files
<1>6. AfterAck(mf, m, revision) =
         [files |-> files, pending |-> kept,
          local |-> Larger(mf.local, revision), accepted |-> revision]
  BY DEF AfterAck, kept, files
<1> QED
  BY <1>2, <1>3, <1>4, <1>5, <1>6 DEF Manifest, Entries, files

\* mark_accepted: so are those of the tool's batch.
LEMMA AcceptedFacts ==
    ASSUME NEW mf \in Manifest, NEW m \in Message, NEW revision \in Nat
    PROVE  LET new == MarkAccepted(mf, m, revision) IN
           /\ new \in Manifest
           /\ new.files = [p \in Paths |-> IF p \in m.dels THEN None
                                           ELSE mf.files[p]]
           /\ new.accepted = revision
           /\ Entries(new) = {e \in Entries(mf) : e.path \notin Named(m)}
<1> DEFINE kept == Without(mf.pending, Named(m))
           files == [p \in Paths |-> IF p \in m.dels THEN None
                                     ELSE mf.files[p]]
<1>1. mf.files \in Tree /\ mf.pending \in Seq(PendingEntry)
  BY DEF Manifest
<1>2. /\ kept \in Seq(Range(mf.pending))
      /\ Range(kept) = {e \in Range(mf.pending) : e.path \notin Named(m)}
  BY <1>1, WithoutFacts
<1>3. kept \in Seq(PendingEntry)
  BY <1>1, <1>2 DEF Range
<1>4. files \in Tree
  BY <1>1 DEF Tree, Entry
<1> HIDE DEF kept, files
<1>5. MarkAccepted(mf, m, revision) =
         [mf EXCEPT !.accepted = revision, !.pending = kept, !.files = files]
  BY DEF MarkAccepted, kept, files
<1>6. LET new == MarkAccepted(mf, m, revision) IN
      /\ new \in Manifest /\ new.files = files /\ new.accepted = revision
      /\ new.pending = kept
  BY <1>3, <1>4, <1>5 DEF Manifest
<1> QED
  BY <1>2, <1>6 DEF Entries, files

\* The text of a file that is there is no None.
LEMMA TextFacts ==
    ASSUME AgentAssumption, disk \in Tree, NEW p \in Paths
    PROVE  /\ disk[p] # None => TextOf[disk[p]] \in Contents
           /\ disk[p] # None => TextOf[disk[p]] # None
           /\ DiskText(p) \in Entry
           /\ DiskText(p) = None <=> disk[p] = None
BY DEF AgentAssumption, Tree, Entry, DiskText

\* next_batch: it sends what the disk holds, but for the pending deletes of
\* files that are there.
LEMMA NextBatchFacts ==
    ASSUME AgentAssumption, disk \in Tree, NEW mf \in Manifest, NEW limit
    PROVE  LET m == NextBatch(mf, limit) IN
           /\ m \in Message
           /\ \A p \in Named(m) :
                 \/ Posted(m, p) = DiskText(p)
                 \/ p \in Contradicted(mf)
<1> DEFINE taken == {mf.pending[i] : i \in
                        {j \in DOMAIN mf.pending : j <= limit}}
           sent == {e \in taken : e.hash # None /\ disk[e.path] # None}
           HashOf(p) == (CHOOSE e \in sent : e.path = p).hash
           In(p) == \E e \in sent : e.path = p
           text == [p \in Paths |-> IF In(p) THEN TextOf[disk[p]] ELSE None]
           hash == [p \in Paths |-> IF In(p) THEN HashOf(p) ELSE None]
           dels == {e.path : e \in taken \ sent}
<1>1. taken \subseteq Entries(mf)
  BY DEF Entries, Range
<1>2. taken \subseteq PendingEntry
  BY <1>1, EntriesFacts
<1>3. mf.local \in Nat
  BY DEF Manifest
<1>4. text \in Tree
  BY <1>2, TextFacts DEF Tree, Entry, PendingEntry
<1>5. hash \in Tree
  <2>1. ASSUME NEW p \in Paths, In(p) PROVE HashOf(p) \in Entry
    BY <1>2, <2>1 DEF PendingEntry
  <2> QED
    BY <2>1 DEF Tree, Entry
<1>6. dels \subseteq Paths
  BY <1>2 DEF PendingEntry
<1>7. \A p \in Paths : In(p) => disk[p] # None
  OBVIOUS
<1>8. \A p \in dels :
         disk[p] # None => [path |-> p, hash |-> None] \in Entries(mf)
  <2> SUFFICES ASSUME NEW e \in taken \ sent, disk[e.path] # None
               PROVE  [path |-> e.path, hash |-> None] \in Entries(mf)
    OBVIOUS
  <2>1. e \in PendingEntry /\ e.hash = None
    BY <1>2
  <2>2. e = [path |-> e.path, hash |-> None]
    BY <2>1 DEF PendingEntry
  <2> QED
    BY <2>2, <1>1
<1> HIDE DEF text, hash, dels
<1>9. NextBatch(mf, limit) = [text |-> text, hash |-> hash, dels |-> dels,
                              revision |-> mf.local]
  BY DEF NextBatch, text, hash, dels
<1>10. NextBatch(mf, limit) \in Message
  BY <1>3, <1>4, <1>5, <1>6, <1>9 DEF Message
<1>11. ASSUME NEW p \in Named(NextBatch(mf, limit))
       PROVE  Posted(NextBatch(mf, limit), p) = DiskText(p)
                 \/ p \in Contradicted(mf)
  <2>1. p \in Paths /\ (p \in dels \/ text[p] # None)
    BY <1>6, <1>9, <1>11 DEF Named
  <2>2. CASE p \in dels
    <3>1. Posted(NextBatch(mf, limit), p) = None
      BY <2>2, <1>9 DEF Posted
    <3>2. disk[p] # None => p \in Contradicted(mf)
      BY <2>1, <2>2, <1>8, EntriesFacts
    <3> QED
      BY <3>1, <3>2 DEF DiskText
  <2>3. CASE p \notin dels
    <3>1. text[p] = TextOf[disk[p]] /\ disk[p] # None
      BY <2>1, <2>3, <1>7 DEF text
    <3> QED
      BY <3>1, <2>1, <2>3, <1>9 DEF Posted, DiskText
  <2> QED
    BY <2>2, <2>3
<1> QED
  BY <1>10, <1>11

\* What the cloud makes of a message.
LEMMA ReceiveFacts ==
    ASSUME NEW m \in Message, cloud \in Tree, accepted \in Nat, Receive(m)
    PROVE  /\ cloud' \in Tree /\ accepted' \in Nat /\ accepted <= accepted'
           /\ ~Valid(m) => cloud' = cloud
           /\ \A p \in Paths \ Named(m) : cloud'[p] = cloud[p]
           /\ Valid(m) => \A p \in Named(m) : cloud'[p] = Posted(m, p)
<1>1. /\ m.text \in Tree /\ m.dels \subseteq Paths /\ m.revision \in Nat
  BY DEF Message
<1>2. CASE Valid(m) /\ HasEffect(m)
  <2>1. /\ cloud' = [p \in Paths |-> IF p \in m.dels THEN None
                                     ELSE IF m.text[p] # None THEN m.text[p]
                                     ELSE cloud[p]]
        /\ accepted' = Larger(accepted + 1, m.revision)
    BY <1>2 DEF Receive, FilesThenDeletes
  <2>2. cloud' \in Tree
    BY <1>1, <2>1 DEF Tree, Entry
  <2>3. accepted' \in Nat /\ accepted <= accepted'
    BY <1>1, <2>1 DEF Larger
  <2> QED
    BY <1>1, <1>2, <2>1, <2>2, <2>3 DEF Named, Posted
<1>3. CASE ~(Valid(m) /\ HasEffect(m))
  <2>1. cloud' = cloud /\ accepted' = accepted
    BY <1>3 DEF Receive
  <2>2. ASSUME Valid(m), NEW p \in Named(m) PROVE cloud[p] = Posted(m, p)
    BY <1>3, <2>2, <1>1 DEF HasEffect, Named, Posted
  <2> QED
    BY <2>1, <2>2
<1> QED
  BY <1>2, <1>3

\* A message has paths; its revision does not matter to them.
LEMMA MessageTypes ==
    ASSUME NEW m \in Message
    PROVE  /\ Named(m) \subseteq Paths
           /\ [m EXCEPT !.revision = 0] \in Message
           /\ Named([m EXCEPT !.revision = 0]) = Named(m)
           /\ \A p : Posted([m EXCEPT !.revision = 0], p) = Posted(m, p)
BY DEF Message, Named, Posted

-----------------------------------------------------------------------------
(* What becomes of manifest.json, and of what is loaded of it.             *)

\* The agent has loaded and changed the manifest after an accepted post.
LEMMA AckStep ==
    ASSUME TypeOK, RecordManifestAck
    PROVE  /\ own' \in Manifest
           /\ own'.files =
                 [p \in Paths |-> IF p \in Named(msg) THEN msg.hash[p]
                                  ELSE manifest.files[p]]
           /\ own'.accepted = told
           /\ Entries(own)' =
                 {e \in Entries(manifest) : e.path \notin Named(msg)}
<1>1. manifest \in Manifest /\ msg \in Message /\ told \in Nat
  BY DEF TypeOK
<1>2. own' = AfterAck(manifest, msg, told)
  BY DEF RecordManifestAck
<1> HIDE DEF TypeOK
<1>3. Entries(own)' = Entries(own')
  BY DEF Entries
<1> QED
  BY <1>1, <1>2, <1>3, AckFacts

\* It has changed it after a post that failed: the changed paths are pending.
\* When there are none the manifest is dropped.
LEMMA FailureStep ==
    ASSUME AgentAssumption, TypeOK, RecordManifestFailure
    PROVE  LET S == Changed(own, Named(msg), FALSE) IN
           /\ S = {} => own' = EmptyManifest
           /\ S # {} =>
                 /\ own' \in Manifest
                 /\ own'.files = [p \in Paths |-> IF p \in S THEN disk[p]
                                                  ELSE own.files[p]]
                 /\ own'.accepted = own.accepted
                 /\ Entries(own)' =
                       {e \in Entries(own) : e.path \notin S} \cup
                          {[path |-> p, hash |-> disk[p]] : p \in S}
<1> DEFINE S == Changed(own, Named(msg), FALSE)
<1>1. own \in Manifest /\ msg \in Message /\ disk \in Tree
  BY DEF TypeOK
<1>2. S \subseteq Paths
  BY <1>1, MessageTypes DEF Changed
<1>3. IsFiniteSet(S)
  BY <1>2, FS_Subset DEF AgentAssumption
<1>4. /\ S = {} => own' = EmptyManifest
      /\ S # {} => \E order \in SetToSeqs(S) : own' = MarkChanged(own, order)
  BY DEF RecordManifestFailure
<1> HIDE DEF S
<1>5. CASE S # {}
  <2>1. PICK order \in SetToSeqs(S) : own' = MarkChanged(own, order)
    BY <1>4, <1>5
  <2>2. order \in Seq(S) /\ Range(order) = S
    BY <1>3, SeqsFacts
  <2>3. Entries(own)' = Entries(own')
    BY DEF Entries
  <2>4. /\ own' \in Manifest
        /\ own'.files = [p \in Paths |-> IF p \in S THEN disk[p]
                                         ELSE own.files[p]]
        /\ own'.accepted = own.accepted
        /\ Entries(own') =
              {e \in Entries(own) : e.path \notin S} \cup
                 {[path |-> p, hash |-> disk[p]] : p \in S}
    BY <1>1, <1>2, <2>1, <2>2, MarkFacts
  <2> QED
    BY <1>5, <2>3, <2>4 DEF S
<1>6. CASE S = {}
  BY <1>4, <1>6 DEF S
<1> QED
  BY <1>5, <1>6

\* The tool has marked its patch as changed in its copy.
LEMMA MarkStep ==
    ASSUME AgentAssumption, TypeOK, ControlOK, ToolMark
    PROVE  /\ copy' \in Manifest
           /\ copy'.files =
                 [p \in Paths |-> IF p \in batch.dels THEN disk[p]
                                  ELSE copy.files[p]]
           /\ copy'.accepted = copy.accepted
           /\ Entries(copy)' =
                 {e \in Entries(copy) : e.path \notin batch.dels} \cup
                    {[path |-> p, hash |-> disk[p]] : p \in batch.dels}
           /\ batch.dels \subseteq Paths
<1>1. copy \in Manifest /\ disk \in Tree
  BY DEF TypeOK
<1>2. PICK p \in Paths : batch.dels = {p}
  BY DEF ToolMark, ControlOK
<1>3. copy' = MarkChanged(copy, SetToSeq(batch.dels))
  BY DEF ToolMark
<1>4. /\ SetToSeq(batch.dels) \in Seq(batch.dels)
      /\ Range(SetToSeq(batch.dels)) = batch.dels
  BY <1>2, SeqFacts
<1>5. batch.dels \subseteq Paths
  BY <1>2
<1>6. Entries(copy)' = Entries(copy')
  BY DEF Entries
<1> QED
  BY <1>1, <1>3, <1>4, <1>5, <1>6, MarkFacts

\* The tool has taken what was accepted out of its copy.
LEMMA ToolAckStep ==
    ASSUME TypeOK, ToolAck
    PROVE  /\ copy' \in Manifest
           /\ copy'.files =
                 [p \in Paths |-> IF p \in batch.dels THEN None
                                  ELSE copy.files[p]]
           /\ copy'.accepted = answer
           /\ Entries(copy)' =
                 {e \in Entries(copy) : e.path \notin Named(batch)}
<1>1. copy \in Manifest /\ batch \in Message /\ answer \in Nat
  BY DEF TypeOK
<1>2. copy' = MarkAccepted(copy, batch, answer)
  BY DEF ToolAck
<1> HIDE DEF TypeOK
<1>3. Entries(copy)' = Entries(copy')
  BY DEF Entries
<1> QED
  BY <1>1, <1>2, <1>3, AcceptedFacts

\* What manifest.json may hold after a save, or while one goes on: what one of
\* the two saves, what it held before, or nothing that can be loaded.
Saved ==
    /\ manifest' \in {manifest, own, copy, EmptyManifest}
    /\ unreadable' = TRUE \/ unreadable' = FALSE
    /\ unreadable' = TRUE => manifest' = EmptyManifest

LEMMA WriteStep ==
    ASSUME NEW x \in Savers, WriteThrough(x)
    PROVE  Saved
BY DEF WriteThrough, Holds, Torn, Doc, Saved

LEMMA SaveStep ==
    ASSUME TypeOK, ControlOK, NEW x \in Savers, ReplaceBy(x)
    PROVE  /\ Saved
           /\ {handle'} \subseteq [Savers -> {"none", "tmp", "file", "gone"}]
           /\ x = "agent" /\ Writers = {x} => manifest' = own
<1>1. /\ handle \in [Savers -> {"none", "tmp", "file", "gone"}]
      /\ unreadable = TRUE \/ unreadable = FALSE
      /\ unreadable = TRUE => manifest = EmptyManifest
  BY DEF TypeOK, ControlOK
<1> HIDE DEF TypeOK, ControlOK
<1>2. {handle'} \subseteq [Savers -> {"none", "tmp", "file", "gone"}]
  BY <1>1 DEF ReplaceBy
<1>3. \/ UNCHANGED <<manifest, unreadable>> /\ Writers = {}
      \/ \E y \in Writers : Holds(Doc(y))
      \/ Torn /\ Writers # {x}
  BY DEF ReplaceBy
<1>4. CASE UNCHANGED <<manifest, unreadable>> /\ Writers = {}
  BY <1>1, <1>2, <1>4 DEF Saved
<1>5. CASE \E y \in Writers : Holds(Doc(y))
  <2>1. PICK y \in Writers : Holds(Doc(y))
    BY <1>5
  <2>2. Doc(y) \in {own, copy} /\ Doc("agent") = own
    BY DEF Doc
  <2>3. manifest' = Doc(y) /\ unreadable' = FALSE
    BY <2>1 DEF Holds
  <2>4. Writers = {"agent"} => y = "agent"
    OBVIOUS
  <2> QED
    BY <1>2, <2>2, <2>3, <2>4 DEF Saved
<1>6. CASE Torn /\ Writers # {x}
  BY <1>2, <1>6 DEF Torn, Saved
<1> QED
  BY <1>3, <1>4, <1>5, <1>6

\* It is a manifest.
LEMMA SavedTypes ==
    ASSUME TypeOK, Saved
    PROVE  {manifest'} \subseteq Manifest /\ {unreadable'} \subseteq BOOLEAN
<1>1. {manifest, own, copy, EmptyManifest} \subseteq Manifest
  BY EmptyManifestFacts DEF TypeOK
<1> QED
  BY <1>1 DEF Saved

-----------------------------------------------------------------------------
(* Types.                                                                  *)

\* The count of calm bursts stays within its bound.
LEMMA CalmTypes ==
    ASSUME AgentAssumption
    PROVE  CalmMax \in Nat /\ 0 \in 0..CalmMax
           /\ (quiet \in 0..CalmMax => Calmer \in 0..CalmMax)
<1>1. Cardinality(Paths) \in Nat /\ FlushMax \in Nat \ {0}
  BY FS_CardinalityType DEF AgentAssumption
<1>2. (Cardinality(Paths) + FlushMax - 1) \div FlushMax \in Nat
  BY <1>1
<1> QED
  BY <1>1, <1>2 DEF CalmMax, Calmer

\* The initial state has the types.
LEMMA TypeInit == AgentAssumption /\ Init => TypeOK
<1> SUFFICES ASSUME AgentAssumption, Init PROVE TypeOK
  OBVIOUS
<1>1. NoFiles \in Tree
  BY DEF NoFiles, Tree, Entry
<1>2. /\ EmptyManifest \in Manifest /\ NoMessage \in Message
      /\ 0 \in 0..CalmMax
  BY EmptyManifestFacts, NoMessageFacts, CalmTypes
<1>3. 0 \in 0..FlushMax /\ 0 \in 0..(RetryMax - 1)
  BY DEF AgentAssumption
<1>4. NoBurst \in [modified : SUBSET Paths, deleted : SUBSET Paths]
  BY DEF NoBurst
<1>5. /\ disk \in Tree /\ cloud \in Tree /\ accepted \in Nat
      /\ events \subseteq {"modified", "deleted"} \X Paths
      /\ watching \in BOOLEAN /\ unreadable \in BOOLEAN
      /\ {manifest, own, copy} \subseteq Manifest
      /\ handle \in [Savers -> {"none", "tmp", "file", "gone"}]
      /\ inflight \subseteq Message
  BY <1>1, <1>2 DEF Init
<1>6. /\ pc = "idle" /\ call = "none" /\ tool = "idle"
      /\ hand = {} /\ adrift = {} /\ flushing = FALSE
      /\ burst \in [modified : SUBSET Paths, deleted : SUBSET Paths]
      /\ msg \in Message /\ batch \in Message
  BY <1>2, <1>4 DEF Init
<1>7. /\ flushes \in 0..FlushMax /\ tries \in 0..(RetryMax - 1)
      /\ {told, answer, edits, troubles} \subseteq Nat
      /\ quiet \in 0..CalmMax
  BY <1>2, <1>3 DEF Init
<1> QED
  BY <1>5, <1>6, <1>7 DEF TypeOK

\* What is pending are paths.
LEMMA PendingWithin ==
    ASSUME TypeOK
    PROVE  PendingPaths(manifest) \subseteq Paths
BY EntriesFacts DEF TypeOK, PendingEntry

\* The agent that starts again has forgotten what it had in hand.
AgainTypes ==
    /\ burst' \in [modified : SUBSET Paths, deleted : SUBSET Paths]
    /\ pc' = "burst" /\ watching' = FALSE /\ events' = {}
    /\ call' = "none" /\ hand' = {} /\ {msg'} \subseteq Message
    /\ flushing' = FALSE /\ flushes' = 0 /\ tries' = 0 /\ told' = 0
    /\ {own'} \subseteq Manifest /\ adrift' \subseteq Paths

LEMMA StartStep ==
    ASSUME StartAgain
    PROVE  AgainTypes
BY NoMessageFacts, EmptyManifestFacts DEF StartAgain, AgainTypes, NoBurst, Apart

LEMMA AgainTypeOK ==
    ASSUME AgentAssumption, TypeOK, AgainTypes, quiet' = 0,
           UNCHANGED <<disk, cloud, accepted, toolVars, edits>>,
           {manifest'} \subseteq Manifest, {unreadable'} \subseteq BOOLEAN,
           {handle'} \subseteq [Savers -> {"none", "tmp", "file", "gone"}],
           inflight' \subseteq Message, {troubles'} \subseteq Nat
    PROVE  TypeOK'
<1>1. 0 \in 0..CalmMax /\ 0 \in 0..FlushMax /\ 0 \in 0..(RetryMax - 1)
  BY CalmTypes DEF AgentAssumption
<1>2. /\ flushes' \in 0..FlushMax /\ tries' \in 0..(RetryMax - 1)
      /\ {told', answer', edits', troubles'} \subseteq Nat
      /\ quiet' \in 0..CalmMax
  BY <1>1 DEF TypeOK, AgainTypes, toolVars
<1>3. /\ disk' \in Tree /\ cloud' \in Tree /\ accepted' \in Nat
      /\ events' \subseteq {"modified", "deleted"} \X Paths
      /\ watching' \in BOOLEAN
      /\ {manifest', own', copy'} \subseteq Manifest
  BY DEF TypeOK, AgainTypes, toolVars
<1>4. /\ msg' \in Message /\ batch' \in Message /\ hand' \subseteq Paths
      /\ tool' \in {"idle", "load", "mark", "save", "saving", "post", "ack",
                    "resave", "resaving"}
  BY DEF TypeOK, AgainTypes, toolVars
<1>5. /\ burst' \in [modified : SUBSET Paths, deleted : SUBSET Paths]
      /\ pc' = "burst" /\ call' = "none" /\ flushing' = FALSE
      /\ adrift' \subseteq Paths
  BY DEF AgainTypes
<1> QED
  BY <1>2, <1>3, <1>4, <1>5 DEF TypeOK

\* Every step keeps them.
LEMMA TypeNext ==
    ASSUME AgentAssumption, TypeOK, ControlOK, [Next]_vars
    PROVE  TypeOK'
<1> USE DEF TypeOK
<1>1. /\ 0 \in 0..CalmMax /\ Calmer \in 0..CalmMax
      /\ 0 \in 0..FlushMax /\ 0 \in 0..(RetryMax - 1)
      /\ RetryMax \in Nat \ {0} /\ FlushMax \in Nat
  BY CalmTypes DEF AgentAssumption
<1>2. NoMessage \in Message /\ EmptyManifest \in Manifest
  BY NoMessageFacts, EmptyManifestFacts
<1>3. Named(msg) \subseteq Paths /\ Named(batch) \subseteq Paths
  BY MessageTypes
<1> USE DEF bounds, workspace, store, remote, agentVars, toolVars
<1>4. ASSUME NEW p \in Paths, Edit(p) PROVE TypeOK'
  <2>1. disk' \in Tree
    BY <1>4 DEF Edit, Tree
  <2>2. events' \subseteq {"modified", "deleted"} \X Paths
        /\ adrift' \subseteq Paths
    BY <1>4 DEF Edit, Seen, KindOf
  <2> QED
    BY <1>4, <1>1, <2>1, <2>2 DEF Edit
<1>5. ASSUME NEW p \in Paths, Touch(p) PROVE TypeOK'
  BY <1>5, <1>1 DEF Touch
<1>6. ASSUME NEW p \in Paths, ToolWrite(p) PROVE TypeOK'
  <2>1. disk' \in Tree
    BY <1>6 DEF ToolWrite, Tree, Entry
  <2>2. events' \subseteq {"modified", "deleted"} \X Paths
        /\ adrift' \subseteq Paths
    BY <1>6 DEF ToolWrite, Seen
  <2>3. batch' \in Message
    BY <1>6, <1>2 DEF ToolWrite, Message
  <2> QED
    BY <1>6, <1>1, <2>1, <2>2, <2>3 DEF ToolWrite
<1>7. CASE TakeBurst
  BY <1>7, <1>1 DEF TakeBurst, OfKind
<1>8. CASE CallPush
  BY <1>8, <1>1 DEF CallPush, FlushFirst
<1>9. CASE CallDelete
  BY <1>9, <1>1 DEF CallDelete, FlushFirst
<1>10. CASE EndBurst
  BY <1>10, <1>1 DEF EndBurst
<1>11. CASE FlushBatch
  <2>1. PICK n \in 1..BatchMax :
           msg' = [NextBatch(manifest, n) EXCEPT !.revision = 0]
    BY <1>11 DEF FlushBatch
  <2>2. msg' \in Message
    BY <2>1, NextBatchFacts, MessageTypes
  <2>3. flushes' \in 0..FlushMax
    <3>1. flushes < FlushMax /\ flushes' = flushes + 1
      BY <1>11 DEF FlushBatch, FlushesLeft
    <3> QED
      BY <3>1, <1>1
  <2> QED
    BY <1>11, <1>1, <2>2, <2>3 DEF FlushBatch
<1>12. CASE EndFlush
  BY <1>12, <1>1 DEF EndFlush
<1>13. CASE SendChunk
  <2>1. PICK chunk \in SUBSET {p \in hand : disk[p] # None} :
           LET text == [p \in Paths |-> IF p \in chunk THEN TextOf[disk[p]]
                                        ELSE None]
           IN /\ msg' = [NoMessage EXCEPT !.text = text, !.hash = text]
              /\ hand' = hand \ chunk
    BY <1>13 DEF SendChunk
  <2> DEFINE text == [p \in Paths |-> IF p \in chunk THEN TextOf[disk[p]]
                                      ELSE None]
  <2>2. text \in Tree
    BY TextFacts DEF Tree, Entry
  <2> HIDE DEF text
  <2>3. msg' \in Message
    BY <2>1, <2>2, <1>2 DEF Message, text
  <2> QED
    BY <1>13, <1>1, <2>1, <2>3 DEF SendChunk
<1>14. CASE SendDelete
  <2>1. msg' \in Message
    BY <1>14, <1>2 DEF SendDelete, Message
  <2> QED
    BY <1>14, <1>1, <2>1 DEF SendDelete
<1>15. CASE EndCall
  BY <1>15, <1>1 DEF EndCall
<1>16. CASE PostAnswered
  <2>1. cloud' \in Tree /\ accepted' \in Nat
    BY <1>16, ReceiveFacts DEF PostAnswered
  <2> QED
    BY <1>16, <1>1, <2>1 DEF PostAnswered
<1>17. CASE PostUnanswered
  <2>1. cloud' \in Tree /\ accepted' \in Nat /\ inflight' \subseteq Message
    BY <1>17, ReceiveFacts DEF PostUnanswered, Unanswered, StillOnItsWay
  <2>2. troubles' \in Nat
    BY <1>17 DEF PostUnanswered, Trouble
  <2>3. tries' \in 0..(RetryMax - 1)
    BY <1>17, <1>1 DEF PostUnanswered
  <2> QED
    BY <1>17, <1>1, <2>1, <2>2, <2>3 DEF PostUnanswered
<1>18. CASE PostFails
  <2>1. cloud' \in Tree /\ accepted' \in Nat
    BY <1>18, ReceiveFacts DEF PostFails
  <2> QED
    BY <1>18, <1>1, <2>1 DEF PostFails, Trouble
<1>19. CASE RecordManifestAck
  <2>1. own' \in Manifest
    BY <1>19, AckStep
  <2> QED
    BY <1>19, <1>1, <1>2, <2>1 DEF RecordManifestAck
<1>20. CASE LeaveUnrecorded
  <2>1. CASE pc = "ack"
    BY <1>20, <1>1, <1>2, <2>1 DEF LeaveUnrecorded
  <2>2. CASE pc # "ack"
    <3>1. adrift' \subseteq Paths
      BY <1>20, <1>3, <2>2 DEF LeaveUnrecorded, Apart, Dropped
    <3>2. /\ pc' \in {"burst", "send"} /\ flushing' = FALSE /\ flushes' = 0
          /\ call' \in {call, "none"} /\ hand' \subseteq hand
          /\ msg' = NoMessage /\ told' = 0 /\ tries' = 0
          /\ UNCHANGED <<workspace, store, remote, burst, own, toolVars, quiet,
                         bounds>>
      BY <1>20, <2>2 DEF LeaveUnrecorded, AfterFailure
    <3>3. /\ call' \in {"none", "push", "delete"} /\ hand' \subseteq Paths
          /\ {told', answer', edits', troubles'} \subseteq Nat
          /\ flushes' \in 0..FlushMax /\ tries' \in 0..(RetryMax - 1)
      BY <1>1, <3>2
    <3>4. /\ msg' \in Message /\ batch' \in Message
          /\ {manifest', own', copy'} \subseteq Manifest
          /\ disk' \in Tree /\ cloud' \in Tree /\ accepted' \in Nat
          /\ burst' \in [modified : SUBSET Paths, deleted : SUBSET Paths]
      BY <1>2, <3>2
    <3> QED
      BY <3>1, <3>2, <3>3, <3>4
  <2> QED
    BY <2>1, <2>2
<1>21. CASE LoadManifest
  BY <1>21, <1>1 DEF LoadManifest
<1>22. CASE RecordManifestFailure
  <2>1. own' \in Manifest
    BY <1>22, <1>2, FailureStep
  <2>2. adrift' \subseteq Paths
    BY <1>22, <1>3 DEF RecordManifestFailure, Apart, Dropped
  <2> QED
    BY <1>22, <1>1, <1>2, <2>1, <2>2 DEF RecordManifestFailure, AfterFailure
<1>23. CASE BeginSave
  BY <1>23, <1>1 DEF BeginSave, OpenTmp, Savers
<1>24. CASE SaveManifest
  <2>1. ReplaceBy("agent") /\ "agent" \in Savers
    BY <1>24 DEF SaveManifest, Savers
  <2>2. /\ {manifest'} \subseteq Manifest /\ {unreadable'} \subseteq BOOLEAN
        /\ {handle'} \subseteq [Savers -> {"none", "tmp", "file", "gone"}]
    BY <2>1, SaveStep, SavedTypes
  <2>3. adrift' \subseteq Paths
    BY <1>24, PendingWithin DEF SaveManifest, Overwritten, Apart
  <2> QED
    BY <1>24, <1>1, <1>2, <2>2, <2>3 DEF SaveManifest, GoOn
<1>25. CASE SaveCollides
  <2>1. ReplaceBy("agent") /\ "agent" \in Savers
    BY <1>25 DEF SaveCollides, Savers
  <2>2. /\ {manifest'} \subseteq Manifest /\ {unreadable'} \subseteq BOOLEAN
        /\ {handle'} \subseteq [Savers -> {"none", "tmp", "file", "gone"}]
    BY <2>1, SaveStep, SavedTypes
  <2>3. CASE Writers = {}
    <3>1. StartAgain
      BY <1>25, <2>3 DEF SaveCollides
    <3>2. AgainTypes
      BY <3>1, StartStep
    <3>3. /\ quiet' = 0
          /\ UNCHANGED <<disk, cloud, accepted, toolVars, edits>>
      BY <1>25 DEF SaveCollides
    <3>4. inflight' \subseteq Message /\ {troubles'} \subseteq Nat
      BY <1>25 DEF SaveCollides
    <3> HIDE DEF TypeOK
    <3> QED
      BY <2>2, <3>2, <3>3, <3>4, AgainTypeOK
  <2>4. CASE Writers # {}
    <3>1. adrift' \subseteq Paths
      BY <1>25, <1>3, <2>4, PendingWithin
      DEF SaveCollides, Overwritten, Apart, Contradicted
    <3> QED
      BY <1>25, <1>1, <1>2, <2>2, <2>4, <3>1 DEF SaveCollides, GoOn
  <2> QED
    BY <2>3, <2>4
<1>26. CASE Restart
  <2>1. inflight' \subseteq Message /\ {troubles'} \subseteq Nat
    BY <1>26 DEF Restart, StillOnItsWay, Trouble
  <2>2. AgainTypes
    BY <1>26, StartStep DEF Restart
  <2>3. /\ quiet' = 0
        /\ UNCHANGED <<disk, store, cloud, accepted, toolVars, edits>>
    BY <1>26 DEF Restart
  <2>4. /\ {manifest'} \subseteq Manifest /\ {unreadable'} \subseteq BOOLEAN
        /\ {handle'} \subseteq [Savers -> {"none", "tmp", "file", "gone"}]
    BY <2>3
  <2> HIDE DEF TypeOK
  <2> QED
    BY <2>1, <2>2, <2>3, <2>4, AgainTypeOK
<1>27. CASE Arrive
  <2>1. PICK m \in inflight : /\ Receive(m)
                              /\ inflight' = inflight \ {m}
                              /\ adrift' = adrift \cup Apart(cloud', Named(m))
    BY <1>27 DEF Arrive
  <2>2. m \in Message
    BY <2>1
  <2>3. cloud' \in Tree /\ accepted' \in Nat
    BY <2>1, <2>2, ReceiveFacts
  <2>4. adrift' \subseteq Paths
    BY <2>1, <2>2, MessageTypes DEF Apart
  <2> QED
    BY <1>27, <1>1, <2>1, <2>3, <2>4 DEF Arrive
<1>28. CASE ToolLoad
  BY <1>28, <1>1, <1>2 DEF ToolLoad, ToolEnds
<1>29. CASE ToolMark
  <2>1. copy' \in Manifest
    BY <1>29, MarkStep
  <2> QED
    BY <1>29, <1>1, <2>1 DEF ToolMark
<1>30. CASE ToolBeginSave
  BY <1>30, <1>1 DEF ToolBeginSave, OpenTmp, Savers
<1>31. CASE ToolSave
  <2>1. ReplaceBy("tool") /\ "tool" \in Savers
    BY <1>31 DEF ToolSave, Savers
  <2>2. /\ {manifest'} \subseteq Manifest /\ {unreadable'} \subseteq BOOLEAN
        /\ {handle'} \subseteq [Savers -> {"none", "tmp", "file", "gone"}]
    BY <2>1, SaveStep, SavedTypes
  <2>3. adrift' \subseteq Paths
    BY <1>31, PendingWithin
    DEF ToolSave, Overwritten, Apart, Contradicted
  <2>4. NextBatch(copy, ToolBatchMax) \in Message
    BY NextBatchFacts
  <2> QED
    BY <1>31, <1>1, <1>2, <2>2, <2>3, <2>4 DEF ToolSave, ToolEnds
<1>32. CASE ToolPostAnswered
  <2>1. cloud' \in Tree /\ accepted' \in Nat
    BY <1>32, ReceiveFacts DEF ToolPostAnswered
  <2>2. adrift' \subseteq Paths
    BY <1>32, <1>3 DEF ToolPostAnswered, Apart
  <2> QED
    BY <1>32, <1>1, <1>2, <2>1, <2>2 DEF ToolPostAnswered, ToolEnds
<1>33. CASE ToolPostFails
  <2>1. cloud' \in Tree /\ accepted' \in Nat /\ inflight' \subseteq Message
    BY <1>33, ReceiveFacts DEF ToolPostFails, Unanswered, StillOnItsWay
  <2>2. adrift' \subseteq Paths
    BY <1>33, <1>3 DEF ToolPostFails, Apart
  <2> QED
    BY <1>33, <1>1, <1>2, <2>1, <2>2 DEF ToolPostFails, ToolEnds, Trouble
<1>34. CASE ToolAck
  <2>1. copy' \in Manifest
    BY <1>34, ToolAckStep
  <2> QED
    BY <1>34, <1>1, <1>2, <2>1 DEF ToolAck
<1>35. ASSUME NEW x \in Savers, WriteThrough(x) PROVE TypeOK'
  <2>1. {manifest'} \subseteq Manifest /\ {unreadable'} \subseteq BOOLEAN
    BY <1>35, WriteStep, SavedTypes
  <2>2. adrift' \subseteq Paths
    BY <1>35, PendingWithin
    DEF WriteThrough, Overwritten, Apart, Contradicted
  <2> QED
    BY <1>35, <1>1, <2>1, <2>2 DEF WriteThrough
<1>36. CASE UNCHANGED vars
  BY <1>36, <1>1 DEF vars
<1> QED
  BY <1>4, <1>5, <1>6, <1>7, <1>8, <1>9, <1>10, <1>11, <1>12, <1>13, <1>14,
     <1>15, <1>16, <1>17, <1>18, <1>19, <1>20, <1>21, <1>22, <1>23, <1>24,
     <1>25, <1>26, <1>27, <1>28, <1>29, <1>30, <1>31, <1>32, <1>33, <1>34,
     <1>35, <1>36 DEF Next, Agent, Tool

-----------------------------------------------------------------------------
(* Where the agent and the tool stand, and revisions.                      *)

\* Every step leaves the agent and the tool where they may stand.
LEMMA ControlNext ==
    ASSUME TypeOK, ControlOK, [Next]_vars
    PROVE  ControlOK'
<1> USE DEF ControlOK, bounds, workspace, store, remote, agentVars, toolVars
<1>1. ASSUME NEW p \in Paths, Edit(p) PROVE ControlOK'
  BY <1>1 DEF Edit, Seen
<1>2. ASSUME NEW p \in Paths, Touch(p) PROVE ControlOK'
  BY <1>2 DEF Touch
<1>3. ASSUME NEW p \in Paths, ToolWrite(p) PROVE ControlOK'
  <2>1. batch'.dels = {p}
    BY <1>3 DEF ToolWrite, NoMessage
  <2> QED
    BY <1>3, <2>1 DEF ToolWrite, Seen
<1>4. CASE TakeBurst
  BY <1>4 DEF TakeBurst
<1>5. CASE CallPush
  BY <1>5 DEF CallPush, FlushFirst
<1>6. CASE CallDelete
  BY <1>6 DEF CallDelete, FlushFirst
<1>7. CASE EndBurst
  BY <1>7 DEF EndBurst
<1>8. CASE FlushBatch
  BY <1>8 DEF FlushBatch
<1>9. CASE EndFlush
  BY <1>9 DEF EndFlush
<1>10. CASE SendChunk
  BY <1>10 DEF SendChunk
<1>11. CASE SendDelete
  BY <1>11 DEF SendDelete
<1>12. CASE EndCall
  BY <1>12 DEF EndCall
<1>13. CASE PostAnswered
  BY <1>13 DEF PostAnswered
<1>14. CASE PostUnanswered
  BY <1>14 DEF PostUnanswered
<1>15. CASE PostFails
  BY <1>15 DEF PostFails
<1>16. CASE RecordManifestAck \/ LoadManifest \/ BeginSave
  BY <1>16 DEF RecordManifestAck, LoadManifest, BeginSave
<1>17. CASE LeaveUnrecorded
  BY <1>17 DEF LeaveUnrecorded, AfterFailure
<1>18. CASE RecordManifestFailure
  BY <1>18 DEF RecordManifestFailure, AfterFailure
<1>19. CASE SaveManifest
  <2>1. Saved
    BY <1>19, SaveStep DEF SaveManifest, Savers
  <2>2. /\ pc' \in {"flush", "burst", "send"} /\ msg' = NoMessage
        /\ pc' = "burst" => hand = {}
        /\ UNCHANGED <<workspace, burst, call, hand, tool, batch>>
    BY <1>19 DEF SaveManifest, GoOn
  <2> QED
    BY <2>1, <2>2 DEF Saved
<1>20. CASE SaveCollides
  <2>1. Saved
    BY <1>20, SaveStep DEF SaveCollides, Savers
  <2>2. CASE Writers = {}
    <3>1. AgainTypes
      BY <1>20, <2>2, StartStep DEF SaveCollides
    <3>2. msg' = NoMessage /\ UNCHANGED <<tool, batch>>
      BY <1>20, <2>2 DEF SaveCollides, StartAgain
    <3> QED
      BY <2>1, <3>1, <3>2 DEF Saved, AgainTypes
  <2>3. CASE Writers # {}
    <3>1. /\ pc' \in {"flush", "burst", "send"} /\ msg' = NoMessage
          /\ pc' = "burst" => hand = {}
          /\ UNCHANGED <<workspace, burst, call, hand, tool, batch>>
      BY <1>20, <2>3 DEF SaveCollides, GoOn
    <3> QED
      BY <2>1, <3>1 DEF Saved
  <2> QED
    BY <2>2, <2>3
<1>21. CASE Restart
  BY <1>21 DEF Restart, StartAgain
<1>22. CASE Arrive
  BY <1>22 DEF Arrive
<1>23. CASE ToolLoad \/ ToolMark \/ ToolBeginSave \/ ToolAck
  BY <1>23 DEF ToolLoad, ToolMark, ToolBeginSave, ToolAck, ToolEnds
<1>24. CASE ToolSave
  <2>1. Saved
    BY <1>24, SaveStep DEF ToolSave, Savers
  <2>2. tool' \in {"post", "idle"} /\ UNCHANGED <<workspace, agentVars>>
    BY <1>24 DEF ToolSave, ToolEnds
  <2> QED
    BY <2>1, <2>2 DEF Saved
<1>25. CASE ToolPostAnswered \/ ToolPostFails
  BY <1>25 DEF ToolPostAnswered, ToolPostFails, ToolEnds
<1>26. ASSUME NEW x \in Savers, WriteThrough(x) PROVE ControlOK'
  BY <1>26, WriteStep DEF WriteThrough, Saved
<1>27. CASE UNCHANGED vars
  BY <1>27 DEF vars
<1> QED
  BY <1>1, <1>2, <1>3, <1>4, <1>5, <1>6, <1>7, <1>8, <1>9, <1>10, <1>11,
     <1>12, <1>13, <1>14, <1>15, <1>16, <1>17, <1>18, <1>19, <1>20, <1>21,
     <1>22, <1>23, <1>24, <1>25, <1>26, <1>27 DEF Next, Agent, Tool

\* Revisions are only taken over from answers, and the cloud's only advances.
LEMMA RevisionsNext ==
    ASSUME AgentAssumption, TypeOK, ControlOK, RevisionsOK, [Next]_vars
    PROVE  RevisionsOK'
<1>1. /\ accepted \in Nat /\ told \in Nat /\ answer \in Nat
      /\ manifest.accepted \in Nat /\ own.accepted \in Nat
      /\ copy.accepted \in Nat
  BY DEF TypeOK, Manifest
<1> DEFINE Same == UNCHANGED <<manifest, own, copy, told, answer>>
           Grows == accepted' \in Nat /\ accepted <= accepted'
<1> USE DEF RevisionsOK, bounds, workspace, store, remote, agentVars, toolVars
<1>2. ASSUME Same, Grows PROVE RevisionsOK'
  BY <1>1, <1>2
<1>3. ASSUME UNCHANGED <<manifest, own, copy, accepted, told, answer>>
      PROVE  RevisionsOK'
  BY <1>3
<1>4. EmptyManifest.accepted = 0 /\ 0 <= accepted
  BY <1>1 DEF EmptyManifest
<1>5. ASSUME NEW p \in Paths, Edit(p) \/ Touch(p) \/ ToolWrite(p)
      PROVE  RevisionsOK'
  BY <1>5, <1>3 DEF Edit, Touch, ToolWrite
<1>6. CASE TakeBurst \/ CallPush \/ CallDelete \/ EndBurst
  BY <1>6, <1>3 DEF TakeBurst, CallPush, CallDelete, EndBurst
<1>7. CASE FlushBatch \/ EndFlush \/ SendChunk \/ SendDelete \/ EndCall
  BY <1>7, <1>3 DEF FlushBatch, EndFlush, SendChunk, SendDelete, EndCall
<1>8. CASE BeginSave \/ ToolBeginSave
  BY <1>8, <1>3 DEF BeginSave, ToolBeginSave
<1>9. CASE PostAnswered
  <2>1. Grows
    BY <1>9, ReceiveFacts DEF PostAnswered, TypeOK
  <2>2. /\ told' = told \/ told' = accepted'
        /\ UNCHANGED <<manifest, own, copy, answer>>
    BY <1>9 DEF PostAnswered
  <2> QED
    BY <1>1, <2>1, <2>2
<1>10. CASE PostUnanswered \/ PostFails
  <2>1. Grows
    BY <1>10, <1>1, ReceiveFacts
       DEF PostUnanswered, Unanswered, PostFails, TypeOK
  <2>2. Same
    BY <1>10 DEF PostUnanswered, PostFails
  <2> QED
    BY <1>2, <2>1, <2>2
<1>11. CASE RecordManifestAck
  <2>1. own'.accepted = told
    BY <1>11, AckStep
  <2> QED
    BY <1>11, <1>4, <2>1 DEF RecordManifestAck
<1>12. CASE LeaveUnrecorded
  BY <1>12, <1>4 DEF LeaveUnrecorded
<1>13. CASE LoadManifest
  BY <1>13 DEF LoadManifest
<1>14. CASE RecordManifestFailure
  <2>1. own'.accepted = own.accepted \/ own' = EmptyManifest
    BY <1>14, FailureStep
  <2> QED
    BY <1>14, <1>4, <2>1 DEF RecordManifestFailure
<1>15. CASE SaveManifest
  <2>1. Saved
    BY <1>15, SaveStep DEF SaveManifest, Savers
  <2>2. own' = EmptyManifest /\ UNCHANGED <<accepted, told, copy, answer>>
    BY <1>15 DEF SaveManifest, GoOn
  <2> QED
    BY <1>4, <2>1, <2>2 DEF Saved
<1>16. CASE SaveCollides
  <2>1. Saved
    BY <1>16, SaveStep DEF SaveCollides, Savers
  <2>2. /\ own' = EmptyManifest /\ UNCHANGED <<accepted, copy, answer>>
        /\ told' = 0 \/ told' = told
    BY <1>16 DEF SaveCollides, StartAgain, GoOn
  <2> QED
    BY <1>4, <2>1, <2>2 DEF Saved
<1>17. CASE Restart
  BY <1>17, <1>4 DEF Restart, StartAgain
<1>18. CASE Arrive
  <2>1. Grows
    BY <1>18, ReceiveFacts DEF Arrive, TypeOK
  <2> QED
    BY <1>18, <1>2, <2>1 DEF Arrive
<1>19. CASE ToolLoad
  BY <1>19, <1>4 DEF ToolLoad, ToolEnds
<1>20. CASE ToolMark
  <2>1. copy'.accepted = copy.accepted
    BY <1>20, MarkStep
  <2> QED
    BY <1>20, <2>1 DEF ToolMark
<1>21. CASE ToolSave
  <2>1. Saved
    BY <1>21, SaveStep DEF ToolSave, Savers
  <2>2. /\ UNCHANGED <<accepted, told, own>>
        /\ \/ UNCHANGED <<copy, answer>>
           \/ copy' = EmptyManifest /\ answer' = 0
    BY <1>21 DEF ToolSave, ToolEnds
  <2> QED
    BY <1>4, <2>1, <2>2 DEF Saved
<1>22. CASE ToolPostAnswered
  <2>1. Grows
    BY <1>22, ReceiveFacts DEF ToolPostAnswered, TypeOK
  <2>2. /\ answer' = 0 \/ answer' = accepted'
        /\ copy' = copy \/ copy' = EmptyManifest
        /\ UNCHANGED <<manifest, own, told>>
    BY <1>22 DEF ToolPostAnswered, ToolEnds
  <2> QED
    BY <1>1, <1>4, <2>1, <2>2
<1>23. CASE ToolPostFails
  <2>1. Grows
    BY <1>23, <1>1, ReceiveFacts DEF ToolPostFails, Unanswered, TypeOK
  <2>2. /\ answer' = 0 /\ copy' = EmptyManifest
        /\ UNCHANGED <<manifest, own, told>>
    BY <1>23 DEF ToolPostFails, ToolEnds
  <2> QED
    BY <1>1, <1>4, <2>1, <2>2
<1>24. CASE ToolAck
  <2>1. copy'.accepted = answer
    BY <1>24, ToolAckStep
  <2> QED
    BY <1>24, <1>4, <2>1 DEF ToolAck
<1>25. ASSUME NEW x \in Savers, WriteThrough(x) PROVE RevisionsOK'
  <2>1. Saved
    BY <1>25, WriteStep
  <2> QED
    BY <1>25, <1>4, <2>1 DEF WriteThrough, Saved
<1>26. CASE UNCHANGED vars
  BY <1>26 DEF vars
<1> QED
  BY <1>5, <1>6, <1>7, <1>8, <1>9, <1>10, <1>11, <1>12, <1>13, <1>14,
     <1>15, <1>16, <1>17, <1>18, <1>19, <1>20, <1>21, <1>22, <1>23, <1>24,
     <1>25, <1>26 DEF Next, Agent, Tool

-----------------------------------------------------------------------------
(* What is under way.                                                      *)

\* Every entry that is pending has the recorded hash.
LEMMA FilesNext ==
    ASSUME AgentAssumption, TypeOK, ControlOK, FilesOK, [Next]_vars
    PROVE  FilesOK'
<1> USE DEF FilesOK, bounds, workspace, store, remote, agentVars, toolVars
<1>1. ASSUME UNCHANGED <<manifest, own, copy>> PROVE FilesOK'
  BY <1>1 DEF Consistent, Entries
<1>2. \A e \in Entries(manifest) \cup Entries(own) \cup Entries(copy) :
         e \in PendingEntry /\ e.path \in Paths
  BY EntriesFacts DEF TypeOK, PendingEntry
<1>3. Entries(EmptyManifest) = {} /\ Consistent(EmptyManifest)
  BY EmptyManifestFacts DEF Consistent
<1>4. ASSUME {manifest', own', copy'}
                \subseteq {manifest, own, copy, EmptyManifest}
      PROVE  FilesOK'
  BY <1>3, <1>4 DEF Consistent, Entries
<1>5. ASSUME NEW p \in Paths, Edit(p) \/ Touch(p) \/ ToolWrite(p)
      PROVE  FilesOK'
  BY <1>5, <1>1 DEF Edit, Touch, ToolWrite
<1>6. CASE TakeBurst \/ CallPush \/ CallDelete \/ EndBurst
  BY <1>6, <1>1 DEF TakeBurst, CallPush, CallDelete, EndBurst
<1>7. CASE FlushBatch \/ EndFlush \/ SendChunk \/ SendDelete \/ EndCall
  BY <1>7, <1>1 DEF FlushBatch, EndFlush, SendChunk, SendDelete, EndCall
<1>8. CASE PostAnswered \/ PostUnanswered \/ PostFails \/ Arrive
  BY <1>8, <1>1 DEF PostAnswered, PostUnanswered, PostFails, Arrive
<1>9. CASE BeginSave \/ ToolBeginSave
  BY <1>9, <1>1 DEF BeginSave, ToolBeginSave
<1>10. CASE RecordManifestAck
  <2>1. Consistent(own)'
    BY <1>10, <1>2, AckStep DEF Consistent
  <2> QED
    BY <1>10, <2>1 DEF RecordManifestAck, Consistent, Entries
<1>11. CASE LeaveUnrecorded \/ LoadManifest \/ Restart
  BY <1>11, <1>4 DEF LeaveUnrecorded, LoadManifest, Restart, StartAgain
<1>12. CASE RecordManifestFailure
  <2> DEFINE S == Changed(own, Named(msg), FALSE)
  <2>1. S \subseteq Paths
    BY MessageTypes DEF Changed, TypeOK
  <2> HIDE DEF S
  <2>2. CASE S = {}
    <3>1. own' = EmptyManifest
      BY <1>12, <2>2, FailureStep DEF S
    <3> QED
      BY <1>12, <3>1, <1>4 DEF RecordManifestFailure
  <2>3. CASE S # {}
    <3>1. /\ own'.files = [p \in Paths |-> IF p \in S THEN disk[p]
                                           ELSE own.files[p]]
          /\ Entries(own)' =
                {e \in Entries(own) : e.path \notin S} \cup
                   {[path |-> p, hash |-> disk[p]] : p \in S}
      BY <1>12, <2>3, FailureStep DEF S
    <3>2. Consistent(own)'
      BY <1>2, <2>1, <3>1 DEF Consistent
    <3> QED
      BY <1>12, <3>2 DEF RecordManifestFailure, Consistent, Entries
  <2> QED
    BY <2>2, <2>3
<1>13. CASE SaveManifest \/ SaveCollides
  <2>1. Saved
    BY <1>13, SaveStep DEF SaveManifest, SaveCollides, Savers
  <2>2. own' = EmptyManifest /\ copy' = copy
    BY <1>13 DEF SaveManifest, SaveCollides, StartAgain, GoOn
  <2> QED
    BY <2>1, <2>2, <1>4 DEF Saved
<1>14. CASE ToolLoad
  BY <1>14, <1>4 DEF ToolLoad, ToolEnds
<1>15. CASE ToolMark
  <2>1. Consistent(copy)'
    BY <1>15, <1>2, MarkStep DEF Consistent
  <2> QED
    BY <1>15, <2>1 DEF ToolMark, Consistent, Entries
<1>16. CASE ToolSave
  <2>1. Saved
    BY <1>16, SaveStep DEF ToolSave, Savers
  <2>2. own' = own /\ (copy' = copy \/ copy' = EmptyManifest)
    BY <1>16 DEF ToolSave, ToolEnds
  <2> QED
    BY <2>1, <2>2, <1>4 DEF Saved
<1>17. CASE ToolPostAnswered \/ ToolPostFails
  <2>1. /\ UNCHANGED <<manifest, own>>
        /\ copy' = copy \/ copy' = EmptyManifest
    BY <1>17 DEF ToolPostAnswered, ToolPostFails, ToolEnds
  <2> QED
    BY <2>1, <1>4
<1>18. CASE ToolAck
  <2>1. batch.dels \subseteq Named(batch)
    BY DEF Named
  <2>2. Consistent(copy)'
    BY <1>18, <1>2, <2>1, ToolAckStep DEF Consistent
  <2> QED
    BY <1>18, <2>2 DEF ToolAck, Consistent, Entries
<1>19. ASSUME NEW x \in Savers, WriteThrough(x) PROVE FilesOK'
  <2>1. Saved
    BY <1>19, WriteStep
  <2> QED
    BY <1>19, <2>1, <1>4 DEF WriteThrough, Saved
<1>20. CASE UNCHANGED vars
  BY <1>20, <1>1 DEF vars
<1> QED
  BY <1>5, <1>6, <1>7, <1>8, <1>9, <1>10, <1>11, <1>12, <1>13, <1>14, <1>15,
     <1>16, <1>17, <1>18, <1>19, <1>20 DEF Next, Agent, Tool

\* The two clauses about what the watcher has seen and the agent has taken.
LEMMA EventsNext ==
    ASSUME AgentAssumption, TypeOK, ControlOK, EventsOK, [Next]_vars
    PROVE  EventsOK'
<1> USE DEF EventsOK, OfKind, bounds, workspace, store, remote, agentVars,
            toolVars
<1>1. ASSUME UNCHANGED <<disk, events>> PROVE EventsOK'
  BY <1>1
<1>2. disk \in [Paths -> Entry]
  BY DEF TypeOK, Tree
<1>3. ASSUME NEW p \in Paths, Edit(p) PROVE EventsOK'
  <2>1. PICK c \in Entry : /\ disk' = [disk EXCEPT ![p] = c]
                           /\ Seen(KindOf(c), p)
    BY <1>3 DEF Edit
  <2>2. /\ disk'[p] = c
        /\ \A q \in Paths : q # p => disk'[q] = disk[q]
    BY <1>2, <2>1
  <2>3. CASE ~watching
    <3>1. events' = {}
      BY <2>1, <2>3 DEF Seen, ControlOK
    <3> QED
      BY <3>1
  <2>4. CASE watching
    <3>1. events' = events \cup
             {<<IF c = None THEN "deleted" ELSE "modified", p>>}
      BY <2>1, <2>4 DEF Seen, KindOf
    <3> QED
      BY <3>1, <2>2
  <2> QED
    BY <2>3, <2>4
<1>4. ASSUME NEW p \in Paths, Touch(p) PROVE EventsOK'
  BY <1>4 DEF Touch
<1>5. ASSUME NEW p \in Paths, ToolWrite(p) PROVE EventsOK'
  <2>1. PICK c \in Contents \ {disk[p]} :
           TextOf[c] = c /\ disk' = [disk EXCEPT ![p] = c]
    BY <1>5 DEF ToolWrite
  <2>2. /\ disk'[p] = c
        /\ \A q \in Paths : q # p => disk'[q] = disk[q]
    BY <1>2, <2>1
  <2>3. \/ events' = events \cup {<<"modified", p>>} \/ events' = {}
    BY <1>5 DEF ToolWrite, Seen, ControlOK
  <2>4. disk'[p] # None
    BY <2>2 DEF AgentAssumption
  <2> QED
    BY <2>2, <2>3, <2>4
<1>6. CASE TakeBurst \/ Restart
  BY <1>6 DEF TakeBurst, Restart, StartAgain
<1>7. CASE CallPush \/ CallDelete \/ EndBurst
  BY <1>7, <1>1 DEF CallPush, CallDelete, EndBurst
<1>8. CASE FlushBatch \/ EndFlush \/ SendChunk \/ SendDelete \/ EndCall
  BY <1>8, <1>1 DEF FlushBatch, EndFlush, SendChunk, SendDelete, EndCall
<1>9. CASE PostAnswered \/ PostUnanswered \/ PostFails \/ Arrive
  BY <1>9, <1>1 DEF PostAnswered, PostUnanswered, PostFails, Arrive
<1>10. CASE RecordManifestAck \/ LeaveUnrecorded \/ LoadManifest
  BY <1>10, <1>1 DEF RecordManifestAck, LeaveUnrecorded, LoadManifest
<1>11. CASE RecordManifestFailure \/ BeginSave \/ SaveManifest
  BY <1>11, <1>1 DEF RecordManifestFailure, BeginSave, SaveManifest
<1>12. CASE SaveCollides
  BY <1>12, <1>1 DEF SaveCollides, StartAgain
<1>13. CASE ToolLoad \/ ToolMark \/ ToolBeginSave \/ ToolSave
  BY <1>13, <1>1 DEF ToolLoad, ToolMark, ToolBeginSave, ToolSave
<1>14. CASE ToolPostAnswered \/ ToolPostFails \/ ToolAck
  BY <1>14, <1>1 DEF ToolPostAnswered, ToolPostFails, ToolAck
<1>15. ASSUME NEW x \in Savers, WriteThrough(x) PROVE EventsOK'
  BY <1>15, <1>1 DEF WriteThrough
<1>16. CASE UNCHANGED vars
  BY <1>16, <1>1 DEF vars
<1> QED
  BY <1>3, <1>4, <1>5, <1>6, <1>7, <1>8, <1>9, <1>10, <1>11, <1>12, <1>13,
     <1>14, <1>15, <1>16 DEF Next, Agent, Tool

\* A step that leaves the disk and the agent's hands alone.
LEMMA Frame ==
    ASSUME UNCHANGED <<disk, events, burst, call, hand>>,
           adrift \subseteq adrift'
    PROVE  /\ Ahead' = Ahead /\ Near \subseteq Near'
           /\ \A p : DiskText(p)' = DiskText(p)
           /\ BurstOK => BurstOK'
<1> SUFFICES /\ Ahead' = Ahead
             /\ \A p : DiskText(p)' = DiskText(p)
             /\ BurstOK => BurstOK'
  BY DEF Near
<1> QED
  BY DEF Ahead, OfKind, DiskText, BurstOK

\* A change of one file that the watcher sees, or that leaves it adrift.
LEMMA DiskFrame ==
    ASSUME TypeOK, NEW p \in Paths, NEW c,
           NEW kind \in {"modified", "deleted"},
           disk' = [disk EXCEPT ![p] = c], Seen(kind, p),
           UNCHANGED <<burst, call, hand>>
    PROVE  /\ p \in Near' /\ Near \subseteq Near'
           /\ p \in OfKind(kind)' \cup adrift'
           /\ \A q \in Paths : q # p => /\ disk'[q] = disk[q]
                                        /\ DiskText(q)' = DiskText(q)
           /\ disk'[p] = c
           /\ adrift \subseteq adrift' /\ events \subseteq events'
<1>1. disk \in [Paths -> Entry]
  BY DEF TypeOK, Tree
<1>2. \/ events' = events \cup {<<kind, p>>} /\ adrift' = adrift
      \/ events' = events /\ adrift' = adrift \cup {p}
  BY DEF Seen
<1>3. /\ disk'[p] = c
      /\ \A q \in Paths : q # p => disk'[q] = disk[q]
  BY <1>1
<1>4. p \in OfKind(kind)' \cup adrift'
  BY <1>2 DEF OfKind
<1>5. \A k : OfKind(k) \subseteq OfKind(k)'
  BY <1>2 DEF OfKind
<1>6. Near \subseteq Near'
  BY <1>2, <1>5 DEF Near, Ahead
<1>7. p \in Near'
  BY <1>4 DEF Near, Ahead
<1> QED
  BY <1>2, <1>3, <1>4, <1>6, <1>7 DEF DiskText

\* A file the agent is about to push and that is gone is about to be deleted.
LEMMA BurstNext ==
    ASSUME AgentAssumption, TypeOK, ControlOK, EventsOK, BurstOK, [Next]_vars
    PROVE  BurstOK'
<1> USE DEF bounds, workspace, store, remote, agentVars, toolVars
<1>1. ASSUME UNCHANGED <<disk, events, burst, call, hand>>,
             adrift \subseteq adrift'
      PROVE  BurstOK'
  BY <1>1, Frame
<1>2. ASSUME NEW p \in Paths, Edit(p) PROVE BurstOK'
  <2>1. PICK c \in Entry : /\ disk' = [disk EXCEPT ![p] = c]
                           /\ Seen(KindOf(c), p)
    BY <1>2 DEF Edit
  <2>2. KindOf(c) \in {"modified", "deleted"} /\ UNCHANGED <<burst, call, hand>>
    BY <1>2 DEF Edit, KindOf
  <2>3. /\ p \in OfKind(KindOf(c))' \cup adrift'
        /\ \A q \in Paths : q # p => disk'[q] = disk[q]
        /\ disk'[p] = c
        /\ adrift \subseteq adrift' /\ events \subseteq events'
    BY <2>1, <2>2, DiskFrame
  <2>4. disk'[p] = None => p \in OfKind("deleted")' \cup adrift'
    BY <2>3 DEF KindOf
  <2>5. OfKind("deleted") \subseteq OfKind("deleted")'
    BY <2>3 DEF OfKind
  <2>6. burst.modified \cup (IF call = "push" THEN hand ELSE {}) \subseteq Paths
    BY DEF TypeOK
  <2> QED
    BY <2>2, <2>3, <2>4, <2>5, <2>6 DEF BurstOK
<1>3. ASSUME NEW p \in Paths, ToolWrite(p) PROVE BurstOK'
  <2>1. PICK c \in Contents : disk' = [disk EXCEPT ![p] = c]
    BY <1>3 DEF ToolWrite
  <2>2. Seen("modified", p) /\ UNCHANGED <<burst, call, hand>>
    BY <1>3 DEF ToolWrite
  <2>3. /\ \A q \in Paths : q # p => disk'[q] = disk[q]
        /\ disk'[p] = c
        /\ adrift \subseteq adrift' /\ events \subseteq events'
    BY <2>1, <2>2, DiskFrame
  <2>4. disk'[p] # None
    BY <2>3 DEF AgentAssumption
  <2>5. OfKind("deleted") \subseteq OfKind("deleted")'
    BY <2>3 DEF OfKind
  <2>6. burst.modified \cup (IF call = "push" THEN hand ELSE {}) \subseteq Paths
    BY DEF TypeOK
  <2> QED
    BY <2>2, <2>3, <2>4, <2>5, <2>6 DEF BurstOK
<1>4. ASSUME NEW p \in Paths, Touch(p) PROVE BurstOK'
  <2>1. OfKind("deleted") \subseteq OfKind("deleted")'
    BY <1>4 DEF Touch, OfKind
  <2> QED
    BY <1>4, <2>1 DEF Touch, BurstOK
<1>5. CASE TakeBurst
  <2>1. hand = {} /\ hand' = hand /\ disk' = disk
    BY <1>5 DEF TakeBurst, ControlOK
  <2>2. /\ burst'.modified = OfKind("modified")
        /\ burst'.deleted = OfKind("deleted")
    BY <1>5 DEF TakeBurst
  <2> QED
    BY <2>1, <2>2 DEF BurstOK, EventsOK
<1>6. CASE CallPush
  <2>1. /\ burst'.modified = {} /\ burst'.deleted = burst.deleted
        /\ hand' = burst.modified
        /\ UNCHANGED <<disk, events, adrift>>
    BY <1>6 DEF CallPush, TypeOK
  <2>2. OfKind("deleted")' = OfKind("deleted")
    BY <2>1 DEF OfKind
  <2> QED
    BY <2>1, <2>2 DEF BurstOK
<1>7. CASE CallDelete
  <2>1. burst'.modified = {} /\ call' = "delete"
    BY <1>7 DEF CallDelete, TypeOK
  <2> QED
    BY <2>1 DEF BurstOK
<1>8. CASE EndBurst
  BY <1>8, <1>1 DEF EndBurst
<1>9. CASE FlushBatch \/ EndFlush
  BY <1>9, <1>1 DEF FlushBatch, EndFlush
<1>10. ASSUME hand' \subseteq hand, call' \in {call, "none"},
              UNCHANGED <<disk, events, burst>>, adrift \subseteq adrift'
       PROVE  BurstOK'
  <2>1. OfKind("deleted")' = OfKind("deleted")
    BY <1>10 DEF OfKind
  <2> QED
    BY <1>10, <2>1 DEF BurstOK
<1>11. CASE SendChunk \/ SendDelete \/ EndCall
  BY <1>11, <1>10 DEF SendChunk, SendDelete, EndCall
<1>12. CASE PostAnswered \/ PostUnanswered \/ PostFails \/ Arrive
  BY <1>12, <1>1 DEF PostAnswered, PostUnanswered, PostFails, Arrive
<1>13. CASE RecordManifestAck \/ LoadManifest \/ BeginSave \/ SaveManifest
  BY <1>13, <1>1 DEF RecordManifestAck, LoadManifest, BeginSave, SaveManifest
<1>14. CASE LeaveUnrecorded \/ RecordManifestFailure
  <2>1. /\ hand' \subseteq hand /\ call' \in {call, "none"}
        /\ UNCHANGED <<disk, events, burst>>
    BY <1>14 DEF LeaveUnrecorded, RecordManifestFailure, AfterFailure
  <2>2. adrift \subseteq adrift'
    BY <1>14 DEF LeaveUnrecorded, RecordManifestFailure
  <2> QED
    BY <2>1, <2>2, <1>10
<1>15. ASSUME StartAgain, disk' = disk PROVE BurstOK'
  <2>1. /\ burst'.modified = {p \in Paths : disk[p] # None} /\ hand' = {}
    BY <1>15 DEF StartAgain, NoBurst
  <2> QED
    BY <1>15, <2>1 DEF BurstOK
<1>16. CASE Restart
  BY <1>16, <1>15 DEF Restart
<1>17. CASE SaveCollides
  <2>1. CASE Writers = {}
    BY <1>17, <1>15, <2>1 DEF SaveCollides
  <2>2. CASE Writers # {}
    BY <1>17, <1>1, <2>2 DEF SaveCollides
  <2> QED
    BY <2>1, <2>2
<1>18. CASE ToolLoad \/ ToolMark \/ ToolBeginSave \/ ToolSave
  BY <1>18, <1>1 DEF ToolLoad, ToolMark, ToolBeginSave, ToolSave
<1>19. CASE ToolPostAnswered \/ ToolPostFails \/ ToolAck
  BY <1>19, <1>1 DEF ToolPostAnswered, ToolPostFails, ToolAck
<1>20. ASSUME NEW x \in Savers, WriteThrough(x) PROVE BurstOK'
  BY <1>20, <1>1 DEF WriteThrough
<1>21. CASE UNCHANGED vars
  BY <1>21, <1>1 DEF vars
<1> QED
  BY <1>2, <1>3, <1>4, <1>5, <1>6, <1>7, <1>8, <1>9, <1>11, <1>12, <1>13,
     <1>14, <1>16, <1>17, <1>18, <1>19, <1>20, <1>21 DEF Next, Agent, Tool

\* A file that is there and pending as a delete; a path the agent has in sight.
Denied(p) ==
    disk[p] # None /\ [path |-> p, hash |-> None] \in Entries(manifest)
Watched(p) ==
    \/ p \in Named(msg) \cup Near
    \/ \E e \in Entries(manifest) : e.path = p

\* The same of what the agent is going to save.
Doomed(p) == disk[p] # None /\ [path |-> p, hash |-> None] \in Entries(own)
Recorded(p) == \E e \in Entries(own) : e.path = p

\* The invariant's parts about sets, path by path.
LEMMA Now ==
    ASSUME TypeOK
    PROVE  /\ PendingOK <=>
                 \A p \in Paths : Denied(p) => p \in Near \cup Named(msg)
           /\ PostOK <=>
                 /\ pc = "post" => \A p \in Named(msg) :
                       Posted(msg, p) = DiskText(p) \/ p \in Near
                 /\ pc = "ack" => \A p \in Named(msg) :
                       cloud[p] = DiskText(p) \/ p \in Near
           /\ OwnOK <=>
                 /\ pc = "mark" => \A p \in Paths :
                       Doomed(p) => p \in Near \cup Named(msg)
                 /\ pc \in Saving => \A p \in Paths :
                       /\ Doomed(p) => p \in Near
                       /\ p \in Named(msg) =>
                             cloud[p] = DiskText(p) \/ p \in Near \/ Recorded(p)
           /\ Accounted <=>
                 \A p \in Paths : cloud[p] = DiskText(p) \/ Watched(p)
<1>1. manifest \in Manifest /\ own \in Manifest /\ Named(msg) \subseteq Paths
  BY MessageTypes DEF TypeOK
<1>2. /\ PendingPaths(manifest) = {e.path : e \in Entries(manifest)}
      /\ \A p \in Paths : p \in Contradicted(manifest) <=> Denied(p)
      /\ Contradicted(manifest) \subseteq Paths
  BY <1>1, EntriesFacts DEF Denied
<1>3. /\ \A p \in Paths : p \in PendingPaths(own) <=> Recorded(p)
      /\ \A p \in Paths : p \in Contradicted(own) <=> Doomed(p)
      /\ Contradicted(own) \subseteq Paths
  BY <1>1, EntriesFacts DEF Doomed, Recorded
<1>4. PendingOK <=> \A p \in Paths : Denied(p) => p \in Near \cup Named(msg)
  BY <1>2 DEF PendingOK
<1>5. Accounted <=> \A p \in Paths : cloud[p] = DiskText(p) \/ Watched(p)
  BY <1>2 DEF Accounted, Apart, InSight, Near, Watched
<1>6. /\ Contradicted(own) \subseteq Near \cup Named(msg) <=>
            \A p \in Paths : Doomed(p) => p \in Near \cup Named(msg)
      /\ Contradicted(own) \subseteq Near <=>
            \A p \in Paths : Doomed(p) => p \in Near
      /\ Apart(cloud, Named(msg)) \subseteq Near \cup PendingPaths(own) <=>
            \A p \in Paths : p \in Named(msg) =>
               cloud[p] = DiskText(p) \/ p \in Near \/ Recorded(p)
  BY <1>1, <1>3 DEF Apart
<1>7. OwnOK <=> /\ pc = "mark" => \A p \in Paths :
                       Doomed(p) => p \in Near \cup Named(msg)
                /\ pc \in Saving => \A p \in Paths :
                      /\ Doomed(p) => p \in Near
                      /\ p \in Named(msg) =>
                            cloud[p] = DiskText(p) \/ p \in Near \/ Recorded(p)
  BY <1>6 DEF OwnOK
<1> QED
  BY <1>4, <1>5, <1>7 DEF PostOK, Apart

\* The same of the next state.
LEMMA Later ==
    ASSUME TypeOK'
    PROVE  /\ PendingOK' <=>
                 \A p \in Paths : Denied(p)' => p \in Near' \cup Named(msg)'
           /\ PostOK' <=>
                 /\ pc' = "post" => \A p \in Named(msg)' :
                       Posted(msg, p)' = DiskText(p)' \/ p \in Near'
                 /\ pc' = "ack" => \A p \in Named(msg)' :
                       cloud'[p] = DiskText(p)' \/ p \in Near'
           /\ OwnOK' <=>
                 /\ pc' = "mark" => \A p \in Paths :
                       Doomed(p)' => p \in Near' \cup Named(msg)'
                 /\ pc' \in Saving => \A p \in Paths :
                       /\ Doomed(p)' => p \in Near'
                       /\ p \in Named(msg)' =>
                             \/ cloud'[p] = DiskText(p)'
                             \/ p \in Near' \/ Recorded(p)'
           /\ Accounted' <=>
                 \A p \in Paths : cloud'[p] = DiskText(p)' \/ Watched(p)'
<1>1. manifest' \in Manifest /\ own' \in Manifest /\ msg' \in Message
  BY DEF TypeOK
<1>2. /\ PendingPaths(manifest)' = {e.path : e \in Entries(manifest)'}
      /\ \A p \in Paths : p \in Contradicted(manifest)' <=> Denied(p)'
      /\ Contradicted(manifest)' \subseteq Paths
  BY <1>1 DEF PendingPaths, Contradicted, Denied, Entries, Range
<1>3. /\ PendingPaths(own)' = {e.path : e \in Entries(own)'}
      /\ \A p \in Paths : p \in Contradicted(own)' <=> Doomed(p)'
      /\ Contradicted(own)' \subseteq Paths
  BY <1>1 DEF PendingPaths, Contradicted, Doomed, Entries, Range
<1>4. \A p \in Paths : p \in PendingPaths(own)' <=> Recorded(p)'
  BY <1>3 DEF Recorded
<1>5. Named(msg)' \subseteq Paths
  BY <1>1 DEF Named, Message
<1>6. PendingOK' <=>
         \A p \in Paths : Denied(p)' => p \in Near' \cup Named(msg)'
  BY <1>2 DEF PendingOK
<1>7. Accounted' <=> \A p \in Paths : cloud'[p] = DiskText(p)' \/ Watched(p)'
  BY <1>2 DEF Accounted, Apart, InSight, Near, Watched
<1>8. /\ Contradicted(own)' \subseteq Near' \cup Named(msg)' <=>
            \A p \in Paths : Doomed(p)' => p \in Near' \cup Named(msg)'
      /\ Contradicted(own)' \subseteq Near' <=>
            \A p \in Paths : Doomed(p)' => p \in Near'
      /\ Apart(cloud, Named(msg))' \subseteq Near' \cup PendingPaths(own)' <=>
            \A p \in Paths : p \in Named(msg)' =>
               cloud'[p] = DiskText(p)' \/ p \in Near' \/ Recorded(p)'
  BY <1>3, <1>4, <1>5 DEF Apart
<1>9. OwnOK' <=> /\ pc' = "mark" => \A p \in Paths :
                        Doomed(p)' => p \in Near' \cup Named(msg)'
                 /\ pc' \in Saving => \A p \in Paths :
                       /\ Doomed(p)' => p \in Near'
                       /\ p \in Named(msg)' =>
                             \/ cloud'[p] = DiskText(p)'
                             \/ p \in Near' \/ Recorded(p)'
  BY <1>8 DEF OwnOK, Saving
<1> QED
  BY <1>6, <1>7, <1>9 DEF PostOK, Apart

UnderWay == PendingOK /\ PostOK /\ OwnOK /\ Accounted

\* The user or the tool changes a file, or the agent's hands move on.
LEMMA KeepsUnderWay ==
    ASSUME TypeOK, TypeOK', UnderWay, Near \subseteq Near',
           \A p \in Paths : \/ DiskText(p)' = DiskText(p) /\ disk'[p] = disk[p]
                            \/ p \in Near',
           UNCHANGED <<manifest, own, msg, cloud>>,
           \/ pc' \in {pc, "burst", "flush", "send", "idle"}
           \/ pc = "save" /\ pc' = "saving"
    PROVE  UnderWay'
<1>1. /\ Entries(manifest)' = Entries(manifest) /\ Entries(own)' = Entries(own)
      /\ Named(msg)' = Named(msg)
      /\ \A p : Posted(msg, p)' = Posted(msg, p)
  BY DEF Entries, Named, Posted
<1>2. Named(msg) \subseteq Paths
  BY MessageTypes DEF TypeOK
<1>3. \A p \in Paths : /\ Denied(p)' => Denied(p) \/ p \in Near'
                       /\ Doomed(p)' => Doomed(p) \/ p \in Near'
                       /\ Recorded(p) => Recorded(p)'
  BY <1>1 DEF Denied, Doomed, Recorded
<1>4. \A p \in Paths : Watched(p) => Watched(p)'
  BY <1>1 DEF Watched
<1>5. PendingOK'
  BY <1>1, <1>3, Now, Later DEF UnderWay
<1>6. PostOK'
  BY <1>1, <1>2, Now, Later DEF UnderWay
<1>7. Accounted'
  <2>1. \A p \in Paths : p \in Near' => Watched(p)'
    BY DEF Watched
  <2> QED
    BY <1>4, <2>1, Now, Later DEF UnderWay
<1>8. OwnOK'
  BY <1>1, <1>3, Now, Later DEF UnderWay, Saving
<1> QED
  BY <1>5, <1>6, <1>7, <1>8 DEF UnderWay

\* A file is changed, a burst is taken, a call begins or ends.
LEMMA HandsUnderWay ==
    ASSUME AgentAssumption, IInv, TypeOK',
           \/ \E p \in Paths : Edit(p) \/ Touch(p) \/ ToolWrite(p)
           \/ TakeBurst \/ CallPush \/ CallDelete \/ EndBurst \/ EndFlush
           \/ EndCall \/ BeginSave \/ UNCHANGED vars
           \/ ToolLoad \/ ToolMark \/ ToolBeginSave \/ ToolAck
    PROVE  UnderWay'
<1> USE DEF bounds, workspace, store, remote, agentVars, toolVars
<1>1. TypeOK /\ ControlOK /\ BurstOK /\ UnderWay
  BY DEF IInv, UnderWay
<1> HIDE DEF IInv, TypeOK
<1>2. ASSUME NEW p \in Paths, Edit(p) \/ ToolWrite(p) PROVE UnderWay'
  <2>1. PICK c \in Entry, kind \in {"modified", "deleted"} :
           disk' = [disk EXCEPT ![p] = c] /\ Seen(kind, p)
    <3>1. CASE Edit(p)
      <4>1. PICK c \in Entry : /\ disk' = [disk EXCEPT ![p] = c]
                               /\ Seen(KindOf(c), p)
        BY <3>1 DEF Edit
      <4>2. KindOf(c) \in {"modified", "deleted"}
        BY DEF KindOf
      <4> QED
        BY <4>1, <4>2
    <3>2. CASE ToolWrite(p)
      BY <3>2 DEF ToolWrite, Entry
    <3> QED
      BY <1>2, <3>1, <3>2
  <2>2. UNCHANGED <<burst, call, hand, manifest, own, msg, cloud, pc>>
    BY <1>2 DEF Edit, ToolWrite
  <2>3. /\ p \in Near' /\ Near \subseteq Near'
        /\ \A q \in Paths : q # p => /\ disk'[q] = disk[q]
                                     /\ DiskText(q)' = DiskText(q)
    BY <1>1, <2>1, <2>2, DiskFrame
  <2> QED
    BY <1>1, <2>2, <2>3, KeepsUnderWay
<1>3. ASSUME NEW p \in Paths, Touch(p) PROVE UnderWay'
  <2>1. Near \subseteq Near' /\ (\A q \in Paths : DiskText(q)' = DiskText(q))
    BY <1>3 DEF Touch, Near, Ahead, OfKind, DiskText
  <2> QED
    BY <1>1, <1>3, <2>1, KeepsUnderWay DEF Touch
<1>4. CASE TakeBurst
  <2>1. burst = NoBurst
    BY <1>1, <1>4 DEF ControlOK, TakeBurst
  <2>2. /\ burst'.modified = OfKind("modified")
        /\ burst'.deleted = OfKind("deleted")
        /\ adrift' = adrift \ (burst'.modified \cup burst'.deleted)
        /\ hand' = hand /\ burst.modified = {} /\ burst.deleted = {}
    BY <1>4, <2>1 DEF TakeBurst, NoBurst
  <2>3. Near \subseteq Near'
    BY <2>2 DEF Near, Ahead
  <2>4. \A q \in Paths : DiskText(q)' = DiskText(q)
    BY <1>4 DEF TakeBurst, DiskText
  <2> QED
    BY <1>1, <1>4, <2>3, <2>4, KeepsUnderWay DEF TakeBurst
<1>5. CASE CallPush \/ CallDelete \/ EndBurst \/ EndFlush
  <2>1. burst \in [modified : SUBSET Paths, deleted : SUBSET Paths]
    BY <1>1 DEF TypeOK
  <2>2. UNCHANGED <<events, disk, adrift, manifest, own, msg, cloud>>
    BY <1>5 DEF CallPush, CallDelete, EndBurst, EndFlush
  <2>3. /\ burst.modified \cup burst.deleted \cup hand \subseteq
              burst'.modified \cup burst'.deleted \cup hand'
        /\ pc' \in {"idle", "flush", "send"}
    <3>1. CASE CallPush
      BY <1>1, <2>1, <3>1 DEF CallPush, FlushFirst, ControlOK
    <3>2. CASE CallDelete
      BY <1>1, <2>1, <3>2 DEF CallDelete, FlushFirst, ControlOK
    <3>3. CASE EndBurst \/ EndFlush
      BY <3>3 DEF EndBurst, EndFlush
    <3> QED
      BY <1>5, <3>1, <3>2, <3>3
  <2>4. Near \subseteq Near' /\ (\A q \in Paths : DiskText(q)' = DiskText(q))
    BY <2>2, <2>3 DEF Near, Ahead, OfKind, DiskText
  <2> QED
    BY <1>1, <2>2, <2>3, <2>4, KeepsUnderWay
<1>6. CASE EndCall
  <2>1. \A p \in hand : call = "push" /\ disk[p] = None
    BY <1>6 DEF EndCall
  <2>2. hand \subseteq burst.deleted \cup OfKind("deleted") \cup adrift
    BY <1>1, <2>1 DEF BurstOK
  <2>3. UNCHANGED <<events, disk, burst, adrift, manifest, own, msg, cloud>>
        /\ pc' = "burst"
    BY <1>6 DEF EndCall
  <2>4. Near \subseteq Near' /\ (\A q \in Paths : DiskText(q)' = DiskText(q))
    BY <2>2, <2>3 DEF Near, Ahead, OfKind, DiskText
  <2> QED
    BY <1>1, <2>3, <2>4, KeepsUnderWay
<1>7. CASE \/ BeginSave \/ UNCHANGED vars
           \/ ToolLoad \/ ToolMark \/ ToolBeginSave \/ ToolAck
  <2>1. /\ UNCHANGED <<disk, events, burst, call, hand, adrift, manifest, own,
                       msg, cloud>>
        /\ pc' = pc \/ (pc = "save" /\ pc' = "saving")
    BY <1>7
    DEF BeginSave, vars, ToolLoad, ToolMark, ToolBeginSave, ToolAck
  <2>2. Near \subseteq Near' /\ (\A q \in Paths : DiskText(q)' = DiskText(q))
    BY <2>1 DEF Near, Ahead, OfKind, DiskText
  <2> QED
    BY <1>1, <2>1, <2>2, KeepsUnderWay
<1> QED
  BY <1>2, <1>3, <1>4, <1>5, <1>6, <1>7

\* A message is composed.
LEMMA SendUnderWay ==
    ASSUME AgentAssumption, IInv, TypeOK',
           FlushBatch \/ SendChunk \/ SendDelete
    PROVE  UnderWay'
<1> USE DEF bounds, workspace, store, remote, agentVars, toolVars
<1>1. TypeOK /\ ControlOK /\ UnderWay
  BY DEF IInv, UnderWay
<1> HIDE DEF IInv
<1>2. /\ disk \in Tree /\ manifest \in Manifest /\ hand \subseteq Paths
      /\ msg' \in Message
  BY <1>1 DEF TypeOK
<1> HIDE DEF TypeOK
<1>3. msg = NoMessage /\ Named(msg) = {}
  BY <1>1, NoMessageFacts DEF ControlOK, FlushBatch, SendChunk, SendDelete
<1>4. /\ UNCHANGED <<disk, events, burst, manifest, cloud>> /\ pc' = "post"
      /\ Entries(manifest)' = Entries(manifest)
      /\ \A p \in Paths : DiskText(p)' = DiskText(p)
  BY DEF FlushBatch, SendChunk, SendDelete, Entries, DiskText
<1>5. /\ Near \subseteq Near' \cup Named(msg)'
      /\ \A p \in Named(msg)' : Posted(msg, p)' = DiskText(p) \/ p \in Near'
      /\ \A p \in Paths : Denied(p) => p \in Near' \cup Named(msg)'
  <2>1. CASE FlushBatch
    <3>1. PICK n \in 1..BatchMax :
             msg' = [NextBatch(manifest, n) EXCEPT !.revision = 0]
      BY <2>1 DEF FlushBatch
    <3>2. Near' = Near
      BY <2>1 DEF FlushBatch, Near, Ahead, OfKind
    <3>3. NextBatch(manifest, n) \in Message
          /\ \A p \in Named(NextBatch(manifest, n)) :
                \/ Posted(NextBatch(manifest, n), p) = DiskText(p)
                \/ p \in Contradicted(manifest)
      BY <1>2, NextBatchFacts
    <3>4. /\ Named(msg') = Named(NextBatch(manifest, n))
          /\ \A p : Posted(msg', p) = Posted(NextBatch(manifest, n), p)
      BY <3>1, <3>3, MessageTypes
    <3>5. Contradicted(manifest) \subseteq Near
      BY <1>1, <1>3 DEF UnderWay, PendingOK
    <3>6. /\ Named(msg)' = Named(msg')
          /\ \A p : Posted(msg, p)' = Posted(msg', p)
      BY DEF Named, Posted
    <3>7. \A p \in Paths : Denied(p) => p \in Near
      BY <1>1, <1>3, Now DEF UnderWay
    <3> QED
      BY <3>2, <3>3, <3>4, <3>5, <3>6, <3>7
  <2>2. CASE SendChunk
    <3>1. PICK chunk \in SUBSET {p \in hand : disk[p] # None} :
             LET text == [p \in Paths |-> IF p \in chunk THEN TextOf[disk[p]]
                                          ELSE None]
             IN /\ msg' = [NoMessage EXCEPT !.text = text, !.hash = text]
                /\ hand' = hand \ chunk
      BY <2>2 DEF SendChunk
    <3>2. /\ msg'.dels = {}
          /\ msg'.text = [p \in Paths |-> IF p \in chunk THEN TextOf[disk[p]]
                                          ELSE None]
      BY <3>1 DEF NoMessage
    <3>3. chunk \subseteq Paths /\ \A p \in chunk : disk[p] # None
      BY <1>2, <3>1
    <3>4. Named(msg)' = chunk
      BY <1>2, <3>2, <3>3, TextFacts DEF Named
    <3>5. \A p \in Named(msg)' : Posted(msg, p)' = DiskText(p)
      BY <3>2, <3>3, <3>4 DEF Posted, DiskText
    <3>6. adrift' = adrift /\ hand \subseteq hand' \cup Named(msg)'
      BY <2>2, <3>1, <3>4 DEF SendChunk
    <3>7. Near \subseteq Near' \cup Named(msg)'
      BY <1>4, <3>6 DEF Near, Ahead, OfKind
    <3>8. \A p \in Paths : Denied(p) => p \in Near
      BY <1>1, <1>3, Now DEF UnderWay
    <3> QED
      BY <3>5, <3>7, <3>8
  <2>3. CASE SendDelete
    <3>1. /\ msg' = [NoMessage EXCEPT !.dels = hand] /\ hand' = {}
          /\ adrift' = adrift \cup {p \in hand : disk[p] # None}
      BY <2>3 DEF SendDelete
    <3>2. msg'.dels = hand /\ msg'.text = NoFiles
      BY <3>1 DEF NoMessage
    <3>3. Named(msg)' = hand
      BY <3>2 DEF Named, NoFiles
    <3>8. \A p \in Paths : Denied(p) => p \in Near
      BY <1>1, <1>3, Now DEF UnderWay
    <3>4. \A p \in hand : Posted(msg, p)' = None
      BY <3>2 DEF Posted
    <3>5. Near \subseteq Near' \cup Named(msg)'
      BY <1>4, <3>1, <3>3 DEF Near, Ahead, OfKind
    <3>6. \A p \in hand : disk[p] # None => p \in Near'
      BY <3>1 DEF Near
    <3>7. \A p \in hand : disk[p] = None => DiskText(p) = None
      BY DEF DiskText
    <3> QED
      BY <3>3, <3>4, <3>5, <3>6, <3>7, <3>8
  <2> QED
    BY <2>1, <2>2, <2>3
<1>6. \A p \in Paths : (Denied(p)' => Denied(p)) /\ (Watched(p) => Watched(p)')
  BY <1>3, <1>4, <1>5 DEF Denied, Watched
<1>7. PendingOK'
  BY <1>5, <1>6, Later
<1>8. PostOK'
  <2>1. Named(msg)' \subseteq Paths
    BY <1>2, MessageTypes DEF Named
  <2> QED
    BY <2>1, <1>4, <1>5, Later
<1>9. Accounted'
  BY <1>1, <1>4, <1>6, Now, Later DEF UnderWay
<1>10. OwnOK'
  BY <1>4 DEF OwnOK, Saving
<1> QED
  BY <1>7, <1>8, <1>9, <1>10 DEF UnderWay

\* The post of the agent is answered, or it is not.
LEMMA PostUnderWay ==
    ASSUME AgentAssumption, IInv, TypeOK',
           PostAnswered \/ PostUnanswered \/ PostFails
    PROVE  UnderWay'
<1> USE DEF bounds, workspace, store, remote, agentVars, toolVars
<1>1. TypeOK /\ UnderWay
  BY DEF IInv, UnderWay
<1> HIDE DEF IInv
<1>2. /\ cloud \in Tree /\ accepted \in Nat /\ msg \in Message
  BY <1>1 DEF TypeOK
<1> HIDE DEF TypeOK
<1>3. /\ UNCHANGED <<disk, events, burst, call, hand, adrift, manifest, msg>>
      /\ Receive(msg) \/ cloud' = cloud
      /\ pc = "post" /\ pc' \in {"post", "ack", "fail"}
      /\ pc' = "ack" => Receive(msg) /\ Valid(msg)
  BY DEF PostAnswered, PostUnanswered, PostFails, Unanswered
<1>4. Near' = Near /\ \A p \in Paths : DiskText(p)' = DiskText(p)
  BY <1>3 DEF Near, Ahead, OfKind, DiskText
<1>5. /\ Entries(manifest)' = Entries(manifest) /\ Named(msg)' = Named(msg)
      /\ \A p : Posted(msg, p)' = Posted(msg, p)
  BY <1>3 DEF Entries, Named, Posted
<1>6. Named(msg) \subseteq Paths
  BY <1>2, MessageTypes
<1>7. /\ \A p \in Paths : cloud'[p] = cloud[p] \/ p \in Named(msg)
      /\ pc' = "ack" => \A p \in Named(msg) : cloud'[p] = Posted(msg, p)
  BY <1>2, <1>3, ReceiveFacts
<1>8. \A p \in Paths : (Denied(p)' => Denied(p)) /\ (Watched(p) => Watched(p)')
  BY <1>3, <1>4, <1>5 DEF Denied, Watched
<1>9. PendingOK'
  BY <1>1, <1>4, <1>5, <1>8, Now, Later DEF UnderWay
<1>10. PostOK'
  BY <1>1, <1>3, <1>4, <1>5, <1>6, <1>7, Now, Later DEF UnderWay
<1>11. Accounted'
  <2>1. \A p \in Named(msg) : Watched(p)'
    BY <1>5 DEF Watched
  <2> QED
    BY <1>1, <1>4, <1>7, <1>8, <2>1, Now, Later DEF UnderWay
<1>12. OwnOK'
  BY <1>3 DEF OwnOK, Saving
<1> QED
  BY <1>9, <1>10, <1>11, <1>12 DEF UnderWay

\* The agent takes an accepted message out of the manifest it has loaded.
LEMMA AckUnderWay ==
    ASSUME AgentAssumption, IInv, TypeOK', RecordManifestAck
    PROVE  UnderWay'
<1> USE DEF bounds, workspace, store, remote, agentVars, toolVars
<1>1. TypeOK /\ UnderWay
  BY DEF IInv, UnderWay
<1> HIDE DEF IInv
<1>2. /\ UNCHANGED <<disk, events, burst, call, hand, adrift, cloud, manifest,
                     msg>>
      /\ pc = "ack" /\ pc' = "save"
  BY DEF RecordManifestAck
<1>3. Entries(own)' = {e \in Entries(manifest) : e.path \notin Named(msg)}
  BY <1>1, AckStep
<1> HIDE DEF TypeOK
<1>4. /\ Named(msg)' = Named(msg) /\ Near' = Near
      /\ \A p \in Paths : DiskText(p)' = DiskText(p)
      /\ \A p \in Paths : Denied(p)' = Denied(p) /\ Watched(p)' = Watched(p)
  BY <1>2 DEF Named, Near, Ahead, OfKind, DiskText, Denied, Watched, Entries
<1>5. \A p \in Paths : Doomed(p)' => Denied(p) /\ p \notin Named(msg)
  <2>1. \A p : [path |-> p, hash |-> None] \in Entries(own)' =>
                  /\ [path |-> p, hash |-> None] \in Entries(manifest)
                  /\ p \notin Named(msg)
    BY <1>3
  <2> QED
    BY <1>2, <2>1 DEF Denied, Doomed
<1>6. PendingOK'
  BY <1>1, <1>4, Now, Later DEF UnderWay
<1>7. PostOK'
  BY <1>2, Later
<1>8. OwnOK'
  BY <1>1, <1>2, <1>4, <1>5, Now, Later DEF UnderWay
<1>9. Accounted'
  BY <1>1, <1>2, <1>4, Now, Later DEF UnderWay
<1> QED
  BY <1>6, <1>7, <1>8, <1>9 DEF UnderWay

\* The agent loads the manifest to record that its post failed.
LEMMA LoadUnderWay ==
    ASSUME AgentAssumption, IInv, TypeOK', LoadManifest
    PROVE  UnderWay'
<1> USE DEF bounds, workspace, store, remote, agentVars, toolVars
<1>1. TypeOK /\ UnderWay
  BY DEF IInv, UnderWay
<1> HIDE DEF IInv, TypeOK
<1>2. /\ UNCHANGED <<disk, events, burst, call, hand, adrift, cloud, manifest,
                     msg>>
      /\ own' = manifest /\ pc' = "mark"
  BY DEF LoadManifest
<1>3. /\ Named(msg)' = Named(msg) /\ Near' = Near
      /\ \A p \in Paths : DiskText(p)' = DiskText(p)
      /\ \A p \in Paths : Denied(p)' = Denied(p) /\ Watched(p)' = Watched(p)
      /\ \A p \in Paths : Doomed(p)' = Denied(p)
  BY <1>2 DEF Named, Near, Ahead, OfKind, DiskText, Denied, Doomed, Watched,
              Entries
<1>4. PendingOK' /\ Accounted'
  BY <1>1, <1>2, <1>3, Now, Later DEF UnderWay
<1>5. PostOK'
  BY <1>2, Later
<1>6. OwnOK'
  BY <1>1, <1>2, <1>3, Now, Later DEF UnderWay, Saving
<1> QED
  BY <1>4, <1>5, <1>6 DEF UnderWay

\* The manifest cannot be loaded: it has nothing pending.
LEMMA UnrecordedUnderWay ==
    ASSUME AgentAssumption, IInv, TypeOK', LeaveUnrecorded
    PROVE  UnderWay'
<1> USE DEF bounds, workspace, store, remote, agentVars, toolVars
<1>1. TypeOK /\ ControlOK /\ UnderWay
  BY DEF IInv, UnderWay
<1> HIDE DEF IInv
<1>2. /\ UNCHANGED <<disk, events, burst, cloud, manifest>>
      /\ pc' \in {"flush", "send", "burst"} /\ msg' = NoMessage
      /\ adrift \subseteq adrift'
      /\ pc = "ack" => hand' = hand
      /\ pc = "fail" =>
            /\ hand \subseteq hand' \cup Dropped
            /\ Apart(cloud, Named(msg) \cup Dropped) \subseteq adrift'
      /\ pc \in {"ack", "fail"}
  BY DEF LeaveUnrecorded, AfterFailure, Dropped
<1>3. Entries(manifest) = {} /\ Entries(manifest)' = {}
  BY <1>1, <1>2, EmptyManifestFacts DEF ControlOK, LeaveUnrecorded, Entries
<1>4. Named(msg) \subseteq Paths
  BY <1>1, MessageTypes DEF TypeOK
<1> HIDE DEF TypeOK
<1>5. \A p \in Paths : DiskText(p)' = DiskText(p) /\ ~Denied(p)'
  BY <1>2, <1>3 DEF DiskText, Denied
<1>6. /\ pc = "ack" => Near \subseteq Near'
      /\ pc = "fail" => Near \subseteq Near' \cup Dropped
  BY <1>2 DEF Near, Ahead, OfKind
<1>7. \A p \in Paths : Watched(p) <=> p \in Named(msg) \cup Near
  BY <1>3 DEF Watched
<1>8. PendingOK'
  BY <1>5, Later
<1>9. PostOK' /\ OwnOK'
  BY <1>2, Later DEF Saving
<1>10. Accounted'
  <2> SUFFICES ASSUME NEW p \in Paths, cloud[p] # DiskText(p)
               PROVE  Watched(p)'
    BY <1>2, <1>5, Later
  <2>1. p \in Named(msg) \cup Near
    BY <1>1, <1>7, Now DEF UnderWay
  <2>2. CASE pc = "ack"
    <3>1. p \in Near'
      BY <1>1, <1>6, <2>1, <2>2, Now DEF UnderWay
    <3> QED
      BY <3>1 DEF Watched
  <2>3. CASE pc = "fail"
    <3>1. p \in Named(msg) \cup Dropped => p \in adrift'
      BY <1>2, <2>3 DEF Apart
    <3>2. p \in Near'
      BY <1>6, <2>1, <2>3, <3>1 DEF Near
    <3> QED
      BY <3>2 DEF Watched
  <2> QED
    BY <1>2, <2>2, <2>3
<1> QED
  BY <1>8, <1>9, <1>10 DEF UnderWay

\* The agent marks in the manifest it has loaded what its post did not bring to
\* the cloud.
LEMMA FailureUnderWay ==
    ASSUME AgentAssumption, IInv, TypeOK', RecordManifestFailure
    PROVE  UnderWay'
<1> USE DEF bounds, workspace, store, remote, agentVars, toolVars
<1>1. TypeOK /\ FilesOK /\ UnderWay
  BY DEF IInv, UnderWay
<1> HIDE DEF IInv
<1> DEFINE S == Changed(own, Named(msg), FALSE)
           unmarked == {p \in Named(msg) : own.files[p] = disk[p]}
           left == unmarked \cup Dropped
<1>2. /\ UNCHANGED <<disk, events, burst, cloud, manifest>>
      /\ adrift' = adrift \cup Apart(cloud, left)
            \cup (left \cap (Contradicted(manifest) \cup Contradicted(own')))
      /\ hand \subseteq hand' \cup Dropped
      /\ pc = "mark"
      /\ S = {} => pc' \in {"burst", "send"} /\ msg' = NoMessage
      /\ S # {} => pc' = "save" /\ msg' = msg
  BY DEF RecordManifestFailure, AfterFailure, Dropped
<1>3. S # {} => /\ own' \in Manifest
                /\ Entries(own)' =
                      {e \in Entries(own) : e.path \notin S} \cup
                         {[path |-> p, hash |-> disk[p]] : p \in S}
  BY <1>1, FailureStep
<1>4. Named(msg) \subseteq Paths /\ hand \subseteq Paths
      /\ manifest \in Manifest
  BY <1>1, MessageTypes DEF TypeOK
<1>5. \A e \in Entries(own) : e.hash = own.files[e.path]
  BY <1>1 DEF FilesOK, Consistent
<1> HIDE DEF TypeOK
<1>6. S \subseteq Paths /\ S \cup unmarked = Named(msg)
      /\ \A p \in unmarked : own.files[p] = disk[p] /\ p \notin S
  BY <1>4 DEF Changed
<1> HIDE DEF S, unmarked
<1>7. /\ Near \subseteq Near' \cup Dropped
      /\ \A p \in Paths : DiskText(p)' = DiskText(p)
      /\ \A p \in Paths : Denied(p)' = Denied(p)
  BY <1>2 DEF Near, Ahead, OfKind, DiskText, Denied, Entries
<1>8. \A p \in left : Denied(p) \/ cloud[p] # DiskText(p) => p \in adrift'
  <2>1. Dropped \subseteq Paths
    BY <1>4 DEF Dropped
  <2>2. \A p \in left : Denied(p) => p \in Contradicted(manifest)
    BY <1>4, <1>6, <2>1, EntriesFacts DEF Denied
  <2> QED
    BY <1>2, <2>2 DEF Apart
<1> DEFINE L == left
<1> HIDE DEF L
<1>9. /\ \A p \in unmarked : p \in L
      /\ \A p \in Near : p \in Near' \/ p \in L
      /\ \A p \in L : Denied(p) \/ cloud[p] # DiskText(p) => p \in Near'
  BY <1>7, <1>8 DEF L, Near
<1>10. CASE S = {}
  <2>1. Named(msg) = unmarked
    BY <1>6, <1>10
  <2>2. PendingOK'
    BY <1>1, <1>7, <1>9, <2>1, Now, Later DEF UnderWay
  <2>3. PostOK' /\ OwnOK'
    BY <1>2, <1>10, Later DEF Saving
  <2>4. Accounted'
    <3> SUFFICES ASSUME NEW p \in Paths, cloud[p] # DiskText(p)
                 PROVE  Watched(p)'
      BY <1>2, <1>7, Later
    <3>1. Watched(p)
      BY <1>1, Now DEF UnderWay
    <3>2. p \in Near' => Watched(p)'
      BY DEF Watched
    <3>3. (\E e \in Entries(manifest) : e.path = p) => Watched(p)'
      BY <1>2 DEF Watched, Entries
    <3> QED
      BY <1>9, <2>1, <3>1, <3>2, <3>3 DEF Watched
  <2> QED
    BY <2>2, <2>3, <2>4 DEF UnderWay
<1>11. CASE S # {}
  <2>1. Named(msg)' = Named(msg) /\ pc' = "save"
    BY <1>2, <1>11 DEF Named
  <2>2. PendingOK'
    BY <1>1, <1>7, <1>9, <2>1, Now, Later DEF UnderWay
  <2>3. PostOK'
    BY <2>1, Later
  <2>4. ASSUME NEW p \in Paths, Doomed(p)' PROVE p \in Near'
    <3>1. disk[p] # None /\ [path |-> p, hash |-> None] \in Entries(own)'
      BY <1>2, <2>4 DEF Doomed
    <3>2. p \notin S /\ [path |-> p, hash |-> None] \in Entries(own)
      BY <1>3, <1>11, <3>1
    <3>3. p \notin unmarked
      BY <1>5, <1>6, <3>1, <3>2
    <3>4. Doomed(p)
      BY <3>1, <3>2 DEF Doomed
    <3>5. p \in Near
      BY <1>1, <1>2, <1>6, <3>2, <3>3, <3>4, Now DEF UnderWay
    <3>6. p \in Contradicted(own')
      BY <1>3, <1>11, <3>1, EntriesFacts DEF Entries
    <3>7. p \in left => p \in adrift'
      BY <1>2, <3>6
    <3> QED
      BY <1>9, <3>5, <3>7 DEF L, Near
  <2>5. ASSUME NEW p \in Named(msg)
        PROVE  cloud[p] = DiskText(p) \/ p \in Near' \/ Recorded(p)'
    <3>1. CASE p \in S
      <4>1. [path |-> p, hash |-> disk[p]] \in Entries(own)'
        BY <1>3, <1>11, <3>1
      <4> QED
        BY <4>1 DEF Recorded
    <3>2. CASE p \in unmarked
      BY <1>9, <3>2
    <3> QED
      BY <1>6, <3>1, <3>2
  <2>6. OwnOK'
    BY <1>2, <1>7, <2>1, <2>4, <2>5, Later
  <2>7. Accounted'
    <3> SUFFICES ASSUME NEW p \in Paths, cloud[p] # DiskText(p)
                 PROVE  Watched(p)'
      BY <1>2, <1>7, Later
    <3>1. Watched(p)
      BY <1>1, Now DEF UnderWay
    <3>2. p \in Near' \cup Named(msg) => Watched(p)'
      BY <2>1 DEF Watched
    <3>3. (\E e \in Entries(manifest) : e.path = p) => Watched(p)'
      BY <1>2 DEF Watched, Entries
    <3> QED
      BY <1>9, <3>1, <3>2, <3>3 DEF Watched
  <2> QED
    BY <2>2, <2>3, <2>6, <2>7 DEF UnderWay
<1> QED
  BY <1>10, <1>11

\* The agent starts again.
LEMMA StartUnderWay ==
    ASSUME AgentAssumption, IInv, TypeOK', StartAgain,
           UNCHANGED <<disk, manifest, cloud>>
    PROVE  UnderWay'
<1>1. TypeOK /\ UnderWay
  BY DEF IInv, UnderWay
<1> HIDE DEF IInv
<1>2. /\ UNCHANGED <<disk, manifest, cloud>> /\ pc' = "burst"
      /\ burst'.modified = {p \in Paths : disk[p] # None}
      /\ adrift' = Apart(cloud, {p \in Paths : disk[p] = None})
                     \ PendingPaths(manifest)
  BY DEF StartAgain, NoBurst
<1>3. manifest \in Manifest
  BY <1>1 DEF TypeOK
<1>4. \A p \in Paths : disk[p] # None => p \in Near'
  BY <1>2 DEF Near, Ahead
<1>5. \A p \in Paths : Denied(p)' => p \in Near'
  BY <1>2, <1>4 DEF Denied
<1>6. PendingOK'
  BY <1>5, Later
<1>7. PostOK' /\ OwnOK'
  BY <1>2, Later DEF Saving
<1>8. Accounted'
  <2> SUFFICES ASSUME NEW p \in Paths, cloud[p] # DiskText(p)
               PROVE  Watched(p)'
    BY <1>2, Later DEF DiskText
  <2>1. CASE disk[p] # None
    BY <1>4, <2>1 DEF Watched
  <2>2. CASE p \in PendingPaths(manifest)
    BY <1>2, <1>3, <2>2, EntriesFacts DEF Watched, Entries
  <2>3. CASE disk[p] = None /\ p \notin PendingPaths(manifest)
    <3>1. p \in adrift'
      BY <1>2, <2>3 DEF Apart
    <3> QED
      BY <3>1 DEF Watched, Near
  <2> QED
    BY <2>1, <2>2, <2>3
<1> QED
  BY <1>6, <1>7, <1>8 DEF UnderWay

\* The agent saves the manifest, and the tool does not.
LEMMA SaveUnderWay ==
    ASSUME AgentAssumption, IInv, TypeOK', SaveManifest
    PROVE  UnderWay'
<1> USE DEF bounds, workspace, store, remote, agentVars, toolVars
<1>1. TypeOK /\ ControlOK /\ UnderWay
  BY DEF IInv, UnderWay
<1> HIDE DEF IInv
<1>2. /\ UNCHANGED <<disk, events, burst, call, hand, cloud>>
      /\ pc = "saving" /\ pc' \in {"flush", "burst", "send"}
      /\ adrift' = adrift \cup (Overwritten({}) \ Named(msg))
  BY DEF SaveManifest, GoOn
<1>3. manifest' = own
  BY <1>1, SaveStep DEF SaveManifest, Savers
<1>4. manifest \in Manifest /\ own \in Manifest
  BY <1>1 DEF TypeOK
<1> HIDE DEF TypeOK
<1>5. Near \subseteq Near' /\ \A p \in Paths : DiskText(p)' = DiskText(p)
  BY <1>2, Frame DEF DiskText
<1>6. \A p \in Paths : /\ Denied(p)' => Doomed(p)
                       /\ Recorded(p) => Watched(p)'
  BY <1>2, <1>3 DEF Denied, Doomed, Recorded, Watched, Entries
<1>7. PendingOK'
  BY <1>1, <1>2, <1>5, <1>6, Now, Later DEF UnderWay, Saving
<1>8. PostOK' /\ OwnOK'
  BY <1>2, Later DEF Saving
<1>9. Accounted'
  <2> SUFFICES ASSUME NEW p \in Paths, cloud[p] # DiskText(p)
               PROVE  Watched(p)'
    BY <1>2, <1>5, Later
  <2>1. p \in Near' => Watched(p)'
    BY DEF Watched
  <2>2. CASE p \in Named(msg)
    BY <1>1, <1>2, <1>5, <1>6, <2>1, <2>2, Now DEF UnderWay, Saving
  <2>3. CASE p \notin Named(msg)
    <3>1. Watched(p)
      BY <1>1, Now DEF UnderWay
    <3>2. CASE p \in Near
      BY <1>5, <2>1, <3>2
    <3>3. CASE p \in PendingPaths(manifest)
      <4>1. p \in PendingPaths(own) => Recorded(p)
        BY <1>4, EntriesFacts DEF Recorded
      <4>2. p \notin PendingPaths(own) => p \in adrift'
        BY <1>2, <1>3, <2>3, <3>3 DEF Overwritten, Apart
      <4> QED
        BY <1>6, <2>1, <4>1, <4>2 DEF Near
    <3> QED
      BY <1>4, <2>3, <3>1, <3>2, <3>3, EntriesFacts DEF Watched
  <2> QED
    BY <2>2, <2>3
<1> QED
  BY <1>7, <1>8, <1>9 DEF UnderWay

\* manifest.json is replaced or written to, and what is not in it any more is
\* adrift.
LEMMA ReplacedUnderWay ==
    ASSUME AgentAssumption, TypeOK, TypeOK', UnderWay,
           UNCHANGED <<disk, cloud>>, Near \subseteq Near',
           NEW paths, Overwritten(paths) \subseteq adrift',
           Contradicted(manifest') \subseteq adrift',
           Named(msg) \subseteq paths \cup Named(msg)'
    PROVE  PendingOK' /\ Accounted'
<1>1. manifest \in Manifest /\ manifest' \in Manifest
  BY DEF TypeOK
<1>2. \A p \in Paths : DiskText(p)' = DiskText(p)
  BY DEF DiskText
<1>3. \A p \in Paths : Denied(p)' => p \in Near'
  <2>1. \A p \in Paths : Denied(p)' => p \in Contradicted(manifest')
    BY <1>1, EntriesFacts DEF Denied, Entries
  <2> QED
    BY <2>1 DEF Near
<1>4. PendingOK'
  BY <1>3, Later
<1>5. Accounted'
  <2> SUFFICES ASSUME NEW p \in Paths, cloud[p] # DiskText(p)
               PROVE  Watched(p)'
    BY <1>2, Later
  <2>1. Watched(p)
    BY Now DEF UnderWay
  <2>2. p \in Near' \cup Named(msg)' => Watched(p)'
    BY DEF Watched
  <2>3. CASE p \in PendingPaths(manifest) \cup paths
    <3>1. CASE p \in PendingPaths(manifest')
      BY <1>1, <3>1, EntriesFacts DEF Watched, Entries
    <3>2. CASE p \notin PendingPaths(manifest')
      <4>1. p \in adrift'
        BY <2>3, <3>2 DEF Overwritten, Apart
      <4> QED
        BY <2>2, <4>1 DEF Near
    <3> QED
      BY <3>1, <3>2
  <2>4. CASE p \in Named(msg) \cup Near
    BY <2>2, <2>3, <2>4
  <2> QED
    BY <1>1, <2>1, <2>3, <2>4, EntriesFacts DEF Watched
<1> QED
  BY <1>4, <1>5

\* The agent saves the manifest, and so does the tool.
LEMMA CollisionUnderWay ==
    ASSUME AgentAssumption, IInv, TypeOK', SaveCollides
    PROVE  UnderWay'
<1> USE DEF bounds, workspace, store, remote, agentVars, toolVars
<1>1. TypeOK /\ UnderWay
  BY DEF IInv, UnderWay
<1>2. CASE Writers = {}
  <2>1. StartAgain /\ UNCHANGED <<disk, manifest, cloud>>
    BY <1>2 DEF SaveCollides, ReplaceBy
  <2> QED
    BY <2>1, StartUnderWay
<1> HIDE DEF IInv, TypeOK
<1>3. CASE Writers # {}
  <2>1. /\ UNCHANGED <<disk, events, burst, call, hand, cloud>>
        /\ pc' \in {"flush", "burst", "send"}
        /\ adrift' = adrift \cup Overwritten(Named(msg))
                        \cup Contradicted(manifest')
    BY <1>3 DEF SaveCollides, GoOn
  <2>2. Near \subseteq Near'
    BY <2>1, Frame
  <2>3. PendingOK' /\ Accounted'
    BY <1>1, <2>1, <2>2, ReplacedUnderWay
  <2>4. PostOK' /\ OwnOK'
    BY <2>1, Later DEF Saving
  <2> QED
    BY <2>3, <2>4 DEF UnderWay
<1> QED
  BY <1>2, <1>3

\* A post that nobody waits for reaches the cloud, or one of the tool.
LEMMA CloudUnderWay ==
    ASSUME AgentAssumption, IInv, TypeOK',
           Arrive \/ ToolPostAnswered \/ ToolPostFails
    PROVE  UnderWay'
<1> USE DEF bounds, workspace, store, remote, agentVars, toolVars
<1>1. TypeOK /\ UnderWay
  BY DEF IInv, UnderWay
<1> HIDE DEF IInv
<1>2. /\ UNCHANGED <<disk, events, burst, call, hand, manifest, own, msg,
                     pc>>
      /\ adrift \subseteq adrift'
  BY DEF Arrive, ToolPostAnswered, ToolPostFails
<1>3. \A p \in Paths : DiskText(p)' = DiskText(p)
  BY <1>2 DEF DiskText
<1>4. \A p \in Paths : cloud'[p] \in {cloud[p], DiskText(p)} \/ p \in adrift'
  <2>1. ASSUME NEW m \in Message, Receive(m),
               Valid(m) => Apart(cloud', Named(m))  \subseteq adrift',
               NEW p \in Paths
        PROVE  cloud'[p] \in {cloud[p], DiskText(p)} \/ p \in adrift'
    <3>1. /\ ~Valid(m) => cloud' = cloud
          /\ p \notin Named(m) => cloud'[p] = cloud[p]
      BY <1>1, <2>1, ReceiveFacts DEF TypeOK
    <3>2. CASE Valid(m) /\ p \in Named(m)
      <4>1. Apart(cloud', Named(m)) = {q \in Named(m) : cloud'[q] # DiskText(q)}
        BY <1>3 DEF Apart
      <4> QED
        BY <2>1, <3>2, <4>1
    <3> QED
      BY <3>1, <3>2
  <2>2. CASE Arrive
    <3>1. PICK m \in inflight :
             Receive(m) /\ adrift' = adrift \cup Apart(cloud', Named(m))
      BY <2>2 DEF Arrive
    <3>2. m \in Message
      BY <1>1 DEF TypeOK
    <3> QED
      BY <2>1, <3>1, <3>2
  <2>3. CASE ToolPostAnswered
    <3>1. batch \in Message
      BY <1>1 DEF TypeOK
    <3>2. /\ Receive(batch)
          /\ Valid(batch) => Apart(cloud', Named(batch)) \subseteq adrift'
      BY <2>3 DEF ToolPostAnswered
    <3> QED
      BY <2>1, <3>1, <3>2
  <2>4. CASE ToolPostFails
    <3>1. batch \in Message
      BY <1>1 DEF TypeOK
    <3>2. /\ Receive(batch) \/ cloud' = cloud
          /\ Apart(cloud', Named(batch)) \subseteq adrift'
      BY <2>4 DEF ToolPostFails, Unanswered
    <3> QED
      BY <2>1, <3>1, <3>2
  <2> QED
    BY <2>2, <2>3, <2>4
<1>5. Near \subseteq Near'
  BY <1>2, Frame
<1>6. /\ Entries(manifest)' = Entries(manifest) /\ Named(msg)' = Named(msg)
      /\ \A p : Posted(msg, p)' = Posted(msg, p)
  BY <1>2 DEF Entries, Named, Posted
<1>7. Named(msg) \subseteq Paths
  BY <1>1, MessageTypes DEF TypeOK
<1>8. \A p \in Paths : /\ Denied(p)' => Denied(p)
                       /\ Watched(p) => Watched(p)'
                       /\ Doomed(p)' => Doomed(p)
                       /\ Recorded(p) => Recorded(p)'
  BY <1>2, <1>5, <1>6 DEF Denied, Watched, Doomed, Recorded, Entries
<1>9. \A p \in adrift' : p \in Near' /\ Watched(p)'
  BY DEF Near, Watched
<1>10. PendingOK'
  BY <1>1, <1>5, <1>6, <1>8, Now, Later DEF UnderWay
<1>11. PostOK'
  BY <1>1, <1>2, <1>3, <1>4, <1>5, <1>6, <1>7, <1>9, Now, Later DEF UnderWay
<1>12. Accounted'
  BY <1>1, <1>3, <1>4, <1>8, <1>9, Now, Later DEF UnderWay
<1>13. OwnOK'
  BY <1>1, <1>2, <1>3, <1>4, <1>5, <1>6, <1>8, <1>9, Now, Later
  DEF UnderWay, Saving
<1> QED
  BY <1>10, <1>11, <1>12, <1>13 DEF UnderWay

\* The tool saves its copy, or either writes to what has become manifest.json.
LEMMA ToolUnderWay ==
    ASSUME AgentAssumption, IInv, TypeOK',
           ToolSave \/ \E x \in Savers : WriteThrough(x)
    PROVE  UnderWay'
<1> USE DEF bounds, workspace, store, remote, agentVars, toolVars
<1>1. TypeOK /\ UnderWay
  BY DEF IInv, UnderWay
<1> HIDE DEF IInv, TypeOK
<1>2. /\ UNCHANGED <<disk, events, burst, call, hand, msg, own, pc, cloud>>
      /\ adrift' = adrift \cup Overwritten({}) \cup Contradicted(manifest')
  BY DEF ToolSave, WriteThrough
<1>3. Near \subseteq Near' /\ \A p \in Paths : DiskText(p)' = DiskText(p)
  BY <1>2, Frame DEF DiskText
<1>4. Named(msg)' = Named(msg) /\ \A p : Posted(msg, p)' = Posted(msg, p)
  BY <1>2 DEF Named, Posted
<1>5. Named(msg) \subseteq Paths
  BY <1>1, MessageTypes DEF TypeOK
<1>6. PendingOK' /\ Accounted'
  BY <1>1, <1>2, <1>3, <1>4, ReplacedUnderWay
<1>7. PostOK'
  BY <1>1, <1>2, <1>3, <1>4, <1>5, Now, Later DEF UnderWay
<1>8. \A p \in Paths : Doomed(p)' = Doomed(p) /\ Recorded(p)' = Recorded(p)
  BY <1>2 DEF Doomed, Recorded, Entries
<1>9. OwnOK'
  BY <1>1, <1>2, <1>3, <1>4, <1>8, Now, Later DEF UnderWay
<1> QED
  BY <1>6, <1>7, <1>9 DEF UnderWay

-----------------------------------------------------------------------------
(* The theorems. *)

\* The initial state satisfies the inductive invariant.
LEMMA IInvInit == AgentAssumption /\ Init => IInv
<1> SUFFICES ASSUME AgentAssumption, Init PROVE IInv
  OBVIOUS
<1>1. TypeOK
  BY TypeInit
<1>2. /\ disk = NoFiles /\ cloud = NoFiles /\ events = {} /\ burst = NoBurst
      /\ hand = {} /\ pc = "idle" /\ call = "none" /\ msg = NoMessage
      /\ manifest = EmptyManifest /\ copy = EmptyManifest /\ tool = "idle"
      /\ own = EmptyManifest /\ unreadable = FALSE
      /\ watching = TRUE /\ told = 0 /\ answer = 0 /\ accepted = 0
  BY DEF Init
<1>3. ControlOK /\ RevisionsOK
  BY <1>2 DEF ControlOK, RevisionsOK, EmptyManifest
<1>4. FilesOK
  BY <1>2, EmptyManifestFacts DEF FilesOK, Consistent
<1>5. EventsOK /\ BurstOK
  BY <1>2 DEF EventsOK, BurstOK, OfKind, NoBurst
<1>6. \A p \in Paths : ~Denied(p) /\ cloud[p] = DiskText(p)
  BY <1>2, EmptyManifestFacts DEF Denied, DiskText, NoFiles
<1>7. PendingOK /\ PostOK /\ OwnOK /\ Accounted
  BY <1>1, <1>2, <1>6, Now DEF Saving
<1> QED
  BY <1>1, <1>3, <1>4, <1>5, <1>7 DEF IInv

\* Every step preserves it.
LEMMA IInvNext ==
    ASSUME AgentAssumption, IInv, [Next]_vars
    PROVE  IInv'
<1>1. /\ TypeOK /\ ControlOK /\ FilesOK /\ EventsOK /\ BurstOK /\ RevisionsOK
  BY DEF IInv
<1>2. /\ TypeOK' /\ ControlOK' /\ FilesOK' /\ EventsOK' /\ BurstOK'
      /\ RevisionsOK'
  BY <1>1, TypeNext, ControlNext, FilesNext, EventsNext, BurstNext,
     RevisionsNext
<1>3. UnderWay'
  <2>1. CASE \/ \E p \in Paths : Edit(p) \/ Touch(p) \/ ToolWrite(p)
             \/ TakeBurst \/ CallPush \/ CallDelete \/ EndBurst \/ EndFlush
             \/ EndCall \/ BeginSave \/ UNCHANGED vars
             \/ ToolLoad \/ ToolMark \/ ToolBeginSave \/ ToolAck
    BY <1>2, <2>1, HandsUnderWay
  <2>2. CASE FlushBatch \/ SendChunk \/ SendDelete
    BY <1>2, <2>2, SendUnderWay
  <2>3. CASE PostAnswered \/ PostUnanswered \/ PostFails
    BY <1>2, <2>3, PostUnderWay
  <2>4. CASE RecordManifestAck
    BY <1>2, <2>4, AckUnderWay
  <2>5. CASE LeaveUnrecorded \/ LoadManifest \/ RecordManifestFailure
    BY <1>2, <2>5, UnrecordedUnderWay, LoadUnderWay, FailureUnderWay
  <2>6. CASE SaveManifest \/ SaveCollides
    BY <1>2, <2>6, SaveUnderWay, CollisionUnderWay
  <2>7. CASE Restart
    <3>1. StartAgain /\ UNCHANGED <<disk, manifest, cloud>>
      BY <2>7 DEF Restart, store
    <3> QED
      BY <1>2, <3>1, StartUnderWay
  <2>8. CASE Arrive \/ ToolPostAnswered \/ ToolPostFails
    BY <1>2, <2>8, CloudUnderWay
  <2>9. CASE ToolSave \/ \E x \in Savers : WriteThrough(x)
    BY <1>2, <2>9, ToolUnderWay
  <2> QED
    BY <2>1, <2>2, <2>3, <2>4, <2>5, <2>6, <2>7, <2>8, <2>9
    DEF Next, Agent, Tool
<1> QED
  BY <1>2, <1>3 DEF IInv, UnderWay

\* The inductive invariant holds in every state that is reached.
LEMMA Invariance == Spec => []IInv
<1>1. Init => IInv
  BY AgentAssumption, IInvInit
<1>2. IInv /\ [Next]_vars => IInv'
  BY AgentAssumption, IInvNext
<1> QED
  BY <1>1, <1>2, PTL DEF Spec

\* The manifest, the messages and the agent's hands keep their types: the
\* number of retries and of flushed batches stays within the code's limits.
THEOREM AgentTypes == Spec => []TypeOK
<1>1. IInv => TypeOK
  BY DEF IInv
<1> QED
  BY <1>1, Invariance, PTL

\* AgentClient and the tool lose sight of a file that differs in the cloud in
\* no other way than those that Accounted lists, at any moment of any run.
THEOREM NothingForgotten == Spec => []Accounted
<1>1. IInv => Accounted
  BY DEF IInv
<1> QED
  BY <1>1, Invariance, PTL

\* Neither _record_manifest_ack nor the tool's mark_accepted writes a revision
\* that the cloud has not reached.
THEOREM ManifestTrailsCloud == Spec => []RevisionsTrail
<1>1. IInv => RevisionsTrail
  BY DEF IInv, RevisionsOK, RevisionsTrail
<1> QED
  BY <1>1, Invariance, PTL
=============================================================================
