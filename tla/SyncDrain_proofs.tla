-------------------------- MODULE SyncDrain_proofs --------------------------
(***************************************************************************)
(* The agent's pending list drains, for any number of paths, contents,     *)
(* edits, failing posts and restarts, and any limits of batches and        *)
(* retries.                                                                *)
(***************************************************************************)
EXTENDS SyncAgent_proofs

\* The files are text: what is read as text has the hash of the bytes.
AllTextual == \A c \in Contents : TextOf[c] = c

-----------------------------------------------------------------------------
(* What is left to do.                                                     *)

\* The pending files with a recorded hash that is not the disk's: a batch with
\* one of them is refused.
StaleIn(mf, tree) ==
    {p \in PendingPaths(mf) :
        tree[p] # None /\ mf.files[p] \notin {None, tree[p]}}

\* A path costs one batch of a flush, and a stale hash a whole burst.
DebtOf(mf, tree) ==
    FlushMax * Cardinality(StaleIn(mf, tree)) + Cardinality(PendingPaths(mf))
\* What manifest.json holds, or is going to hold once the agent has saved it.
Current == IF pc \in Saving THEN own ELSE manifest
Debt == DebtOf(Current, disk)
Limit == FlushMax * Cardinality(Paths) + Cardinality(Paths)

Posting == {"post", "ack", "fail", "mark"}

\* A flush has failed, or has not begun.
Between == pc = "burst" \/ (pc \in Saving /\ call = "none")

\* What the burst has paid of it: nothing until it begins to flush, then one for
\* a batch, and FlushMax when the flush is over.
Paid ==
    IF pc = "flush" \/ (pc \in Saving /\ flushing) THEN flushes
    ELSE IF pc \in Posting /\ flushing THEN flushes - 1
    ELSE IF Between /\ burst # NoBurst THEN 0
    ELSE FlushMax

\* The bursts since the last disturbance have paid FlushMax each, the present
\* one what it has.
Within ==
    \/ PendingPaths(Current) = {}
    \/ Debt + Paid + FlushMax * quiet <= Limit + FlushMax

\* The agent is flushing from the start of a call to the end of the flush.
FlushOK ==
    /\ pc \in {"idle", "burst", "send"} => ~flushing
    /\ pc = "flush" => flushing

\* What is posted: paths of the pending list, refused for a stale hash only, or
\* in a call's own batches what the disk holds.
PostsOK ==
    /\ pc = "mark" => own = manifest
    /\ pc \in Posting /\ ~flushing => Valid(msg) /\ pc \notin {"fail", "mark"}
    /\ pc \in Posting /\ flushing =>
          /\ flushes > 0
          /\ Named(msg) # {} /\ Named(msg) \subseteq PendingPaths(manifest)
          /\ pc \in {"fail", "mark"} \/ ~Valid(msg) =>
                Named(msg) \cap StaleIn(manifest, disk) # {}

\* The inductive invariant behind PendingDrains.
DrainOK == FlushOK /\ (quiet > 0 => Within /\ PostsOK)

-----------------------------------------------------------------------------
(* How it is counted.                                                      *)

\* The debt is bounded, and nothing is owed of an empty list.
LEMMA DebtFacts ==
    ASSUME AgentAssumption, NEW mf \in Manifest, NEW tree
    PROVE  /\ PendingPaths(mf) \subseteq Paths
           /\ DebtOf(mf, tree) \in Nat /\ DebtOf(mf, tree) <= Limit
           /\ DebtOf(mf, tree) = 0 => PendingPaths(mf) = {}
           /\ PendingPaths(mf) = {} => mf.pending = <<>>
           /\ FlushMax \in Nat \ {0} /\ Limit \in Nat
<1> DEFINE P == PendingPaths(mf)
           S == StaleIn(mf, tree)
<1>1. P \subseteq Paths /\ S \subseteq P
  BY EntriesFacts DEF PendingEntry, StaleIn
<1>2. /\ IsFiniteSet(P) /\ Cardinality(P) <= Cardinality(Paths)
      /\ IsFiniteSet(S) /\ Cardinality(S) <= Cardinality(Paths)
  BY <1>1, FS_Subset DEF AgentAssumption
<1>3. /\ Cardinality(Paths) \in Nat /\ FlushMax \in Nat \ {0}
      /\ Cardinality(P) \in Nat /\ Cardinality(S) \in Nat
  BY <1>2, FS_CardinalityType DEF AgentAssumption
<1>4. Cardinality(P) = 0 => P = {}
  BY <1>2, FS_EmptySet
<1>5. P = {} => mf.pending = <<>>
  <2>1. mf.pending \in Seq(PendingEntry) /\ Len(mf.pending) \in Nat
        /\ DOMAIN mf.pending = 1..Len(mf.pending)
    BY DEF Manifest
  <2>2. CASE Len(mf.pending) = 0
    <3>1. mf.pending = <<>>
      BY <2>1, <2>2
    <3> QED
      BY <3>1
  <2>3. CASE Len(mf.pending) # 0
    <3>1. 1 \in DOMAIN mf.pending
      BY <2>1, <2>3
    <3>2. mf.pending[1].path \in P
      BY <3>1 DEF PendingPaths
    <3> QED
      BY <3>2
  <2> QED
    BY <2>2, <2>3
<1> HIDE DEF P, S
<1> DEFINE stale == FlushMax * Cardinality(S)
           most == FlushMax * Cardinality(Paths)
<1>6. stale \in Nat /\ most \in Nat /\ stale <= most
  BY <1>2, <1>3
<1>7. /\ DebtOf(mf, tree) = stale + Cardinality(P)
      /\ Limit = most + Cardinality(Paths)
      /\ P = PendingPaths(mf)
  BY DEF DebtOf, Limit, P, S
<1> HIDE DEF stale, most
<1>8. /\ stale + Cardinality(P) \in Nat
      /\ stale + Cardinality(P) <= most + Cardinality(Paths)
      /\ most + Cardinality(Paths) \in Nat
      /\ stale + Cardinality(P) = 0 => Cardinality(P) = 0
  BY <1>2, <1>3, <1>6
<1>9. P \subseteq Paths /\ FlushMax \in Nat \ {0}
  BY <1>1, <1>3
<1> HIDE DEF Limit
<1> QED
  BY <1>4, <1>5, <1>7, <1>8, <1>9

\* It falls by one with a path, and by FlushMax with a stale hash.
LEMMA DebtFalls ==
    ASSUME AgentAssumption, NEW mf \in Manifest, NEW new \in Manifest, NEW tree,
           PendingPaths(new) \subseteq PendingPaths(mf),
           StaleIn(new, tree) \subseteq StaleIn(mf, tree)
    PROVE  /\ DebtOf(new, tree) <= DebtOf(mf, tree)
           /\ PendingPaths(new) # PendingPaths(mf)
                 => DebtOf(new, tree) + 1 <= DebtOf(mf, tree)
           /\ StaleIn(new, tree) # StaleIn(mf, tree)
                 => DebtOf(new, tree) + FlushMax <= DebtOf(mf, tree)
<1> DEFINE P == PendingPaths(mf)
           Q == PendingPaths(new)
           S == StaleIn(mf, tree)
           T == StaleIn(new, tree)
<1>1. P \subseteq Paths /\ S \subseteq P
  BY EntriesFacts DEF PendingEntry, StaleIn
<1>2. Q \subseteq P /\ T \subseteq S
  OBVIOUS
<1> HIDE DEF P, Q, S, T
<1>3. IsFiniteSet(P) /\ IsFiniteSet(S)
  BY <1>1, FS_Subset DEF AgentAssumption
<1>4. /\ IsFiniteSet(Q) /\ Cardinality(Q) <= Cardinality(P)
      /\ Cardinality(Q) = Cardinality(P) => Q = P
      /\ IsFiniteSet(T) /\ Cardinality(T) <= Cardinality(S)
      /\ Cardinality(T) = Cardinality(S) => T = S
  BY <1>2, <1>3, FS_Subset
<1>5. /\ FlushMax \in Nat /\ Cardinality(P) \in Nat /\ Cardinality(Q) \in Nat
      /\ Cardinality(S) \in Nat /\ Cardinality(T) \in Nat
  BY <1>3, <1>4, FS_CardinalityType DEF AgentAssumption
<1> DEFINE stale == FlushMax * Cardinality(S)
           left == FlushMax * Cardinality(T)
<1>6. stale \in Nat /\ left \in Nat /\ left <= stale
  BY <1>4, <1>5
<1>7. ASSUME T # S PROVE left + FlushMax <= stale
  <2>1. Cardinality(T) + 1 <= Cardinality(S)
    BY <1>4, <1>5, <1>7
  <2> QED
    BY <1>5, <2>1
<1>8. /\ DebtOf(mf, tree) = stale + Cardinality(P)
      /\ DebtOf(new, tree) = left + Cardinality(Q)
      /\ (PendingPaths(new) = PendingPaths(mf) <=> Q = P)
      /\ (StaleIn(new, tree) = StaleIn(mf, tree) <=> T = S)
  BY DEF DebtOf, P, Q, S, T
<1> HIDE DEF stale, left
<1>9. /\ left + Cardinality(Q) <= stale + Cardinality(P)
      /\ Q # P => left + Cardinality(Q) + 1 <= stale + Cardinality(P)
      /\ T # S => left + Cardinality(Q) + FlushMax <= stale + Cardinality(P)
  BY <1>4, <1>5, <1>6, <1>7
<1> QED
  BY <1>8, <1>9

\* CalmMax bursts pay for the largest debt.
LEMMA CalmPays ==
    ASSUME AgentAssumption
    PROVE  CalmMax \in Nat /\ Limit <= FlushMax * CalmMax
<1> DEFINE n == Cardinality(Paths)
           k == (n + FlushMax - 1) \div FlushMax
<1>1. n \in Nat /\ FlushMax \in Nat \ {0}
  BY FS_CardinalityType DEF AgentAssumption
<1> HIDE DEF n
<1>2. k \in Nat /\ n <= FlushMax * k
  BY <1>1
<1>3. CalmMax = n + k /\ Limit = FlushMax * n + n
  BY DEF CalmMax, Limit, n
<1> HIDE DEF k
<1>4. FlushMax * (n + k) = FlushMax * n + FlushMax * k
      /\ FlushMax * n \in Nat /\ FlushMax * k \in Nat
  BY <1>1, <1>2
<1> QED
  BY <1>1, <1>2, <1>3, <1>4

-----------------------------------------------------------------------------
(* What the steps make of it.                                              *)

\* An accepted batch takes its paths out of the list; a stale hash stays only
\* with a path that stays.
LEMMA AckPays ==
    ASSUME AgentAssumption, TypeOK, RecordManifestAck
    PROVE  /\ own' \in Manifest
           /\ PendingPaths(own') = PendingPaths(manifest) \ Named(msg)
           /\ StaleIn(own', disk) \subseteq StaleIn(manifest, disk)
<1>1. /\ own' \in Manifest /\ manifest \in Manifest
      /\ own'.files = [p \in Paths |-> IF p \in Named(msg) THEN msg.hash[p]
                                       ELSE manifest.files[p]]
      /\ Entries(own') = {e \in Entries(manifest) : e.path \notin Named(msg)}
  <2>1. Entries(own)' = Entries(own')
    BY DEF Entries
  <2> QED
    BY <2>1, AckStep DEF TypeOK
<1>2. PendingPaths(own') = PendingPaths(manifest) \ Named(msg)
  BY <1>1, EntriesFacts
<1>3. PendingPaths(manifest) \subseteq Paths
  BY <1>1, DebtFacts
<1> QED
  BY <1>1, <1>2, <1>3 DEF StaleIn

\* A refused batch of the list stays in it, with the hashes of the disk.
LEMMA FailurePays ==
    ASSUME AgentAssumption, TypeOK, RecordManifestFailure,
           Named(msg) \subseteq PendingPaths(own),
           Named(msg) \cap StaleIn(own, disk) # {}
    PROVE  /\ Changed(own, Named(msg), FALSE) # {}
           /\ own' \in Manifest
           /\ PendingPaths(own') = PendingPaths(own)
           /\ StaleIn(own', disk) \subseteq StaleIn(own, disk)
           /\ StaleIn(own', disk) # StaleIn(own, disk)
<1> DEFINE S == Changed(own, Named(msg), FALSE)
<1>0. S # {}
  BY DEF Changed, StaleIn
<1>1. /\ own' \in Manifest /\ own \in Manifest
      /\ own'.files = [p \in Paths |-> IF p \in S THEN disk[p]
                                            ELSE own.files[p]]
      /\ Entries(own') =
            {e \in Entries(own) : e.path \notin S} \cup
               {[path |-> p, hash |-> disk[p]] : p \in S}
  <2>1. Entries(own)' = Entries(own')
    BY DEF Entries
  <2> QED
    BY <1>0, <2>1, FailureStep DEF TypeOK
<1>2. S = {p \in Named(msg) : own.files[p] # disk[p]}
  BY DEF Changed
<1> HIDE DEF S
<1>3. S \subseteq PendingPaths(own)
  BY <1>2
<1>4. PendingPaths(own') = PendingPaths(own)
  <2>1. PendingPaths(own') = {e.path : e \in Entries(own')}
        /\ PendingPaths(own) = {e.path : e \in Entries(own)}
    BY <1>1, EntriesFacts
  <2>2. {e.path : e \in Entries(own')} \subseteq PendingPaths(own)
    BY <1>1, <1>3, <2>1
  <2>3. ASSUME NEW e \in Entries(own)
        PROVE  e.path \in {d.path : d \in Entries(own')}
    <3>1. CASE e.path \in S
      <4>1. [path |-> e.path, hash |-> disk[e.path]] \in Entries(own')
        BY <1>1, <3>1
      <4> QED
        BY <4>1
    <3>2. CASE e.path \notin S
      BY <1>1, <3>2
    <3> QED
      BY <3>1, <3>2
  <2> QED
    BY <2>1, <2>2, <2>3
<1>5. PendingPaths(own) \subseteq Paths
  BY <1>1, DebtFacts
<1>6. StaleIn(own', disk) \subseteq StaleIn(own, disk) \ S
  BY <1>1, <1>4, <1>5 DEF StaleIn
<1>7. PICK p \in Named(msg) : p \in StaleIn(own, disk)
  OBVIOUS
<1>8. p \in S
  BY <1>2, <1>7 DEF StaleIn
<1> QED
  BY <1>0, <1>1, <1>4, <1>6, <1>7, <1>8 DEF S

\* A batch of the list names paths of the list, and is refused only for a stale
\* hash.
LEMMA BatchOfList ==
    ASSUME AgentAssumption, AllTextual, disk \in Tree, NEW mf \in Manifest,
           Consistent(mf), mf.pending # <<>>, NEW limit \in Nat \ {0}
    PROVE  LET m == NextBatch(mf, limit) IN
           /\ Named(m) # {} /\ Named(m) \subseteq PendingPaths(mf)
           /\ ~Valid(m) => Named(m) \cap StaleIn(mf, disk) # {}
<1> DEFINE taken == {mf.pending[i] : i \in
                        {j \in DOMAIN mf.pending : j <= limit}}
           sent == {e \in taken : e.hash # None /\ disk[e.path] # None}
           HashOf(p) == (CHOOSE e \in sent : e.path = p).hash
           In(p) == \E e \in sent : e.path = p
           text == [p \in Paths |-> IF In(p) THEN TextOf[disk[p]] ELSE None]
           hash == [p \in Paths |-> IF In(p) THEN HashOf(p) ELSE None]
           dels == {e.path : e \in taken \ sent}
           m == NextBatch(mf, limit)
<1>1. /\ m.text = text /\ m.hash = hash /\ m.dels = dels
  BY DEF NextBatch
<1>2. /\ taken \subseteq Entries(mf)
      /\ \A e \in taken : e.path \in Paths /\ e.path \in PendingPaths(mf)
  BY EntriesFacts DEF Entries, Range, PendingEntry
<1>3. taken # {}
  <2>1. mf.pending \in Seq(PendingEntry) /\ Len(mf.pending) \in Nat
        /\ DOMAIN mf.pending = 1..Len(mf.pending)
    BY DEF Manifest
  <2>2. Len(mf.pending) # 0
    BY <2>1
  <2>3. 1 \in {j \in DOMAIN mf.pending : j <= limit}
    BY <2>1, <2>2
  <2>4. mf.pending[1] \in taken
    BY <2>3
  <2> QED
    BY <2>4
<1> HIDE DEF taken, m
<1>4. \A p \in Paths : In(p) => /\ p \in PendingPaths(mf)
                                /\ disk[p] # None /\ TextOf[disk[p]] = disk[p]
                                /\ TextOf[disk[p]] # None
  BY <1>2, TextFacts DEF AllTextual, Tree, Entry
<1>5. Named(m) = dels \cup {p \in Paths : In(p)}
  <2>1. ASSUME NEW p \in Paths PROVE m.text[p] # None <=> In(p)
    <3>1. m.text[p] = IF In(p) THEN TextOf[disk[p]] ELSE None
      BY <1>1
    <3>2. In(p) => TextOf[disk[p]] # None
      BY <1>4
    <3> HIDE DEF In, text
    <3> QED
      BY <3>1, <3>2
  <2>2. {p \in Paths : m.text[p] # None} = {p \in Paths : In(p)}
    BY <2>1
  <2> HIDE DEF text, hash, In, dels
  <2> QED
    BY <1>1, <2>2 DEF Named
<1>6. Named(m) \subseteq PendingPaths(mf)
  BY <1>2, <1>4, <1>5
<1>7. Named(m) # {}
  <2>1. PICK e \in taken : TRUE
    BY <1>3
  <2>2. e.path \in dels \/ In(e.path)
    OBVIOUS
  <2> QED
    BY <1>2, <1>5, <2>1, <2>2
<1>8. ASSUME ~Valid(m)
      PROVE  Named(m) \cap StaleIn(mf, disk) # {}
  <2>1. PICK p \in Paths : text[p] # hash[p]
    <3>1. text # hash
      BY <1>1, <1>8 DEF Valid
    <3> QED
      BY <3>1
  <2>2. In(p)
    BY <2>1
  <2>3. PICK e \in sent : e.path = p /\ hash[p] = e.hash
    <3>1. hash[p] = HashOf(p)
      BY <2>2
    <3> DEFINE e == CHOOSE e \in sent : e.path = p
    <3>2. e \in sent /\ e.path = p
      BY <2>2
    <3> QED
      BY <3>1, <3>2
  <2>4. e \in Entries(mf) /\ e.hash # None /\ disk[p] # None
    BY <1>2, <2>3
  <2>5. mf.files[p] = e.hash
    BY <2>3, <2>4 DEF Consistent
  <2>6. mf.files[p] # disk[p]
    BY <1>4, <2>1, <2>2, <2>3, <2>5
  <2>7. p \in StaleIn(mf, disk)
    BY <1>4, <2>2, <2>4, <2>5, <2>6 DEF StaleIn
  <2> QED
    BY <1>5, <2>2, <2>7
<1> QED
  BY <1>6, <1>7, <1>8 DEF m

-----------------------------------------------------------------------------
(* The step from a state to the next.                                      *)

\* The accounts are numbers.
LEMMA Owed ==
    ASSUME AgentAssumption, TypeOK
    PROVE  /\ Debt \in Nat /\ Debt <= Limit
           /\ Paid \in Int /\ Paid <= FlushMax
           /\ (pc = "flush" /\ ~FlushesLeft => Paid = FlushMax)
           /\ FlushMax * quiet \in Nat
           /\ FlushMax \in Nat \ {0} /\ Limit \in Nat
<1>1. /\ Current \in Manifest /\ flushes \in 0..FlushMax
      /\ quiet \in 0..CalmMax
  BY DEF TypeOK, Current
<1> HIDE DEF TypeOK
<1>2. /\ Debt \in Nat /\ Debt <= Limit
      /\ FlushMax \in Nat \ {0} /\ Limit \in Nat
  BY <1>1, DebtFacts DEF Debt
<1>3. CalmMax \in Nat
  BY CalmPays
<1>4. quiet \in Nat /\ flushes \in Nat /\ flushes <= FlushMax
  BY <1>1, <1>2, <1>3
<1>5. FlushMax * quiet \in Nat
  BY <1>2, <1>4
<1>6. Paid \in Int /\ Paid <= FlushMax
  BY <1>2, <1>4 DEF Paid
<1>7. pc = "flush" /\ ~FlushesLeft => Paid = FlushMax
  BY <1>2, <1>4 DEF Paid, FlushesLeft
<1> QED
  BY <1>2, <1>5, <1>6, <1>7

\* So are those of the next state.
LEMMA OwedNext ==
    ASSUME AgentAssumption, TypeOK'
    PROVE  /\ {Debt'} \subseteq Nat /\ Debt' <= Limit
           /\ {Paid'} \subseteq Int /\ Paid' <= FlushMax
<1>1. /\ Current' \in Manifest /\ Debt' = DebtOf(Current', disk')
      /\ {flushes'} \subseteq 0..FlushMax
  BY DEF TypeOK, Current, Debt, DebtOf, PendingPaths, StaleIn
<1> HIDE DEF TypeOK
<1>2. /\ {Debt'} \subseteq Nat /\ Debt' <= Limit /\ FlushMax \in Nat
  BY <1>1, DebtFacts
<1>3. {Paid'} \subseteq Int /\ Paid' <= FlushMax
  BY <1>1, <1>2 DEF Paid, Posting, NoBurst, Between
<1> QED
  BY <1>2, <1>3

\* A step within a burst that pays no more than the debt falls by.
LEMMA StaysWithin ==
    ASSUME AgentAssumption, TypeOK, TypeOK', Within, quiet' = quiet,
           PendingPaths(Current) = {} => PendingPaths(Current') = {},
           Debt' + Paid' <= Debt + Paid
    PROVE  Within'
<1>1. /\ Debt \in Nat /\ Paid \in Int /\ FlushMax * quiet \in Nat
      /\ FlushMax \in Nat /\ Limit \in Nat
  BY Owed
<1>2. {Debt', Paid'} \subseteq Int
  BY OwedNext
<1>3. /\ Limit' = Limit /\ FlushMax' = FlushMax
      /\ PendingPaths(Current)' = PendingPaths(Current')
  BY DEF Limit, PendingPaths
<1> HIDE DEF Debt, Paid, Limit
<1>4. CASE PendingPaths(Current) = {}
  BY <1>3, <1>4 DEF Within
<1>5. CASE Debt + Paid + FlushMax * quiet <= Limit + FlushMax
  <2>1. FlushMax * quiet' = FlushMax * quiet
    OBVIOUS
  <2>2. Debt' + Paid' + FlushMax * quiet <= Limit + FlushMax
    BY <1>1, <1>2, <1>5
  <2> QED
    BY <1>3, <2>1, <2>2 DEF Within
<1> QED
  BY <1>4, <1>5 DEF Within

\* Nobody has disturbed the agent with this step.
LEMMA SameDebt ==
    UNCHANGED <<Current, disk>> =>
       /\ Debt' = Debt /\ PendingPaths(Current') = PendingPaths(Current)
       /\ PendingPaths(Current)' = PendingPaths(Current)
BY DEF Debt, PendingPaths

LEMMA SameList ==
    UNCHANGED <<manifest, disk>> =>
       /\ PendingPaths(manifest)' = PendingPaths(manifest)
       /\ StaleIn(manifest, disk)' = StaleIn(manifest, disk)
BY DEF PendingPaths, StaleIn

LEMMA SameCurrent ==
    ASSUME UNCHANGED manifest, pc \notin Saving, pc' \notin Saving
    PROVE  Current' = Current /\ Current = manifest
BY DEF Current, Saving

\* A step that leaves the manifest and the disk alone, within a burst.
LEMMA PaysNothing ==
    ASSUME AgentAssumption, TypeOK, TypeOK', Within,
           UNCHANGED <<Current, disk, quiet>>, Paid' <= Paid
    PROVE  Within'
<1>1. /\ Debt' = Debt
      /\ PendingPaths(Current') = PendingPaths(Current)
  BY SameDebt
<1>2. Debt \in Nat /\ Paid \in Int
  BY Owed
<1>3. {Paid'} \subseteq Int
  BY OwedNext
<1>4. Debt + Paid' <= Debt + Paid
  BY <1>2, <1>3
<1>5. Debt' + Paid' <= Debt + Paid
  BY <1>1, <1>4
<1> QED
  BY <1>1, <1>5, StaysWithin

\* A burst begins: the one before it has paid, or nobody has to.
LEMMA BurstWithin ==
    ASSUME AgentAssumption, TypeOK, TypeOK', ControlOK, DrainOK, TakeBurst
    PROVE  DrainOK'
<1>1. /\ pc = "idle" /\ events # {} /\ pc' = "burst"
      /\ burst'.modified = OfKind("modified")
      /\ burst'.deleted = OfKind("deleted")
      /\ quiet' = Calmer /\ UNCHANGED <<manifest, disk, flushing>>
  BY DEF TakeBurst, store
<1>0. Current = manifest /\ Current' = Current
  BY <1>1, SameCurrent DEF Saving
<1>2. burst' # NoBurst
  BY <1>1 DEF TypeOK, OfKind, NoBurst
<1>3. Paid = FlushMax /\ Paid' = 0
  BY <1>1, <1>2 DEF Paid, Posting, ControlOK, Between, Saving
<1>4. FlushOK' /\ PostsOK'
  BY <1>1 DEF DrainOK, FlushOK, PostsOK, Posting
<1>5. /\ Debt \in Nat /\ Debt <= Limit /\ FlushMax * quiet \in Nat
      /\ FlushMax \in Nat \ {0} /\ Limit \in Nat
      /\ CalmMax \in Nat /\ Limit <= FlushMax * CalmMax
      /\ quiet \in 0..CalmMax
  BY Owed, CalmPays DEF TypeOK
<1>6. Current \in Manifest
  BY <1>0 DEF TypeOK
<1>7. \/ PendingPaths(Current) = {}
      \/ Debt + FlushMax * quiet <= Limit
  <2>1. CASE quiet = 0
    BY <1>5, <2>1
  <2>2. CASE quiet > 0
    BY <1>3, <1>5, <2>2 DEF DrainOK, Within
  <2> QED
    BY <1>5, <2>1, <2>2
<1>8. CASE PendingPaths(Current) = {}
  BY <1>0, <1>1, <1>4, <1>8, SameDebt DEF DrainOK, Within
<1>9. CASE Debt + FlushMax * quiet <= Limit /\ quiet # CalmMax
  <2>1. FlushMax * (quiet + 1) = FlushMax * quiet + FlushMax
    BY <1>5
  <2>2. Debt + 0 + FlushMax * (quiet + 1) <= Limit + FlushMax
    BY <1>5, <1>9, <2>1
  <2>3. quiet' = quiet + 1 /\ Debt' = Debt /\ Limit' = Limit
    BY <1>0, <1>1, <1>9, SameDebt DEF Calmer, Limit
  <2> HIDE DEF Debt, Limit
  <2> QED
    BY <1>3, <1>4, <2>2, <2>3 DEF DrainOK, Within
<1>10. CASE Debt + FlushMax * quiet <= Limit /\ quiet = CalmMax
  <2>1. Debt = 0
    BY <1>5, <1>10
  <2>2. PendingPaths(Current) = {}
    BY <1>6, <2>1, DebtFacts DEF Debt
  <2> QED
    BY <1>8, <2>2
<1> QED
  BY <1>7, <1>8, <1>9, <1>10

\* A batch of the pending list is posted.
LEMMA FlushWithin ==
    ASSUME AgentAssumption, AllTextual, TypeOK, TypeOK', FilesOK, DrainOK,
           FlushBatch
    PROVE  DrainOK'
<1>1. /\ pc = "flush" /\ pc' = "post" /\ flushing' = flushing
      /\ flushes' = flushes + 1 /\ manifest.pending # <<>>
      /\ UNCHANGED <<manifest, disk, quiet, burst>>
  BY DEF FlushBatch, workspace, store
<1>0. Current = manifest /\ Current' = Current
  BY <1>1, SameCurrent DEF Saving
<1>2. flushing /\ flushes \in Nat
  <2>1. flushes \in 0..FlushMax /\ FlushMax \in Nat
    BY DEF TypeOK, AgentAssumption
  <2> QED
    BY <1>1, <2>1 DEF DrainOK, FlushOK
<1>3. Paid = flushes /\ Paid' = flushes
  <2>1. Paid = flushes
    BY <1>1 DEF Paid
  <2>2. Paid' = flushes' - 1
    BY <1>1, <1>2 DEF Paid, Posting, Saving
  <2>3. (flushes + 1) - 1 = flushes
    BY <1>2
  <2>4. flushes' - 1 = flushes
    BY <1>1, <2>3
  <2> QED
    BY <2>1, <2>2, <2>4
<1>4. FlushOK'
  BY <1>1, <1>2 DEF FlushOK
<1>5. PostsOK'
  <2>1. manifest \in Manifest /\ disk \in Tree
    BY DEF TypeOK
  <2>2. PICK n \in 1..BatchMax :
           msg' = [NextBatch(manifest, n) EXCEPT !.revision = 0]
    BY DEF FlushBatch
  <2> DEFINE m == NextBatch(manifest, n)
  <2>3. n \in Nat \ {0}
    BY DEF AgentAssumption
  <2>4. m \in Message
    BY <2>1, NextBatchFacts
  <2>5. /\ Named(m) # {} /\ Named(m) \subseteq PendingPaths(manifest)
        /\ ~Valid(m) => Named(m) \cap StaleIn(manifest, disk) # {}
    BY <1>1, <2>1, <2>3, BatchOfList DEF FilesOK
  <2> HIDE DEF m
  <2>6. Named(msg') = Named(m) /\ (Valid(msg') <=> Valid(m))
    BY <2>2, <2>4 DEF m, Message, Named, Valid
  <2>7. flushes' > 0
    BY <1>1, <1>2
  <2> QED
    BY <1>1, <1>2, <2>5, <2>6, <2>7, SameList DEF PostsOK, Posting, Named, Valid
<1>6. Within => Within'
  <2>1. Paid' <= Paid
    BY <1>2, <1>3
  <2> QED
    BY <1>0, <1>1, <2>1, PaysNothing
<1> QED
  BY <1>1, <1>4, <1>5, <1>6 DEF DrainOK

\* An accepted post is taken out of the manifest that is going to be saved.
LEMMA AckWithin ==
    ASSUME AgentAssumption, TypeOK, TypeOK', DrainOK, RecordManifestAck
    PROVE  DrainOK'
<1>1. /\ pc = "ack" /\ pc' = "save"
      /\ UNCHANGED <<disk, manifest, quiet, flushing, flushes>>
  BY DEF RecordManifestAck, workspace, store
<1>2. FlushOK'
  BY <1>1 DEF FlushOK
<1>3. ASSUME quiet > 0 PROVE Within' /\ PostsOK'
  <2>1. Within /\ PostsOK
    BY <1>3 DEF DrainOK
  <2>2. PostsOK'
    BY <1>1 DEF PostsOK, Posting
  <2>3. Current = manifest /\ Current' = own' /\ manifest \in Manifest
    BY <1>1 DEF Current, Saving, TypeOK
  <2>4. /\ own' \in Manifest
        /\ PendingPaths(own') = PendingPaths(manifest) \ Named(msg)
        /\ StaleIn(own', disk) \subseteq StaleIn(manifest, disk)
    BY AckPays
  <2>5. /\ Debt = DebtOf(manifest, disk)
        /\ Debt' = DebtOf(own', disk)
    BY <1>1, <2>3 DEF Debt
  <2>6. /\ DebtOf(manifest, disk) \in Nat /\ DebtOf(own', disk) \in Nat
        /\ DebtOf(own', disk) <= DebtOf(manifest, disk)
        /\ PendingPaths(own') # PendingPaths(manifest) =>
              DebtOf(own', disk) + 1 <= DebtOf(manifest, disk)
    BY <2>3, <2>4, DebtFacts, DebtFalls
  <2>7. Debt' + Paid' <= Debt + Paid
    <3>1. CASE flushing
      <4>1. Named(msg) # {} /\ Named(msg) \subseteq PendingPaths(manifest)
        BY <1>1, <2>1, <3>1 DEF PostsOK, Posting
      <4>2. PendingPaths(own') # PendingPaths(manifest)
        BY <2>4, <4>1
      <4>3. Paid = flushes - 1 /\ Paid' = flushes /\ flushes \in Int
        BY <1>1, <3>1 DEF Paid, Posting, Saving, TypeOK
      <4>4. DebtOf(own', disk) + flushes
               <= DebtOf(manifest, disk) + (flushes - 1)
        BY <2>6, <4>2, <4>3
      <4> QED
        BY <2>5, <4>3, <4>4
    <3>2. CASE ~flushing
      <4>1. Paid = FlushMax /\ FlushMax \in Int
        BY <1>1, <3>2 DEF Paid, Posting, Saving, Between, AgentAssumption
      <4>2. {Paid'} \subseteq Int /\ Paid' <= FlushMax
        BY OwedNext
      <4>3. DebtOf(own', disk) + Paid' <= DebtOf(manifest, disk) + FlushMax
        BY <2>6, <4>1, <4>2
      <4> QED
        BY <2>5, <4>1, <4>3
    <3> QED
      BY <3>1, <3>2
  <2> QED
    BY <1>1, <2>1, <2>2, <2>3, <2>4, <2>7, StaysWithin
<1> QED
  BY <1>1, <1>2, <1>3 DEF DrainOK

\* The hashes of a refused post are corrected in the manifest that is going to
\* be saved.
LEMMA FailureWithin ==
    ASSUME AgentAssumption, TypeOK, TypeOK', DrainOK, RecordManifestFailure
    PROVE  DrainOK'
<1>1. /\ pc = "mark" /\ flushing' = FALSE /\ pc' \in {"burst", "send", "save"}
      /\ Changed(own, Named(msg), FALSE) # {} => pc' = "save"
      /\ UNCHANGED <<disk, manifest, quiet>>
  BY DEF RecordManifestFailure, AfterFailure, workspace, store
<1>2. FlushOK'
  BY <1>1 DEF FlushOK
<1>3. ASSUME quiet > 0 PROVE Within' /\ PostsOK'
  <2>1. Within /\ PostsOK
    BY <1>3 DEF DrainOK
  <2>2. PostsOK'
    BY <1>1 DEF PostsOK, Posting
  <2>3. /\ flushing /\ flushes > 0 /\ own = manifest
        /\ Named(msg) \subseteq PendingPaths(own)
        /\ Named(msg) \cap StaleIn(own, disk) # {}
    BY <1>1, <2>1 DEF PostsOK, Posting, TypeOK
  <2>4. /\ Changed(own, Named(msg), FALSE) # {}
        /\ own' \in Manifest
        /\ PendingPaths(own') = PendingPaths(own)
        /\ StaleIn(own', disk) \subseteq StaleIn(own, disk)
        /\ StaleIn(own', disk) # StaleIn(own, disk)
    BY <2>3, FailurePays
  <2>5. Current = own /\ Current' = own' /\ own \in Manifest
    BY <1>1, <2>3, <2>4 DEF Current, Saving, TypeOK
  <2>6. /\ Debt = DebtOf(own, disk)
        /\ Debt' = DebtOf(own', disk)
    BY <1>1, <2>5 DEF Debt
  <2>7. /\ DebtOf(own, disk) \in Nat /\ DebtOf(own', disk) \in Nat
        /\ DebtOf(own', disk) + FlushMax <= DebtOf(own, disk)
    BY <2>4, <2>5, DebtFacts, DebtFalls
  <2>8. /\ Paid \in Int /\ Paid >= 0
        /\ {Paid'} \subseteq Int /\ Paid' <= FlushMax /\ FlushMax \in Nat
    <3>1. flushes \in Int /\ Paid = flushes - 1
      BY <1>1, <2>3 DEF Paid, Posting, Saving, TypeOK
    <3> QED
      BY <2>3, <3>1, OwedNext DEF AgentAssumption
  <2>9. DebtOf(own', disk) + Paid' <= DebtOf(own, disk) + Paid
    BY <2>7, <2>8
  <2> QED
    BY <1>1, <2>1, <2>2, <2>4, <2>5, <2>6, <2>9, StaysWithin
<1> QED
  BY <1>1, <1>2, <1>3 DEF DrainOK

\* The manifest is saved as it was changed.
LEMMA SaveWithin ==
    ASSUME AgentAssumption, TypeOK, TypeOK', ControlOK, DrainOK, SaveManifest
    PROVE  DrainOK'
<1>1. /\ pc = "saving"
      /\ pc' = IF flushing THEN "flush" ELSE IF call = "none" THEN "burst"
               ELSE "send"
      /\ UNCHANGED <<disk, quiet, flushing, flushes, call, burst>>
  BY DEF SaveManifest, GoOn, workspace
<1>2. manifest' = own
  BY SaveStep DEF SaveManifest, Savers
<1>3. Current' = Current
  BY <1>1, <1>2 DEF Current, Saving
<1>4. Paid' = Paid
  BY <1>1 DEF Paid, Posting, Saving, Between
<1>5. FlushOK' /\ PostsOK'
  BY <1>1 DEF FlushOK, PostsOK, Posting, TypeOK
<1>6. Paid \in Int
  BY Owed
<1>7. Within => Within'
  BY <1>1, <1>3, <1>4, <1>6, PaysNothing
<1> QED
  BY <1>1, <1>5, <1>7 DEF DrainOK

\* A manifest that cannot be loaded owes nothing.
LEMMA UnrecordedWithin ==
    ASSUME AgentAssumption, TypeOK, TypeOK', ControlOK, DrainOK, LeaveUnrecorded
    PROVE  DrainOK'
<1>1. /\ pc' \in {"flush", "send", "burst"}
      /\ pc' = "flush" <=> (pc = "ack" /\ flushing)
      /\ pc = "ack" => flushing' = flushing
      /\ pc # "ack" => flushing' = FALSE
      /\ manifest' = manifest
  BY DEF LeaveUnrecorded, AfterFailure, store
<1>2. FlushOK' /\ PostsOK'
  BY <1>1 DEF FlushOK, PostsOK, Posting, TypeOK
<1>3. manifest = EmptyManifest
  BY DEF LeaveUnrecorded, ControlOK
<1>4. Current' = EmptyManifest
  BY <1>1, <1>3 DEF Current, Saving
<1>5. PendingPaths(EmptyManifest) = {}
  BY EmptyManifestFacts, EntriesFacts
<1>6. Within'
  BY <1>4, <1>5 DEF Within, PendingPaths
<1> QED
  BY <1>2, <1>6 DEF DrainOK

\* Every step keeps the invariant: what disturbs the agent starts the count of
\* bursts again, and the other steps pay for the debt they leave.
LEMMA DrainNext ==
    ASSUME AgentAssumption, AllTextual, TypeOK, TypeOK', ControlOK, FilesOK,
           DrainOK, [Next]_vars
    PROVE  DrainOK'
<1> USE DEF bounds, workspace, store, remote, agentVars, toolVars
<1>1. ASSUME quiet' = 0, FlushOK' PROVE DrainOK'
  BY <1>1 DEF DrainOK
<1>2. ASSUME FlushOK', quiet > 0 => PostsOK', Paid' <= Paid,
             UNCHANGED <<Current, disk, quiet>>
      PROVE  DrainOK'
  BY <1>2, PaysNothing DEF DrainOK
<1>3. Paid \in Int /\ Paid <= FlushMax /\ FlushMax \in Nat \ {0}
  BY Owed
<1>4. FlushOK /\ (quiet > 0 => PostsOK)
  BY DEF DrainOK
<1>5. ASSUME NEW p \in Paths, Edit(p) \/ ToolWrite(p) PROVE DrainOK'
  BY <1>1, <1>4, <1>5 DEF Edit, ToolWrite, FlushOK
<1>6. CASE PostUnanswered \/ PostFails \/ Restart
  BY <1>1, <1>4, <1>6 DEF PostUnanswered, PostFails, Restart, StartAgain,
     FlushOK
<1>7. CASE \/ Arrive \/ Tool \/ \E x \in Savers : WriteThrough(x)
  <2>1. quiet' = 0 /\ UNCHANGED <<pc, flushing>>
    BY <1>7 DEF Arrive, Tool, ToolLoad, ToolMark, ToolBeginSave, ToolSave,
       ToolPostAnswered, ToolPostFails, ToolAck, WriteThrough
  <2> QED
    BY <1>1, <1>4, <2>1 DEF FlushOK
<1>8. ASSUME UNCHANGED <<manifest, own, disk, quiet, pc, burst, flushing,
                         flushes, msg, call>>
      PROVE  DrainOK'
  <2>1. Paid' = Paid /\ Current' = Current
    BY <1>8 DEF Paid, Between, Current
  <2>2. FlushOK' /\ (quiet > 0 => PostsOK')
    BY <1>4, <1>8, SameList DEF FlushOK, PostsOK, Valid, Named
  <2> QED
    BY <1>2, <1>3, <1>8, <2>1, <2>2
<1>9. ASSUME NEW p \in Paths, Touch(p) PROVE DrainOK'
  BY <1>8, <1>9 DEF Touch
<1>10. CASE CallPush \/ CallDelete
  <2>1. /\ pc = "burst" /\ burst # NoBurst /\ pc' = "flush" /\ flushes' = 0
        /\ flushing' /\ UNCHANGED <<manifest, disk, quiet>>
    BY <1>10 DEF CallPush, CallDelete, FlushFirst, NoBurst
  <2>0. Current' = Current /\ Current = manifest
    BY <2>1, SameCurrent DEF Saving
  <2>2. Paid = 0 /\ Paid' = 0
    BY <2>1 DEF Paid, Posting, Between, Saving
  <2>3. FlushOK' /\ PostsOK'
    BY <2>1 DEF FlushOK, PostsOK, Posting
  <2> QED
    BY <1>2, <2>0, <2>1, <2>2, <2>3
<1>11. CASE EndBurst
  <2>1. /\ pc = "burst" /\ burst = NoBurst /\ pc' = "idle"
        /\ UNCHANGED <<manifest, disk, quiet, flushing>>
    BY <1>11 DEF EndBurst
  <2>0. Current' = Current /\ Current = manifest
    BY <2>1, SameCurrent DEF Saving
  <2>2. Paid = FlushMax /\ Paid' = FlushMax
    BY <2>1 DEF Paid, Posting, Between, Saving
  <2>3. FlushOK' /\ PostsOK'
    BY <1>4, <2>1 DEF FlushOK, PostsOK, Posting
  <2> QED
    BY <1>2, <1>3, <2>0, <2>1, <2>2, <2>3
<1>12. CASE EndFlush
  <2>1. /\ pc = "flush" /\ pc' = "send" /\ flushing' = FALSE
        /\ manifest.pending = <<>> \/ ~FlushesLeft
        /\ UNCHANGED <<manifest, disk, quiet>>
    BY <1>12 DEF EndFlush
  <2>0. Current' = Current /\ Current = manifest
    BY <2>1, SameCurrent DEF Saving
  <2>2. FlushOK' /\ PostsOK' /\ Paid' = FlushMax
    BY <2>1 DEF FlushOK, PostsOK, Posting, Paid, Between, Saving
  <2>3. CASE manifest.pending = <<>>
    <3>1. PendingPaths(manifest) = {}
      BY <2>3 DEF PendingPaths
    <3>2. Within'
      BY <2>0, <2>1, <3>1, SameDebt DEF Within
    <3> QED
      BY <2>2, <3>2 DEF DrainOK
  <2>4. CASE ~FlushesLeft
    <3>1. Paid = FlushMax
      BY <2>1, <2>4, Owed
    <3> QED
      BY <1>2, <1>3, <2>0, <2>1, <2>2, <3>1
  <2> QED
    BY <2>1, <2>3, <2>4
<1>13. CASE SendChunk \/ SendDelete
  <2>1. /\ pc = "send" /\ pc' = "post" /\ flushing' = flushing
        /\ UNCHANGED <<manifest, disk, quiet>>
    BY <1>13 DEF SendChunk, SendDelete
  <2>0. Current' = Current /\ Current = manifest
    BY <2>1, SameCurrent DEF Saving
  <2>2. ~flushing /\ Paid = FlushMax /\ Paid' = FlushMax
    BY <1>4, <2>1 DEF FlushOK, Paid, Posting, Between, Saving
  <2>3. Valid(msg')
    BY <1>13 DEF SendChunk, SendDelete, NoMessage, Valid
  <2>4. FlushOK' /\ PostsOK'
    BY <2>1, <2>2, <2>3 DEF FlushOK, PostsOK, Posting, Valid
  <2> QED
    BY <1>2, <1>3, <2>0, <2>1, <2>2, <2>4
<1>14. CASE EndCall
  <2>1. /\ pc = "send" /\ pc' = "burst"
        /\ UNCHANGED <<manifest, disk, quiet, flushing>>
    BY <1>14 DEF EndCall
  <2>0. Current' = Current /\ Current = manifest
    BY <2>1, SameCurrent DEF Saving
  <2>2. Paid = FlushMax /\ (Paid' = FlushMax \/ Paid' = 0)
    BY <2>1 DEF Paid, Posting, Between, Saving
  <2>3. FlushOK' /\ PostsOK'
    BY <1>4, <2>1 DEF FlushOK, PostsOK, Posting
  <2> QED
    BY <1>2, <1>3, <2>0, <2>1, <2>2, <2>3
<1>15. CASE PostAnswered
  <2>1. /\ pc = "post" /\ pc' = IF Valid(msg) THEN "ack" ELSE "fail"
        /\ UNCHANGED <<manifest, disk, quiet, flushing, flushes, msg>>
    BY <1>15 DEF PostAnswered
  <2>0. Current' = Current /\ Current = manifest
    BY <2>1, SameCurrent DEF Saving
  <2>2. Paid' = Paid
    BY <2>1 DEF Paid, Posting, Between, Saving
  <2>3. FlushOK' /\ (quiet > 0 => PostsOK')
    BY <1>4, <2>1, SameList DEF FlushOK, PostsOK, Posting, Valid, Named
  <2> QED
    BY <1>2, <1>3, <2>0, <2>1, <2>2, <2>3
<1>16. CASE LoadManifest
  <2>1. /\ pc = "fail" /\ pc' = "mark" /\ own' = manifest
        /\ UNCHANGED <<manifest, disk, quiet, flushing, flushes, msg>>
    BY <1>16 DEF LoadManifest
  <2>2. Current' = Current
    BY <2>1, SameCurrent DEF Saving
  <2>3. Paid' = Paid
    BY <2>1 DEF Paid, Posting, Between, Saving
  <2>4. FlushOK' /\ (quiet > 0 => PostsOK')
    BY <1>4, <2>1, SameList DEF FlushOK, PostsOK, Posting, Valid, Named
  <2> QED
    BY <1>2, <1>3, <2>1, <2>2, <2>3, <2>4
<1>17. CASE BeginSave
  <2>1. /\ pc = "save" /\ pc' = "saving"
        /\ UNCHANGED <<manifest, own, disk, quiet, flushing, flushes, burst,
                       call>>
    BY <1>17 DEF BeginSave
  <2>2. Current' = Current /\ Paid' = Paid
    BY <2>1 DEF Current, Paid, Posting, Between, Saving
  <2>3. FlushOK' /\ PostsOK'
    BY <2>1 DEF FlushOK, PostsOK, Posting
  <2> QED
    BY <1>2, <1>3, <2>1, <2>2, <2>3
<1>18. CASE SaveCollides
  <2>1. quiet' = 0 /\ (StartAgain \/ (GoOn /\ UNCHANGED <<flushing, call>>))
    BY <1>18 DEF SaveCollides
  <2>2. FlushOK'
    BY <2>1 DEF StartAgain, GoOn, FlushOK, TypeOK
  <2> QED
    BY <1>1, <2>1, <2>2
<1>19. CASE UNCHANGED vars
  BY <1>8, <1>19 DEF vars
<1> QED
  BY <1>5, <1>6, <1>7, <1>9, <1>10, <1>11, <1>12, <1>13, <1>14, <1>15, <1>16,
     <1>17, <1>18, <1>19, BurstWithin, FlushWithin, AckWithin, FailureWithin,
     SaveWithin, UnrecordedWithin DEF Next, Agent

\* After CalmMax bursts nothing is owed.
LEMMA DrainImplies ==
    ASSUME AgentAssumption, TypeOK, ControlOK, DrainOK
    PROVE  PendingDrains
<1> SUFFICES ASSUME pc = "idle", quiet = CalmMax
             PROVE  manifest.pending = <<>>
  BY DEF PendingDrains
<1>1. /\ manifest \in Manifest /\ Paid = FlushMax
      /\ Current = manifest
  BY DEF TypeOK, Paid, Posting, Between, Saving, Current
<1>2. /\ Debt \in Nat /\ Debt <= Limit /\ Limit \in Nat
      /\ FlushMax \in Nat \ {0} /\ CalmMax \in Nat
      /\ FlushMax * CalmMax \in Nat /\ Limit <= FlushMax * CalmMax
  BY Owed, CalmPays
<1>3. PendingPaths(manifest) = {} \/ Debt = 0
  <2>1. CASE CalmMax = 0
    BY <1>2, <2>1
  <2>2. CASE CalmMax > 0
    BY <1>1, <1>2, <2>2 DEF DrainOK, Within
  <2> QED
    BY <1>2, <2>1, <2>2
<1>4. Debt = 0 => PendingPaths(manifest) = {}
  BY <1>1, DebtFacts DEF Debt
<1> QED
  BY <1>1, <1>3, <1>4, DebtFacts

\* Whatever is pending when the last disturbance ends has been sent, and left
\* out of the list, after CalmMax bursts of the watcher: flush_pending before
\* every call is enough to drain the list, however many paths are in it.
THEOREM PendingListDrains ==
    ASSUME AllTextual
    PROVE  Spec => []PendingDrains
<1>1. Init => DrainOK
  BY DEF Init, DrainOK, FlushOK
<1>2. IInv /\ IInv' /\ DrainOK /\ [Next]_vars => DrainOK'
  BY AllTextual, AgentAssumption, DrainNext DEF IInv
<1>3. IInv /\ DrainOK => PendingDrains
  BY AgentAssumption, DrainImplies DEF IInv
<1> QED
  BY <1>1, <1>2, <1>3, Invariance, PTL DEF Spec
=============================================================================
