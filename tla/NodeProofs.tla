----------------------------- MODULE NodeProofs -----------------------------
(***************************************************************************)
(* Safety of the node around consensus, for every value of the constants:  *)
(* the fast path, state snapshots, the consensus records, the startup of   *)
(* the process, its RPC server and its keys. The parts share no state;     *)
(* each section gives a part's inductive invariant and what follows.       *)
(***************************************************************************)
EXTENDS FastPath, SnapshotSync, ConsensusRecords, Bootstrap, RpcServer,
        Keystore, FiniteSetTheorems, TLAPS

(***************************************************************************)
(* The fast path (module FastPath)                                         *)
(***************************************************************************)

Signers(s) == {m \in Members : s \in signed[m]}

(* A correct member signs one statement of a view; a vote in the           *)
(* accumulator is forged or was signed by its member; a committed          *)
(* statement was signed by a quorum, active at the time or not.            *)
FastInv ==
    /\ \A v \in Members \ Faulty, s, t \in Statements :
          s \in signed[v] /\ t \in signed[v] /\ s[2] = t[2] => s = t
    /\ \A a \in DOMAIN accumulator \intersect Members :
          accumulator[a] = Forged \/ accumulator[a] \in signed[a]
    /\ activeMembers \subseteq Members
    /\ fastCommits \subseteq Statements
    /\ \A s \in fastCommits : Cardinality(Signers(s)) >= FastQuorum

(* Two quorums of signers share a correct one.                             *)
LEMMA SignersIntersect ==
    ASSUME NEW s, NEW t,
           Cardinality(Signers(s)) >= FastQuorum, Cardinality(Signers(t)) >= FastQuorum
    PROVE  \E v \in Members \ Faulty : s \in signed[v] /\ t \in signed[v]
  <1> DEFINE A == Signers(s)
             B == Signers(t)
             n == Cardinality(Members)
             f == Cardinality(Faulty)
  <1>1. /\ IsFiniteSet(A) /\ Cardinality(A) \in Nat
        /\ IsFiniteSet(B) /\ Cardinality(B) \in Nat
        /\ IsFiniteSet(A \cap B) /\ Cardinality(A \cap B) \in Nat
        /\ IsFiniteSet(Faulty) /\ f \in Nat /\ n \in Nat
    BY FastAssumption, FS_Subset, FS_CardinalityType, Zenon DEF Signers
  <1>2. Cardinality(A \cup B) <= n
    <2>1. A \cup B \subseteq Members
      BY Zenon DEF Signers
    <2> QED BY <2>1, FastAssumption, FS_Subset, Zenon
  <1>3. Cardinality(A \cup B) = Cardinality(A) + Cardinality(B) - Cardinality(A \cap B)
    BY <1>1, FS_Union, Zenon
  <1> HIDE DEF A, B, n, f
  <1>4. Cardinality(A) >= FastQuorum /\ Cardinality(B) >= FastQuorum
    BY Zenon DEF A, B
  <1>5. FastQuorum \in Nat /\ 2 * FastQuorum > n + f
    BY FastAssumption, Zenon DEF n, f
  <1>6. Cardinality(A \cap B) > f
    BY <1>1, <1>2, <1>3, <1>4, <1>5
  <1>7. ~(A \cap B \subseteq Faulty)
    <2> SUFFICES ASSUME A \cap B \subseteq Faulty PROVE FALSE
      OBVIOUS
    <2>1. Cardinality(A \cap B) <= f
      BY <1>1, FS_Subset, Zenon DEF f
    <2> QED BY <1>1, <1>6, <2>1
  <1> QED BY <1>7, Zenon DEF A, B, Signers

(* Nothing is signed, counted or committed at the start.                   *)
LEMMA FastInitially == FastInit => FastInv
  <1> SUFFICES ASSUME FastInit PROVE FastInv
    OBVIOUS
  <1>1. ASSUME NEW v \in Members \ Faulty, NEW s \in Statements, NEW t \in Statements,
               s \in signed[v], t \in signed[v], s[2] = t[2]
        PROVE  s = t
    <2> DEFINE S == {u \in signed[v] : u[2] = s[2]}
    <2>1. s[2] \in FastViews /\ signed[v] \subseteq Statements
      BY Zenon DEF FastInit, Statements
    <2>2. Cardinality(S) = 1 /\ IsFiniteSet(S)
      BY <2>1, FastAssumption, FS_Subset, Zenon DEF FastInit
    <2>3. s \in S /\ t \in S
      BY <1>1, Zenon
    <2> HIDE DEF S
    <2>4. \E x : S = {x}
      BY <2>2, FS_Singleton, Zenon
    <2> QED BY <2>3, <2>4
  <1> QED BY <1>1 DEF FastInit, FastInv

(* A vote that has_quorum counts for a statement is one its member signed. *)
LEMMA QuorumSigned ==
    ASSUME FastInv, NEW votes, NEW s \in Statements,
           \A a \in DOMAIN votes \intersect Members : votes[a] = Forged \/ votes[a] \in signed[a],
           HasQuorum(votes, s)
    PROVE  Cardinality(Signers(s)) >= FastQuorum
  <1> DEFINE Q == {a \in DOMAIN votes \intersect activeMembers : votes[a] = s}
  <1>1. Q \subseteq Signers(s)
    BY FastAssumption, Zenon DEF FastInv, Signers
  <1>2. IsFiniteSet(Signers(s))
    BY FastAssumption, FS_Subset, Zenon DEF Signers
  <1>3. Cardinality(Q) <= Cardinality(Signers(s)) /\ Cardinality(Q) \in Nat
        /\ Cardinality(Signers(s)) \in Nat
    BY <1>1, <1>2, FS_Subset, FS_CardinalityType, Zenon
  <1>4. Cardinality(Q) >= FastQuorum
    BY Zenon DEF HasQuorum
  <1> HIDE DEF Q
  <1> QED BY <1>3, <1>4, FastAssumption

(* Every step of the fast path keeps its invariant: a member signs one     *)
(* statement of a view, a forged vote is not counted, a commit needs a     *)
(* quorum of counted votes.                                                *)
LEMMA FastStep == FastInv /\ [FastNext]_fastVars => FastInv'
  <1> SUFFICES ASSUME FastInv, [FastNext]_fastVars PROVE FastInv'
    OBVIOUS
  <1>1. ASSUME NEW a \in Members \union {Outsider}, NEW sig \in Deliverable(a), AddFastVote(a, sig)
        PROVE  FastInv'
    <2>1. /\ UNCHANGED <<signed, activeMembers, fastCommits>>
          /\ accumulator' = [b \in DOMAIN accumulator \union {a} |->
                                IF b = a THEN sig ELSE accumulator[b]]
      BY <1>1, Zenon DEF AddFastVote
    <2>2. /\ DOMAIN accumulator' = DOMAIN accumulator \union {a}
          /\ \A b \in DOMAIN accumulator' : accumulator'[b] = IF b = a THEN sig ELSE accumulator[b]
      BY <2>1, Zenon
    <2>3. \A b \in DOMAIN accumulator' \intersect Members :
              accumulator'[b] = Forged \/ accumulator'[b] \in signed[b]
      BY <2>2, Zenon DEF FastInv, Deliverable
    <2> QED BY <2>1, <2>3 DEF FastInv, Signers
  <1>2. CASE WindowExpires
    BY <1>2, Zenon DEF FastInv, Signers, WindowExpires
  <1>3. CASE ClearAccumulator
    BY <1>3 DEF FastInv, Signers, ClearAccumulator
  <1>4. ASSUME NEW v \in Members, FastDeactivate(v) PROVE FastInv'
    BY <1>4, Zenon DEF FastInv, Signers, FastDeactivate
  <1>5. ASSUME NEW s \in Statements, TryFastCommit(s) PROVE FastInv'
    <2>1. Cardinality(Signers(s)) >= FastQuorum
      BY <1>5, QuorumSigned, Zenon DEF TryFastCommit, FastInv
    <2> QED BY <1>5, <2>1, Zenon DEF FastInv, Signers, TryFastCommit
  <1>6. ASSUME NEW s \in Statements, FastCommit(s) PROVE FastInv'
    <2> DEFINE votes == [v \in {m \in Members : s \in signed[m]} |-> s]
    <2>1. /\ \A a \in DOMAIN votes \intersect Members : votes[a] = Forged \/ votes[a] \in signed[a]
          /\ HasQuorum(votes, s)
      BY <1>6, Zenon DEF FastCommit, CheckConditions
    <2> HIDE DEF votes
    <2>2. Cardinality(Signers(s)) >= FastQuorum
      BY <2>1, QuorumSigned, Zenon
    <2> QED BY <1>6, <2>2, Zenon DEF FastInv, Signers, FastCommit
  <1>7. CASE UNCHANGED fastVars
    BY <1>7, Zenon DEF FastInv, Signers, fastVars
  <1> QED BY <1>1, <1>2, <1>3, <1>4, <1>5, <1>6, <1>7, Zenon DEF FastNext

(* Whatever votes share an accumulator, replace each other or lose their   *)
(* member, try_fast_commit and fast_commit commit one block of a view.     *)
THEOREM FastCommitsTheorem == FastInit /\ [][FastNext]_fastVars => []FastCommitsAgree
  <1>1. FastInv => FastCommitsAgree
    <2> SUFFICES ASSUME FastInv, NEW s \in fastCommits, NEW t \in fastCommits, s[2] = t[2]
                 PROVE  s = t
      BY Zenon DEF FastCommitsAgree
    <2>1. PICK v \in Members \ Faulty : s \in signed[v] /\ t \in signed[v]
      BY SignersIntersect, Zenon DEF FastInv
    <2> QED BY <2>1, Zenon DEF FastInv
  <1> QED BY <1>1, FastInitially, FastStep, PTL

(***************************************************************************)
(* State snapshots (module SnapshotSync)                                   *)
(***************************************************************************)

(* A manifest's root is that of the block it names, and the snapshot being *)
(* applied is one that was offered.                                        *)
SnapInv ==
    /\ \A s \in offers : s.root = StateAt(s.height)
    /\ applying # NotApplying => applying.offer \in offers
    /\ applying = [offer |-> applying.offer, left |-> applying.left]

(* Every step of server and client keeps the snapshot invariant: what is   *)
(* applied is what the verified offer holds.                               *)
LEMMA SnapStep == SnapInv /\ [SnapNext]_snapVars => SnapInv'
  <1> SUFFICES ASSUME SnapInv, [SnapNext]_snapVars PROVE SnapInv'
    OBVIOUS
  <1> USE DEF SnapInv, server, client
  <1>1. CASE ServerCommitsBlock
    BY <1>1, Zenon DEF ServerCommitsBlock
  <1>2. CASE SignManifest
    BY <1>2 DEF SignManifest
  <1>3. CASE FinishApply
    BY <1>3, Zenon DEF FinishApply, NotApplying
  <1>4. CASE CrashAndRestart
    BY <1>4, Zenon DEF CrashAndRestart, NotApplying
  <1>5. ASSUME NEW loaded \in BOOLEAN, ReplayRecentBlocks(loaded) PROVE SnapInv'
    BY <1>5, Zenon DEF ReplayRecentBlocks
  <1>6. ASSUME NEW h \in Blocks, BeginSnapshot(h) PROVE SnapInv'
    BY <1>6, Zenon DEF BeginSnapshot
  <1>7. ASSUME NEW p \in EntryKinds, ScanPrefix(p) PROVE SnapInv'
    BY <1>7, Zenon DEF ScanPrefix
  <1>8. ASSUME NEW p \in EntryKinds, WriteEntry(p) PROVE SnapInv'
    <2>1. applying # NotApplying
      BY <1>8 DEF WriteEntry, NotApplying
    <2>2. applying'.offer = applying.offer
      BY <1>8, Zenon DEF WriteEntry
    <2> QED BY <1>8, <2>1, <2>2, Zenon DEF WriteEntry
  <1>9. ASSUME NEW s \in offers, BeginApply(s) PROVE SnapInv'
    BY <1>9, Zenon DEF BeginApply
  <1>10. CASE UNCHANGED snapVars
    BY <1>10, Zenon DEF snapVars
  <1> QED BY <1>1, <1>2, <1>3, <1>4, <1>5, <1>6, <1>7, <1>8, <1>9, <1>10, Zenon DEF SnapNext

(* What apply_snapshot accepts, and the root row it leaves, is the state   *)
(* of the block the manifest names, although the scan is not one read and  *)
(* the joining node keeps rows the snapshot lacks.                         *)
THEOREM AcceptedRowsTheorem == SnapInit /\ [][SnapNext]_snapVars => AcceptedRowsAreBlock
  <1>1. SnapInit => SnapInv
    BY Zenon DEF SnapInit, SnapInv, NotApplying
  <1>2. ASSUME SnapInv, [SnapNext]_snapVars, accepted' # accepted
        PROVE  /\ localRows' = StateAt(accepted'.height)
               /\ localTree' = localRows' /\ localRoot' = localRows'
    <2>1. FinishApply
      BY <1>2, Zenon DEF SnapNext, ServerCommitsBlock, SignManifest, CrashAndRestart, ReplayRecentBlocks,
                  BeginSnapshot, ScanPrefix, WriteEntry, BeginApply, client, snapVars
    <2>2. /\ localRows = applying.offer.root /\ localRows' = localRows
          /\ localTree' = localRows /\ localRoot' = localRows
          /\ accepted' = applying.offer /\ applying # NotApplying
      BY <1>2, <2>1, Zenon DEF FinishApply
    <2> QED BY <1>2, <2>2, Zenon DEF SnapInv
  <1>3. SnapInv /\ [SnapNext]_snapVars =>
            [accepted' # accepted =>
                /\ localRows' = StateAt(accepted'.height)
                /\ localTree' = localRows' /\ localRoot' = localRows']_snapVars
    BY <1>2, Zenon
  <1> QED BY <1>1, <1>3, SnapStep, PTL DEF AcceptedRowsAreBlock


(***************************************************************************)
(* The consensus records (module ConsensusRecords)                         *)
(***************************************************************************)

States == [view : Int, locked : LockHeights \union {Nothing}, qc : QcViews \union {Nothing},
           finalized : Int, set : SetHashes \union {Nothing}, recovery : BOOLEAN]

(* a is no later lock, or certificate, than b.                             *)
NoLater(a, b) == a = Nothing \/ (b # Nothing /\ a <= b)
NotPast(s, t) == NoLater(s.locked, t.locked) /\ NoLater(s.qc, t.qc)
RowsNotPast(s) == NoLater(table.locked, s.locked) /\ NoLater(table.qc, s.qc)

(* The rows that persist_consensus_state has still to write.               *)
RowLists ==
    {<<>>, <<"integrity">>, <<"qc", "integrity">>, <<"locked", "integrity">>,
     <<"locked", "qc", "integrity">>,
     <<"snapshot", "integrity">>, <<"snapshot", "qc", "integrity">>,
     <<"snapshot", "locked", "integrity">>, <<"snapshot", "locked", "qc", "integrity">>}
RowSet(w) == {w[i] : i \in DOMAIN w}
Left(row) == row \in RowSet(toWrite)

RecordTypes ==
    /\ record \in States \union {Nothing} /\ pacemaker \in Int
    /\ DOMAIN table = {"snapshot", "locked", "qc", "integrity"}
    /\ table = [r \in DOMAIN table |-> table[r]]
    /\ table.snapshot \in States \union {Nothing} /\ table.integrity \in States \union {Nothing}
    /\ table.locked \in LockHeights \union {Nothing} /\ table.qc \in QcViews \union {Nothing}
    /\ toWrite \in RowLists

(* While a persist runs, the rows it has written are those of the state.   *)
RecordWrites ==
    toWrite # <<>> =>
        /\ record # Nothing
        /\ ~Left("snapshot") => table.snapshot = record
        /\ ~Left("locked") => table.locked = record.locked
        /\ ~Left("qc") => table.qc = record.qc

(* Locks and certificates only move up, so the rows of two persists never  *)
(* mix unseen: if the integrity row still matches the snapshot, lock and   *)
(* certificate lie between the two.                                        *)
RecordOrder ==
    /\ record # Nothing => RowsNotPast(record)
    /\ table.snapshot # Nothing => RowsNotPast(table.snapshot)
    /\ table.snapshot = Nothing => table.locked = Nothing /\ table.qc = Nothing
    /\ table.integrity # Nothing =>
          /\ table.snapshot # Nothing
          /\ NoLater(table.integrity.locked, table.locked)
          /\ NoLater(table.integrity.qc, table.qc)
          /\ record # Nothing => NotPast(table.snapshot, record)
    /\ whole = table.integrity

RecordsInv == RecordTypes /\ RecordWrites /\ RecordOrder

(* The values a record may hold are numbers, and no value is Nothing.      *)
LEMMA RecordConstants ==
    /\ LockHeights \subseteq Int /\ QcViews \subseteq Int /\ PeerViews \subseteq Int
    /\ MaxViewJump \in Int
    /\ Nothing \notin LockHeights /\ Nothing \notin QcViews /\ Nothing \notin States
  BY RecordsAssumption, Zenon DEF States

(* NoLater is an order with Nothing before all heights and views.          *)
LEMMA NoLaterOrder ==
    /\ \A a : NoLater(a, Nothing) => a = Nothing
    /\ \A a, b, c \in LockHeights \union QcViews \union {Nothing} :
          NoLater(a, b) /\ NoLater(b, c) => NoLater(a, c)
    /\ \A a \in LockHeights \union QcViews \union {Nothing} : NoLater(a, a)
    /\ \A a, b \in LockHeights \union QcViews \union {Nothing} :
          NoLater(a, b) /\ NoLater(b, a) => a = b
  BY RecordConstants DEF NoLater

(* The rows of one persist: the snapshot, lock and certificate where the   *)
(* state has them, and the integrity row last.                             *)
LEMMA RowsOfPersist ==
    ASSUME NEW s \in States, NEW w, w = PersistConsensusState(s)
    PROVE  /\ w \in RowLists /\ w # <<>>
           /\ "snapshot" \in RowSet(w)
           /\ s.locked # Nothing => "locked" \in RowSet(w)
           /\ s.qc # Nothing => "qc" \in RowSet(w)
  <1>1. CASE s.locked = Nothing /\ s.qc = Nothing
    <2>1. w = <<"snapshot", "integrity">>
      BY <1>1, Zenon DEF PersistConsensusState
    <2> QED BY <1>1, <2>1 DEF RowLists, RowSet
  <1>2. CASE s.locked = Nothing /\ s.qc # Nothing
    <2>1. w = <<"snapshot", "qc", "integrity">>
      BY <1>2, Zenon DEF PersistConsensusState
    <2> QED BY <1>2, <2>1 DEF RowLists, RowSet
  <1>3. CASE s.locked # Nothing /\ s.qc = Nothing
    <2>1. w = <<"snapshot", "locked", "integrity">>
      BY <1>3, Zenon DEF PersistConsensusState
    <2> QED BY <1>3, <2>1 DEF RowLists, RowSet
  <1>4. CASE s.locked # Nothing /\ s.qc # Nothing
    <2>1. w = <<"snapshot", "locked", "qc", "integrity">>
      BY <1>4, Zenon DEF PersistConsensusState
    <2> QED BY <1>4, <2>1 DEF RowLists, RowSet
  <1> QED BY <1>1, <1>2, <1>3, <1>4, Zenon

(* A setter that moves lock and certificate up, or leaves them, and starts *)
(* to persist.                                                             *)
LEMMA PersistStep ==
    ASSUME RecordsInv, Ready, NEW s \in States, NotPast(record, s), Persist(s), pacemaker' \in Int
    PROVE  RecordsInv'
  <1>1. /\ record' = s /\ toWrite' = PersistConsensusState(s) /\ UNCHANGED <<table, whole>>
        /\ record \in States /\ s # Nothing
    BY RecordConstants, Zenon DEF Persist, Ready, RecordsInv, RecordTypes
  <1>2. /\ toWrite' \in RowLists /\ toWrite' # <<>> /\ Left("snapshot")'
        /\ s.locked # Nothing => Left("locked")'
        /\ s.qc # Nothing => Left("qc")'
    BY <1>1, RowsOfPersist, Zenon DEF Left
  <1>3. /\ s.locked \in LockHeights \union {Nothing} /\ s.qc \in QcViews \union {Nothing}
        /\ record.locked \in LockHeights \union {Nothing}
        /\ record.qc \in QcViews \union {Nothing}
    BY <1>1, Zenon DEF States
  <1>4. RowsNotPast(s)
    <2>1. /\ NoLater(table.locked, record.locked) /\ NoLater(record.locked, s.locked)
          /\ NoLater(table.qc, record.qc) /\ NoLater(record.qc, s.qc)
      BY <1>1, RecordConstants, Zenon DEF RecordsInv, RecordOrder, RowsNotPast, NotPast
    <2>2. table.locked \in LockHeights \union {Nothing} /\ table.qc \in QcViews \union {Nothing}
      BY Zenon DEF RecordsInv, RecordTypes
    <2> QED BY <1>3, <2>1, <2>2, NoLaterOrder DEF RowsNotPast
  <1>5. table.integrity # Nothing => NotPast(table.snapshot, s)
    <2> SUFFICES ASSUME table.integrity # Nothing PROVE NotPast(table.snapshot, s)
      OBVIOUS
    <2>1. table.snapshot \in States /\ NotPast(table.snapshot, record)
      BY <1>1, RecordConstants, Zenon DEF RecordsInv, RecordTypes, RecordOrder
    <2>2. /\ table.snapshot.locked \in LockHeights \union {Nothing}
          /\ table.snapshot.qc \in QcViews \union {Nothing}
      BY <2>1, Zenon DEF States
    <2> QED BY <1>3, <2>1, <2>2, NoLaterOrder, Zenon DEF NotPast
  <1>6. RecordTypes'
    BY <1>1, <1>2, Zenon DEF RecordsInv, RecordTypes
  <1>7. RecordWrites'
    BY <1>1, <1>2, <1>4, NoLaterOrder, Zenon DEF RecordWrites, RowsNotPast
  <1>8. RecordOrder'
    BY <1>1, <1>4, <1>5, Zenon DEF RecordsInv, RecordOrder, RowsNotPast
  <1> QED BY <1>6, <1>7, <1>8, Zenon DEF RecordsInv

(* The setters change one record in memory and keep the invariant.         *)
LEMMA SettersStep ==
    ASSUME RecordsInv,
           \/ AdvanceView \/ SetFinalizedHeight
           \/ \E b \in LockHeights : SetLockedBlock(b)
           \/ \E v \in QcViews : SetHighestQc(v)
           \/ \E h \in SetHashes : UpdateValidatorSetHash(h)
           \/ \E on \in BOOLEAN : SetRecoveryMode(on)
           \/ \E views \in [1..PeerCount -> PeerViews] : SynchronizeViewWithPeers(views)
    PROVE  RecordsInv'
  <1>1. record \in States /\ pacemaker \in Int /\ Ready
    BY Zenon DEF RecordsInv, RecordTypes, AdvanceView, SetFinalizedHeight, SetLockedBlock, SetHighestQc,
           UpdateValidatorSetHash, SetRecoveryMode, SynchronizeViewWithPeers, Ready
  <1>2. /\ record.locked \in LockHeights \union {Nothing} /\ NoLater(record.locked, record.locked)
        /\ record.qc \in QcViews \union {Nothing} /\ NoLater(record.qc, record.qc)
        /\ record.view \in Int /\ record.finalized \in Int
    BY <1>1, NoLaterOrder, Zenon DEF States
  <1>3. CASE AdvanceView
    <2> DEFINE s == [record EXCEPT !.view = @ + 1]
    <2>1. s \in States /\ s.locked = record.locked /\ s.qc = record.qc
      BY <1>1, <1>2 DEF States
    <2>2. Persist(s) /\ pacemaker' \in Int
      BY <1>1, <1>3, Zenon DEF AdvanceView
    <2> HIDE DEF s
    <2> QED BY <1>1, <1>2, <2>1, <2>2, PersistStep, Zenon DEF NotPast
  <1>4. CASE SetFinalizedHeight
    <2> DEFINE s == [record EXCEPT !.finalized = @ + 1]
    <2>1. s \in States /\ s.locked = record.locked /\ s.qc = record.qc
      BY <1>1, <1>2 DEF States
    <2>2. Persist(s) /\ pacemaker' \in Int
      BY <1>1, <1>4, Zenon DEF SetFinalizedHeight
    <2> HIDE DEF s
    <2> QED BY <1>1, <1>2, <2>1, <2>2, PersistStep DEF NotPast
  <1>5. ASSUME NEW b \in LockHeights, SetLockedBlock(b) PROVE RecordsInv'
    <2> DEFINE s == [record EXCEPT !.locked = b]
    <2>1. s \in States /\ s.locked = b /\ s.qc = record.qc
      BY <1>1, Zenon DEF States
    <2>2. Persist(s) /\ pacemaker' \in Int /\ Above(b, record.locked)
      BY <1>1, <1>5, Zenon DEF SetLockedBlock
    <2>3. NoLater(record.locked, b)
      BY <1>2, <2>2, RecordConstants DEF Above, NoLater
    <2> HIDE DEF s
    <2> QED BY <1>1, <1>2, <2>1, <2>2, <2>3, PersistStep, Zenon DEF NotPast
  <1>6. ASSUME NEW v \in QcViews, SetHighestQc(v) PROVE RecordsInv'
    <2> DEFINE s == [record EXCEPT !.qc = v]
    <2>1. s \in States /\ s.locked = record.locked /\ s.qc = v
      BY <1>1, Zenon DEF States
    <2>2. Persist(s) /\ pacemaker' \in Int /\ Above(v, record.qc)
      BY <1>1, <1>6, Zenon DEF SetHighestQc
    <2>3. NoLater(record.qc, v)
      BY <1>2, <2>2, RecordConstants DEF Above, NoLater
    <2> HIDE DEF s
    <2> QED BY <1>1, <1>2, <2>1, <2>2, <2>3, PersistStep, Zenon DEF NotPast
  <1>7. ASSUME NEW h \in SetHashes, UpdateValidatorSetHash(h) PROVE RecordsInv'
    <2> DEFINE s == [record EXCEPT !.set = h]
    <2>1. s \in States /\ s.locked = record.locked /\ s.qc = record.qc
      BY <1>1, Zenon DEF States
    <2>2. Persist(s) /\ pacemaker' \in Int
      BY <1>1, <1>7, Zenon DEF UpdateValidatorSetHash
    <2> HIDE DEF s
    <2> QED BY <1>1, <1>2, <2>1, <2>2, PersistStep, Zenon DEF NotPast
  <1>8. ASSUME NEW on \in BOOLEAN, SetRecoveryMode(on) PROVE RecordsInv'
    <2> DEFINE s == [record EXCEPT !.recovery = on]
    <2>1. s \in States /\ s.locked = record.locked /\ s.qc = record.qc
      BY <1>1, Zenon DEF States
    <2>2. Persist(s) /\ pacemaker' \in Int
      BY <1>1, <1>8, Zenon DEF SetRecoveryMode
    <2> HIDE DEF s
    <2> QED BY <1>1, <1>2, <2>1, <2>2, PersistStep, Zenon DEF NotPast
  <1>9. ASSUME NEW views \in [1..PeerCount -> PeerViews], SynchronizeViewWithPeers(views)
        PROVE  RecordsInv'
    <2> DEFINE s == [record EXCEPT !.view = pacemaker']
    <2>1. Persist(s) /\ pacemaker' \in Int
      BY <1>1, <1>9, RecordConstants, Zenon DEF SynchronizeViewWithPeers, Adopted
    <2>2. s \in States /\ s.locked = record.locked /\ s.qc = record.qc
      BY <1>1, <2>1, Zenon DEF States
    <2> HIDE DEF s
    <2> QED BY <1>1, <1>2, <2>1, <2>2, PersistStep, Zenon DEF NotPast
  <1> QED BY <1>3, <1>4, <1>5, <1>6, <1>7, <1>8, <1>9, Zenon

(* What is left after the first row of a list: the rows keep their order.  *)
LEMMA RestOfRows ==
    ASSUME NEW w \in RowLists, w # <<>>
    PROVE  /\ Head(w) \in {"snapshot", "locked", "qc", "integrity"} /\ Tail(w) \in RowLists
           /\ Head(w) = "integrity" <=> w = <<"integrity">>
           /\ Head(w) # "integrity" => Tail(w) # <<>> /\ Len(w) # 1
           /\ RowSet(Tail(w)) = RowSet(w) \ {Head(w)}
           /\ Head(w) # "snapshot" => "snapshot" \notin RowSet(w)
           /\ Head(w) \in {"qc", "integrity"} => "locked" \notin RowSet(w)
           /\ Head(w) = "integrity" => "qc" \notin RowSet(w)
  <1>1. CASE w = <<"integrity">>
    <2>1. /\ Head(w) = "integrity" /\ Len(w) = 1
          /\ Tail(w) = <<>>
      BY <1>1
    <2>2. RowSet(w) = {"integrity"} /\ RowSet(Tail(w)) = {}
      BY <1>1, <2>1 DEF RowSet
    <2> QED BY <2>1, <2>2 DEF RowLists
  <1>2. CASE w = <<"qc", "integrity">>
    <2>1. /\ Head(w) = "qc" /\ Len(w) = 2
          /\ Tail(w) = <<"integrity">>
      BY <1>2
    <2>2. RowSet(w) = {"qc", "integrity"} /\ RowSet(Tail(w)) = {"integrity"}
      BY <1>2, <2>1 DEF RowSet
    <2> QED BY <2>1, <2>2 DEF RowLists
  <1>3. CASE w = <<"locked", "integrity">>
    <2>1. /\ Head(w) = "locked" /\ Len(w) = 2
          /\ Tail(w) = <<"integrity">>
      BY <1>3
    <2>2. RowSet(w) = {"locked", "integrity"} /\ RowSet(Tail(w)) = {"integrity"}
      BY <1>3, <2>1 DEF RowSet
    <2> QED BY <2>1, <2>2 DEF RowLists
  <1>4. CASE w = <<"locked", "qc", "integrity">>
    <2>1. /\ Head(w) = "locked" /\ Len(w) = 3
          /\ Tail(w) = <<"qc", "integrity">>
      BY <1>4
    <2>2. RowSet(w) = {"locked", "qc", "integrity"} /\ RowSet(Tail(w)) = {"qc", "integrity"}
      BY <1>4, <2>1 DEF RowSet
    <2> QED BY <2>1, <2>2 DEF RowLists
  <1>5. CASE w = <<"snapshot", "integrity">>
    <2>1. /\ Head(w) = "snapshot" /\ Len(w) = 2
          /\ Tail(w) = <<"integrity">>
      BY <1>5
    <2>2. RowSet(w) = {"snapshot", "integrity"} /\ RowSet(Tail(w)) = {"integrity"}
      BY <1>5, <2>1 DEF RowSet
    <2> QED BY <2>1, <2>2 DEF RowLists
  <1>6. CASE w = <<"snapshot", "qc", "integrity">>
    <2>1. /\ Head(w) = "snapshot" /\ Len(w) = 3
          /\ Tail(w) = <<"qc", "integrity">>
      BY <1>6
    <2>2. RowSet(w) = {"snapshot", "qc", "integrity"} /\ RowSet(Tail(w)) = {"qc", "integrity"}
      BY <1>6, <2>1 DEF RowSet
    <2> QED BY <2>1, <2>2 DEF RowLists
  <1>7. CASE w = <<"snapshot", "locked", "integrity">>
    <2>1. /\ Head(w) = "snapshot" /\ Len(w) = 3
          /\ Tail(w) = <<"locked", "integrity">>
      BY <1>7
    <2>2. RowSet(w) = {"snapshot", "locked", "integrity"} /\ RowSet(Tail(w)) = {"locked", "integrity"}
      BY <1>7, <2>1 DEF RowSet
    <2> QED BY <2>1, <2>2 DEF RowLists
  <1>8. CASE w = <<"snapshot", "locked", "qc", "integrity">>
    <2>1. /\ Head(w) = "snapshot" /\ Len(w) = 4
          /\ Tail(w) = <<"locked", "qc", "integrity">>
      BY <1>8
    <2>2. RowSet(w) = {"snapshot", "locked", "qc", "integrity"} /\ RowSet(Tail(w)) = {"locked", "qc", "integrity"}
      BY <1>8, <2>1 DEF RowSet
    <2> QED BY <2>1, <2>2 DEF RowLists
  <1> QED BY <1>1, <1>2, <1>3, <1>4, <1>5, <1>6, <1>7, <1>8, Zenon DEF RowLists

(* One row is written; the last one completes the persist.                 *)
LEMMA WriteRowStep ==
    ASSUME RecordsInv, WriteRecordRow
    PROVE  RecordsInv'
  <1>1. /\ toWrite # <<>> /\ toWrite \in RowLists /\ record # Nothing /\ record \in States
        /\ table' = [table EXCEPT ![Head(toWrite)] = RowOf(record, Head(toWrite))]
        /\ toWrite' = Tail(toWrite)
        /\ whole' = (IF Len(toWrite) = 1 THEN record ELSE whole)
        /\ UNCHANGED <<record, pacemaker>>
    BY Zenon DEF WriteRecordRow, RecordsInv, RecordTypes, RecordWrites
  <1>2. /\ record.locked \in LockHeights \union {Nothing} /\ NoLater(record.locked, record.locked)
        /\ record.qc \in QcViews \union {Nothing} /\ NoLater(record.qc, record.qc)
    BY <1>1, NoLaterOrder, Zenon DEF States
  <1>3. /\ DOMAIN table = {"snapshot", "locked", "qc", "integrity"}
        /\ table = [r \in DOMAIN table |-> table[r]]
        /\ RowsNotPast(record)
    BY <1>1, Zenon DEF RecordsInv, RecordTypes, RecordOrder
  <1>4. CASE Head(toWrite) = "snapshot"
    <2>1. /\ table' = [table EXCEPT !["snapshot"] = record] /\ whole' = whole
          /\ toWrite' \in RowLists /\ toWrite' # <<>>
          /\ \A r \in {"locked", "qc"} : Left(r)' <=> Left(r)
      BY <1>1, <1>4, RestOfRows, Zenon DEF RowOf, Left
    <2>2. /\ table'.snapshot = record /\ table'.locked = table.locked /\ table'.qc = table.qc
          /\ table'.integrity = table.integrity /\ DOMAIN table' = DOMAIN table
          /\ table' = [r \in DOMAIN table' |-> table'[r]]
      BY <1>3, <2>1, Zenon
    <2>3. RecordTypes'
      BY <1>1, <1>3, <2>1, <2>2, Zenon DEF RecordsInv, RecordTypes
    <2>4. RecordWrites'
      BY <1>1, <2>1, <2>2, Zenon DEF RecordsInv, RecordWrites
    <2>5. RecordOrder'
      BY <1>1, <1>2, <1>3, <2>1, <2>2 DEF RecordsInv, RecordOrder, RowsNotPast, NotPast
    <2> QED BY <2>3, <2>4, <2>5, Zenon DEF RecordsInv
  <1>5. CASE Head(toWrite) = "locked"
    <2>1. /\ table' = [table EXCEPT !["locked"] = record.locked] /\ whole' = whole
          /\ toWrite' \in RowLists /\ toWrite' # <<>>
          /\ ~Left("snapshot") /\ ~Left("snapshot")' /\ (Left("qc")' <=> Left("qc"))
      BY <1>1, <1>5, RestOfRows, Zenon DEF RowOf, Left
    <2>2. /\ table'.snapshot = table.snapshot /\ table'.locked = record.locked
          /\ table'.qc = table.qc
          /\ table'.integrity = table.integrity /\ DOMAIN table' = DOMAIN table
          /\ table' = [r \in DOMAIN table' |-> table'[r]]
      BY <1>3, <2>1, Zenon
    <2>3. table.snapshot = record
      BY <1>1, <2>1, Zenon DEF RecordsInv, RecordWrites
    <2>4. RecordTypes'
      BY <1>1, <1>2, <1>3, <2>1, <2>2, Zenon DEF RecordsInv, RecordTypes
    <2>5. RecordWrites'
      BY <1>1, <2>1, <2>2, <2>3, Zenon DEF RecordsInv, RecordWrites
    <2>6. table.integrity # Nothing => NoLater(table.integrity.locked, record.locked)
      <3> SUFFICES ASSUME table.integrity # Nothing
                   PROVE  NoLater(table.integrity.locked, record.locked)
        OBVIOUS
      <3>1. /\ NoLater(table.integrity.locked, table.locked) /\ NoLater(table.locked, record.locked)
            /\ table.integrity \in States /\ table.locked \in LockHeights \union {Nothing}
        BY <1>3, Zenon DEF RecordsInv, RecordOrder, RecordTypes, RowsNotPast
      <3>2. table.integrity.locked \in LockHeights \union {Nothing}
        BY <3>1, Zenon DEF States
      <3> QED BY <1>2, <3>1, <3>2, NoLaterOrder, Zenon
    <2>7. RecordOrder'
      BY <1>1, <1>2, <1>3, <2>1, <2>2, <2>3, <2>6 DEF RecordsInv, RecordOrder, RowsNotPast, NotPast
    <2> QED BY <2>4, <2>5, <2>7 DEF RecordsInv
  <1>6. CASE Head(toWrite) = "qc"
    <2>1. /\ table' = [table EXCEPT !["qc"] = record.qc] /\ whole' = whole
          /\ toWrite' \in RowLists /\ toWrite' # <<>>
          /\ ~Left("snapshot") /\ ~Left("snapshot")' /\ ~Left("locked")
      BY <1>1, <1>6, RestOfRows, Zenon DEF RowOf, Left
    <2>2. /\ table'.snapshot = table.snapshot /\ table'.locked = table.locked
          /\ table'.qc = record.qc
          /\ table'.integrity = table.integrity /\ DOMAIN table' = DOMAIN table
          /\ table' = [r \in DOMAIN table' |-> table'[r]]
      BY <1>3, <2>1, Zenon
    <2>3. table.snapshot = record /\ table.locked = record.locked
      BY <1>1, <2>1, Zenon DEF RecordsInv, RecordWrites
    <2>4. RecordTypes'
      BY <1>1, <1>2, <1>3, <2>1, <2>2, Zenon DEF RecordsInv, RecordTypes
    <2>5. RecordWrites'
      BY <1>1, <2>1, <2>2, <2>3, Zenon DEF RecordsInv, RecordWrites
    <2>6. table.integrity # Nothing => NoLater(table.integrity.qc, record.qc)
      <3> SUFFICES ASSUME table.integrity # Nothing
                   PROVE  NoLater(table.integrity.qc, record.qc)
        OBVIOUS
      <3>1. /\ NoLater(table.integrity.qc, table.qc) /\ NoLater(table.qc, record.qc)
            /\ table.integrity \in States /\ table.qc \in QcViews \union {Nothing}
        BY <1>3, Zenon DEF RecordsInv, RecordOrder, RecordTypes, RowsNotPast
      <3>2. table.integrity.qc \in QcViews \union {Nothing}
        BY <3>1, Zenon DEF States
      <3> QED BY <1>2, <3>1, <3>2, NoLaterOrder, Zenon
    <2>7. RecordOrder'
      BY <1>1, <1>2, <1>3, <2>1, <2>2, <2>3, <2>6 DEF RecordsInv, RecordOrder, RowsNotPast, NotPast
    <2> QED BY <2>4, <2>5, <2>7 DEF RecordsInv
  <1>7. CASE Head(toWrite) = "integrity"
    <2>1. toWrite = <<"integrity">>
      BY <1>1, <1>7, RestOfRows, Zenon
    <2>2. /\ table' = [table EXCEPT !["integrity"] = record] /\ whole' = record /\ toWrite' = <<>>
          /\ ~Left("snapshot") /\ ~Left("locked") /\ ~Left("qc")
      BY <1>1, <1>7, <2>1, RestOfRows DEF RowOf, Left, ComputeIntegrity
    <2>3. /\ table'.snapshot = table.snapshot /\ table'.locked = table.locked
          /\ table'.qc = table.qc
          /\ table'.integrity = record /\ DOMAIN table' = DOMAIN table
          /\ table' = [r \in DOMAIN table' |-> table'[r]]
      BY <1>3, <2>2, Zenon
    <2>4. /\ table.snapshot = record /\ table.locked = record.locked /\ table.qc = record.qc
      BY <1>1, <2>2, Zenon DEF RecordsInv, RecordWrites
    <2>5. RecordTypes' /\ RecordWrites'
      BY <1>1, <1>3, <2>2, <2>3, Zenon DEF RecordsInv, RecordTypes, RecordWrites, RowLists
    <2>6. RecordOrder'
      BY <1>1, <1>2, <2>2, <2>3, <2>4, Zenon DEF RecordsInv, RecordOrder, RowsNotPast, NotPast
    <2> QED BY <2>5, <2>6, Zenon DEF RecordsInv
  <1> QED BY <1>1, <1>4, <1>5, <1>6, <1>7, RestOfRows, Zenon

(* Loading the snapshot row, or restoring all rows, when the integrity row *)
(* does not refuse it.                                                     *)
LEMMA LoadStep ==
    ASSUME RecordsInv, LoadOrInit \/ RestoreAtStartup
    PROVE  RecordsInv'
  <1> DEFINE s == LoadConsensusState(table)
  <1>1. /\ UNCHANGED <<table, toWrite, whole>> /\ record = Nothing /\ ~LoadRefused(table)
        /\ toWrite = <<>>
    BY Zenon DEF LoadOrInit, RestoreAtStartup, RecordsInv, RecordWrites
  <1>2. s \in States /\ RowsNotPast(s) /\ (table.snapshot # Nothing => s = table.snapshot)
    <2>1. CASE table.snapshot = Nothing
      BY <2>1 DEF LoadConsensusState, Fresh, States, RecordsInv, RecordOrder, RowsNotPast, NoLater
    <2>2. CASE table.snapshot # Nothing
      BY <2>2, Zenon DEF LoadConsensusState, RecordsInv, RecordTypes, RecordOrder
    <2> QED BY <2>1, <2>2, Zenon
  <1>3. /\ s.locked \in LockHeights \union {Nothing} /\ s.qc \in QcViews \union {Nothing}
        /\ NoLater(s.locked, s.locked) /\ NoLater(s.qc, s.qc) /\ s.view \in Int
        /\ table.locked \in LockHeights \union {Nothing} /\ table.qc \in QcViews \union {Nothing}
        /\ NoLater(table.locked, table.locked) /\ NoLater(table.qc, table.qc)
    BY <1>2, NoLaterOrder DEF States, RecordsInv, RecordTypes
  <1>4. table.integrity # Nothing =>
            /\ s = table.snapshot /\ s = table.integrity
            /\ NoLater(s.locked, table.locked) /\ NoLater(s.qc, table.qc)
    BY <1>1, <1>2, Zenon DEF LoadRefused, VerifyIntegrity, ComputeIntegrity, RecordsInv, RecordOrder
  <1> HIDE DEF s
  <1>5. record' \in States /\ pacemaker' \in Int /\ RowsNotPast(record')
        /\ (table.integrity # Nothing => NotPast(s, record'))
    <2>1. CASE LoadOrInit
      BY <1>2, <1>3, <2>1, Zenon DEF LoadOrInit, NotPast, RecordsInv, RecordTypes, s
    <2>2. CASE RestoreAtStartup
      <3>1. record' = [s EXCEPT !.locked = IF table.locked = Nothing THEN s.locked ELSE table.locked,
                                !.qc = IF table.qc = Nothing THEN s.qc ELSE table.qc]
        BY <2>2, Zenon DEF RestoreAtStartup, RestoreFullConsensus, RestoreLockedBlock, RestoreHighestQc, s
      <3>2. /\ record' \in States
            /\ record'.locked = (IF table.locked = Nothing THEN s.locked ELSE table.locked)
            /\ record'.qc = (IF table.qc = Nothing THEN s.qc ELSE table.qc)
        BY <1>2, <1>3, <3>1, Zenon DEF States
      <3>3. pacemaker' \in Int
        <4>1. pacemaker \in Int /\ pacemaker' = Max({pacemaker, s.view})
          BY <2>2, Zenon DEF RestoreAtStartup, RecordsInv, RecordTypes, s
        <4>2. \E x \in {pacemaker, s.view} : \A y \in {pacemaker, s.view} : x >= y
          BY <1>3, <4>1
        <4> QED BY <1>3, <4>1, <4>2, Zenon DEF Max
      <3>4. RowsNotPast(record')
        BY <1>2, <1>3, <3>2, Zenon DEF RowsNotPast
      <3>5. table.integrity # Nothing => NotPast(s, record')
        BY <1>3, <1>4, <3>2, Zenon DEF NotPast
      <3> QED BY <3>2, <3>3, <3>4, <3>5, Zenon
    <2> QED BY <2>1, <2>2, Zenon
  <1>6. RecordTypes' /\ RecordWrites'
    BY <1>1, <1>5, Zenon DEF RecordsInv, RecordTypes, RecordWrites
  <1>7. RecordOrder'
    BY <1>1, <1>4, <1>5, Zenon DEF RecordsInv, RecordOrder, RowsNotPast
  <1> QED BY <1>6, <1>7, Zenon DEF RecordsInv

(* Every step of the consensus records keeps the invariant.                *)
LEMMA RecordsStep == RecordsInv /\ [RecordsNext]_recordVars => RecordsInv'
  <1> SUFFICES ASSUME RecordsInv, [RecordsNext]_recordVars PROVE RecordsInv'
    OBVIOUS
  <1>1. CASE WriteRecordFails
    <2>1. UNCHANGED <<record, table, pacemaker, whole>> /\ toWrite' = <<>>
      BY <1>1, Zenon DEF WriteRecordFails
    <2> QED BY <2>1 DEF RecordsInv, RecordTypes, RecordWrites, RecordOrder, RowsNotPast, RowLists
  <1>2. CASE RecordsCrash
    <2>1. UNCHANGED <<table, whole>> /\ toWrite' = <<>> /\ record' = Nothing /\ pacemaker' = 0
      BY <1>2, Zenon DEF RecordsCrash
    <2> QED BY <2>1 DEF RecordsInv, RecordTypes, RecordWrites, RecordOrder, RowsNotPast, RowLists
  <1>3. CASE PacemakerAdvances \/ CheckpointFinalizedBlock
    <2>1. UNCHANGED <<record, table, toWrite, whole>> /\ pacemaker' \in Int
      BY <1>3 DEF PacemakerAdvances, CheckpointFinalizedBlock, RecordsInv, RecordTypes
    <2> QED BY <2>1 DEF RecordsInv, RecordTypes, RecordWrites, RecordOrder, RowsNotPast, Left
  <1>4. CASE UNCHANGED recordVars
    BY <1>4 DEF recordVars, RecordsInv, RecordTypes, RecordWrites, RecordOrder, RowsNotPast, Left
  <1>5. CASE WriteRecordRow
    BY <1>5, WriteRowStep, Zenon
  <1>6. CASE LoadOrInit \/ RestoreAtStartup
    BY <1>6, LoadStep, Zenon
  <1> QED BY <1>1, <1>2, <1>3, <1>4, <1>5, <1>6, SettersStep, Zenon DEF RecordsNext

(* Once an integrity row exists, what restore_full_consensus builds from   *)
(* rows that pass verify_integrity is the state of one complete persist.   *)
THEOREM RestoredTheorem == RecordsInit /\ [][RecordsNext]_recordVars => []RestoredIsWhole
  <1>1. RecordsInit => RecordsInv
    <2> SUFFICES ASSUME RecordsInit PROVE RecordsInv
      OBVIOUS
    <2>1. Fresh \in States
      BY DEF Fresh, States
    <2>2. RecordTypes
      BY <2>1 DEF RecordsInit, RecordTypes, RowLists
    <2>3. RecordWrites /\ RecordOrder
      BY Zenon DEF RecordsInit, RecordWrites, RecordOrder, RowsNotPast, NoLater
    <2> QED BY <2>2, <2>3, Zenon DEF RecordsInv
  <1>2. RecordsInv => RestoredIsWhole
    <2> SUFFICES ASSUME RecordsInv, table.integrity # Nothing, ~LoadRefused(table)
                 PROVE  /\ RestoreFullConsensus(table) = whole
                        /\ Ready /\ record # whole => DetectInconsistentState(table, record) # "ok"
      BY Zenon DEF RestoredIsWhole
    <2> DEFINE s == table.snapshot
    <2>1. /\ s \in States /\ s # Nothing /\ s = table.integrity /\ whole = s
      BY RecordConstants, Zenon DEF RecordsInv, RecordTypes, RecordOrder, LoadRefused, VerifyIntegrity,
                             ComputeIntegrity
    <2>2. /\ NoLater(s.locked, table.locked) /\ NoLater(table.locked, s.locked)
          /\ NoLater(s.qc, table.qc) /\ NoLater(table.qc, s.qc)
      BY <2>1, Zenon DEF RecordsInv, RecordOrder, RowsNotPast
    <2>3. /\ s.locked \in LockHeights \union {Nothing} /\ s.qc \in QcViews \union {Nothing}
          /\ table.locked \in LockHeights \union {Nothing} /\ table.qc \in QcViews \union {Nothing}
      BY <2>1, Zenon DEF States, RecordsInv, RecordTypes
    <2>4. table.locked = s.locked /\ table.qc = s.qc
      BY <2>2, <2>3, NoLaterOrder
    <2>5. RestoreFullConsensus(table) = [s EXCEPT !.locked = s.locked, !.qc = s.qc]
      BY <2>1, <2>4, Zenon DEF RestoreFullConsensus, LoadConsensusState, RestoreLockedBlock,
                        RestoreHighestQc
    <2> HIDE DEF s
    <2>6. [s EXCEPT !.locked = s.locked, !.qc = s.qc] = s
      BY <2>1, Zenon DEF States
    <2>7. record # whole => DetectInconsistentState(table, record) # "ok"
      BY <2>1, Zenon DEF DetectInconsistentState, ComputeIntegrity
    <2> QED BY <2>1, <2>5, <2>6, <2>7, Zenon
  <1> QED BY <1>1, <1>2, RecordsStep, PTL

(***************************************************************************)
(* Startup (module Bootstrap)                                              *)
(***************************************************************************)

Allocated == [a \in Accounts |-> "genesis"]
StakedOnce == \A v \in Founders : stakes[v] = 1
Unstaked == \A v \in Founders : stakes[v] = 0

(* The rows of a chain that is being created, at any point where the       *)
(* process may have died.                                                  *)
BootRows ==
    /\ balances \in [Accounts -> {"none", "genesis", "spent"}]
    /\ stakes \in [Founders -> {0, 1}]
    /\ chainHeight \in {0, 1}
    /\ founderRow = {} \/ founderRow = {Founders}
    /\ genesisBlock = {} \/ genesisBlock = {Allocated}
    /\ genesisBlock = {} => Unstaked /\ founderRow = {}
    /\ founderRow # {} => StakedOnce
    /\ chainHeight = 1 => genesisBlock # {} /\ rootRow = {balances}

(* What startup has established at each of its steps: founders are staked  *)
(* unconditionally only where none has a position yet, in a process that   *)
(* wrote the genesis block itself.                                         *)
BootSteps ==
    /\ step \in {"down", "alloc", "block", "root", "chainId", "founders", "restore", "fallback",
                 "network", "running"}
    /\ members \subseteq Founders
    /\ step \in {"block", "root", "chainId", "founders"} => chainHeight = 0 /\ founderRow = {}
    /\ step = "block" => genesisBlock = {}
    /\ step \in {"alloc", "block", "root", "chainId"} => members = {}
    /\ step \in {"block", "root", "chainId"} => Unstaked
    /\ step = "founders" => \A v \in Founders : stakes[v] = IF v \in members THEN 1 ELSE 0
    /\ step = "fallback" => \A v \in members : stakes[v] = 1
    /\ step \notin {"down", "alloc", "block"} => genesisBlock # {}
    /\ step \notin {"down", "alloc"} /\ chainHeight = 0 => balances = Allocated
    /\ step \in {"network", "running"} => members = Founders /\ StakedOnce

(* A process beyond the gates has passed them, with the keys they gave.    *)
BootGates ==
    step # "down" =>
        /\ machine \in Machines /\ MayStart(machine)
        /\ seed = ValidatorSeed(machine) /\ p2pSeed = ResolveP2pSeed(machine)

BootInv == BootRows /\ BootSteps

(* A process that has not started has set nothing up.                      *)
LEMMA BootInitially == BootInit => BootInv /\ BootGates
  <1> SUFFICES ASSUME BootInit PROVE BootInv /\ BootGates
    OBVIOUS
  <1> USE DEF BootInit
  <1>1. BootRows
    BY DEF BootRows, NoAlloc, Unstaked
  <1>2. BootSteps
    BY Zenon DEF BootSteps
  <1> QED BY <1>1, <1>2, Zenon DEF BootInv, BootGates

(* Every step of the startup keeps the order of its gates.                 *)
LEMMA BootGatesStep == BootGates /\ [BootNext]_bootVars => BootGates'
  <1> SUFFICES ASSUME BootGates, [BootNext]_bootVars PROVE BootGates'
    OBVIOUS
  <1>1. ASSUME NEW m \in Machines, StartProcess(m) PROVE BootGates'
    BY <1>1, Zenon DEF StartProcess, BootGates
  <1>2. CASE UNCHANGED identity /\ step # "down"
    BY <1>2, Zenon DEF BootGates, identity
  <1>3. CASE ProcessDies
    BY <1>3, Zenon DEF ProcessDies, Goto, BootGates
  <1>4. CASE UNCHANGED bootVars
    BY <1>4, Zenon DEF bootVars, BootGates
  <1> QED BY <1>1, <1>2, <1>3, <1>4, Zenon DEF BootNext, ApplyGenesisAllocation, FinalizeFirstBlock,
            EndAllocations, WriteGenesisBlock, WriteStateRoot, WriteChainId, StakeFounder,
            FallbackFounder, PersistFounders, RestoreConsensusState, PersistFallback,
            StartNetworkingLayer

(* Every step of the startup keeps what a started service relies on.       *)
LEMMA BootInvStep == BootInv /\ [BootNext]_bootVars => BootInv'
  <1> SUFFICES ASSUME BootInv, [BootNext]_bootVars PROVE BootInv'
    OBVIOUS
  <1> USE DEF BootInv, BootRows, BootSteps, StakedOnce, Unstaked, Goto, durable
  <1>1. ASSUME NEW m \in Machines, StartProcess(m) PROVE BootInv'
    BY <1>1, Zenon DEF StartProcess
  <1>2. ASSUME NEW a \in Accounts, ApplyGenesisAllocation(a) PROVE BootInv'
    BY <1>2 DEF ApplyGenesisAllocation
  <1>3. ASSUME NEW a \in Accounts, FinalizeFirstBlock(a) PROVE BootInv'
    BY <1>3 DEF FinalizeFirstBlock
  <1>4. CASE EndAllocations
    <2>1. chainHeight = 0 => balances = Allocated
      BY <1>4, Zenon DEF EndAllocations, Allocated
    <2> QED BY <1>4, <2>1, Zenon DEF EndAllocations
  <1>5. CASE WriteGenesisBlock
    BY <1>5, Zenon DEF WriteGenesisBlock
  <1>6. CASE WriteStateRoot
    BY <1>6, Zenon DEF WriteStateRoot
  <1>7. CASE WriteChainId
    BY <1>7, Zenon DEF WriteChainId
  <1>8. ASSUME NEW v \in Founders, StakeFounder(v) PROVE BootInv'
    BY <1>8 DEF StakeFounder
  <1>9. ASSUME NEW v \in Founders, FallbackFounder(v) PROVE BootInv'
    BY <1>9 DEF FallbackFounder
  <1>10. CASE PersistFounders
    BY <1>10, Zenon DEF PersistFounders
  <1>11. CASE RestoreConsensusState
    <2>1. UNION founderRow = {} \/ (UNION founderRow = Founders /\ founderRow # {})
      OBVIOUS
    <2> QED BY <1>11, <2>1, Zenon DEF RestoreConsensusState
  <1>12. CASE PersistFallback
    BY <1>12, Zenon DEF PersistFallback
  <1>13. CASE StartNetworkingLayer
    BY <1>13, Zenon DEF StartNetworkingLayer
  <1>14. CASE ProcessDies
    BY <1>14 DEF ProcessDies
  <1>15. CASE UNCHANGED bootVars
    BY <1>15 DEF bootVars
  <1> QED BY <1>1, <1>2, <1>3, <1>4, <1>5, <1>6, <1>7, <1>8, <1>9, <1>10, <1>11, <1>12, <1>13,
             <1>14, <1>15, Zenon DEF BootNext

(* The gates: in production the SRS mode makes is_production true, so the  *)
(* key sources refuse trivial keys and derive no network seed.             *)
LEMMA GatesGiveIdentity ==
    ASSUME NEW m \in Machines, MayStart(m), IsMainnetOrProduction(m)
    PROVE  /\ ValidatorSeed(m) # "trivial" /\ ResolveP2pSeed(m) # "derived"
           /\ m.srsFile = "ceremony"
  <1>1. CheckSrsMode(m)
    BY Zenon DEF MayStart, CollectProductionPreflightFailures
  <1>2. IsProduction(m) /\ m.srsFile = "ceremony"
    BY <1>1, Zenon DEF CheckSrsMode, IsProduction
  <1>3. ResolveP2pSeed(m) # "derived"
    BY <1>2, BootAssumption, Zenon DEF ResolveP2pSeed
  <1>4. \A key : RejectIfTrivial(m, key) # "trivial"
    BY <1>2, Zenon DEF RejectIfTrivial
  <1>5. ResolveValidatorSeed(m) # "trivial"
    BY <1>4, Zenon DEF ResolveValidatorSeed
  <1> QED BY <1>2, <1>3, <1>5, Zenon DEF ValidatorSeed

(* However often startup is cut short between two of its writes, a node    *)
(* that comes up has a whole genesis with every founder staked once, and   *)
(* in production an identity of its own.                                   *)
THEOREM BootstrapTheorem == BootInit /\ [][BootNext]_bootVars => []BootstrapSound
  <1>1. BootInv => GenesisCompletedOnce
    BY Zenon DEF BootInv, BootRows, BootSteps, StakedOnce, GenesisCompletedOnce
  <1>2. BootGates => ProductionIdentity
    BY GatesGiveIdentity, Zenon DEF BootGates, ProductionIdentity
  <1>3. BootInv /\ BootGates => BootstrapSound
    BY <1>1, <1>2, Zenon DEF BootstrapSound
  <1> QED BY <1>3, BootInitially, BootGatesStep, BootInvStep, PTL


(***************************************************************************)
(* The RPC server (module RpcServer)                                       *)
(***************************************************************************)

Stages == {"idle", "throttle", "stat", "read", "swap", "stamp", "authorize", "handle"}

TaskStates == [at : Stages, request : Requests, stamp : Int, read : KeyFiles \union {{}},
               authorized : BOOLEAN, next : Nat \ {0}]
Sessions == [open : BOOLEAN, authenticated : BOOLEAN, topics : SUBSET Int, nextId : Int]

(* A task in a handler was let in by its token, or asks for nothing that   *)
(* needs one.                                                              *)
LetIn(k) ==
    \/ k.authorized
    \/ k.request.path \in {"ws", "open"}
    \/ k.request.path = "rpc" /\ ~BodyRequiresAuth(k.request.calls)
RpcTasks ==
    /\ task \in [Tasks -> TaskStates]
    /\ sessions \in [Tasks -> Sessions]
    /\ \A t \in Tasks : task[t].at = "handle" => LetIn(task[t])

(* The recorded time is no later than the file's, and earlier while a      *)
(* reload runs; what a reload has read is the file of its time.            *)
RpcKeys ==
    /\ modified \in Int /\ lastModified \in Int /\ lastModified <= modified
    /\ keyFile \in KeyFiles
    /\ \A t \in Tasks : task[t].at \in {"read", "swap", "stamp"} => task[t].stamp <= modified
    /\ ~reloadRaced =>
          /\ \A t, u \in Tasks : Reloading(t) /\ Reloading(u) => t = u
          /\ \A t \in Tasks :
                /\ task[t].at \in {"read", "swap", "stamp"} => lastModified # modified
                /\ task[t].at = "swap" /\ task[t].stamp = modified => task[t].read = keyFile
                /\ task[t].at = "stamp" /\ task[t].stamp = modified => keys = keyFile

RpcInv == RpcTasks /\ RpcKeys /\ RpcSound

(* The idle task and the closed session are of their types.                *)
LEMMA IdleTyped ==
    /\ IdleTask \in TaskStates /\ IdleTask.at = "idle"
    /\ NoSession \in Sessions /\ NoSession.topics = {}
  <1>1. (CHOOSE r \in Requests : TRUE) \in Requests
    BY RpcAssumption, Zenon
  <1>2. IdleTask \in TaskStates /\ IdleTask.at = "idle"
    BY <1>1 DEF IdleTask, TaskStates, Stages
  <1>3. NoSession \in Sessions /\ NoSession.topics = {}
    BY DEF NoSession, Sessions
  <1> QED BY <1>2, <1>3, Zenon

(* The task of an admitted request.                                        *)
AdmittedTask(r, s) == [IdleTask EXCEPT !.request = r, !.at = s]

(* It is of its type and holds the request at its first stage.             *)
LEMMA FreshTask ==
    ASSUME NEW r \in Requests, NEW s \in Stages
    PROVE  AdmittedTask(r, s) \in TaskStates /\ AdmittedTask(r, s).at = s /\ AdmittedTask(r, s).request = r
  BY IdleTyped, Zenon DEF TaskStates, AdmittedTask

(* A task ends, is dropped, or goes from one stage to another.             *)
LEMMA MoveTyped ==
    ASSUME RpcTasks, NEW t \in Tasks, NEW s \in Stages, Move(t, s)
    PROVE  /\ task' \in [Tasks -> TaskStates]
           /\ \A u \in Tasks \ {t} : task'[u] = task[u]
           /\ task'[t].at = s
           /\ s # "idle" => task'[t].stamp = task[t].stamp /\ task'[t].read = task[t].read
  <1>1. task \in [Tasks -> TaskStates]
    BY Zenon DEF RpcTasks
  <1>2. CASE s = "idle"
    BY <1>1, <1>2, IdleTyped, Zenon DEF Move
  <1>3. CASE s # "idle"
    <2> DEFINE k == [task[t] EXCEPT !.at = s]
    <2>1. task' = [task EXCEPT ![t] = k]
      BY <1>3, Zenon DEF Move
    <2>2. /\ k \in TaskStates /\ k.at = s /\ k.stamp = task[t].stamp /\ k.read = task[t].read
      BY <1>1 DEF TaskStates
    <2> HIDE DEF k
    <2> QED BY <1>1, <2>1, <2>2, Zenon
  <1> QED BY <1>2, <1>3, Zenon

(* The keys: what a task other than a reloading one does leaves them.      *)
LEMMA RpcKeysKept ==
    ASSUME RpcKeys, UNCHANGED <<keyFile, modified, keys, lastModified, reloadRaced>>,
           \A t \in Tasks : task'[t].at \in {"stat", "read", "swap", "stamp"} =>
               task'[t].at = task[t].at /\ task'[t].stamp = task[t].stamp
               /\ task'[t].read = task[t].read
    PROVE  RpcKeys'
  BY DEF RpcKeys, Reloading

(* A request that is admitted starts unauthorized.                         *)
LEMMA AdmitStep ==
    ASSUME RpcInv, NEW t \in Tasks, NEW r \in Requests, Admit(t, r)
    PROVE  RpcInv'
  <1> DEFINE s == IF r.path = "open" THEN "handle" ELSE "throttle"
             k == AdmittedTask(r, s)
  <1>1. /\ task' = [task EXCEPT ![t] = k] /\ UNCHANGED <<world, manager, sessions, dispatched>>
    BY Zenon DEF Admit, AdmittedTask
  <1>2. k \in TaskStates /\ k.at = s /\ k.request = r
    <2>1. s \in Stages
      BY Zenon DEF Stages
    <2> HIDE DEF s
    <2> QED BY <2>1, FreshTask, Zenon
  <1> HIDE DEF k
  <1>3. /\ task' \in [Tasks -> TaskStates] /\ task'[t] = k
        /\ \A u \in Tasks \ {t} : task'[u] = task[u]
    BY <1>1, <1>2, Zenon DEF RpcInv, RpcTasks
  <1>4. k.at = "handle" => LetIn(k)
    BY <1>2, Zenon DEF LetIn
  <1>5. RpcTasks'
    BY <1>1, <1>3, <1>4 DEF RpcInv, RpcTasks, LetIn
  <1>6. RpcKeys'
    BY <1>1, <1>2, <1>3, RpcKeysKept, Zenon DEF RpcInv, world, manager
  <1>7. RpcSound'
    BY <1>1, Zenon DEF RpcInv, RpcSound, OnlyAuthorizedCalls, KeysFollowFile, world, manager
  <1> QED BY <1>5, <1>6, <1>7, Zenon DEF RpcInv

(* A request that ends or is given up leaves no trace in its task.         *)
LEMMA CancelStep ==
    ASSUME RpcInv, NEW t \in Tasks, Cancel(t)
    PROVE  RpcInv'
  <1>1. Move(t, "idle") /\ UNCHANGED <<world, manager, sessions, dispatched>>
    BY Zenon DEF Cancel
  <1>2. /\ task' \in [Tasks -> TaskStates] /\ \A u \in Tasks \ {t} : task'[u] = task[u]
        /\ task'[t].at = "idle"
    BY <1>1, MoveTyped, Zenon DEF RpcInv, Stages
  <1>3. RpcTasks'
    BY <1>1, <1>2, Zenon DEF RpcInv, RpcTasks, LetIn
  <1>4. RpcKeys'
    BY <1>1, <1>2, RpcKeysKept, Zenon DEF RpcInv, world, manager
  <1>5. RpcSound'
    BY <1>1, Zenon DEF RpcInv, RpcSound, OnlyAuthorizedCalls, KeysFollowFile, world, manager
  <1> QED BY <1>3, <1>4, <1>5, Zenon DEF RpcInv

(* The throttle: a second reload in flight is recorded as a race.          *)
LEMMA ThrottleStep ==
    ASSUME RpcInv, NEW t \in Tasks, ThrottleReload(t)
    PROVE  RpcInv'
  <1>1. /\ task[t].at = "throttle" /\ UNCHANGED <<world, keys, lastModified, sessions, dispatched>>
        /\ Move(t, "stat") \/ Move(t, "authorize")
        /\ reloadRaced' = (reloadRaced \/ (lastCheck < seconds /\ \E u \in Tasks \ {t} : Reloading(u)))
        /\ lastCheck < seconds \/ Move(t, "authorize")
    BY Zenon DEF ThrottleReload
  <1>2. /\ task' \in [Tasks -> TaskStates] /\ \A u \in Tasks \ {t} : task'[u] = task[u]
        /\ task'[t].at \in {"stat", "authorize"}
        /\ lastCheck < seconds \/ task'[t].at = "authorize"
    BY <1>1, MoveTyped, Zenon DEF RpcInv, Stages
  <1>3. RpcTasks'
    BY <1>1, <1>2 DEF RpcInv, RpcTasks, LetIn
  <1>4. ~reloadRaced' => \A u, v \in Tasks : Reloading(u)' /\ Reloading(v)' => u = v
    BY <1>1, <1>2, Zenon DEF RpcInv, RpcKeys, Reloading
  <1>5. RpcKeys'
    BY <1>1, <1>2, <1>4, Zenon DEF RpcInv, RpcKeys, world
  <1>6. RpcSound'
    BY <1>1, Zenon DEF RpcInv, RpcSound, OnlyAuthorizedCalls, KeysFollowFile, world
  <1> QED BY <1>3, <1>5, <1>6 DEF RpcInv

(* check_reload: the time of the key file is read.                         *)
LEMMA StatStep ==
    ASSUME RpcInv, NEW t \in Tasks, StatKeyFile(t)
    PROVE  RpcInv'
  <1>1. /\ task[t].at = "stat" /\ UNCHANGED <<world, manager, sessions, dispatched>>
        /\ task' = [task EXCEPT ![t].stamp = modified,
                            ![t].at = IF modified = lastModified THEN "authorize" ELSE "read"]
        /\ modified \in Int /\ lastModified \in Int /\ lastModified <= modified
        /\ task \in [Tasks -> TaskStates]
    BY Zenon DEF StatKeyFile, RpcInv, RpcKeys, RpcTasks
  <1>2. /\ task' \in [Tasks -> TaskStates] /\ \A u \in Tasks \ {t} : task'[u] = task[u]
        /\ task'[t].at = (IF modified = lastModified THEN "authorize" ELSE "read")
        /\ task'[t].stamp = modified
    BY <1>1 DEF TaskStates, Stages
  <1>3. RpcTasks'
    BY <1>1, <1>2 DEF RpcInv, RpcTasks, LetIn
  <1>4. ~reloadRaced' => \A u, v \in Tasks : Reloading(u)' /\ Reloading(v)' => u = v
    BY <1>1, <1>2 DEF RpcInv, RpcKeys, Reloading, manager
  <1>5. RpcKeys'
    BY <1>1, <1>2, <1>4 DEF RpcInv, RpcKeys, world, manager
  <1>6. RpcSound'
    BY <1>1, Zenon DEF RpcInv, RpcSound, OnlyAuthorizedCalls, KeysFollowFile, world, manager
  <1> QED BY <1>3, <1>5, <1>6 DEF RpcInv

(* check_reload: the key file is read, or found garbled.                   *)
LEMMA ReadStep ==
    ASSUME RpcInv, NEW t \in Tasks, ReadKeyFile(t)
    PROVE  RpcInv'
  <1>1. /\ task[t].at = "read" /\ UNCHANGED <<world, manager, sessions, dispatched>>
        /\ task' = IF keyFile = Garbled THEN [task EXCEPT ![t].at = "authorize"]
                   ELSE [task EXCEPT ![t].read = keyFile, ![t].at = "swap"]
        /\ keyFile \in KeyFiles /\ task \in [Tasks -> TaskStates]
    BY Zenon DEF ReadKeyFile, RpcInv, RpcKeys, RpcTasks
  <1>2. /\ task' \in [Tasks -> TaskStates] /\ \A u \in Tasks \ {t} : task'[u] = task[u]
        /\ task'[t].stamp = task[t].stamp
        /\ \/ task'[t].at = "authorize"
           \/ task'[t].at = "swap" /\ task'[t].read = keyFile
    BY <1>1 DEF TaskStates, Stages
  <1>3. RpcTasks'
    BY <1>1, <1>2, Zenon DEF RpcInv, RpcTasks, LetIn
  <1>4. ~reloadRaced' => \A u, v \in Tasks : Reloading(u)' /\ Reloading(v)' => u = v
    BY <1>1, <1>2 DEF RpcInv, RpcKeys, Reloading, manager
  <1>5. RpcKeys'
    BY <1>1, <1>2, <1>4 DEF RpcInv, RpcKeys, world, manager
  <1>6. RpcSound'
    BY <1>1, Zenon DEF RpcInv, RpcSound, OnlyAuthorizedCalls, KeysFollowFile, world, manager
  <1> QED BY <1>3, <1>5, <1>6 DEF RpcInv

(* check_reload: the keys that were read replace those in memory.          *)
LEMMA SwapStep ==
    ASSUME RpcInv, NEW t \in Tasks, SwapKeys(t)
    PROVE  RpcInv'
  <1>1. /\ task[t].at = "swap" /\ keys' = task[t].read /\ Move(t, "stamp")
        /\ UNCHANGED <<world, lastModified, reloadRaced, sessions, dispatched>>
    BY Zenon DEF SwapKeys
  <1>2. /\ task' \in [Tasks -> TaskStates] /\ \A u \in Tasks \ {t} : task'[u] = task[u]
        /\ task'[t].at = "stamp" /\ task'[t].stamp = task[t].stamp
    BY <1>1, MoveTyped, Zenon DEF RpcInv, Stages
  <1>3. RpcTasks'
    BY <1>1, <1>2, Zenon DEF RpcInv, RpcTasks, LetIn
  <1>4. ~reloadRaced' => \A u, v \in Tasks : Reloading(u)' /\ Reloading(v)' => u = v
    BY <1>1, <1>2 DEF RpcInv, RpcKeys, Reloading
  <1>5. ~reloadRaced => \A u \in Tasks \ {t} : task[u].at # "stamp"
    BY <1>1, Zenon DEF RpcInv, RpcKeys, Reloading
  <1>6. RpcKeys'
    BY <1>1, <1>2, <1>4, <1>5 DEF RpcInv, RpcKeys, world
  <1>7. RpcSound'
    BY <1>1, Zenon DEF RpcInv, RpcKeys, RpcSound, OnlyAuthorizedCalls, KeysFollowFile, world
  <1> QED BY <1>3, <1>6, <1>7 DEF RpcInv

(* check_reload: the time that was read is remembered.                     *)
LEMMA StampStep ==
    ASSUME RpcInv, NEW t \in Tasks, StampModified(t)
    PROVE  RpcInv'
  <1>1. /\ task[t].at = "stamp" /\ lastModified' = task[t].stamp /\ Move(t, "authorize")
        /\ UNCHANGED <<world, keys, reloadRaced, sessions, dispatched>>
        /\ task \in [Tasks -> TaskStates]
    BY Zenon DEF StampModified, RpcInv, RpcTasks
  <1>2. /\ task' \in [Tasks -> TaskStates] /\ \A u \in Tasks \ {t} : task'[u] = task[u]
        /\ task'[t].at = "authorize"
    BY <1>1, MoveTyped, Zenon DEF RpcInv, Stages
  <1>3. RpcTasks'
    BY <1>1, <1>2, Zenon DEF RpcInv, RpcTasks, LetIn
  <1>4. /\ task[t].stamp \in Int /\ task[t].stamp <= modified
        /\ ~reloadRaced => \A u \in Tasks \ {t} : ~Reloading(u)
    BY <1>1, Zenon DEF RpcInv, RpcKeys, Reloading, TaskStates
  <1>5. ~reloadRaced' => \A u \in Tasks : ~Reloading(u)'
    BY <1>1, <1>2, <1>4, Zenon DEF Reloading
  <1>6. RpcKeys'
    BY <1>1, <1>2, <1>4, <1>5, Zenon DEF RpcInv, RpcKeys, Reloading, world
  <1>7. RpcSound'
    BY <1>1, Zenon DEF RpcInv, RpcKeys, RpcSound, OnlyAuthorizedCalls, KeysFollowFile, world
  <1> QED BY <1>3, <1>6, <1>7 DEF RpcInv

(* The operator rewrites the key file, with a newer time.                  *)
LEMMA EditStep ==
    ASSUME RpcInv, NEW content \in KeyFiles, EditKeyFile(content)
    PROVE  RpcInv'
  <1>1. /\ UNCHANGED <<task, manager, sessions, dispatched>> /\ keyFile' = content
        /\ modified' = modified + 1
    BY Zenon DEF EditKeyFile
  <1>2. RpcTasks'
    BY <1>1, Zenon DEF RpcInv, RpcTasks, LetIn
  <1>3. RpcKeys'
    BY <1>1 DEF RpcInv, RpcKeys, RpcTasks, TaskStates, Reloading, manager
  <1>4. RpcSound'
    <2>1. modified \in Int /\ lastModified \in Int /\ lastModified <= modified
          /\ lastModified' = lastModified
      BY <1>1, Zenon DEF RpcInv, RpcKeys, manager
    <2>2. lastModified' # modified'
      BY <1>1, <2>1
    <2> QED
      BY <1>1, <2>2, Zenon DEF RpcInv, RpcSound, OnlyAuthorizedCalls, KeysFollowFile
  <1> QED BY <1>2, <1>3, <1>4 DEF RpcInv

(* auth_middleware: a request passes with a valid token, or when no call   *)
(* of its batch needs one.                                                 *)
LEMMA AuthorizeStep ==
    ASSUME RpcInv, NEW t \in Tasks, Authorize(t)
    PROVE  RpcInv'
  <1> DEFINE r == task[t].request
             ok == ValidateToken(r.token)
             k == [IdleTask EXCEPT !.request = r, !.at = "handle", !.authorized = ok]
  <1>1. /\ UNCHANGED <<world, manager, sessions, dispatched>>
        /\ \/ Move(t, "idle")
           \/ /\ task' = [task EXCEPT ![t] = k]
              /\ \/ ok
                 \/ r.path = "rpc" /\ ~BodyRequiresAuth(r.calls)
                 \/ r.path = "ws"
    BY Zenon DEF Authorize
  <1>2. k \in TaskStates /\ k.at = "handle" /\ k.request = r /\ k.authorized = ok
    <2>1. r \in Requests
      BY Zenon DEF RpcInv, RpcTasks, TaskStates
    <2>2. ok \in BOOLEAN
      BY DEF ValidateToken
    <2>3. k = [IdleTask EXCEPT !.request = r, !.at = "handle", !.authorized = ok]
      OBVIOUS
    <2> HIDE DEF r, ok, k
    <2>4. PICK b \in BOOLEAN : b = ok
      BY <2>2, Zenon
    <2>5. k = [at |-> "handle", request |-> r, stamp |-> 0, read |-> {}, authorized |-> b, next |-> 1]
      BY <2>3, <2>4, Zenon DEF IdleTask
    <2>6. k \in TaskStates /\ k.at = "handle" /\ k.request = r /\ k.authorized = b
      BY <2>1, <2>5 DEF TaskStates, Stages
    <2> QED BY <2>4, <2>6, Zenon
  <1>3. ASSUME NEW new \in TaskStates, new.at \in {"idle", "handle"},
               new.at = "handle" => LetIn(new), task' = [task EXCEPT ![t] = new]
        PROVE  RpcInv'
    <2>1. /\ task' \in [Tasks -> TaskStates] /\ task'[t] = new
          /\ \A u \in Tasks \ {t} : task'[u] = task[u]
      BY <1>3, Zenon DEF RpcInv, RpcTasks
    <2>2. RpcTasks'
      BY <1>1, <1>3, <2>1, Zenon DEF RpcInv, RpcTasks, LetIn
    <2>3. RpcKeys'
      BY <1>1, <1>3, <2>1, RpcKeysKept, Zenon DEF RpcInv, world, manager
    <2>4. RpcSound'
      BY <1>1, Zenon DEF RpcInv, RpcSound, OnlyAuthorizedCalls, KeysFollowFile, world, manager
    <2> QED BY <2>2, <2>3, <2>4, Zenon DEF RpcInv
  <1>4. CASE Move(t, "idle")
    <2>1. task' = [task EXCEPT ![t] = IdleTask]
      BY <1>4, Zenon DEF Move
    <2> QED BY <1>3, <2>1, IdleTyped, Zenon
  <1>5. CASE /\ task' = [task EXCEPT ![t] = k]
             /\ \/ ok
                \/ r.path = "rpc" /\ ~BodyRequiresAuth(r.calls)
                \/ r.path = "ws"
    <2>1. LetIn(k)
      BY <1>2, <1>5, Zenon DEF LetIn
    <2> HIDE DEF k
    <2> QED BY <1>2, <1>3, <1>5, <2>1, Zenon
  <1> QED BY <1>1, <1>4, <1>5, Zenon

(* handle_rpc: the next call of a body is dispatched, refused or the last. *)
LEMMA DispatchStep ==
    ASSUME RpcInv, NEW t \in Tasks, DispatchRpcMethod(t)
    PROVE  RpcInv'
  <1> DEFINE r == task[t].request
             i == task[t].next
             d == [call |-> r.calls[i], path |-> r.path, authorized |-> task[t].authorized]
  <1>1. /\ UNCHANGED <<spent, world, manager, sessions>> /\ task[t].at = "handle"
        /\ r.path # "ws"
        /\ \/ Move(t, "idle") /\ UNCHANGED dispatched
           \/ /\ task' = [task EXCEPT ![t].next = i + 1]
              /\ \/ UNCHANGED dispatched
                 \/ i <= Len(r.calls) /\ dispatched' = dispatched \union {d}
    BY Zenon DEF DispatchRpcMethod
  <1>2. task[t] \in TaskStates /\ task \in [Tasks -> TaskStates] /\ LetIn(task[t])
    BY <1>1, Zenon DEF RpcInv, RpcTasks
  <1>3. CASE Move(t, "idle") /\ UNCHANGED dispatched
    BY <1>1, <1>3, CancelStep, Zenon DEF Cancel
  <1>4. CASE /\ task' = [task EXCEPT ![t].next = i + 1]
             /\ \/ UNCHANGED dispatched
                \/ i <= Len(r.calls) /\ dispatched' = dispatched \union {d}
    <2>1. /\ task' \in [Tasks -> TaskStates] /\ \A u \in Tasks \ {t} : task'[u] = task[u]
          /\ task'[t].at = "handle" /\ task'[t].request = r
          /\ task'[t].authorized = task[t].authorized
      <3> DEFINE k == [task[t] EXCEPT !.next = i + 1]
      <3>1. task' = [task EXCEPT ![t] = k]
        BY <1>4
      <3>2. i \in Nat \ {0}
        BY <1>2 DEF TaskStates
      <3>3. /\ k \in TaskStates /\ k.at = task[t].at /\ k.request = r
            /\ k.authorized = task[t].authorized
        <4> HIDE DEF i
        <4>1. i + 1 \in Nat \ {0}
          BY <3>2
        <4> QED
          BY <1>2, <4>1 DEF TaskStates
      <3> HIDE DEF k
      <3>4. /\ task' \in [Tasks -> TaskStates] /\ \A u \in Tasks \ {t} : task'[u] = task[u]
            /\ task'[t] = k
        BY <1>2, <3>1, <3>3
      <3> QED
        BY <1>1, <3>3, <3>4, Zenon
    <2>2. RpcTasks'
      BY <1>1, <1>2, <2>1 DEF RpcInv, RpcTasks, LetIn
    <2>3. RpcKeys'
      BY <1>1, <2>1, RpcKeysKept, Zenon DEF RpcInv, world, manager
    <2>4. ASSUME i <= Len(r.calls)
          PROVE  (d.path = "rpc" /\ RequiresAuth(d.call)) \/ d.path = "admin" => d.authorized
      <3>1. DOMAIN r.calls = 1..Len(r.calls) /\ i \in Nat \ {0}
        BY <1>2, RpcAssumption, Zenon DEF TaskStates
      <3>2. i \in DOMAIN r.calls
        BY <2>4, <3>1
      <3>3. r.path = "rpc" /\ ~task[t].authorized => ~RequiresAuth(r.calls[i])
        BY <1>2, <3>2, Zenon DEF LetIn, BodyRequiresAuth
      <3>4. r.path = "admin" => task[t].authorized
        BY <1>2, Zenon DEF LetIn
      <3> HIDE DEF r, i
      <3> QED BY <3>3, <3>4, Zenon
    <2>5. \A e \in dispatched' :
             (e.path = "rpc" /\ RequiresAuth(e.call)) \/ e.path = "admin" => e.authorized
      <3> HIDE DEF d
      <3> QED BY <1>4, <2>4, Zenon DEF RpcInv, RpcSound, OnlyAuthorizedCalls
    <2>6. RpcSound'
      BY <1>1, <2>5, Zenon DEF RpcInv, RpcSound, OnlyAuthorizedCalls, KeysFollowFile, world, manager
    <2> QED BY <2>2, <2>3, <2>6 DEF RpcInv
  <1> QED BY <1>1, <1>3, <1>4, Zenon

(* What a session action leaves: the tasks, the calls and the keys.        *)
LEMMA SessionsKept ==
    ASSUME RpcInv, UNCHANGED <<task, world, manager, dispatched>>,
           sessions' \in [Tasks -> Sessions],
           \A t \in Tasks : sessions'[t].topics # {} => sessions'[t].authenticated
    PROVE  RpcInv'
  <1>1. RpcTasks'
    BY Zenon DEF RpcInv, RpcTasks, LetIn
  <1>2. RpcKeys'
    BY RpcKeysKept, Zenon DEF RpcInv, world, manager
  <1>3. RpcSound'
    BY Zenon DEF RpcInv, RpcSound, OnlyAuthorizedCalls, KeysFollowFile, world, manager
  <1> QED BY <1>1, <1>2, <1>3, Zenon DEF RpcInv

(* ws_handler: a session is opened with the authorization of its request.  *)
LEMMA WsHandlerStep ==
    ASSUME RpcInv, NEW t \in Tasks, WsHandler(t)
    PROVE  RpcInv'
  <1> DEFINE k == [NoSession EXCEPT !.open = TRUE, !.authenticated = task[t].authorized]
  <1>1. /\ Move(t, "idle") /\ sessions' = [sessions EXCEPT ![t] = k]
        /\ UNCHANGED <<world, manager, dispatched>>
        /\ task[t] \in TaskStates /\ sessions \in [Tasks -> Sessions]
    BY Zenon DEF WsHandler, RpcInv, RpcTasks
  <1>2. k \in Sessions /\ k.topics = {}
    BY <1>1, IdleTyped, Zenon DEF Sessions, TaskStates
  <1> HIDE DEF k
  <1>3. /\ sessions' \in [Tasks -> Sessions]
        /\ \A u \in Tasks : sessions'[u].topics # {} => sessions'[u].authenticated
    BY <1>1, <1>2, Zenon DEF RpcInv, RpcSound, OnlyAuthorizedCalls
  <1>4. /\ task' \in [Tasks -> TaskStates] /\ \A u \in Tasks \ {t} : task'[u] = task[u]
        /\ task'[t].at = "idle"
    BY <1>1, MoveTyped, Zenon DEF RpcInv, Stages
  <1>5. RpcTasks'
    BY <1>3, <1>4, Zenon DEF RpcInv, RpcTasks, LetIn
  <1>6. RpcKeys'
    BY <1>1, <1>4, RpcKeysKept, Zenon DEF RpcInv, world, manager
  <1>7. RpcSound'
    BY <1>1, <1>3, Zenon DEF RpcInv, RpcSound, OnlyAuthorizedCalls, KeysFollowFile, world, manager
  <1> QED BY <1>5, <1>6, <1>7 DEF RpcInv

(* Subscriptions come and go inside a session.                             *)
LEMMA SessionStep ==
    ASSUME RpcInv, NEW t \in Tasks,
           Subscribe(t) \/ CloseSession(t) \/ \E id \in sessions[t].topics : Unsubscribe(t, id)
    PROVE  RpcInv'
  <1>1. sessions \in [Tasks -> Sessions] /\ UNCHANGED <<task, world, manager, dispatched>>
    BY Zenon DEF RpcInv, RpcTasks, Subscribe, CloseSession, Unsubscribe
  <1>2. \A u \in Tasks : sessions[u].topics # {} => sessions[u].authenticated
    BY Zenon DEF RpcInv, RpcSound, OnlyAuthorizedCalls
  <1>3. CASE Subscribe(t)
    <2>1. /\ sessions[t].authenticated
          /\ sessions' = [sessions EXCEPT ![t].topics = @ \union {sessions[t].nextId},
                                          ![t].nextId = @ + 1]
      BY <1>3, Zenon DEF Subscribe
    <2>2. /\ sessions' \in [Tasks -> Sessions] /\ sessions'[t].authenticated
          /\ \A u \in Tasks \ {t} : sessions'[u] = sessions[u]
      BY <1>1, <2>1 DEF Sessions
    <2> QED BY <1>1, <1>2, <2>2, SessionsKept, Zenon
  <1>4. CASE CloseSession(t)
    <2>1. sessions' = [sessions EXCEPT ![t] = NoSession]
      BY <1>4, Zenon DEF CloseSession
    <2> QED BY <1>1, <1>2, <2>1, IdleTyped, SessionsKept, Zenon
  <1>5. ASSUME NEW id \in sessions[t].topics, Unsubscribe(t, id)
        PROVE  RpcInv'
    <2>1. sessions' = [sessions EXCEPT ![t].topics = @ \ {id}]
      BY <1>5, Zenon DEF Unsubscribe
    <2>2. /\ sessions' \in [Tasks -> Sessions]
          /\ sessions'[t].authenticated = sessions[t].authenticated
          /\ \A u \in Tasks \ {t} : sessions'[u] = sessions[u]
      BY <1>1, <2>1, Zenon DEF Sessions
    <2>3. sessions[t].authenticated
      BY <1>2, <1>5, Zenon
    <2> QED BY <1>1, <1>2, <2>2, <2>3, SessionsKept, Zenon
  <1> QED BY <1>3, <1>4, <1>5, Zenon

(* Every step of the server keeps its invariant.                           *)
LEMMA RpcStep ==
    ASSUME RpcInv, [ServerNext]_rpcVars
    PROVE  RpcInv'
  <1>1. CASE UNCHANGED rpcVars
    <2>1. /\ UNCHANGED <<task, world, manager, dispatched>> /\ sessions' = sessions
      BY <1>1, Zenon DEF rpcVars, world, manager
    <2>2. /\ sessions \in [Tasks -> Sessions]
          /\ \A t \in Tasks : sessions[t].topics # {} => sessions[t].authenticated
      BY Zenon DEF RpcInv, RpcTasks, RpcSound, OnlyAuthorizedCalls
    <2> QED BY <2>1, <2>2, SessionsKept, Zenon
  <1>2. ASSUME NEW t \in Tasks, NEW r \in Requests, Admit(t, r)
        PROVE  RpcInv'
    BY <1>2, AdmitStep, Zenon
  <1>3. ASSUME NEW t \in Tasks,
               \/ Cancel(t) \/ ThrottleReload(t) \/ StatKeyFile(t) \/ ReadKeyFile(t) \/ SwapKeys(t)
               \/ StampModified(t) \/ Authorize(t) \/ DispatchRpcMethod(t) \/ WsHandler(t)
        PROVE  RpcInv'
    BY <1>3, CancelStep, ThrottleStep, StatStep, ReadStep, SwapStep, StampStep, AuthorizeStep,
       DispatchStep, WsHandlerStep, Zenon
  <1>4. ASSUME NEW t \in Tasks,
               Subscribe(t) \/ CloseSession(t) \/ \E id \in sessions[t].topics : Unsubscribe(t, id)
        PROVE  RpcInv'
    BY <1>4, SessionStep, Zenon
  <1>5. ASSUME NEW content \in KeyFiles, EditKeyFile(content)
        PROVE  RpcInv'
    BY <1>5, EditStep, Zenon
  <1>6. CASE SecondPasses
    <2>1. UNCHANGED <<task, keyFile, modified, manager, sessions, dispatched>>
      BY <1>6, Zenon DEF SecondPasses
    <2>2. RpcTasks'
      BY <2>1, Zenon DEF RpcInv, RpcTasks, LetIn
    <2>3. RpcKeys'
      BY <2>1, RpcKeysKept, Zenon DEF RpcInv, manager
    <2>4. RpcSound'
      BY <2>1, Zenon DEF RpcInv, RpcSound, OnlyAuthorizedCalls, KeysFollowFile, manager
    <2> QED BY <2>2, <2>3, <2>4, Zenon DEF RpcInv
  <1> QED BY <1>1, <1>2, <1>3, <1>4, <1>5, <1>6, Zenon DEF ServerNext

(* crates/rpc: for any number of requests in flight, however they are      *)
(* batched, dropped and interleaved with reloads of the key file, no       *)
(* restricted call reaches a handler without a valid token, no session     *)
(* subscribes without one, and unless two reloads overlapped, the keys in  *)
(* use under the file's modification time are the file's.                  *)
THEOREM RpcTheorem == ServerInit /\ [][ServerNext]_rpcVars => []RpcSound
  <1>1. ServerInit => RpcInv
    <2> SUFFICES ASSUME ServerInit PROVE RpcInv
      OBVIOUS
    <2>1. RpcTasks
      BY IdleTyped, Zenon DEF ServerInit, RpcTasks, LetIn
    <2>2. RpcKeys
      BY IdleTyped DEF ServerInit, RpcKeys, Reloading
    <2>3. RpcSound
      BY IdleTyped DEF ServerInit, RpcSound, OnlyAuthorizedCalls, KeysFollowFile
    <2> QED BY <2>1, <2>2, <2>3, Zenon DEF RpcInv
  <1>2. RpcInv /\ [ServerNext]_rpcVars => RpcInv'
    BY RpcStep
  <1>3. RpcInv => RpcSound
    BY Zenon DEF RpcInv
  <1> QED BY <1>1, <1>2, <1>3, PTL

(***************************************************************************)
(* Keys (module Keystore)                                                  *)
(***************************************************************************)

(* A file some call wrote: its format is one its kind may have.            *)
WholeFiles ==
    {f \in [format : Formats, kind : Kinds, key : Secrets,
            pw : StrongPasswords \cup {StorePassword, "none"}] : Compatible(f.kind, f.format)}

Material(f) == [kind |-> f.kind, key |-> f.key]

(* A file holds what is owned under its name, if nothing overtook a change *)
(* of password.                                                            *)
Holds(file, own) == \/ file = NoKey /\ own = NoKey
                    \/ file # NoKey /\ own = Material(file)

Doings == [at : {"idle", "write", "fill", "rename"}, loc : Locations \cup {"none"},
           file : WholeFiles \cup {NoKey}, read : BOOLEAN]

(* What a caller that is not idle will write, and what it read if it will  *)
(* write back what it read.                                                *)
DoingInv(call, own, over) ==
    /\ call.at = "idle" => ~call.read
    /\ call.at # "idle" => /\ call.loc \in Locations /\ call.file \in WholeFiles
                           /\ call.read /\ call.loc \notin over => own[call.loc] = Material(call.file)

FilesInv ==
    /\ files \in [Locations -> WholeFiles \cup {NoKey}]
    /\ caller \in [Callers -> Doings]
    /\ owned \in [Locations -> [kind : Kinds, key : Secrets] \cup {NoKey}]
    /\ \A l \in Locations : l \notin overlapped => Holds(files[l], owned[l])
    /\ \A c \in Callers : DoingInv(caller[c], owned, overlapped)

(* The row is one the answers allow, and so is what the request in         *)
(* progress asks for.                                                      *)
VaultInv ==
    /\ vaultCall \in [op : {"none", "put", "delete"}, key : Secrets \cup {NoKey}, attempt : Nat]
    /\ vaultRow \in possible
    /\ vaultCall.op # "none" => Effect(vaultCall) \in possible

-----------------------------------------------------------------------------

(* A file that a call makes of a kind, a secret and a password is whole,   *)
(* and a whole file is no absent one.                                      *)
LEMMA MadeWhole ==
    ASSUME NEW format \in Formats, NEW kind \in Kinds, NEW key \in Secrets,
           NEW pw \in StrongPasswords \cup {StorePassword, "none"}, Compatible(kind, format)
    PROVE  /\ KeyFile(format, kind, key, pw) \in WholeFiles
           /\ KeyFile(format, kind, key, pw).kind = kind /\ KeyFile(format, kind, key, pw).key = key
  BY DEF KeyFile, WholeFiles

(* A file written again under another password holds the same key.         *)
LEMMA Rewritten ==
    ASSUME NEW f, NEW pw \in StrongPasswords, f.kind \in Kinds, f.key \in Secrets
    PROVE  /\ KeyFile("native", f.kind, f.key, pw) \in WholeFiles
           /\ Material(KeyFile("native", f.kind, f.key, pw)) = Material(f)
           /\ ToolFile("native", f.kind, f.key, pw) = KeyFile("native", f.kind, f.key, pw)
  <1> DEFINE g == KeyFile("native", f.kind, f.key, pw)
  <1>1. g \in WholeFiles /\ g.kind = f.kind /\ g.key = f.key
    BY MadeWhole DEF Formats, Compatible
  <1>2. ToolFile("native", f.kind, f.key, pw) = g
    BY DEF ToolFile
  <1> HIDE DEF g
  <1>3. Material(g) = Material(f)
    BY <1>1, Zenon DEF Material
  <1> QED
    BY <1>1, <1>2, <1>3, Zenon DEF g

(* A whole file is neither absent nor torn, and is read as the kind it was *)
(* written as.                                                             *)
LEMMA WholeIsFile ==
    ASSUME NEW f \in WholeFiles
    PROVE  /\ f \notin {NoKey, Torn} /\ f.kind \in Kinds /\ f.key \in Secrets
           /\ DetectedKind(f) = f.kind
           /\ Material(f) \in [kind : Kinds, key : Secrets]
  <1>1. /\ f = KeyFile(f.format, f.kind, f.key, f.pw)
        /\ f.format \in Formats /\ f.kind \in Kinds /\ f.key \in Secrets
        /\ f.pw \in StrongPasswords \cup {StorePassword, "none"} /\ Compatible(f.kind, f.format)
    BY DEF WholeFiles, KeyFile
  <1>2. f \notin {NoKey, Torn}
    BY <1>1, KeystoreAssumption, Zenon
  <1>3. DetectedKind(f) = f.kind
    BY <1>1 DEF DetectedKind, Compatible, Formats, Kinds
  <1> QED
    BY <1>1, <1>2, <1>3 DEF Material

(* A call that begins leaves the files alone.                              *)
LEMMA StartKeeps ==
    ASSUME FilesInv, UNCHANGED <<files, owned, overlapped>>,
           NEW c \in Callers, NEW loc \in Locations, NEW file \in WholeFiles, NEW read \in BOOLEAN,
           Start(c, "write", loc, file, read),
           read /\ loc \notin overlapped => owned[loc] = Material(file)
    PROVE  FilesInv'
  <1> DEFINE call == [at |-> "write", loc |-> loc, file |-> file, read |-> read]
  <1>1. call \in Doings /\ DoingInv(call, owned, overlapped)
    BY DEF Doings, DoingInv
  <1>2. caller' = [caller EXCEPT ![c] = call]
    BY Zenon DEF Start
  <1> HIDE DEF call
  <1>3. caller' \in [Callers -> Doings] /\ \A o \in Callers : caller'[o] = IF o = c THEN call ELSE caller[o]
    BY <1>1, <1>2 DEF FilesInv
  <1> QED
    BY <1>1, <1>3, Zenon DEF FilesInv, DoingInv

(* A caller at rest, or one that is a step further with the same file.     *)
LEMMA StepKeeps ==
    ASSUME FilesInv, UNCHANGED <<files, owned, overlapped>>, NEW c \in Callers,
           \/ caller' = [caller EXCEPT ![c] = Resting]
           \/ \E at \in {"fill", "rename"} : caller[c].at # "idle" /\ caller' = [caller EXCEPT ![c].at = at]
    PROVE  FilesInv'
  <1>1. PICK call : /\ caller' = [caller EXCEPT ![c] = call]
                    /\ \/ call = Resting
                       \/ \E at \in {"fill", "rename"} : caller[c].at # "idle" /\ call = [caller[c] EXCEPT !.at = at]
    BY Zenon
  <1>2. caller[c] \in Doings /\ DoingInv(caller[c], owned, overlapped)
    BY Zenon DEF FilesInv
  <1>3. call \in Doings /\ DoingInv(call, owned, overlapped)
    <2>1. CASE call = Resting
      BY <2>1 DEF Resting, Doings, DoingInv
    <2>2. ASSUME NEW at \in {"fill", "rename"}, caller[c].at # "idle", call = [caller[c] EXCEPT !.at = at]
          PROVE  call \in Doings /\ DoingInv(call, owned, overlapped)
      <3>1. call \in Doings /\ call.at = at /\ call.loc = caller[c].loc
            /\ call.file = caller[c].file /\ call.read = caller[c].read
        BY <1>2, <2>2 DEF Doings
      <3> QED
        BY <1>2, <2>2, <3>1, Zenon DEF DoingInv
    <2> QED
      BY <1>1, <2>1, <2>2, Zenon
  <1>4. caller' \in [Callers -> Doings] /\ \A o \in Callers : caller'[o] = IF o = c THEN call ELSE caller[o]
    BY <1>1, <1>3 DEF FilesInv
  <1> QED
    BY <1>3, <1>4, Zenon DEF FilesInv, DoingInv

(* A file and what is owned under its name replaced together, or a file    *)
(* replaced by what was read of it; others that read it are overtaken.     *)
LEMMA ReplaceKeeps ==
    ASSUME FilesInv, NEW c \in Callers, NEW loc \in Locations, NEW file \in WholeFiles \cup {NoKey}, NEW own,
           files' = [files EXCEPT ![loc] = file],
           \/ owned' = [owned EXCEPT ![loc] = own] /\ Holds(file, own)
           \/ owned' = owned /\ (loc \notin overlapped => Holds(file, owned[loc])),
           \/ caller' = caller /\ caller[c].at = "idle"
           \/ caller' = [caller EXCEPT ![c] = Resting],
           overlapped' = overlapped \cup Overtakes(c, loc),
           own \in [kind : Kinds, key : Secrets] \cup {NoKey}
    PROVE  FilesInv'
  <1>1. files' \in [Locations -> WholeFiles \cup {NoKey}]
        /\ \A l \in Locations : files'[l] = IF l = loc THEN file ELSE files[l]
    BY DEF FilesInv
  <1>2. owned' \in [Locations -> [kind : Kinds, key : Secrets] \cup {NoKey}]
        /\ \A l \in Locations : l # loc => owned'[l] = owned[l]
    BY DEF FilesInv
  <1>3. loc \notin overlapped => Holds(file, owned'[loc])
    <2>1. CASE owned' = owned /\ (loc \notin overlapped => Holds(file, owned[loc]))
      BY <2>1, Zenon
    <2>2. CASE owned' = [owned EXCEPT ![loc] = own] /\ Holds(file, own)
      <3>1. owned'[loc] = own
        BY <2>2 DEF FilesInv
      <3> QED
        BY <2>2, <3>1, Zenon
    <2> QED
      BY <2>1, <2>2, Zenon
  <1>4. \A l \in Locations : l \notin overlapped' => Holds(files'[l], owned'[l])
    BY <1>1, <1>2, <1>3, Zenon DEF FilesInv
  <1>5. caller' \in [Callers -> Doings] /\ caller'[c].at = "idle" /\ ~caller'[c].read
        /\ \A o \in Callers : o # c => caller'[o] = caller[o]
    <2>1. CASE caller' = caller /\ caller[c].at = "idle"
      BY <2>1, Zenon DEF FilesInv, DoingInv
    <2>2. CASE caller' = [caller EXCEPT ![c] = Resting]
      <3>1. Resting \in Doings /\ Resting.at = "idle" /\ ~Resting.read
        BY DEF Resting, Doings
      <3>2. caller \in [Callers -> Doings]
        BY ZenonT(30) DEF FilesInv
      <3>3. caller' \in [Callers -> Doings] /\ caller'[c] = Resting
            /\ \A o \in Callers : o # c => caller'[o] = caller[o]
        BY <2>2, <3>1, <3>2, Zenon
      <3> QED
        BY <3>1, <3>3, Zenon
    <2> QED
      BY <2>1, <2>2, Zenon
  <1>6. ASSUME NEW o \in Callers
        PROVE  DoingInv(caller'[o], owned', overlapped')
    <2>1. CASE o = c
      BY <1>5, <2>1, Zenon DEF DoingInv
    <2>2. CASE o # c
      <3>1. DoingInv(caller[o], owned, overlapped) /\ caller'[o] = caller[o]
        BY <1>5, <2>2, Zenon DEF FilesInv
      <3>2. caller[o].loc = loc /\ caller[o].read => loc \in overlapped'
        BY <2>2 DEF Overtakes
      <3> QED
        BY <1>2, <3>1, <3>2, ZenonT(30) DEF DoingInv
    <2> QED
      BY <2>1, <2>2, Zenon
  <1> QED
    BY <1>1, <1>2, <1>4, <1>5, <1>6, Zenon DEF FilesInv

(* What a change of password or an import reads is whole and, unless an    *)
(* earlier change was overtaken, what is owned.                            *)
LEMMA ReadWhole ==
    ASSUME FilesInv, NEW l \in Locations, files[l] \notin {NoKey, Torn}
    PROVE  /\ files[l] \in WholeFiles
           /\ l \notin overlapped => owned[l] = Material(files[l])
  BY Zenon DEF FilesInv, Holds

(* Every call and step of a caller keeps the files.                        *)
LEMMA FileCallKeeps ==
    ASSUME FilesInv, NEW c \in Callers, FileCall(c)
    PROVE  FilesInv'
  <1>1. ASSUME NEW id \in Ids, NEW kind \in Kinds, NEW key \in Secrets, Put(c, id, kind, key)
        PROVE  FilesInv'
    <2>1. KeyFile("native", kind, key, StorePassword) \in WholeFiles
      BY MadeWhole DEF Formats, Compatible
    <2> QED
      BY <1>1, <2>1, StartKeeps, Zenon DEF Put, Locations
  <1>2. ASSUME NEW id \in Ids, NEW old, NEW new \in StrongPasswords, ChangePassword(c, id, old, new)
        PROVE  FilesInv'
    <2> DEFINE file == KeyFile("native", files[id].kind, files[id].key, new)
    <2>1. files[id] \in WholeFiles /\ (id \notin overlapped => owned[id] = Material(files[id]))
      BY <1>2, ReadWhole, Zenon DEF ChangePassword, Decrypts, Locations
    <2>2. files[id].kind \in Kinds /\ files[id].key \in Secrets
      BY <2>1, WholeIsFile, ZenonT(30)
    <2>3. file \in WholeFiles /\ Material(file) = Material(files[id])
      BY <2>2, Rewritten, Zenon
    <2> HIDE DEF file
    <2>4. Start(c, "write", id, file, TRUE) /\ UNCHANGED <<files, owned, overlapped>>
      BY <1>2, Zenon DEF ChangePassword, file
    <2> QED
      BY <2>1, <2>3, <2>4, StartKeeps, Zenon DEF Locations
  <1>3. ASSUME NEW id \in Ids, Delete(c, id)
        PROVE  FilesInv'
    BY <1>3, ReplaceKeeps, Zenon DEF Delete, Idle, Holds, Locations
  <1>4. ASSUME NEW file \in ToolFiles, NEW kind \in Kinds, NEW format \in Formats, NEW key \in Secrets,
               NEW pw \in StrongPasswords, Generate(c, file, kind, format, key, pw)
        PROVE  FilesInv'
    <2>1. ToolFile(format, kind, key, pw) \in WholeFiles
      BY <1>4, MadeWhole DEF Generate, ToolFile
    <2> QED
      BY <1>4, <2>1, StartKeeps, Zenon DEF Generate, Locations
  <1>5. ASSUME NEW l \in ToolFiles, NEW old, NEW new \in StrongPasswords, ToolChangePassword(c, l, old, new)
        PROVE  FilesInv'
    <2> DEFINE file == ToolFile("native", DetectedKind(files[l]), files[l].key, new)
    <2>1. files[l] \in WholeFiles /\ (l \notin overlapped => owned[l] = Material(files[l]))
      BY <1>5, ReadWhole, Zenon DEF ToolChangePassword, ToolDecrypts, Locations
    <2>2. files[l].kind \in Kinds /\ files[l].key \in Secrets /\ DetectedKind(files[l]) = files[l].kind
      BY <2>1, WholeIsFile, ZenonT(30)
    <2>3. file \in WholeFiles /\ Material(file) = Material(files[l])
      <3> DEFINE f == files[l]
                 g == KeyFile("native", f.kind, f.key, new)
      <3>1. file = ToolFile("native", f.kind, f.key, new)
        BY <2>2, Zenon
      <3>2. f.kind \in Kinds /\ f.key \in Secrets
        BY <2>2, Zenon
      <3> HIDE DEF f, file
      <3>3. g \in WholeFiles /\ Material(g) = Material(f) /\ ToolFile("native", f.kind, f.key, new) = g
        BY <3>2, Rewritten, Zenon
      <3>4. file = g
        BY <3>1, <3>3, Zenon
      <3> HIDE DEF g
      <3> QED
        BY <3>3, <3>4, Zenon DEF f
    <2> HIDE DEF file
    <2>4. Start(c, "write", l, file, TRUE) /\ UNCHANGED <<files, owned, overlapped>>
      BY <1>5, Zenon DEF ToolChangePassword, file
    <2> QED
      BY <2>1, <2>3, <2>4, StartKeeps, Zenon DEF Locations
  <1>6. ASSUME NEW l \in ToolFiles, NEW id \in Ids, NEW pw, ImportKeystore(c, l, id, pw)
        PROVE  FilesInv'
    <2> DEFINE file == KeyFile("native", DetectedKind(files[l]), files[l].key, StorePassword)
    <2>1. files[l] \in WholeFiles
      BY <1>6, ReadWhole, Zenon DEF ImportKeystore, ToolDecrypts, Locations
    <2>2. DetectedKind(files[l]) \in Kinds /\ files[l].key \in Secrets
      BY <2>1, WholeIsFile, ZenonT(30)
    <2>3. file \in WholeFiles
      BY <2>2, MadeWhole DEF Formats, Compatible
    <2> HIDE DEF file
    <2>4. Start(c, "write", id, file, FALSE) /\ UNCHANGED <<files, owned, overlapped>>
      BY <1>6, Zenon DEF ImportKeystore, file
    <2> QED
      BY <2>3, <2>4, StartKeeps, Zenon DEF Locations
  <1>7. CASE OpenTemp(c) \/ FillTemp(c) \/ WriteFails(c) \/ CallerDies(c)
    BY <1>7, StepKeeps, Zenon DEF OpenTemp, FillTemp, WriteFails, CallerDies
  <1>8. CASE RenameTemp(c)
    <2> DEFINE call == caller[c]
    <2>1. call.loc \in Locations /\ call.file \in WholeFiles
          /\ (call.read /\ call.loc \notin overlapped => owned[call.loc] = Material(call.file))
      BY <1>8, Zenon DEF FilesInv, DoingInv, RenameTemp
    <2>2. Holds(call.file, Material(call.file)) /\ Material(call.file) \in [kind : Kinds, key : Secrets]
      <3> HIDE DEF call
      <3>1. call.file # NoKey /\ Material(call.file) \in [kind : Kinds, key : Secrets]
        BY <2>1, WholeIsFile, ZenonT(30)
      <3> QED
        BY <3>1, Zenon DEF Holds
    <2>3. /\ files' = [files EXCEPT ![call.loc] = call.file]
          /\ owned' = IF call.read THEN owned ELSE [owned EXCEPT ![call.loc] = Material(call.file)]
          /\ caller' = [caller EXCEPT ![c] = Resting]
          /\ overlapped' = overlapped \cup Overtakes(c, call.loc)
      BY <1>8, ZenonT(30) DEF RenameTemp, Material
    <2> HIDE DEF call
    <2> QED
      BY <2>1, <2>2, <2>3, ReplaceKeeps, Zenon
  <1> QED
    BY <1>1, <1>2, <1>3, <1>4, <1>5, <1>6, <1>7, <1>8, Zenon DEF FileCall

(* Every request to Vault, answered, retried or carried out late.          *)
LEMMA VaultKeeps ==
    ASSUME VaultInv,
           \/ \E op \in {"put", "delete"}, key \in Secrets : BeginVaultCall(op, key)
           \/ VaultAttempt
           \/ \E row \in stray : StrayCarriedOut(row)
    PROVE  VaultInv'
  <1>1. ASSUME NEW op \in {"put", "delete"}, NEW key \in Secrets, BeginVaultCall(op, key)
        PROVE  VaultInv'
    BY <1>1 DEF BeginVaultCall, VaultInv
  <1>2. CASE VaultAttempt
    <2>1. Effect(vaultCall) \in possible
      BY <1>2, Zenon DEF VaultAttempt, VaultInv
    <2>2. NoCall \in [op : {"none", "put", "delete"}, key : Secrets \cup {NoKey}, attempt : Nat] /\ NoCall.op = "none"
      BY DEF NoCall
    <2>3. CASE Retried /\ vaultRow' \in {vaultRow, Effect(vaultCall)}
      <3>1. vaultCall' = NoCall \/ vaultCall' = [vaultCall EXCEPT !.attempt = @ + 1]
        BY <2>3, Zenon DEF Retried, Answered
      <3>2. possible' = possible
        BY <2>3 DEF Retried, Answered
      <3>3. CASE vaultCall' = [vaultCall EXCEPT !.attempt = @ + 1]
        <4>1. vaultCall' \in [op : {"none", "put", "delete"}, key : Secrets \cup {NoKey}, attempt : Nat]
              /\ vaultCall'.op = vaultCall.op /\ vaultCall'.key = vaultCall.key
          BY <3>3 DEF VaultInv
        <4> QED
          BY <2>1, <2>3, <3>2, <4>1, Zenon DEF VaultInv, Effect
      <3>4. CASE vaultCall' = NoCall
        BY <2>1, <2>2, <2>3, <3>2, <3>4, Zenon DEF VaultInv
      <3> QED
        BY <3>1, <3>3, <3>4, Zenon
    <2>4. CASE Answered("ok") /\ vaultRow' = Effect(vaultCall)
      <3>1. possible' = {Effect(vaultCall)} /\ vaultCall' = NoCall
        BY <2>4 DEF Answered
      <3> QED
        BY <2>2, <2>4, <3>1, Zenon DEF VaultInv
    <2> QED
      BY <1>2, <2>3, <2>4, Zenon DEF VaultAttempt
  <1>3. ASSUME NEW row, StrayCarriedOut(row)
        PROVE  VaultInv'
    BY <1>3, Zenon DEF StrayCarriedOut, VaultInv, Effect
  <1> QED
    BY <1>1, <1>2, <1>3, Zenon

(* write_atomic, change_password and send_with_retry: through crashes,     *)
(* failed writes, callers at the same time and answers that get lost, no   *)
(* key file is torn or holds another key than the last one stored, but for *)
(* the change of password that was overtaken, and Vault's row is one its   *)
(* answers allow.                                                          *)
THEOREM KeysSurviveTheorem == KeystoreInit /\ [][KeystoreNext]_keystoreVars => []KeysSurvive
  <1>1. KeystoreInit => FilesInv /\ VaultInv
    <2> SUFFICES ASSUME KeystoreInit PROVE FilesInv /\ VaultInv
      OBVIOUS
    <2>1. /\ Resting \in Doings /\ Resting.at = "idle" /\ ~Resting.read
      BY DEF Resting, Doings
    <2>2. \A own, over : DoingInv(Resting, own, over)
      BY <2>1, Zenon DEF DoingInv
    <2>3. /\ files = [l \in Locations |-> NoKey] /\ owned = [l \in Locations |-> NoKey]
          /\ caller = [c \in Callers |-> Resting]
      BY Zenon DEF KeystoreInit
    <2>4. FilesInv
      BY <2>1, <2>2, <2>3, Zenon DEF FilesInv, Holds
    <2>5. VaultInv
      BY DEF KeystoreInit, VaultInv, NoCall
    <2> QED
      BY <2>4, <2>5, Zenon
  <1>2. FilesInv /\ VaultInv /\ [KeystoreNext]_keystoreVars => FilesInv' /\ VaultInv'
    <2> SUFFICES ASSUME FilesInv, VaultInv, [KeystoreNext]_keystoreVars
                 PROVE  FilesInv' /\ VaultInv'
      OBVIOUS
    <2>1. ASSUME UNCHANGED <<files, owned, overlapped, caller>> PROVE FilesInv'
      BY <2>1, Zenon DEF FilesInv
    <2>2. ASSUME UNCHANGED vaultVars PROVE VaultInv'
      BY <2>2, Zenon DEF VaultInv, Effect, vaultVars
    <2>3. CASE \E c \in Callers : FileCall(c) /\ UNCHANGED vaultVars
      BY <2>2, <2>3, FileCallKeeps, Zenon
    <2>4. CASE \/ \E op \in {"put", "delete"}, key \in Secrets : BeginVaultCall(op, key)
               \/ VaultAttempt
               \/ \E row \in stray : StrayCarriedOut(row)
      <3>1. UNCHANGED <<files, owned, overlapped, caller>>
        BY <2>4, Zenon DEF BeginVaultCall, VaultAttempt, StrayCarriedOut, fileVars
      <3> QED
        BY <2>1, <2>4, <3>1, VaultKeeps, Zenon
    <2>5. CASE UNCHANGED keystoreVars
      BY <2>1, <2>2, <2>5, Zenon DEF keystoreVars, vaultVars
    <2> QED
      BY <2>3, <2>4, <2>5, Zenon DEF KeystoreNext
  <1>3. FilesInv /\ VaultInv => KeysSurvive
    <2> SUFFICES ASSUME FilesInv, VaultInv, NEW l \in Locations
                 PROVE  /\ files[l] # Torn
                        /\ l \notin overlapped =>
                              \/ files[l] = NoKey /\ owned[l] = NoKey
                              \/ /\ files[l] # NoKey
                                 /\ owned[l] = [kind |-> DetectedKind(files[l]), key |-> files[l].key]
      BY Zenon DEF KeysSurvive, VaultInv
    <2>1. files[l] \in WholeFiles \cup {NoKey} /\ (l \notin overlapped => Holds(files[l], owned[l]))
      BY Zenon DEF FilesInv
    <2>2. files[l] \in WholeFiles => files[l] # Torn /\ DetectedKind(files[l]) = files[l].kind
      BY WholeIsFile, Zenon
    <2> QED
      BY <2>1, <2>2, KeystoreAssumption, Zenon DEF Holds, Material
  <1> QED
    BY <1>1, <1>2, <1>3, PTL
============================================================================
