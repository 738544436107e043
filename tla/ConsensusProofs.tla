-------------------------- MODULE ConsensusProofs ---------------------------
(***************************************************************************)
(* The theorems about the replicas of Consensus. First lemmas: type        *)
(* correctness, with the facts about heights, heads and pending blocks     *)
(* that every other proof uses, and the first three parts of the inductive *)
(* invariant: the shape of the stored chains, that a pending block sits    *)
(* right above the head of its chain, and that every Commit vote above the *)
(* chain of its replica is covered by the lock, in memory and in storage.  *)
(* TypeStep is relative to the first: the head of a chain is a block only  *)
(* because its height is stored. Then one Commit vote per height, the      *)
(* quorums behind the stored blocks, the inductive invariant as a whole,   *)
(* and what follows from it.                                               *)
(***************************************************************************)
EXTENDS Consensus, FiniteSetTheorems, TLAPS

(* A block is one above its parent and is neither the root nor None: what  *)
(* the header chain of the code guarantees about heights.                  *)
LEMMA HeightFacts ==
    ASSUME NEW b \in Blocks
    PROVE  /\ HeightOf[b] \in Nat /\ HeightOf[b] \in Heights
           /\ ParentOf[b] \in AllBlocks
           /\ HeightOf[ParentOf[b]] \in Nat
           /\ HeightOf[b] = HeightOf[ParentOf[b]] + 1
           /\ b \in AllBlocks /\ b # Root /\ b # None
BY BlockAssumption, Zenon DEF AllBlocks, Heights

(* Heights are natural numbers and contain that of the root.               *)
LEMMA HeightsAreNat == Heights \subseteq Nat /\ HeightOf[Root] \in Heights
BY BlockAssumption DEF AllBlocks, Heights

(* A height is not above itself.                                           *)
LEMMA NotAboveItself == \A h \in Nat : ~(h > h)
  OBVIOUS

(* The height recorded as the latest one has a block stored at it.         *)
LEMMA HeadFacts ==
    ASSUME TypeOK, ChainShape, NEW r \in Honest
    PROVE  /\ latest[r] \in Nat /\ latest[r] \in Heights
           /\ stored[r][latest[r]] \in AllBlocks
           /\ HeightOf[stored[r][latest[r]]] = latest[r]
<1>1. latest[r] \in Heights /\ latest[r] \in Nat
  BY HeightsAreNat, Zenon DEF TypeOK
<1>2. stored[r][latest[r]] \in AllBlocks \cup {None}
  BY <1>1 DEF TypeOK
<1>3. stored[r][latest[r]] # None
  BY <1>1 DEF ChainShape
<1> QED BY <1>1, <1>2, <1>3, Zenon DEF ChainShape

(* A pending block is right above the head, and the state rows are ahead.  *)
LEMMA PendingFacts ==
    ASSUME PendingShape, NEW r \in Honest, NEW b \in pending[r]
    PROVE  HeightOf[b] = latest[r] + 1 /\ HeightOf[executed[r]] > latest[r]
BY Zenon DEF PendingShape

(* Admitting a proposal adds a Prepare vote or none.                       *)
LEMMA AdmissionVotes ==
    ASSUME NEW r \in Honest, NEW b \in Blocks, AdmitProposal(r, b)
    PROVE  /\ votes \subseteq votes'
           /\ \A m \in votes' : m \in votes \/ m.phase # "Commit"
<1>1. votes' = votes \/ votes' = votes \cup {Vote(r, b, view[r], "Prepare")}
  BY Zenon DEF AdmitProposal, CastVote
<1>2. Vote(r, b, view[r], "Prepare").phase # "Commit"
  BY Zenon DEF Vote
<1> HIDE DEF Vote
<1> QED BY <1>1, <1>2, Zenon

(* The view a handler runs in is a number.                                 *)
LEMMA HandlingViewType ==
    ASSUME TypeOK, NEW r \in Honest, NEW b \in Blocks, NEW v \in Views,
           NEW w \in HandlingViews(r, b, v)
    PROVE  w \in Nat
BY BoundAssumption DEF TypeOK, HandlingViews, SyncedView, Views

(* Persisting a certificate leaves a view and a block in storage.          *)
LEMMA PersistQcType ==
    ASSUME TypeOK, NEW r \in Honest, NEW b \in Blocks, NEW v \in Views, NEW w \in Nat,
           PersistQc(r, b, v, w)
    PROVE  /\ qcView' \in [Honest -> [AllBlocks -> Nat \cup {NoView}]]
           /\ dView' \in [Honest -> Nat]
           /\ highest' \in [Honest -> AllBlocks]
BY HeightFacts, BoundAssumption DEF TypeOK, PersistQc, Views

(* A freshly started replica is well typed.                                *)
LEMMA InitType == Init => TypeOK
BY BlockAssumption, HeightsAreNat
   DEF Init, TypeOK, NoPhases, NoBlockViews, BlockPhases, NoView, NoHeight, AllBlocks

(* What start() rebuilds from storage is well typed.                       *)
LEMMA RecoverType ==
    ASSUME TypeOK, ChainShape, NEW r \in Honest, NEW dv \in Nat,
           NEW dl \in Blocks \cup {None}, NEW dlh \in Nat \cup {NoHeight},
           NEW qcs, Recover(r, dv, dl, dlh, qcs)
    PROVE  /\ view' \in [Honest -> Nat]
           /\ votedView' \in [Honest -> Nat \cup {NoView}]
           /\ proposedView' \in [Honest -> Nat \cup {NoView}]
           /\ pending' \in [Honest -> SUBSET Blocks]
           /\ phase' \in [Honest -> [Blocks -> BlockPhases]]
           /\ blockView' \in [Honest -> [Blocks -> Nat \cup {NoView}]]
           /\ lock' \in [Honest -> Blocks \cup {None}]
           /\ hsLockHeight' \in [Honest -> Nat \cup {NoHeight}]
           /\ lockHeight' \in [Honest -> Nat \cup {NoHeight}]
           /\ highest' \in [Honest -> AllBlocks]
           /\ finalized' \in [Honest -> Blocks \cup {None}]
           /\ finalizedHeight' \in [Honest -> Nat]
           /\ executed' \in [Honest -> AllBlocks]
<1>1. stored[r][latest[r]] \in AllBlocks
  BY HeadFacts, Zenon
<1>2. PICK h \in RestoredHighest(qcs) : highest' = [highest EXCEPT ![r] = h]
  BY Zenon DEF Recover
<1>3. h \in AllBlocks
  BY Zenon DEF RestoredHighest
<1>4. NoPhases \in [Blocks -> BlockPhases] /\ NoBlockViews \in [Blocks -> Nat \cup {NoView}]
  BY Zenon DEF NoPhases, NoBlockViews, BlockPhases
<1> QED BY <1>1, <1>2, <1>3, <1>4, Zenon DEF Recover, TypeOK

(* Admitting a proposal and voting for it keep the types.                  *)
LEMMA AdmitType ==
    ASSUME TypeOK, NEW r \in Honest, NEW b \in Blocks, AdmitProposal(r, b)
    PROVE  /\ pending' \in [Honest -> SUBSET Blocks]
           /\ votedView' \in [Honest -> Nat \cup {NoView}]
           /\ votes' \subseteq [from : Honest, block : Blocks, view : Nat, phase : VotePhases]
<1>1. pending' \in [Honest -> SUBSET Blocks]
  <2>1. (pending[r] \ Siblings(r, b)) \cup {b} \in SUBSET Blocks
    BY Zenon DEF TypeOK
  <2> QED BY <2>1, Zenon DEF TypeOK, AdmitProposal
<1>2. votedView' \in [Honest -> Nat \cup {NoView}]
  <2>1. view[r] \in Nat /\ votedView \in [Honest -> Nat \cup {NoView}]
    BY Zenon DEF TypeOK
  <2>2. votedView' = votedView \/ votedView' = [votedView EXCEPT ![r] = view[r]]
    BY Zenon DEF AdmitProposal, CastVote
  <2> QED BY <2>1, <2>2
<1>3. Vote(r, b, view[r], "Prepare") \in
          [from : Honest, block : Blocks, view : Nat, phase : VotePhases]
  BY Zenon DEF TypeOK, Vote, VotePhases
<1>4. votes' \subseteq votes \cup {Vote(r, b, view[r], "Prepare")}
  BY Zenon DEF AdmitProposal, CastVote
<1> QED BY <1>1, <1>2, <1>3, <1>4, Zenon DEF TypeOK

(* Every handler, crash and restart keeps the types.                       *)
LEMMA TypeStep == TypeOK /\ ChainShape /\ [Next]_vars => TypeOK'
<1> SUFFICES ASSUME TypeOK, ChainShape, [Next]_vars
             PROVE  TypeOK'
  OBVIOUS
<1>1. ASSUME NEW r \in Honest, NEW b \in Blocks, ReceiveProposal(r, b)
      PROVE  TypeOK'
  BY <1>1, AdmitType, HeightFacts, Zenon DEF ReceiveProposal, TypeOK
<1>2. ASSUME NEW r \in Honest, NEW b \in Blocks, Propose(r, b)
      PROVE  TypeOK'
  BY <1>2, AdmitType, HeightFacts DEF Propose, TypeOK
<1>3. ASSUME NEW r \in Honest, NEW b \in Blocks, NEW v \in Views, PrepareQc(r, b, v)
      PROVE  TypeOK'
  <2>1. PICK w \in HandlingViews(r, b, v) :
            PersistQc(r, b, v, w) /\ view' = [view EXCEPT ![r] = w]
    BY <1>3, Zenon DEF PrepareQc
  <2>2. w \in Nat /\ v \in Nat
    BY HandlingViewType, BoundAssumption DEF Views
  <2>3. votes' \subseteq [from : Honest, block : Blocks, view : Nat, phase : VotePhases]
    BY <1>3, <2>2 DEF PrepareQc, TypeOK, Vote, VotePhases
  <2> QED BY <1>3, <2>1, <2>2, <2>3, PersistQcType DEF PrepareQc, TypeOK, BlockPhases
<1>4. ASSUME NEW r \in Honest, NEW b \in Blocks, NEW v \in Views, PreCommitQc(r, b, v)
      PROVE  TypeOK'
  <2>1. PICK w \in HandlingViews(r, b, v) :
            PersistQc(r, b, v, w) /\ view' = [view EXCEPT ![r] = w]
    BY <1>4, Zenon DEF PreCommitQc
  <2>2. w \in Nat /\ v \in Nat
    BY HandlingViewType, BoundAssumption DEF Views
  <2>3. votes' \subseteq [from : Honest, block : Blocks, view : Nat, phase : VotePhases]
    BY <1>4, <2>2 DEF PreCommitQc, TypeOK, Vote, VotePhases
  <2>4. /\ lock' \in [Honest -> Blocks \cup {None}]
        /\ hsLockHeight' \in [Honest -> Nat \cup {NoHeight}]
    BY <1>4, HeightFacts, Zenon DEF PreCommitQc, TypeOK
  <2>5. /\ lockHeight' \in [Honest -> Nat \cup {NoHeight}]
        /\ dLockHeight' \in [Honest -> Nat \cup {NoHeight}]
        /\ dLock' \in [Honest -> Blocks \cup {None}]
    BY <1>4, HeightFacts, Zenon DEF PreCommitQc, TypeOK
  <2>6. phase' \in [Honest -> [Blocks -> BlockPhases]]
    BY <1>4, Zenon DEF PreCommitQc, TypeOK, BlockPhases
  <2> QED BY <1>4, <2>1, <2>2, <2>3, <2>4, <2>5, <2>6, PersistQcType, Zenon
          DEF PreCommitQc, TypeOK
<1>5. ASSUME NEW r \in Honest, NEW b \in Blocks, NEW v \in Views, CommitQc(r, b, v)
      PROVE  TypeOK'
  <2>1. PICK w \in HandlingViews(r, b, v) :
            LET gone == PrunedBlocks(KnownLinks(r), blockView[r], lock[r],
                                     w + 1 - PruneBuffer)
            IN  /\ PersistQc(r, b, v, w)
                /\ view' = [view EXCEPT ![r] = w + 1]
                /\ phase' = [phase EXCEPT ![r] =
                      [c \in Blocks |-> IF c \in gone THEN "None"
                                        ELSE IF c = b THEN "Finalize" ELSE @[c]]]
                /\ blockView' = [blockView EXCEPT ![r] =
                      [c \in Blocks |-> IF c \in gone THEN NoView ELSE @[c]]]
    BY <1>5, Zenon DEF CommitQc
  <2>2. w \in Nat /\ w + 1 \in Nat
    BY HandlingViewType
  <2>3. phase' \in [Honest -> [Blocks -> BlockPhases]]
    BY <2>1 DEF TypeOK, BlockPhases
  <2>4. blockView' \in [Honest -> [Blocks -> Nat \cup {NoView}]]
    BY <2>1 DEF TypeOK
  <2>5. latest' \in [Honest -> Heights]
    BY <1>5, HeightFacts, Zenon DEF CommitQc, TypeOK, Max2
  <2>6. stored' \in [Honest -> [Heights -> AllBlocks \cup {None}]]
    BY <1>5, HeightFacts, Zenon DEF CommitQc, TypeOK
  <2>7. pending' \in [Honest -> SUBSET Blocks] /\ snapshots' \in [Honest -> SUBSET Heights]
    BY <1>5, HeightFacts DEF CommitQc, TypeOK
  <2> QED BY <1>5, <2>1, <2>2, <2>3, <2>4, <2>5, <2>6, <2>7, PersistQcType, HeightFacts, Zenon
          DEF CommitQc, TypeOK
<1>6. ASSUME NEW r \in Honest, NEW b \in Blocks, NEW v \in Views, IgnoredQc(r, b, v)
      PROVE  TypeOK'
  <2>1. PICK w \in HandlingViews(r, b, v) :
            PersistQc(r, b, v, w) /\ view' = [view EXCEPT ![r] = w]
    BY <1>6, Zenon DEF IgnoredQc
  <2>2. w \in Nat
    BY HandlingViewType, Zenon
  <2> QED BY <1>6, <2>1, <2>2, PersistQcType, Zenon DEF IgnoredQc, TypeOK
<1>7. ASSUME NEW r \in Honest, NEW b \in Blocks, NEW v \in Views, ReceiveVote(r, b, v)
      PROVE  TypeOK'
  BY <1>7, BoundAssumption DEF ReceiveVote, TypeOK, SyncedView, Views
<1>8. ASSUME NEW r \in Honest, NEW b \in Blocks, NEW v \in Views,
             CrashInPersistLock(r, b, v)
      PROVE  TypeOK'
  <2>1. PICK w \in HandlingViews(r, b, v) :
          /\ dView' = [dView EXCEPT ![r] = w]
          /\ Recover(r, w, dLock[r], HeightOf[b], [qcView[r] EXCEPT ![b] = v])
    BY <1>8, Zenon DEF CrashInPersistLock
  <2>2. w \in Nat /\ v \in Nat
    BY HandlingViewType, BoundAssumption DEF Views
  <2>3. qcView' \in [Honest -> [AllBlocks -> Nat \cup {NoView}]]
    BY <1>8, <2>2, HeightFacts, Zenon DEF CrashInPersistLock, TypeOK
  <2>4. dLock[r] \in Blocks \cup {None} /\ HeightOf[b] \in Nat \cup {NoHeight}
    BY HeightFacts, Zenon DEF TypeOK
  <2> QED BY <1>8, <2>1, <2>2, <2>3, <2>4, RecoverType, Zenon DEF CrashInPersistLock, TypeOK
<1>9. ASSUME NEW r \in Honest, Timeout(r)
      PROVE  TypeOK'
  BY <1>9 DEF Timeout, TypeOK, storage
<1>10. ASSUME NEW r \in Honest, NEW q \in Honest, Synchronize(r, q)
       PROVE  TypeOK'
  <2> DEFINE b == stored[q][latest[r] + 1]
  <2>1. b \in Blocks
    BY <1>10, BoundAssumption, Zenon DEF Synchronize
  <2>2. HeightOf[b] \in Heights /\ b \in AllBlocks
    BY <2>1, HeightFacts, Zenon
  <2> QED BY <1>10, <2>1, <2>2, Zenon DEF Synchronize, TypeOK, memory
<1>11. ASSUME NEW r \in Honest, NEW stopped \in BOOLEAN, Restart(r, stopped)
       PROVE  TypeOK'
  <2>1. (IF stopped THEN view[r] ELSE dView[r]) \in Nat
    BY Zenon DEF TypeOK
  <2>2. dLock[r] \in Blocks \cup {None} /\ dLockHeight[r] \in Nat \cup {NoHeight}
    BY Zenon DEF TypeOK
  <2>3. dView' \in [Honest -> Nat]
    BY <1>11, Zenon DEF Restart, TypeOK
  <2> QED BY <1>11, <2>1, <2>2, <2>3, RecoverType, Zenon DEF Restart, TypeOK
<1>12. CASE UNCHANGED vars
  BY <1>12, Zenon DEF vars, memory, storage, TypeOK
<1> QED BY <1>1, <1>2, <1>3, <1>4, <1>5, <1>6, <1>7, <1>8, <1>9, <1>10, <1>11, <1>12, Zenon DEF Next

-----------------------------------------------------------------------------
(***************************************************************************)
(* The stored chains are linked and have no gap. The lemmas of a part of   *)
(* the inductive invariant are one per kind of step that disturbs it and   *)
(* one that combines them over Next.                                       *)
(***************************************************************************)

(* How stored chains grow.                                                 *)

Grows(r, b) ==
    /\ HeightOf[b] = latest[r] + 1
    /\ ParentOf[b] = stored[r][latest[r]]
    /\ stored' = [stored EXCEPT ![r][HeightOf[b]] = b]
    /\ latest' = [latest EXCEPT ![r] = HeightOf[b]]

(* A Commit certificate appends a block that a quorum committed.           *)
LEMMA CommitGrows ==
    ASSUME TypeOK, ChainShape, PendingShape,
           NEW r \in Honest, NEW b \in Blocks, NEW v \in Views, CommitQc(r, b, v)
    PROVE  Grows(r, b) /\ HasQuorum(b, v, "Commit")
<1>1. b \in pending[r]
  BY Zenon DEF CommitQc, CommitApplies
<1>2. HeightOf[b] = latest[r] + 1 /\ ParentOf[b] = stored[r][latest[r]]
  BY <1>1, Zenon DEF PendingShape
<1>3. Max2(latest[r], HeightOf[b]) = HeightOf[b]
  BY <1>2, HeadFacts DEF Max2
<1>4. latest' = [latest EXCEPT ![r] = HeightOf[b]]
  BY <1>3, Zenon DEF CommitQc
<1> QED BY <1>2, <1>4, Zenon DEF Grows, CommitQc, CommitCertificate

(* Synchronisation appends a block the peer has stored.                    *)
LEMMA SynchronizeGrows ==
    ASSUME TypeOK, ChainShape,
           NEW r \in Honest, NEW q \in Honest, Synchronize(r, q)
    PROVE  LET b == stored[q][latest[r] + 1]
           IN  /\ b \in Blocks
               /\ latest[r] + 1 \in Heights
               /\ Grows(r, b)
<1> DEFINE b == stored[q][latest[r] + 1]
<1>1. b \in Blocks
  BY BoundAssumption, Zenon DEF Synchronize
<1>2. HeightOf[b] = latest[r] + 1
  BY <1>1, HeightFacts, HeadFacts DEF Synchronize
<1> QED BY <1>1, <1>2, HeightFacts, Zenon DEF Grows, Synchronize

(* Appending a block that links to the head keeps the chain linked.        *)
LEMMA GrowthKeepsChain ==
    ASSUME TypeOK, ChainShape, NEW r \in Honest, NEW b \in Blocks, Grows(r, b)
    PROVE  ChainShape'
<1>1. /\ HeightOf[b] \in Heights /\ HeightOf[b] \in Nat /\ latest[r] \in Nat
      /\ HeightOf[b] = latest[r] + 1 /\ b # None
  BY HeightFacts, HeadFacts, Zenon DEF Grows
<1>2. SUFFICES ASSUME NEW q \in Honest
               PROVE  /\ latest'[q] >= HeightOf[Root]
                      /\ stored'[q][HeightOf[Root]] = Root
                      /\ \A h \in Heights :
                            /\ stored'[q][h] # None =>
                                  HeightOf[stored'[q][h]] = h /\ h <= latest'[q]
                            /\ HeightOf[Root] <= h /\ h <= latest'[q] => stored'[q][h] # None
  BY Zenon DEF ChainShape
<1>3. CASE q # r
  BY <1>3 DEF Grows, TypeOK, ChainShape
<1>4. CASE q = r
  <2>1. latest'[q] = latest[r] + 1
    BY <1>1, <1>4, Zenon DEF Grows, TypeOK
  <2>2. \A h \in Heights : stored'[q][h] = IF h = latest[r] + 1 THEN b ELSE stored[r][h]
    BY <1>1, <1>4 DEF Grows, TypeOK
  <2>3. HeightOf[Root] \in Heights /\ HeightOf[Root] <= latest[r] /\ Heights \subseteq Nat
    BY HeightsAreNat, Zenon DEF ChainShape
  <2>4. latest'[q] >= HeightOf[Root] /\ stored'[q][HeightOf[Root]] = Root
    <3>0. HeightOf[Root] \in Nat /\ latest[r] \in Nat /\ HeightOf[Root] <= latest[r]
      BY <1>1, <2>3, Zenon
    <3>1. HeightOf[Root] # latest[r] + 1
      BY <3>0
    <3>2. stored'[q][HeightOf[Root]] = stored[r][HeightOf[Root]]
      BY <2>2, <2>3, <3>1, Zenon
    <3>3. latest[r] + 1 >= HeightOf[Root]
      BY <3>0
    <3> QED BY <2>1, <3>2, <3>3, Zenon DEF ChainShape
  <2>5. ASSUME NEW h \in Heights
        PROVE  /\ stored'[q][h] # None => HeightOf[stored'[q][h]] = h /\ h <= latest'[q]
               /\ HeightOf[Root] <= h /\ h <= latest'[q] => stored'[q][h] # None
    <3>1. h \in Nat /\ HeightOf[Root] \in Nat
      BY <2>3, Zenon
    <3>2. CASE h = latest[r] + 1
      BY <1>1, <2>1, <2>2, <3>1, <3>2
    <3>3. CASE h # latest[r] + 1
      <4>1. stored'[q][h] = stored[r][h]
        BY <2>2, <3>3, Zenon
      <4> QED BY <1>1, <2>1, <3>1, <3>3, <4>1 DEF ChainShape
    <3> QED BY <3>2, <3>3, Zenon
  <2> QED BY <2>4, <2>5, Zenon
<1> QED BY <1>3, <1>4, Zenon

(* Every other step leaves the chains alone.                               *)
LEMMA ChainSteps ==
    ASSUME TypeOK, ChainShape, PendingShape, [Next]_vars
    PROVE  \/ UNCHANGED <<stored, latest>>
           \/ \E r \in Honest, b \in Blocks, v \in Views :
                 CommitQc(r, b, v)
           \/ \E r, q \in Honest : Synchronize(r, q)
<1>1. ASSUME NEW r \in Honest, NEW b \in Blocks, ReceiveProposal(r, b) \/ Propose(r, b)
      PROVE  UNCHANGED <<stored, latest>>
  BY <1>1, Zenon DEF ReceiveProposal, Propose
<1>2. ASSUME NEW r \in Honest, NEW b \in Blocks, NEW v \in Views,
             PrepareQc(r, b, v) \/ PreCommitQc(r, b, v) \/ IgnoredQc(r, b, v)
      PROVE  UNCHANGED <<stored, latest>>
  BY <1>2, Zenon DEF PrepareQc, PreCommitQc, IgnoredQc
<1>3. ASSUME NEW r \in Honest, NEW b \in Blocks, NEW v \in Views,
             ReceiveVote(r, b, v) \/ CrashInPersistLock(r, b, v)
      PROVE  UNCHANGED <<stored, latest>>
  BY <1>3, Zenon DEF ReceiveVote, CrashInPersistLock
<1>4. ASSUME NEW r \in Honest, NEW stopped \in BOOLEAN, Timeout(r) \/ Restart(r, stopped)
      PROVE  UNCHANGED <<stored, latest>>
  BY <1>4, Zenon DEF Timeout, Restart, storage
<1>5. CASE UNCHANGED vars
  BY <1>5, Zenon DEF vars, storage
<1> QED BY <1>1, <1>2, <1>3, <1>4, <1>5, Zenon DEF Next

(* Every step keeps every chain linked from the root to its head.          *)
LEMMA ChainStep ==
    ASSUME TypeOK, ChainShape, PendingShape, [Next]_vars
    PROVE  ChainShape'
<1>1. CASE UNCHANGED <<stored, latest>>
  BY <1>1 DEF ChainShape
<1>2. ASSUME NEW r \in Honest, NEW b \in Blocks, NEW v \in Views, CommitQc(r, b, v)
      PROVE  ChainShape'
  BY <1>2, CommitGrows, GrowthKeepsChain, Zenon
<1>3. ASSUME NEW r \in Honest, NEW q \in Honest, Synchronize(r, q)
      PROVE  ChainShape'
  BY <1>3, SynchronizeGrows, GrowthKeepsChain, Zenon
<1> QED BY <1>1, <1>2, <1>3, ChainSteps, Zenon

(* Pending blocks.                                                         *)

(* A gossiped proposal that executes extends the stored head, and finds    *)
(* nothing pending: the state rows are ahead of the chain otherwise.       *)
LEMMA ReceivedAboveHead ==
    ASSUME TypeOK, ChainShape, PendingShape,
           NEW r \in Honest, NEW b \in Blocks, ReceiveProposal(r, b)
    PROVE  /\ HeightOf[b] = latest[r] + 1
           /\ ParentOf[b] = stored[r][latest[r]]
           /\ pending[r] = {}
<1>1. /\ stored[r][HeightOf[b] - 1] = ParentOf[b]
      /\ executed[r] = ParentOf[b]
  BY Zenon DEF ReceiveProposal, GossipAuthentic
<1>2. HeightOf[b] - 1 = HeightOf[ParentOf[b]] /\ HeightOf[b] - 1 \in Heights
  BY HeightFacts DEF Heights
<1>3. HeightOf[b] - 1 <= latest[r]
  BY <1>1, <1>2, HeightFacts, BlockAssumption DEF ChainShape
<1>4. HeightOf[b] - 1 >= latest[r]
  BY <1>1, <1>2, Zenon DEF PendingShape
<1>5. HeightOf[b] - 1 = latest[r]
  BY <1>3, <1>4, HeightFacts, HeadFacts
<1>6. pending[r] = {}
  BY <1>1, <1>2, <1>5, HeadFacts DEF PendingShape
<1> QED BY <1>1, <1>5, <1>6, HeightFacts, HeadFacts, Zenon

(* A leader builds its block on its stored head.                           *)
LEMMA ProposedAboveHead ==
    ASSUME TypeOK, ChainShape, NEW r \in Honest, NEW b \in Blocks, Propose(r, b)
    PROVE  /\ HeightOf[b] = latest[r] + 1
           /\ ParentOf[b] = stored[r][latest[r]]
BY HeightFacts, HeadFacts DEF Propose

(* An admitted proposal replaces whatever was pending.                     *)
LEMMA AdmittedAlone ==
    ASSUME TypeOK, PendingShape, NEW r \in Honest, NEW b \in Blocks,
           ParentOf[b] = stored[r][latest[r]], AdmitProposal(r, b)
    PROVE  \/ pending' = pending
           \/ /\ pending' = [pending EXCEPT ![r] = {b}]
              /\ ~BelowLockedBlock(b, lock[r], lockHeight[r])
<1>1. \A c \in pending[r] : ParentOf[c] = ParentOf[b]
  BY Zenon DEF PendingShape
<1>2. (pending[r] \ Siblings(r, b)) \cup {b} = {b}
  BY <1>1, Zenon DEF Siblings
<1> QED BY <1>2, Zenon DEF AdmitProposal, Admissible

(* After an admission the pending block is the one right above the head.   *)
LEMMA AdmissionKeepsPending ==
    ASSUME TypeOK, ChainShape, PendingShape, NEW r \in Honest, NEW b \in Blocks,
           HeightOf[b] = latest[r] + 1, ParentOf[b] = stored[r][latest[r]],
           AdmitProposal(r, b), executed' = [executed EXCEPT ![r] = b],
           UNCHANGED <<stored, latest>>
    PROVE  PendingShape'
<1>1. latest[r] \in Nat
  BY HeadFacts, Zenon
<1>2. CASE pending' = pending
  BY <1>1, <1>2 DEF PendingShape, TypeOK
<1>3. CASE pending' = [pending EXCEPT ![r] = {b}]
  BY <1>1, <1>3 DEF PendingShape, TypeOK
<1> QED BY <1>2, <1>3, AdmittedAlone, Zenon

(* Growing a chain keeps the pending blocks of the other replicas in shape. *)
LEMMA GrowthKeepsPending ==
    ASSUME TypeOK, ChainShape, PendingShape, NEW r \in Honest, NEW b \in Blocks, Grows(r, b),
           pending' = [pending EXCEPT ![r] = {}],
           executed' \in [Honest -> AllBlocks],
           \A q \in Honest \ {r} : executed'[q] = executed[q],
           HeightOf[executed'[r]] >= HeightOf[b]
    PROVE  PendingShape'
<1> SUFFICES ASSUME NEW q \in Honest
             PROVE  /\ \A c \in pending'[q] :
                          HeightOf[c] = latest'[q] + 1 /\ ParentOf[c] = stored'[q][latest'[q]]
                    /\ \A c, d \in pending'[q] : c = d
                    /\ HeightOf[executed'[q]] >= latest'[q]
                    /\ pending'[q] # {} => HeightOf[executed'[q]] > latest'[q]
  BY Zenon DEF PendingShape
<1>1. CASE q = r
  BY <1>1, Zenon DEF Grows, TypeOK
<1>2. CASE q # r
  <2>1. /\ pending'[q] = pending[q] /\ latest'[q] = latest[q]
        /\ stored'[q] = stored[q] /\ executed'[q] = executed[q]
    BY <1>2, Zenon DEF Grows, TypeOK
  <2> QED BY <2>1 DEF PendingShape
<1> QED BY <1>1, <1>2, Zenon

(* Finalising empties the pending blocks of the replica.                   *)
LEMMA CommitKeepsPending ==
    ASSUME TypeOK, ChainShape, PendingShape,
           NEW r \in Honest, NEW b \in Blocks, NEW v \in Views, CommitQc(r, b, v)
    PROVE  PendingShape'
<1>1. Grows(r, b)
  BY CommitGrows, Zenon
<1>2. b \in pending[r] /\ pending[r] = {b}
  BY DEF CommitQc, CommitApplies, PendingShape
<1>3. pending' = [pending EXCEPT ![r] = {}]
  BY <1>2, Zenon DEF CommitQc
<1>4. executed' = executed /\ executed[r] \in AllBlocks
  BY Zenon DEF CommitQc, TypeOK
<1>5. HeightOf[executed[r]] \in Nat
  BY <1>4, BlockAssumption, Zenon
<1>6. HeightOf[executed[r]] >= HeightOf[b]
  <2>1. HeightOf[b] = latest[r] + 1 /\ HeightOf[executed[r]] > latest[r]
    BY <1>2, PendingFacts, Zenon
  <2>2. latest[r] \in Nat
    BY HeadFacts, Zenon
  <2> QED BY <1>5, <2>1, <2>2
<1> QED BY <1>1, <1>3, <1>4, <1>6, GrowthKeepsPending, Zenon DEF TypeOK

(* A replica that synchronises has nothing pending: its state rows would   *)
(* be ahead of its chain otherwise, and the block would not execute.       *)
LEMMA SynchronizeKeepsPending ==
    ASSUME TypeOK, ChainShape, PendingShape,
           NEW r \in Honest, NEW q \in Honest, Synchronize(r, q)
    PROVE  PendingShape'
<1> DEFINE b == stored[q][latest[r] + 1]
<1>1. b \in Blocks /\ Grows(r, b)
  BY SynchronizeGrows, Zenon
<1>2. executed[r] = stored[r][latest[r]] /\ executed' = [executed EXCEPT ![r] = b]
  BY Zenon DEF Synchronize
<1>3. pending[r] = {}
  BY <1>2, HeadFacts DEF PendingShape
<1>4. pending' = [pending EXCEPT ![r] = {}]
  BY <1>3, Zenon DEF Synchronize, memory, TypeOK
<1>5. b \in AllBlocks /\ HeightOf[b] \in Nat
  BY <1>1, HeightFacts, Zenon
<1>6. executed'[r] = b /\ executed' \in [Honest -> AllBlocks]
  BY <1>2, <1>5, Zenon DEF TypeOK
<1>7. \A p \in Honest \ {r} : executed'[p] = executed[p]
  BY <1>2, Zenon DEF TypeOK
<1>8. HeightOf[executed'[r]] >= HeightOf[b]
  BY <1>5, <1>6
<1> HIDE DEF b
<1> QED BY <1>1, <1>4, <1>6, <1>7, <1>8, GrowthKeepsPending, Zenon

(* A restart empties the pending blocks, which live in memory only.        *)
LEMMA RecoverKeepsPending ==
    ASSUME TypeOK, ChainShape, PendingShape, NEW r \in Honest,
           NEW dv, NEW dl, NEW dlh, NEW qcs, Recover(r, dv, dl, dlh, qcs),
           UNCHANGED <<stored, latest>>
    PROVE  PendingShape'
<1>1. pending' = [pending EXCEPT ![r] = {}]
  BY Zenon DEF Recover
<1>2. /\ \A q \in Honest \ {r} : executed'[q] = executed[q]
      /\ executed'[r] = stored[r][latest[r]] \/ executed'[r] = executed[r]
  BY DEF Recover, TypeOK
<1>3. HeightOf[executed'[r]] >= latest[r]
  <2>1. HeightOf[stored[r][latest[r]]] = latest[r] /\ latest[r] \in Nat
    BY HeadFacts, Zenon
  <2>2. HeightOf[executed[r]] >= latest[r]
    BY Zenon DEF PendingShape
  <2> QED BY <1>2, <2>1, <2>2
<1>4. pending'[r] = {} /\ \A q \in Honest \ {r} : pending'[q] = pending[q]
  BY <1>1, Zenon DEF TypeOK
<1> SUFFICES ASSUME NEW q \in Honest
             PROVE  /\ \A c \in pending'[q] :
                          HeightOf[c] = latest[q] + 1 /\ ParentOf[c] = stored[q][latest[q]]
                    /\ \A c, d \in pending'[q] : c = d
                    /\ HeightOf[executed'[q]] >= latest[q]
                    /\ pending'[q] # {} => HeightOf[executed'[q]] > latest[q]
  BY DEF PendingShape
<1>5. CASE q = r
  BY <1>3, <1>4, <1>5, Zenon
<1>6. CASE q # r
  BY <1>2, <1>4, <1>6 DEF PendingShape
<1> QED BY <1>5, <1>6, Zenon

(* Every step keeps pending blocks right above the chain they extend.      *)
LEMMA PendingStep ==
    ASSUME TypeOK, ChainShape, PendingShape, [Next]_vars
    PROVE  PendingShape'
<1>1. ASSUME NEW r \in Honest, NEW b \in Blocks, ReceiveProposal(r, b)
      PROVE  PendingShape'
  BY <1>1, ReceivedAboveHead, AdmissionKeepsPending, Zenon DEF ReceiveProposal
<1>2. ASSUME NEW r \in Honest, NEW b \in Blocks, Propose(r, b)
      PROVE  PendingShape'
  BY <1>2, ProposedAboveHead, AdmissionKeepsPending, Zenon DEF Propose
<1>3. CASE UNCHANGED <<pending, stored, latest, executed>>
  BY <1>3 DEF PendingShape
<1>4. ASSUME NEW r \in Honest, NEW b \in Blocks, NEW v \in Views,
             PrepareQc(r, b, v) \/ PreCommitQc(r, b, v) \/ IgnoredQc(r, b, v)
      PROVE  UNCHANGED <<pending, stored, latest, executed>>
  BY <1>4, Zenon DEF PrepareQc, PreCommitQc, IgnoredQc
<1>5. ASSUME NEW r \in Honest, NEW b \in Blocks, NEW v \in Views,
             ReceiveVote(r, b, v)
      PROVE  UNCHANGED <<pending, stored, latest, executed>>
  BY <1>5, Zenon DEF ReceiveVote
<1>6. ASSUME NEW r \in Honest, Timeout(r)
      PROVE  UNCHANGED <<pending, stored, latest, executed>>
  BY <1>6, Zenon DEF Timeout, storage
<1>7. CASE UNCHANGED vars
  BY <1>3, <1>7, Zenon DEF vars, memory, storage
<1>8. ASSUME NEW r \in Honest, NEW stopped \in BOOLEAN, Restart(r, stopped)
      PROVE  PendingShape'
  BY <1>8, RecoverKeepsPending, Zenon DEF Restart
<1>9. ASSUME NEW r \in Honest, NEW b \in Blocks, NEW v \in Views,
             CrashInPersistLock(r, b, v)
      PROVE  PendingShape'
  BY <1>9, RecoverKeepsPending, Zenon DEF CrashInPersistLock
<1> QED BY <1>1, <1>2, <1>3, <1>4, <1>5, <1>6, <1>7, <1>8, <1>9,
           CommitKeepsPending, SynchronizeKeepsPending DEF Next

-----------------------------------------------------------------------------
(* Locks.                                                                  *)

(* What LockShape says of one replica.                                     *)
LockHeld(r) ==
    /\ lockHeight[r] <= latest[r] + 1
    /\ dLockHeight[r] <= latest[r] + 1
    /\ \A b \in pending[r] : ~BelowLockedBlock(b, lock[r], lockHeight[r])
    /\ \A b \in Blocks :
          HeightOf[b] > latest[r] /\ phase[r][b] \in {"PreCommit", "Finalize"}
              => HoldsLock(r, b)
    /\ \A m \in votes :
          m.from = r /\ m.phase = "Commit" /\ HeightOf[m.block] > latest[r]
              => HoldsLock(r, m.block)

(* A replica that neither moves its own state nor adds a Commit vote keeps *)
(* its lock.                                                               *)
LEMMA LockFrame ==
    ASSUME LockShape, NEW q \in Honest,
           lockHeight'[q] = lockHeight[q], dLockHeight'[q] = dLockHeight[q],
           lock'[q] = lock[q], dLock'[q] = dLock[q], latest'[q] = latest[q],
           \A b \in pending'[q] :
               b \in pending[q] \/ ~BelowLockedBlock(b, lock[q], lockHeight[q]),
           \A b \in Blocks : phase'[q][b] \in {"PreCommit", "Finalize"} =>
                               phase'[q][b] = phase[q][b],
           \A m \in votes' : m \in votes \/ m.from # q \/ m.phase # "Commit"
    PROVE  LockHeld(q)'
<1>1. LockHeld(q)
  BY Zenon DEF LockShape, LockHeld
<1>2. \A b : HoldsLock(q, b)' <=> HoldsLock(q, b)
  BY Zenon DEF HoldsLock
<1>3. \A b \in pending'[q] : ~BelowLockedBlock(b, lock'[q], lockHeight'[q])
  BY <1>1, Zenon DEF LockHeld
<1>4. \A b \in Blocks :
          HeightOf[b] > latest'[q] /\ phase'[q][b] \in {"PreCommit", "Finalize"}
              => HoldsLock(q, b)'
  BY <1>1, <1>2, Zenon DEF LockHeld
<1>5. \A m \in votes' :
          m.from = q /\ m.phase = "Commit" /\ HeightOf[m.block] > latest'[q]
              => HoldsLock(q, m.block)'
  BY <1>1, <1>2, Zenon DEF LockHeld
<1> QED BY <1>1, <1>3, <1>4, <1>5, Zenon DEF LockHeld

(* The lock invariant holds when it holds replica by replica.              *)
LEMMA LockByReplica == (\A q \in Honest : LockHeld(q)') => LockShape'
BY Zenon DEF LockHeld, LockShape

(* Admitting a proposal touches no lock and adds no Commit vote.           *)
LEMMA AdmissionKeepsLock ==
    ASSUME TypeOK, PendingShape, LockShape, NEW r \in Honest, NEW b \in Blocks,
           ParentOf[b] = stored[r][latest[r]], AdmitProposal(r, b),
           UNCHANGED <<lock, lockHeight, dLock, dLockHeight, latest, phase>>
    PROVE  LockShape'
<1>1. \A m \in votes' : m \in votes \/ m.phase # "Commit"
  BY AdmissionVotes, Zenon
<1>2. \A q \in Honest : \A c \in pending'[q] :
          c \in pending[q] \/ ~BelowLockedBlock(c, lock[q], lockHeight[q])
  <2>1. CASE pending' = pending
    BY <2>1, Zenon
  <2>2. CASE /\ pending' = [pending EXCEPT ![r] = {b}]
             /\ ~BelowLockedBlock(b, lock[r], lockHeight[r])
    <3>1. pending'[r] = {b} /\ \A q \in Honest \ {r} : pending'[q] = pending[q]
      BY <2>2, Zenon DEF TypeOK
    <3> QED BY <2>2, <3>1, Zenon
  <2> QED BY <2>1, <2>2, AdmittedAlone, Zenon
<1>3. \A q \in Honest : LockHeld(q)'
  BY <1>1, <1>2, LockFrame, Zenon
<1> QED BY <1>3, LockByReplica, Zenon

(* The lock a replica holds is the block it has pending, when it has both  *)
(* at the height right above its chain: a block below the lock is never    *)
(* pending.                                                                *)
LEMMA PendingIsLocked ==
    ASSUME TypeOK, PendingShape, LockShape, NEW r \in Honest, NEW b \in pending[r],
           NEW c \in Blocks, HoldsLock(r, c)
    PROVE  b = c
<1>1. HeightOf[b] = lockHeight[r] /\ lock[r] = c
  BY Zenon DEF PendingShape, HoldsLock
<1>2. c # None /\ lockHeight[r] # NoHeight
  BY HeightFacts DEF HoldsLock, NoHeight
<1>3. ~BelowLockedBlock(b, lock[r], lockHeight[r])
  BY Zenon DEF LockShape
<1> QED BY <1>1, <1>2, <1>3, Zenon DEF BelowLockedBlock

(* A PreCommit certificate leaves its block locked in memory and storage.  *)
LEMMA PreCommitHolds ==
    ASSUME TypeOK, ChainShape, PendingShape, LockShape,
           NEW r \in Honest, NEW b \in Blocks, NEW v \in Views, PreCommitQc(r, b, v)
    PROVE  b \in pending[r] /\ HeightOf[b] = latest[r] + 1 /\ HoldsLock(r, b)'
<1>1. b \in pending[r] /\ phase[r][b] \in {"Prepare", "PreCommit"}
  BY Zenon DEF PreCommitQc, PreCommitApplies
<1>2. HeightOf[b] = latest[r] + 1
  BY <1>1, Zenon DEF PendingShape
<1>3. lock'[r] = b
  <2>1. CASE phase[r][b] = "Prepare"
    BY <2>1, Zenon DEF PreCommitQc, TypeOK
  <2>2. CASE phase[r][b] # "Prepare"
    <3>1. HeightOf[b] > latest[r]
      <4>1. latest[r] \in Nat
        BY HeadFacts, Zenon
      <4> QED BY <1>2, <4>1
    <3>2. HoldsLock(r, b)
      BY <1>1, <2>2, <3>1, Zenon DEF LockShape
    <3>3. lock[r] = b
      BY <3>2, Zenon DEF HoldsLock
    <3> QED BY <2>2, <3>3 DEF PreCommitQc, TypeOK
  <2> QED BY <2>1, <2>2, Zenon
<1>4. /\ lockHeight'[r] = HeightOf[b] /\ dLockHeight'[r] = HeightOf[b]
      /\ dLock'[r] = b /\ latest' = latest
  BY DEF PreCommitQc, TypeOK
<1> QED BY <1>1, <1>2, <1>3, <1>4, Zenon DEF HoldsLock

(* A PreCommit certificate moves the lock only to the block whose Commit   *)
(* vote it signs, so every earlier Commit vote stays covered.              *)
LEMMA PreCommitKeepsLock ==
    ASSUME TypeOK, ChainShape, PendingShape, LockShape,
           NEW r \in Honest, NEW b \in Blocks, NEW v \in Views, PreCommitQc(r, b, v)
    PROVE  LockShape'
<1>1. b \in pending[r] /\ HeightOf[b] = latest[r] + 1 /\ HoldsLock(r, b)'
  BY PreCommitHolds, Zenon
<1>2. pending' = pending /\ latest' = latest
  BY Zenon DEF PreCommitQc
<1>3. \A m \in votes' :
          m \in votes \/ (m.from = r /\ m.block = b /\ m.phase = "Commit")
  BY DEF PreCommitQc, Vote
<1>4. ASSUME NEW q \in Honest, q # r
      PROVE  LockHeld(q)'
  <2>1. /\ lockHeight'[q] = lockHeight[q] /\ dLockHeight'[q] = dLockHeight[q]
        /\ lock'[q] = lock[q] /\ dLock'[q] = dLock[q] /\ phase'[q] = phase[q]
    BY <1>4 DEF PreCommitQc, TypeOK
  <2> QED BY <1>2, <1>3, <1>4, <2>1, LockFrame, Zenon
<1>5. LockHeld(r)'
  <2>1. latest[r] \in Nat
    BY HeadFacts
  <2>2. /\ lock'[r] = b /\ lockHeight'[r] = latest[r] + 1
        /\ dLockHeight'[r] = latest[r] + 1
    BY <1>1, Zenon DEF HoldsLock
  <2>3. \A c \in pending'[r] : c = b
    BY <1>1, <1>2, Zenon DEF PendingShape
  <2>4. ~BelowLockedBlock(b, lock'[r], lockHeight'[r])
    BY <1>1, <2>1, <2>2 DEF BelowLockedBlock
  <2>5. ASSUME NEW c \in Blocks, HeightOf[c] > latest[r],
               phase'[r][c] \in {"PreCommit", "Finalize"}
        PROVE  HoldsLock(r, c)'
    <3>1. CASE c = b
      BY <1>1, <3>1, Zenon
    <3>2. CASE c # b
      <4>1. phase'[r][c] = phase[r][c]
        BY <3>2 DEF PreCommitQc, TypeOK
      <4>2. HoldsLock(r, c)
        BY <2>5, <4>1, Zenon DEF LockShape
      <4> QED BY <1>1, <3>2, <4>2, PendingIsLocked, Zenon
    <3> QED BY <3>1, <3>2, Zenon
  <2>6. ASSUME NEW m \in votes', m.from = r, m.phase = "Commit",
               HeightOf[m.block] > latest[r]
        PROVE  HoldsLock(r, m.block)'
    <3>1. CASE m \in votes
      <4>1. HoldsLock(r, m.block) /\ m.block \in Blocks
        BY <2>6, <3>1, Zenon DEF LockShape, TypeOK
      <4>2. m.block = b
        BY <1>1, <4>1, PendingIsLocked, Zenon
      <4> QED BY <1>1, <4>2, Zenon
    <3>2. CASE m.block = b
      BY <1>1, <3>2, Zenon
    <3> QED BY <1>3, <3>1, <3>2, Zenon
  <2>7. lockHeight'[r] <= latest'[r] + 1 /\ dLockHeight'[r] <= latest'[r] + 1
    BY <1>2, <2>1, <2>2
  <2>8. \A c \in pending'[r] : ~BelowLockedBlock(c, lock'[r], lockHeight'[r])
    BY <2>3, <2>4, Zenon
  <2>9. latest'[r] = latest[r]
    BY <1>2, Zenon
  <2> QED BY <2>5, <2>6, <2>7, <2>8, <2>9, Zenon DEF LockHeld
<1> QED BY <1>4, <1>5, LockByReplica, Zenon

(* A lock is at most one block above the chain, so a chain that grows      *)
(* reaches it.                                                             *)
LEMMA GrowthKeepsLock ==
    ASSUME TypeOK, ChainShape, LockShape, NEW r \in Honest, NEW b \in Blocks, Grows(r, b),
           UNCHANGED <<lock, lockHeight, dLock, dLockHeight, votes>>,
           \A q \in Honest : pending'[q] \subseteq pending[q],
           pending'[r] = {},
           \A q \in Honest, c \in Blocks :
               phase'[q][c] \in {"PreCommit", "Finalize"} =>
                   phase'[q][c] = phase[q][c] \/ (q = r /\ c = b)
    PROVE  LockShape'
<1>1. /\ latest'[r] = latest[r] + 1 /\ latest[r] \in Nat /\ HeightOf[b] = latest[r] + 1
      /\ \A q \in Honest \ {r} : latest'[q] = latest[q]
  BY HeadFacts, Zenon DEF Grows, TypeOK
<1>2. ASSUME NEW q \in Honest, q # r
      PROVE  LockHeld(q)'
  <2>1. /\ lockHeight'[q] = lockHeight[q] /\ dLockHeight'[q] = dLockHeight[q]
        /\ lock'[q] = lock[q] /\ dLock'[q] = dLock[q] /\ latest'[q] = latest[q]
        /\ \A c \in pending'[q] : c \in pending[q]
    BY <1>1, <1>2, Zenon
  <2>2. \A c \in Blocks : phase'[q][c] \in {"PreCommit", "Finalize"} =>
                              phase'[q][c] = phase[q][c]
    BY <1>2, Zenon
  <2>3. \A m \in votes' : m \in votes
    OBVIOUS
  <2> QED BY <2>1, <2>2, <2>3, LockFrame, Zenon
<1>3. LockHeld(r)'
  <2>1. ASSUME NEW c \in Blocks, HeightOf[c] > latest[r] + 1
        PROVE  ~HoldsLock(r, c) /\ HeightOf[c] > latest[r] /\ c # b
    <3>1. HeightOf[c] \in Nat
      BY HeightFacts, Zenon
    <3>2. HeightOf[c] # latest[r] + 1 /\ HeightOf[c] > latest[r]
      BY <1>1, <2>1, <3>1
    <3> QED BY <1>1, <3>2, Zenon DEF HoldsLock
  <2>2. \A c \in Blocks :
            ~(HeightOf[c] > latest[r] + 1 /\ phase'[r][c] \in {"PreCommit", "Finalize"})
    <3> SUFFICES ASSUME NEW c \in Blocks, HeightOf[c] > latest[r] + 1,
                        phase'[r][c] \in {"PreCommit", "Finalize"}
                 PROVE  FALSE
      BY Zenon
    <3>1. ~HoldsLock(r, c) /\ HeightOf[c] > latest[r] /\ c # b
      BY <2>1, Zenon
    <3>2. phase[r][c] \in {"PreCommit", "Finalize"}
      BY <3>1, Zenon
    <3> QED BY <3>1, <3>2, Zenon DEF LockShape
  <2>3. \A m \in votes :
            ~(m.from = r /\ m.phase = "Commit" /\ HeightOf[m.block] > latest[r] + 1)
    <3> SUFFICES ASSUME NEW m \in votes, m.from = r, m.phase = "Commit",
                        HeightOf[m.block] > latest[r] + 1
                 PROVE  FALSE
      BY Zenon
    <3>1. m.block \in Blocks
      BY DEF TypeOK
    <3>2. ~HoldsLock(r, m.block) /\ HeightOf[m.block] > latest[r]
      BY <2>1, <3>1, Zenon
    <3> QED BY <3>2, Zenon DEF LockShape
  <2>4. lockHeight[r] \in Int /\ dLockHeight[r] \in Int
    BY DEF TypeOK, NoHeight
  <2>5. lockHeight[r] <= latest'[r] + 1 /\ dLockHeight[r] <= latest'[r] + 1
    <3>1. lockHeight[r] <= latest[r] + 1 /\ dLockHeight[r] <= latest[r] + 1
      BY Zenon DEF LockShape
    <3> QED BY <1>1, <2>4, <3>1
  <2>6. /\ lockHeight'[r] <= latest'[r] + 1 /\ dLockHeight'[r] <= latest'[r] + 1
        /\ \A c \in pending'[r] : ~BelowLockedBlock(c, lock'[r], lockHeight'[r])
    BY <2>5, Zenon
  <2>7. \A c \in Blocks :
            ~(HeightOf[c] > latest'[r] /\ phase'[r][c] \in {"PreCommit", "Finalize"})
    BY <1>1, <2>2, Zenon
  <2>8. \A m \in votes' :
            ~(m.from = r /\ m.phase = "Commit" /\ HeightOf[m.block] > latest'[r])
    BY <1>1, <2>3, Zenon
  <2> QED BY <2>6, <2>7, <2>8, Zenon DEF LockHeld
<1> QED BY <1>2, <1>3, LockByReplica, Zenon

(* Finalising reaches at most the height of the lock.                      *)
LEMMA CommitKeepsLock ==
    ASSUME TypeOK, ChainShape, PendingShape, LockShape,
           NEW r \in Honest, NEW b \in Blocks, NEW v \in Views, CommitQc(r, b, v)
    PROVE  LockShape'
<1>1. Grows(r, b)
  BY CommitGrows, Zenon
<1>2. pending[r] = {b}
  BY DEF CommitQc, CommitApplies, PendingShape
<1>3. pending' = [pending EXCEPT ![r] = {}]
  BY <1>2, Zenon DEF CommitQc
<1>4. pending'[r] = {} /\ \A q \in Honest : pending'[q] \subseteq pending[q]
  BY <1>3, Zenon DEF TypeOK
<1>5. UNCHANGED <<lock, lockHeight, dLock, dLockHeight, votes>>
  BY Zenon DEF CommitQc
<1>6. PICK gone : phase' = [phase EXCEPT ![r] =
                      [c \in Blocks |-> IF c \in gone THEN "None"
                                        ELSE IF c = b THEN "Finalize" ELSE phase[r][c]]]
  BY Zenon DEF CommitQc
<1>7. \A q \in Honest, c \in Blocks :
          phase'[q][c] \in {"PreCommit", "Finalize"} =>
              phase'[q][c] = phase[q][c] \/ (q = r /\ c = b)
  BY <1>6, Zenon DEF TypeOK
<1> QED BY <1>1, <1>4, <1>5, <1>7, GrowthKeepsLock, Zenon

(* A synchronised block moves the chain up to a lock and never past it     *)
(* without covering it.                                                    *)
LEMMA SynchronizeKeepsLock ==
    ASSUME TypeOK, ChainShape, PendingShape, LockShape,
           NEW r \in Honest, NEW q \in Honest, Synchronize(r, q)
    PROVE  LockShape'
<1> DEFINE b == stored[q][latest[r] + 1]
<1>1. b \in Blocks /\ Grows(r, b)
  BY SynchronizeGrows, Zenon
<1>2. executed[r] = stored[r][latest[r]]
  BY Zenon DEF Synchronize
<1>3. pending[r] = {}
  <2>1. HeightOf[executed[r]] = latest[r] /\ latest[r] \in Nat
    BY <1>2, HeadFacts, Zenon
  <2>2. ~(HeightOf[executed[r]] > latest[r])
    BY <2>1, NotAboveItself, Zenon
  <2> QED BY <2>2, Zenon DEF PendingShape
<1>4. UNCHANGED <<pending, phase, lock, lockHeight, dLock, dLockHeight, votes>>
  BY Zenon DEF Synchronize, memory
<1> HIDE DEF b
<1> QED BY <1>1, <1>3, <1>4, GrowthKeepsLock, Zenon

(* A restart restores the lock from storage, where every Commit vote left  *)
(* it; a height written without its hash only raises the bar.              *)
LEMMA RecoverKeepsLock ==
    ASSUME TypeOK, ChainShape, LockShape, NEW r \in Honest,
           NEW dv, NEW dlh \in Nat \cup {NoHeight}, NEW qcs,
           Recover(r, dv, dLock[r], dlh, qcs),
           dlh = dLockHeight[r] \/ dlh = latest[r] + 1,
           dLockHeight' = [dLockHeight EXCEPT ![r] = dlh],
           UNCHANGED <<latest, dLock, votes>>
    PROVE  LockShape'
<1>1. /\ pending'[r] = {} /\ lock'[r] = dLock[r] /\ dLockHeight'[r] = dlh
      /\ lockHeight'[r] = IF dLock[r] = None THEN NoHeight ELSE dlh
  BY DEF Recover, TypeOK
<1>2. \A b \in Blocks : phase'[r][b] = "None"
  BY Zenon DEF Recover, TypeOK, NoPhases
<1>3. ASSUME NEW q \in Honest, q # r
      PROVE  LockHeld(q)'
  <2>1. /\ lockHeight'[q] = lockHeight[q] /\ dLockHeight'[q] = dLockHeight[q]
        /\ lock'[q] = lock[q] /\ pending'[q] = pending[q] /\ phase'[q] = phase[q]
    BY <1>3 DEF Recover, TypeOK
  <2> QED BY <2>1, LockFrame, Zenon
<1>4. LockHeld(r)'
  <2>1. latest[r] \in Nat /\ dLockHeight[r] <= latest[r] + 1
    BY HeadFacts, Zenon DEF LockShape
  <2>2. dlh <= latest[r] + 1 /\ NoHeight <= latest[r] + 1
    BY <2>1 DEF NoHeight
  <2>3. ASSUME NEW m \in votes, m.from = r, m.phase = "Commit",
               HeightOf[m.block] > latest[r]
        PROVE  HoldsLock(r, m.block)'
    <3>1. HoldsLock(r, m.block) /\ m.block \in Blocks
      BY <2>3, Zenon DEF LockShape, TypeOK
    <3>2. m.block # None /\ HeightOf[m.block] = latest[r] + 1 /\ dLock[r] = m.block
      BY <3>1, HeightFacts, Zenon DEF HoldsLock
    <3>3. dlh = HeightOf[m.block]
      BY <3>1, <3>2, Zenon DEF HoldsLock
    <3> QED BY <1>1, <3>2, <3>3, Zenon DEF HoldsLock
  <2>4. lockHeight'[r] <= latest[r] + 1 /\ dLockHeight'[r] <= latest[r] + 1
    BY <1>1, <2>2, Zenon
  <2> QED BY <1>1, <1>2, <2>3, <2>4, Zenon DEF LockHeld
<1> QED BY <1>3, <1>4, LockByReplica, Zenon

(* Every step keeps every Commit vote above the chain covered by a lock.   *)
LEMMA LockStep ==
    ASSUME TypeOK, ChainShape, PendingShape, LockShape, [Next]_vars
    PROVE  LockShape'
<1>1. ASSUME NEW r \in Honest, NEW b \in Blocks, ReceiveProposal(r, b)
      PROVE  LockShape'
  BY <1>1, ReceivedAboveHead, AdmissionKeepsLock, Zenon DEF ReceiveProposal
<1>2. ASSUME NEW r \in Honest, NEW b \in Blocks, Propose(r, b)
      PROVE  LockShape'
  BY <1>2, ProposedAboveHead, AdmissionKeepsLock, Zenon DEF Propose
<1>3. ASSUME NEW r \in Honest, NEW b \in Blocks, NEW v \in Views, PrepareQc(r, b, v)
      PROVE  LockShape'
  <2>1. \A m \in votes' : m \in votes \/ m.phase # "Commit"
    BY <1>3 DEF PrepareQc, Vote
  <2>2. \A q \in Honest, c \in Blocks : phase'[q][c] \in {"PreCommit", "Finalize"} =>
                                           phase'[q][c] = phase[q][c]
    BY <1>3 DEF PrepareQc, TypeOK
  <2>3. UNCHANGED <<pending, lock, lockHeight, dLock, dLockHeight, latest>>
    BY <1>3, Zenon DEF PrepareQc
  <2>4. \A q \in Honest : LockHeld(q)'
    BY <2>1, <2>2, <2>3, LockFrame, Zenon
  <2> QED BY <2>4, LockByReplica, Zenon
<1>4. CASE UNCHANGED <<pending, phase, lock, lockHeight, dLock, dLockHeight, latest, votes>>
  <2>1. \A q \in Honest : LockHeld(q)'
    BY <1>4, LockFrame, Zenon
  <2> QED BY <2>1, LockByReplica, Zenon
<1>5. ASSUME NEW r \in Honest, NEW b \in Blocks, NEW v \in Views,
             IgnoredQc(r, b, v) \/ ReceiveVote(r, b, v)
      PROVE  LockShape'
  BY <1>4, <1>5, Zenon DEF IgnoredQc, ReceiveVote
<1>6. ASSUME NEW r \in Honest, Timeout(r)
      PROVE  LockShape'
  BY <1>4, <1>6, Zenon DEF Timeout, storage
<1>7. CASE UNCHANGED vars
  BY <1>4, <1>7, Zenon DEF vars, memory, storage
<1>8. ASSUME NEW r \in Honest, NEW stopped \in BOOLEAN, Restart(r, stopped)
      PROVE  LockShape'
  <2>1. dLockHeight[r] \in Nat \cup {NoHeight}
    BY Zenon DEF TypeOK
  <2>2. dLockHeight' = [dLockHeight EXCEPT ![r] = dLockHeight[r]]
    BY <1>8, Zenon DEF Restart, TypeOK
  <2> QED BY <1>8, <2>1, <2>2, RecoverKeepsLock, Zenon DEF Restart
<1>9. ASSUME NEW r \in Honest, NEW b \in Blocks, NEW v \in Views,
             CrashInPersistLock(r, b, v)
      PROVE  LockShape'
  <2>1. b \in pending[r]
    BY <1>9, Zenon DEF CrashInPersistLock, PreCommitApplies
  <2>2. HeightOf[b] = latest[r] + 1 /\ HeightOf[b] \in Nat \cup {NoHeight}
    BY <2>1, HeightFacts, PendingFacts, Zenon
  <2> QED BY <1>9, <2>2, RecoverKeepsLock, Zenon DEF CrashInPersistLock
<1> QED BY <1>1, <1>2, <1>3, <1>5, <1>6, <1>7, <1>8, <1>9,
           PreCommitKeepsLock, CommitKeepsLock, SynchronizeKeepsLock DEF Next

(* Only a PreCommit certificate makes a replica sign a Commit vote.        *)
LEMMA VoteSteps ==
    ASSUME [Next]_vars
    PROVE  \/ /\ votes \subseteq votes'
              /\ \A m \in votes' : m \in votes \/ m.phase # "Commit"
           \/ \E r \in Honest, b \in Blocks, v \in Views : PreCommitQc(r, b, v)
<1>1. ASSUME NEW r \in Honest, NEW b \in Blocks, ReceiveProposal(r, b) \/ Propose(r, b)
      PROVE  /\ votes \subseteq votes'
             /\ \A m \in votes' : m \in votes \/ m.phase # "Commit"
  BY <1>1, AdmissionVotes, Zenon DEF ReceiveProposal, Propose
<1>2. ASSUME NEW r \in Honest, NEW b \in Blocks, NEW v \in Views, PrepareQc(r, b, v)
      PROVE  /\ votes \subseteq votes'
             /\ \A m \in votes' : m \in votes \/ m.phase # "Commit"
  BY <1>2 DEF PrepareQc, Vote
<1>3. ASSUME NEW r \in Honest, NEW b \in Blocks, NEW v \in Views,
             CommitQc(r, b, v) \/ IgnoredQc(r, b, v) \/ ReceiveVote(r, b, v)
      PROVE  votes' = votes
  BY <1>3, Zenon DEF CommitQc, IgnoredQc, ReceiveVote
<1>4. ASSUME NEW r \in Honest, NEW q \in Honest, NEW stopped \in BOOLEAN,
             Timeout(r) \/ Synchronize(r, q) \/ Restart(r, stopped)
      PROVE  votes' = votes
  BY <1>4, Zenon DEF Timeout, Synchronize, Restart
<1>5. ASSUME NEW r \in Honest, NEW b \in Blocks, NEW v \in Views,
             CrashInPersistLock(r, b, v)
      PROVE  votes' = votes
  BY <1>5, Zenon DEF CrashInPersistLock
<1>6. CASE UNCHANGED vars
  BY <1>6, Zenon DEF vars
<1> QED BY <1>1, <1>2, <1>3, <1>4, <1>5, <1>6, Zenon DEF Next

(* No step makes a replica sign Commit for a second block of a height.     *)
LEMMA OneCommitStep ==
    ASSUME TypeOK, ChainShape, PendingShape, LockShape, OneCommitPerHeight, [Next]_vars
    PROVE  OneCommitPerHeight'
<1>1. CASE \A m \in votes' : m \in votes \/ m.phase # "Commit"
  BY <1>1, Zenon DEF OneCommitPerHeight
<1>2. ASSUME NEW r \in Honest, NEW b \in Blocks, NEW v \in Views, PreCommitQc(r, b, v)
      PROVE  OneCommitPerHeight'
  <2>1. b \in pending[r] /\ HeightOf[b] = latest[r] + 1
    BY <1>2, PreCommitHolds, Zenon
  <2>2. \A m \in votes' : m \in votes \/ (m.from = r /\ m.block = b)
    BY <1>2 DEF PreCommitQc, Vote
  <2>3. ASSUME NEW m \in votes, m.from = r, m.phase = "Commit",
               HeightOf[m.block] = HeightOf[b]
        PROVE  m.block = b
    <3>1. HeightOf[m.block] > latest[r]
      BY <2>1, <2>3, HeadFacts
    <3>2. HoldsLock(r, m.block) /\ m.block \in Blocks
      BY <2>3, <3>1, Zenon DEF LockShape, TypeOK
    <3> QED BY <2>1, <3>2, PendingIsLocked, Zenon
  <2> QED BY <2>2, <2>3, Zenon DEF OneCommitPerHeight
<1> QED BY <1>1, <1>2, VoteSteps, Zenon

-----------------------------------------------------------------------------
(* Quorums.                                                                *)

(* Two quorums of votes share a correct replica: the two thirds threshold of *)
(* quorum_threshold leaves no room for two quorums that meet only in faults. *)
LEMMA QuorumsIntersect ==
    ASSUME NEW S \in SUBSET Replicas, NEW T \in SUBSET Replicas,
           Cardinality(S) >= QuorumThreshold, Cardinality(T) >= QuorumThreshold
    PROVE  \E r \in S \cap T : r \in Honest
<1>1. IsFiniteSet(S) /\ IsFiniteSet(T) /\ IsFiniteSet(Faulty) /\ IsFiniteSet(S \cup T)
  BY ReplicaAssumption, FS_Subset, Zenon
<1>2. Cardinality(S \cup T) <= Cardinality(Replicas)
  BY <1>1, ReplicaAssumption, FS_Subset, Zenon
<1>3. Cardinality(S \cup T) = Cardinality(S) + Cardinality(T) - Cardinality(S \cap T)
  BY <1>1, FS_Union, Zenon
<1>4. IsFiniteSet(S \cap T)
  BY <1>1, FS_Subset, S \cap T \subseteq S, Zenon
<1>5. /\ Cardinality(S) \in Nat /\ Cardinality(T) \in Nat /\ Cardinality(S \cap T) \in Nat
      /\ Cardinality(Replicas) \in Nat /\ Cardinality(Faulty) \in Nat
      /\ Cardinality(S \cup T) \in Nat
  BY <1>1, <1>4, ReplicaAssumption, FS_CardinalityType, Zenon
<1>6. Cardinality(S \cap T) > Cardinality(Faulty)
  <2> DEFINE n == Cardinality(Replicas)
             q == QuorumThreshold
  <2>1. n \in Nat /\ q = (n * 2) \div 3 + 1
    BY <1>5, Zenon DEF QuorumThreshold
  <2>2. 3 * q > 2 * n /\ q \in Nat
    BY <2>1
  <2>3. 3 * Cardinality(Faulty) < n
    BY ReplicaAssumption, Zenon
  <2> QED BY <1>2, <1>3, <1>5, <2>1, <2>2, <2>3
<1>7. ~(S \cap T \subseteq Faulty)
  BY <1>1, <1>5, <1>6, FS_Subset
<1> QED BY <1>7, Zenon DEF Honest

-----------------------------------------------------------------------------
(* Stored blocks are committed ones.                                       *)

(* Only replicas vote.                                                     *)
LEMMA VotersAreReplicas ==
    \A b, v, p : Voters(b, v, p) \subseteq Replicas
BY ReplicaAssumption, Zenon DEF Voters, Honest

(* Votes are never withdrawn, so a quorum stays one.                       *)
LEMMA CommittedStays ==
    ASSUME votes \subseteq votes', NEW b \in Blocks, Committed(b)
    PROVE  Committed(b)'
<1>1. PICK v \in Views : HasQuorum(b, v, "Commit")
  BY Zenon DEF Committed
<1>2. PICK S \in SUBSET Voters(b, v, "Commit") : IsQuorum(S)
  BY <1>1, Zenon DEF HasQuorum
<1>3. Voters(b, v, "Commit") \subseteq Voters(b, v, "Commit")'
  BY Zenon DEF Voters
<1>4. S \in SUBSET Voters(b, v, "Commit")' /\ IsQuorum(S)'
  BY <1>2, <1>3, Zenon DEF IsQuorum
<1> QED BY <1>4, Zenon DEF Committed, HasQuorum

(* Every step stores only blocks that a quorum committed.                  *)
LEMMA StoredStep ==
    ASSUME TypeOK, ChainShape, PendingShape, StoredByQuorum, [Next]_vars
    PROVE  StoredByQuorum'
<1>1. votes \subseteq votes'
  BY VoteSteps DEF PreCommitQc
<1>2. SUFFICES ASSUME NEW p \in Honest, NEW h \in Heights, NEW c \in Blocks,
                      stored'[p][h] = c
               PROVE  Committed(c)'
  <2>1. ASSUME NEW p \in Honest, NEW h \in Heights, stored'[p][h] \in Blocks
        PROVE  Committed(stored[p][h])'
    <3>1. PICK c \in Blocks : stored'[p][h] = c
      BY <2>1, Zenon
    <3>2. Committed(c)'
      BY <1>2, <3>1, Zenon
    <3> QED BY <3>1, <3>2, Zenon DEF Committed, Voters
  <2> QED BY <2>1, Zenon DEF StoredByQuorum
<1>3. ASSUME NEW q \in Honest, NEW k \in Heights, stored[q][k] = c
      PROVE  Committed(c)'
  BY <1>1, <1>3, CommittedStays, Zenon DEF StoredByQuorum
<1>4. ASSUME NEW r \in Honest, NEW b \in Blocks, Grows(r, b),
             ~\E q \in Honest, k \in Heights : stored[q][k] = c
      PROVE  c = b
  BY <1>2, <1>4, HeightFacts DEF Grows, TypeOK
<1>5. CASE UNCHANGED <<stored, latest>>
  BY <1>2, <1>3, <1>5, Zenon
<1>6. ASSUME NEW r \in Honest, NEW b \in Blocks, NEW v \in Views, CommitQc(r, b, v)
      PROVE  Committed(c)'
  <2>1. Grows(r, b) /\ Committed(b)
    BY <1>6, CommitGrows, Zenon DEF Committed
  <2> QED BY <1>1, <1>3, <1>4, <2>1, CommittedStays, Zenon
<1>7. ASSUME NEW r \in Honest, NEW q \in Honest, Synchronize(r, q)
      PROVE  Committed(c)'
  <2>1. PICK b \in Blocks : /\ Grows(r, b) /\ b = stored[q][latest[r] + 1]
                            /\ latest[r] + 1 \in Heights
    BY <1>7, SynchronizeGrows, Zenon
  <2> QED BY <1>3, <1>4, <2>1, Zenon
<1> QED BY <1>5, <1>6, <1>7, ChainSteps, Zenon

-----------------------------------------------------------------------------
(* The theorems.                                                           *)

(* The inductive invariant holds when every replica starts from the root.  *)
LEMMA InitInv == Init => IndInv
<1> SUFFICES ASSUME Init
             PROVE  IndInv
  OBVIOUS
<1>1. HeightOf[Root] \in Nat /\ HeightOf[Root] \in Heights /\ Heights \subseteq Nat
  BY HeightsAreNat, Zenon
<1>2. \A r \in Honest : /\ latest[r] = HeightOf[Root] /\ executed[r] = Root
                         /\ pending[r] = {}
                         /\ lockHeight[r] = NoHeight /\ dLockHeight[r] = NoHeight
                         /\ \A b \in Blocks : phase[r][b] = "None"
  BY Zenon DEF Init, NoPhases
<1>3. \A r \in Honest, h \in Heights :
          stored[r][h] = IF h = HeightOf[Root] THEN Root ELSE None
  BY Zenon DEF Init
<1>4. Root # None /\ Root \notin Blocks /\ None \notin Blocks
  BY BlockAssumption, Zenon DEF AllBlocks
<1>5. ChainShape
  <2> SUFFICES ASSUME NEW r \in Honest
               PROVE  /\ latest[r] >= HeightOf[Root]
                      /\ stored[r][HeightOf[Root]] = Root
                      /\ \A h \in Heights :
                            /\ stored[r][h] # None =>
                                  HeightOf[stored[r][h]] = h /\ h <= latest[r]
                            /\ HeightOf[Root] <= h /\ h <= latest[r] => stored[r][h] # None
    BY Zenon DEF ChainShape
  <2>1. latest[r] >= HeightOf[Root] /\ stored[r][HeightOf[Root]] = Root
    BY <1>1, <1>2, <1>3
  <2>2. ASSUME NEW h \in Heights, stored[r][h] # None
        PROVE  HeightOf[stored[r][h]] = h /\ h <= latest[r]
    BY <1>1, <1>2, <1>3, <2>2
  <2>3. ASSUME NEW h \in Heights, HeightOf[Root] <= h, h <= latest[r]
        PROVE  stored[r][h] # None
    <3>1. h = HeightOf[Root]
      BY <1>1, <1>2, <2>3
    <3> QED BY <1>3, <1>4, <3>1
  <2> QED BY <2>1, <2>2, <2>3, Zenon
<1>6. PendingShape
  BY <1>1, <1>2 DEF PendingShape
<1>7. LockShape
  <2>1. \A r \in Honest : lockHeight[r] <= latest[r] + 1 /\ dLockHeight[r] <= latest[r] + 1
    BY <1>1, <1>2 DEF NoHeight
  <2>2. votes = {}
    BY Zenon DEF Init
  <2> QED BY <1>2, <2>1, <2>2 DEF LockShape
<1>8. OneCommitPerHeight
  BY Zenon DEF Init, OneCommitPerHeight
<1>9. StoredByQuorum
  BY <1>3, <1>4, Zenon DEF StoredByQuorum
<1> QED BY <1>5, <1>6, <1>7, <1>8, <1>9 DEF IndInv

(* Type correctness of every reachable state, and the inductive invariant: *)
(* chains, pending blocks, locks and Commit votes keep the shape the       *)
(* locked-block rule needs, through every handler, crash and restart.      *)
THEOREM Invariance == Spec => [](TypeOK /\ IndInv)
<1>1. Init => TypeOK /\ IndInv
  BY InitType, InitInv, Zenon
<1>2. TypeOK /\ IndInv /\ [Next]_vars => (TypeOK /\ IndInv)'
  BY TypeStep, ChainStep, PendingStep, LockStep, OneCommitStep, StoredStep DEF IndInv
<1> QED BY <1>1, <1>2, PTL DEF Spec

(* Two quorums of Commit votes at one height name the same block: they     *)
(* share an honest replica, which signs Commit for one block of a height.  *)
LEMMA CommittedUnique ==
    ASSUME TypeOK, OneCommitPerHeight, NEW b \in Blocks, NEW c \in Blocks,
           HeightOf[b] = HeightOf[c], Committed(b), Committed(c)
    PROVE  b = c
<1>1. PICK v \in Views : \E S \in SUBSET Voters(b, v, "Commit") : IsQuorum(S)
  BY Zenon DEF Committed, HasQuorum
<1>2. PICK w \in Views : \E T \in SUBSET Voters(c, w, "Commit") : IsQuorum(T)
  BY Zenon DEF Committed, HasQuorum
<1>3. PICK r \in Honest : r \in Voters(b, v, "Commit") /\ r \in Voters(c, w, "Commit")
  <2>1. PICK S \in SUBSET Voters(b, v, "Commit") : IsQuorum(S)
    BY <1>1, Zenon
  <2>2. PICK T \in SUBSET Voters(c, w, "Commit") : IsQuorum(T)
    BY <1>2, Zenon
  <2>3. S \in SUBSET Replicas /\ T \in SUBSET Replicas
    BY VotersAreReplicas
  <2>4. PICK r \in S \cap T : r \in Honest
    BY <2>1, <2>2, <2>3, QuorumsIntersect DEF IsQuorum
  <2> QED BY <2>4, Zenon
<1>4. Vote(r, b, v, "Commit") \in votes /\ Vote(r, c, w, "Commit") \in votes
  BY <1>3 DEF Voters, Honest
<1> QED BY <1>4, Zenon DEF OneCommitPerHeight, Vote

(* Stored blocks are committed ones, and those are unique per height.      *)
LEMMA InvImpliesAgreement == TypeOK /\ IndInv => Agreement
<1> SUFFICES ASSUME TypeOK, IndInv, NEW r \in Honest, NEW q \in Honest, NEW h \in Heights,
                    stored[r][h] # None, stored[q][h] # None
             PROVE  stored[r][h] = stored[q][h]
  BY DEF Agreement
<1>1. HeightOf[stored[r][h]] = h /\ HeightOf[stored[q][h]] = h
  BY Zenon DEF IndInv, ChainShape
<1>2. stored[r][h] \in AllBlocks /\ stored[q][h] \in AllBlocks
  BY DEF TypeOK
<1>3. CASE h = HeightOf[Root]
  BY <1>3, Zenon DEF IndInv, ChainShape
<1>4. CASE h # HeightOf[Root]
  <2>1. stored[r][h] \in Blocks /\ stored[q][h] \in Blocks
    BY <1>1, <1>2, <1>4 DEF AllBlocks
  <2>2. Committed(stored[r][h]) /\ Committed(stored[q][h])
    BY <2>1, Zenon DEF IndInv, StoredByQuorum
  <2> QED BY <1>1, <2>1, <2>2, CommittedUnique DEF IndInv
<1> QED BY <1>3, <1>4

(* No two correct replicas ever store different blocks at the same height, *)
(* whatever the network loses or reorders and whoever crashes, as long as  *)
(* fewer than a third of the replicas are faulty.                          *)
THEOREM AgreementTheorem == Spec => []Agreement
BY Invariance, InvImpliesAgreement, PTL

(* Every block a correct replica stores, by committing it or by taking it  *)
(* from a peer, has a Commit certificate: enough replicas, with enough     *)
(* voting power, signed for it in one view.                                *)
THEOREM StoredByQuorumTheorem == Spec => []StoredByQuorum
<1>1. TypeOK /\ IndInv => StoredByQuorum
  BY DEF IndInv
<1> QED BY <1>1, Invariance, PTL

(* A correct replica signs Commit votes for at most one block of a height, *)
(* across views, competing proposals, crashes and restarts.                *)
THEOREM OneCommitTheorem == Spec => []OneCommitPerHeight
<1>1. TypeOK /\ IndInv => OneCommitPerHeight
  BY DEF IndInv
<1> QED BY <1>1, Invariance, PTL

(* Until its chain reaches the height of a Commit vote it sent, a replica  *)
(* holds the lock on that block in memory and in storage.                  *)
THEOREM CommitLockTheorem == Spec => []CommitVoteIsLocked
<1>1. TypeOK /\ IndInv => CommitVoteIsLocked
  BY DEF TypeOK, IndInv, LockShape, HoldsLock, CommitVoteIsLocked
<1> QED BY <1>1, Invariance, PTL

(* The height of the persisted lock never decreases.                       *)
THEOREM LockNeverRewindsTheorem == Spec => LockNeverRewinds
<1> DEFINE Rises == \A r \in Honest : dLockHeight'[r] >= dLockHeight[r]
<1>1. TypeOK /\ IndInv /\ [Next]_vars => [Rises]_vars
  <2> SUFFICES ASSUME TypeOK, IndInv, Next
               PROVE  Rises
    OBVIOUS
  <2>0. \A r \in Honest : dLockHeight[r] \in Int /\ dLockHeight[r] <= latest[r] + 1
    BY DEF TypeOK, IndInv, LockShape, NoHeight
  <2>1. CASE dLockHeight' = dLockHeight
    BY <2>0, <2>1
  <2>2. ASSUME NEW r \in Honest, NEW b \in Blocks, b \in pending[r],
               dLockHeight' = [dLockHeight EXCEPT ![r] = HeightOf[b]]
        PROVE  Rises
    <3>1. HeightOf[b] = latest[r] + 1
      BY <2>2, Zenon DEF IndInv, PendingShape
    <3>2. dLockHeight \in [Honest -> Nat \cup {NoHeight}]
      BY DEF TypeOK
    <3>3. HeightOf[b] >= dLockHeight[r]
      <4>1. HeightOf[b] \in Nat
        BY HeightFacts
      <4> QED BY <2>0, <3>1, <4>1
    <3> SUFFICES ASSUME NEW q \in Honest
                 PROVE  dLockHeight'[q] >= dLockHeight[q]
      OBVIOUS
    <3>4. dLockHeight'[q] = IF q = r THEN HeightOf[b] ELSE dLockHeight[q]
      BY <2>2, <3>2
    <3> QED BY <2>0, <3>3, <3>4
  <2>3. ASSUME NEW r \in Honest, NEW b \in Blocks, ReceiveProposal(r, b) \/ Propose(r, b)
        PROVE  dLockHeight' = dLockHeight
    BY <2>3 DEF ReceiveProposal, Propose
  <2>4. ASSUME NEW r \in Honest, NEW b \in Blocks, NEW v \in Views,
               PrepareQc(r, b, v) \/ CommitQc(r, b, v) \/ IgnoredQc(r, b, v)
        PROVE  dLockHeight' = dLockHeight
    BY <2>4 DEF PrepareQc, CommitQc, IgnoredQc
  <2>5. ASSUME NEW r \in Honest, NEW b \in Blocks, NEW v \in Views, ReceiveVote(r, b, v)
        PROVE  dLockHeight' = dLockHeight
    BY <2>5, Zenon DEF ReceiveVote
  <2>6. ASSUME NEW r \in Honest, NEW b \in Blocks, NEW v \in Views, PreCommitQc(r, b, v)
        PROVE  Rises
    BY <2>2, <2>6, Zenon DEF PreCommitQc, PreCommitApplies
  <2>7. ASSUME NEW r \in Honest, NEW b \in Blocks, NEW v \in Views,
               CrashInPersistLock(r, b, v)
        PROVE  Rises
    BY <2>2, <2>7, Zenon DEF CrashInPersistLock, PreCommitApplies
  <2>8. ASSUME NEW r \in Honest, NEW q \in Honest, NEW stopped \in BOOLEAN,
               Timeout(r) \/ Synchronize(r, q) \/ Restart(r, stopped)
        PROVE  dLockHeight' = dLockHeight
    BY <2>8, Zenon DEF Timeout, Synchronize, Restart, storage
  <2> QED BY <2>1, <2>3, <2>4, <2>5, <2>6, <2>7, <2>8, Zenon DEF Next
<1> QED BY <1>1, Invariance, PTL DEF Spec, LockNeverRewinds

(* The replicas implement the replicated ledger: every step of a replica   *)
(* either leaves all the chains alone or appends to one chain a block that *)
(* links to its head and that no other chain contradicts.                  *)
THEOREM LedgerTheorem == Spec => ImplementsLedger
<1>1. Init => ReplicatedLedger!Init
  BY Zenon DEF Init, ReplicatedLedger!Init, ReplicatedLedger!RootChain,
         ReplicatedLedger!Heights, Heights, ReplicatedLedger!AllBlocks, AllBlocks
<1>2. TypeOK /\ IndInv /\ Agreement' /\ [Next]_vars
          => [ReplicatedLedger!Next]_(ReplicatedLedger!ledgerVars)
  <2> SUFFICES ASSUME TypeOK, IndInv, Agreement', [Next]_vars
               PROVE  [ReplicatedLedger!Next]_(ReplicatedLedger!ledgerVars)
    OBVIOUS
  <2>0. ChainShape
    BY Zenon DEF IndInv
  <2>1. CASE UNCHANGED <<stored, latest>>
    BY <2>1, Zenon DEF ReplicatedLedger!ledgerVars
  <2>2. ASSUME NEW r \in Honest, NEW b \in Blocks, Grows(r, b)
        PROVE  ReplicatedLedger!Next
    <3>1. ASSUME NEW q \in Honest, HeightOf[b] <= latest[q]
          PROVE  stored[q][HeightOf[b]] = b
      <4>1. /\ HeightOf[b] \in Heights /\ HeightOf[b] \in Nat /\ b # None
            /\ latest[r] \in Nat /\ HeightOf[b] = latest[r] + 1
            /\ HeightOf[Root] <= latest[r] /\ HeightOf[Root] \in Nat
        BY <2>0, <2>2, HeightFacts, HeadFacts, HeightsAreNat DEF ChainShape, Grows
      <4>2. q # r /\ HeightOf[Root] <= HeightOf[b]
        BY <3>1, <4>1
      <4>3. stored[q][HeightOf[b]] # None
        BY <2>0, <3>1, <4>1, <4>2 DEF ChainShape
      <4>4. stored'[q][HeightOf[b]] = stored[q][HeightOf[b]] /\ stored'[r][HeightOf[b]] = b
        BY <2>2, <4>1, <4>2 DEF Grows, TypeOK
      <4> QED BY <4>1, <4>3, <4>4 DEF Agreement
    <3> QED BY <2>2, <3>1, Zenon DEF Grows, ReplicatedLedger!Next, ReplicatedLedger!Append
  <2>3. ASSUME NEW r \in Honest, NEW b \in Blocks, NEW v \in Views, CommitQc(r, b, v)
        PROVE  ReplicatedLedger!Next
    BY <2>2, <2>3, CommitGrows DEF IndInv
  <2>4. ASSUME NEW r \in Honest, NEW q \in Honest, Synchronize(r, q)
        PROVE  ReplicatedLedger!Next
    BY <2>2, <2>4, SynchronizeGrows DEF IndInv
  <2> QED BY <2>1, <2>3, <2>4, ChainSteps DEF IndInv
<1>3. TypeOK /\ IndInv => Agreement
  BY InvImpliesAgreement, Zenon
<1> QED BY <1>1, <1>2, <1>3, Invariance, PTL
        DEF Spec, ImplementsLedger, ReplicatedLedger!Spec

=============================================================================
