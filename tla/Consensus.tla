----------------------------- MODULE Consensus ------------------------------
(***************************************************************************)
(* The replicated consensus protocol: one Node event loop per replica      *)
(* (crates/node/src/node.rs) driving the Consensus engine                  *)
(* (crates/consensus/src/lib.rs) and its HotStuff phase machine, over a    *)
(* network that loses, duplicates, delays and reorders gossip, with        *)
(* crashes, restarts from storage and chain synchronisation.               *)
(*                                                                         *)
(* Each event handler of a node runs to completion before the next, so a   *)
(* handler is one action.  Gossip is a set that only grows: a message      *)
(* never taken from it is a lost one, one taken twice a duplicate.  Faulty *)
(* replicas may have sent any vote, so their votes are not recorded.  A    *)
(* vote a node signed but failed to broadcast counts as sent: votes only   *)
(* ever enable a guard, so this adds behaviours and hides none.            *)
(* The validator set is the one of a single epoch.                         *)
(***************************************************************************)
EXTENDS BlockTree, FiniteSetsExt

CONSTANTS Replicas,         \* the active validator set
          Faulty,           \* the replicas that do not follow the code
          Power,            \* voting power of each replica
          Valid,            \* blocks whose attached proof and roots verify
                            \* against the post-state of their parent
          Leader(_, _),     \* validator_set.get_proposer(view, seed)
          MaxViewJump,      \* MAX_UNAUTHENTICATED_VIEW_JUMP
          MaxPending,       \* MAX_PENDING_BLOCKS
          PruneBuffer,      \* the 10-view buffer of finalize_block_once_quorum_reached
          MaxView,          \* bound on the views explored
          Crashing          \* bound: the replicas that may stop and restart

Honest == Replicas \ Faulty

Views == 0 .. MaxView

NoView == -1

VotePhases == {"Prepare", "PreCommit", "Commit"}

BlockPhases == {"None", "Prepare", "PreCommit", "Finalize"}

Vote(r, b, v, p) == [from |-> r, block |-> b, view |-> v, phase |-> p]

(* Consensus::quorum_threshold.                                            *)
QuorumThreshold == (Cardinality(Replicas) * 2) \div 3 + 1

(* Consensus::required_quorum_voting_power.                                *)
PowerOf(S) == MapThenSumSet(LAMBDA r : Power[r], S)
RequiredVotingPower == (PowerOf(Replicas) * 2) \div 3 + 1

(* Mutant: half of the replicas is a quorum.                               *)
HalfIsQuorum(S) == 2 * Cardinality(S) >= Cardinality(Replicas)

IsQuorum(S) ==
    /\ Cardinality(S) >= QuorumThreshold
    /\ PowerOf(S) >= RequiredVotingPower

ASSUME ReplicaAssumption ==
    /\ IsFiniteSet(Replicas)
    /\ Faulty \subseteq Replicas
    /\ 3 * Cardinality(Faulty) < Cardinality(Replicas)
    /\ Power \in [Replicas -> Nat \ {0}]

ASSUME BoundAssumption ==
    /\ ProposerOf \in [AllBlocks -> Replicas]
    /\ Valid \subseteq Blocks
    /\ MaxViewJump \in Nat
    /\ MaxPending \in Nat
    /\ PruneBuffer \in Nat
    /\ MaxView \in Nat
    /\ Crashing \subseteq Replicas

VARIABLES
    \* memory of replica r, lost in a crash
    view,               \* pacemaker.current_view
    votedView,          \* Node.last_voted_view
    proposedView,       \* Node.last_proposed_view
    pending,            \* Consensus.pending_blocks
    phase,              \* HotStuff.block_phase
    blockView,          \* HotStuff.block_views
    lock,               \* HotStuff.locked_block
    hsLockHeight,       \* HotStuff.locked_block_height
    lockHeight,         \* Consensus.locked_block_height
    highest,            \* Consensus.highest_qc_block
    finalized,          \* Consensus.finalized_blocks
    finalizedHeight,    \* Consensus.finalized_block_height
    \* storage of replica r
    executed,           \* the block whose post-state the state rows hold
    stored,             \* block header and body at each height
    latest,             \* LATEST_BLOCK_HEIGHT
    snapshots,          \* heights with a state snapshot
    qcView,             \* view of the persisted quorum certificate of a block
    dView,              \* CONSENSUS_CURRENT_VIEW_KEY
    dLock,              \* the persisted locked-block hash
    dLockHeight,        \* CONSENSUS_LOCKED_BLOCK_HEIGHT_KEY
    \* gossip
    votes,              \* votes of honest replicas
    proposals           \* blocks proposed by honest replicas

memory == <<view, votedView, proposedView, pending, phase, blockView, lock,
            hsLockHeight, lockHeight, highest, finalized, finalizedHeight>>
storage == <<executed, stored, latest, snapshots, qcView, dView, dLock, dLockHeight>>
vars == <<memory, storage, votes, proposals>>

Heights == {HeightOf[b] : b \in AllBlocks}

Max2(a, b) == IF a > b THEN a ELSE b

NoPhases == [b \in Blocks |-> "None"]
NoBlockViews == [b \in Blocks |-> NoView]

(* A network that was bootstrapped up to Root and started again.           *)
Init ==
    /\ view = [r \in Honest |-> 0]
    /\ votedView = [r \in Honest |-> NoView]
    /\ proposedView = [r \in Honest |-> NoView]
    /\ pending = [r \in Honest |-> {}]
    /\ phase = [r \in Honest |-> NoPhases]
    /\ blockView = [r \in Honest |-> NoBlockViews]
    /\ lock = [r \in Honest |-> None]
    /\ hsLockHeight = [r \in Honest |-> NoHeight]
    /\ lockHeight = [r \in Honest |-> NoHeight]
    /\ highest = [r \in Honest |-> Root]
    /\ finalized = [r \in Honest |-> None]
    /\ finalizedHeight = [r \in Honest |-> 0]
    /\ executed = [r \in Honest |-> Root]
    /\ stored = [r \in Honest |->
                    [h \in Heights |-> IF h = HeightOf[Root] THEN Root ELSE None]]
    /\ latest = [r \in Honest |-> HeightOf[Root]]
    /\ snapshots = [r \in Honest |-> {HeightOf[Root]}]
    /\ qcView = [r \in Honest |-> [b \in AllBlocks |-> IF b = Root THEN 0 ELSE NoView]]
    /\ dView = [r \in Honest |-> 0]
    /\ dLock = [r \in Honest |-> None]
    /\ dLockHeight = [r \in Honest |-> NoHeight]
    /\ votes = {}
    /\ proposals = {}

(***************************************************************************)
(* Proposal admission: Consensus::process_block_proposal.                  *)
(***************************************************************************)

(* resolve_parent_block.                                                   *)
ParentResolved(r, b) ==
    \/ ParentOf[b] \in pending[r] \cup {finalized[r]}
    \/ stored[r][HeightOf[b] - 1] = ParentOf[b]

(* Mutant: the losing branches of a fork stay pending.                     *)
SiblingsKept(r, b) == {}

(* The blocks detect_fork and resolve_fork weigh against b.                *)
Siblings(r, b) == {c \in pending[r] : ParentOf[c] = ParentOf[b] /\ c # b}

KnownBlocks(r) == pending[r] \cup ({finalized[r]} \ {None})

(* apply_longest_chain_rule.                                               *)
LongestChain(r, b) == \A c \in KnownBlocks(r) : HeightOf[b] >= HeightOf[c]

(* prefer_candidate_branch.                                                *)
PreferCandidate(r, b, c) ==
    \/ HeightOf[b] > HeightOf[c]
    \/ HeightOf[b] = HeightOf[c] /\ (highest[r] = b \/ highest[r] # c)

ResolveFork(r, b) ==
    Siblings(r, b) # {} =>
        /\ LongestChain(r, b)
        /\ \A c \in Siblings(r, b) : PreferCandidate(r, b, c)

Admissible(r, b) ==
    /\ ParentResolved(r, b)
    /\ HeightOf[b] > finalizedHeight[r]
    /\ Cardinality(pending[r]) < MaxPending
    /\ ~BelowLockedBlock(b, lock[r], lockHeight[r])
    \* detect_conflicting_proposal
    /\ ~\E c \in pending[r] : /\ HeightOf[c] = HeightOf[b]
                              /\ ProposerOf[c] = ProposerOf[b]
                              /\ c # b
    \* is_conflicting_branch
    /\ ~(finalized[r] # None /\ HeightOf[finalized[r]] = HeightOf[b] /\ finalized[r] # b)
    /\ ResolveFork(r, b)

(* Node::cast_and_broadcast_vote: a Prepare vote, once per view.           *)
CastVote(r, b) ==
    /\ votes' = IF votedView[r] = view[r] THEN votes
                ELSE votes \cup {Vote(r, b, view[r], "Prepare")}
    /\ votedView' = [votedView EXCEPT ![r] = view[r]]

(* process_block_proposal followed by the vote, or its error: execution    *)
(* has already committed the state, so the rollback on error restores      *)
(* nothing.                                                                *)
AdmitProposal(r, b) ==
    \/ /\ Admissible(r, b)
       /\ pending' = [pending EXCEPT ![r] = (@ \ Siblings(r, b)) \cup {b}]
       /\ CastVote(r, b)
    \/ /\ ~Admissible(r, b)
       /\ UNCHANGED <<pending, votes, votedView>>

(* Node::validate_gossip_block_authenticity, the checks that depend on     *)
(* the replica's state.                                                    *)
GossipAuthentic(r, b) ==
    /\ Leader(view[r], finalized[r]) = ProposerOf[b]
    /\ qcView[r][ParentOf[b]] # NoView
    /\ stored[r][HeightOf[b] - 1] = ParentOf[b]

(* Node::handle_network_block_proposal.                                    *)
ReceiveProposal(r, b) ==
    /\ b \in proposals \/ ProposerOf[b] \in Faulty
    /\ b \in Valid
    /\ HeightOf[b] > finalizedHeight[r]
    /\ GossipAuthentic(r, b)
    /\ executed[r] = ParentOf[b]
    /\ executed' = [executed EXCEPT ![r] = b]
    /\ AdmitProposal(r, b)
    /\ UNCHANGED <<view, proposedView, phase, blockView, lock, hsLockHeight, lockHeight,
                   highest, finalized, finalizedHeight, stored, latest, snapshots,
                   qcView, dView, dLock, dLockHeight, proposals>>

(* Node::produce_and_broadcast_block_proposal.  The template extends the   *)
(* stored head; the transactions run on whatever state the rows hold.      *)
Propose(r, b) ==
    /\ Leader(view[r], finalized[r]) = r
    /\ proposedView[r] # view[r]
    /\ ProposerOf[b] = r
    /\ b \notin proposals
    /\ ParentOf[b] = stored[r][latest[r]]
    /\ (b \in Valid) <=> (executed[r] = ParentOf[b])
    /\ proposals' = proposals \cup {b}
    /\ proposedView' = [proposedView EXCEPT ![r] = view[r]]
    /\ executed' = [executed EXCEPT ![r] = b]
    /\ AdmitProposal(r, b)
    /\ UNCHANGED <<view, phase, blockView, lock, hsLockHeight, lockHeight, highest,
                   finalized, finalizedHeight, stored, latest, snapshots,
                   qcView, dView, dLock, dLockHeight>>

(***************************************************************************)
(* Votes and quorum certificates.                                          *)
(***************************************************************************)

(* Faulty replicas' signatures are always available.                       *)
Voters(b, v, p) == Faulty \cup {r \in Honest : Vote(r, b, v, p) \in votes}

(* A certificate carries the signatures of some of the voters.             *)
HasQuorum(b, v, p) == \E S \in SUBSET Voters(b, v, p) : IsQuorum(S)

(* Mutant: a certificate of any phase commits.                             *)
AnyPhaseCommits(b, v) == \E p \in VotePhases : HasQuorum(b, v, p)

(* HotStuff::verify_commit_phase accepts Commit certificates only.         *)
CommitCertificate(b, v) == HasQuorum(b, v, "Commit")

(* HotStuff.block_parent is filled and pruned together with block_phase.   *)
KnownLinks(r) == {b \in Blocks : phase[r][b] # "None"}

ConflictsWithLock(r, b) ==
    ConflictsWithLockedBlock(b, lock[r], hsLockHeight[r], KnownLinks(r))

(* Pacemaker::sync_view_with_network on a vote's view.                     *)
SyncedView(r, v) ==
    IF v > view[r] /\ v <= view[r] + MaxViewJump THEN v ELSE view[r]

(* The local views in which a certificate of (b, v) can be handled: the    *)
(* current one when it arrives as gossip, the synchronised one when a vote *)
(* handled by process_vote completes it.                                   *)
HandlingViews(r, b, v) ==
    {view[r]} \cup {w \in {SyncedView(r, v)} :
                       v >= view[r] /\ b \in pending[r] /\ ~ConflictsWithLock(r, b)}

KnownHeight(r, b) == IF b \in KnownBlocks(r) THEN HeightOf[b] ELSE 0

(* What process_quorum_certificate writes before it looks at the block:    *)
(* the certificate, the view, and apply_highest_qc_rule.                   *)
PersistQc(r, b, v, w) ==
    /\ qcView' = [qcView EXCEPT ![r][b] = v]
    /\ dView' = [dView EXCEPT ![r] = w]
    /\ highest' = [highest EXCEPT ![r] =
                      IF @ = None \/ KnownHeight(r, b) >= KnownHeight(r, @) THEN b ELSE @]

PrepareApplies(r, b) ==
    b \in pending[r] /\ phase[r][b] \in {"None", "Prepare"} /\ ~ConflictsWithLock(r, b)
PreCommitApplies(r, b) == b \in pending[r] /\ phase[r][b] \in {"Prepare", "PreCommit"}
CommitApplies(r, b) == b \in pending[r] /\ phase[r][b] \in {"PreCommit", "Finalize"}
QcApplies(r, b, p) ==
    \/ p = "Prepare" /\ PrepareApplies(r, b)
    \/ p = "PreCommit" /\ PreCommitApplies(r, b)
    \/ p = "Commit" /\ CommitApplies(r, b)

(* A Prepare certificate: vote PreCommit.                                  *)
PrepareQc(r, b, v) ==
    /\ PrepareApplies(r, b)
    /\ HasQuorum(b, v, "Prepare")
    /\ \E w \in HandlingViews(r, b, v) :
          PersistQc(r, b, v, w) /\ view' = [view EXCEPT ![r] = w]
    /\ phase' = [phase EXCEPT ![r][b] = "Prepare"]
    /\ blockView' = [blockView EXCEPT ![r][b] = IF phase[r][b] = "None" THEN v ELSE @]
    /\ votes' = votes \cup {Vote(r, b, v, "PreCommit")}
    /\ UNCHANGED <<votedView, proposedView, pending, lock, hsLockHeight, lockHeight,
                   finalized, finalizedHeight, executed, stored, latest, snapshots,
                   dLock, dLockHeight, proposals>>

(* A PreCommit certificate: lock the block, in memory and then in storage, *)
(* and vote Commit.  A repeated one rewrites the stored lock only.         *)
PreCommitQc(r, b, v) ==
    /\ PreCommitApplies(r, b)
    /\ HasQuorum(b, v, "PreCommit")
    /\ \E w \in HandlingViews(r, b, v) :
          PersistQc(r, b, v, w) /\ view' = [view EXCEPT ![r] = w]
    /\ phase' = [phase EXCEPT ![r][b] = "PreCommit"]
    /\ lock' = [lock EXCEPT ![r] = IF phase[r][b] = "Prepare" THEN b ELSE @]
    /\ hsLockHeight' = [hsLockHeight EXCEPT ![r] =
                           IF phase[r][b] = "Prepare" THEN HeightOf[b] ELSE @]
    /\ lockHeight' = [lockHeight EXCEPT ![r] = HeightOf[b]]
    /\ dLockHeight' = [dLockHeight EXCEPT ![r] = HeightOf[b]]
    /\ dLock' = [dLock EXCEPT ![r] = b]
    /\ votes' = votes \cup {Vote(r, b, v, "Commit")}
    /\ UNCHANGED <<votedView, proposedView, pending, blockView, finalized,
                   finalizedHeight, executed, stored, latest, snapshots, proposals>>

(* A Commit certificate: finalize_block_once_quorum_reached and            *)
(* Node::handle_finalized_block.  Pending blocks are all above the         *)
(* finalized height, so finalize_block's height check always passes.       *)
CommitQc(r, b, v) ==
    /\ CommitApplies(r, b)
    /\ CommitCertificate(b, v)
    /\ \E w \in HandlingViews(r, b, v) :
          LET gone == PrunedBlocks(KnownLinks(r), blockView[r], lock[r],
                                   w + 1 - PruneBuffer)
          IN  /\ PersistQc(r, b, v, w)
              /\ view' = [view EXCEPT ![r] = w + 1]
              /\ phase' = [phase EXCEPT ![r] =
                    [c \in Blocks |-> IF c \in gone THEN "None"
                                      ELSE IF c = b THEN "Finalize" ELSE @[c]]]
              /\ blockView' = [blockView EXCEPT ![r] =
                    [c \in Blocks |-> IF c \in gone THEN NoView ELSE @[c]]]
    /\ finalized' = [finalized EXCEPT ![r] = b]
    /\ finalizedHeight' = [finalizedHeight EXCEPT ![r] = HeightOf[b]]
    /\ stored' = [stored EXCEPT ![r][HeightOf[b]] = b]
    /\ latest' = [latest EXCEPT ![r] = Max2(@, HeightOf[b])]
    /\ pending' = [pending EXCEPT ![r] = {c \in @ \ {b} : HeightOf[c] > HeightOf[b]}]
    /\ snapshots' = [snapshots EXCEPT ![r] =
                        IF executed[r] = b THEN @ \cup {HeightOf[b]} ELSE @]
    /\ UNCHANGED <<votedView, proposedView, lock, hsLockHeight, lockHeight, executed,
                   dLock, dLockHeight, votes, proposals>>

(* Any other certificate ends in an error, after PersistQc.                *)
IgnoredQc(r, b, v) ==
    /\ {p \in VotePhases : ~QcApplies(r, b, p) /\ HasQuorum(b, v, p)} # {}
    /\ \E w \in HandlingViews(r, b, v) :
          PersistQc(r, b, v, w) /\ view' = [view EXCEPT ![r] = w]
    /\ UNCHANGED <<votedView, proposedView, pending, phase, blockView, lock, hsLockHeight,
                   lockHeight, finalized, finalizedHeight, executed, stored, latest,
                   snapshots, dLock, dLockHeight, votes, proposals>>

(* process_vote on a vote that completes no quorum: a vote of a later view *)
(* for a pending block moves the pacemaker, and the view is persisted.     *)
ReceiveVote(r, b, v) ==
    /\ b \in pending[r]
    /\ v > view[r]
    /\ {p \in VotePhases : Voters(b, v, p) # {}} # {}
    /\ view' = [view EXCEPT ![r] = SyncedView(r, v)]
    /\ dView' = [dView EXCEPT ![r] = SyncedView(r, v)]
    /\ UNCHANGED <<votedView, proposedView, pending, phase, blockView, lock, hsLockHeight,
                   lockHeight, highest, finalized, finalizedHeight, executed, stored,
                   latest, snapshots, qcView, dLock, dLockHeight, votes, proposals>>

(***************************************************************************)
(* The tick: Node::synchronize_if_behind, the pacemaker's timeout and      *)
(* block production.  Each of the three may find nothing to do (no peer    *)
(* answers, the timer has not run out, the mempool is empty), and a        *)
(* proposal may also be triggered alone, so they are separate actions.     *)
(***************************************************************************)

(* Pacemaker::on_timeout; the new view is not persisted.                   *)
Timeout(r) ==
    /\ view[r] < MaxView
    /\ view' = [view EXCEPT ![r] = @ + 1]
    /\ UNCHANGED <<votedView, proposedView, pending, phase, blockView, lock, hsLockHeight,
                   lockHeight, highest, finalized, finalizedHeight, storage, votes, proposals>>

(* One block of synchronize_if_behind, downloaded from q: it must extend   *)
(* the local head and execute on the state the rows hold.                  *)
Synchronize(r, q) ==
    /\ latest[q] > latest[r]
    /\ LET b == stored[q][latest[r] + 1]
       IN  /\ ParentOf[b] = stored[r][latest[r]]
           /\ executed[r] = ParentOf[b]
           /\ b \in Valid
           /\ executed' = [executed EXCEPT ![r] = b]
           /\ stored' = [stored EXCEPT ![r][HeightOf[b]] = b]
           /\ latest' = [latest EXCEPT ![r] = HeightOf[b]]
    /\ UNCHANGED <<memory, snapshots, qcView, dView, dLock, dLockHeight, votes, proposals>>

(***************************************************************************)
(* Crash and restart: Node::new, StateDB::initialize_backend and           *)
(* Consensus::start.                                                       *)
(***************************************************************************)

(* The highest certificate found in storage; ties go by hash.              *)
RestoredHighest(qcs) ==
    {b \in AllBlocks : qcs[b] # NoView /\ \A c \in AllBlocks : qcs[c] <= qcs[b]}

Recover(r, durableView, durableLock, durableLockHeight, qcs) ==
    /\ view' = [view EXCEPT ![r] = durableView]
    /\ votedView' = [votedView EXCEPT ![r] = NoView]
    /\ proposedView' = [proposedView EXCEPT ![r] = NoView]
    /\ pending' = [pending EXCEPT ![r] = {}]
    /\ phase' = [phase EXCEPT ![r] = NoPhases]
    /\ blockView' = [blockView EXCEPT ![r] = NoBlockViews]
    /\ lock' = [lock EXCEPT ![r] = durableLock]
    /\ hsLockHeight' = [hsLockHeight EXCEPT ![r] = NoHeight]
    /\ lockHeight' = [lockHeight EXCEPT ![r] =
                        IF durableLock = None THEN NoHeight ELSE durableLockHeight]
    /\ \E b \in RestoredHighest(qcs) : highest' = [highest EXCEPT ![r] = b]
    /\ finalized' = [finalized EXCEPT ![r] = None]
    /\ finalizedHeight' = [finalizedHeight EXCEPT ![r] = 0]
    \* load_snapshot of the head when there is one, else the rows as they are
    /\ executed' = [executed EXCEPT ![r] =
                      IF latest[r] \in snapshots[r] THEN stored[r][latest[r]] ELSE @]

(* Mutant: a start clears the persisted lock.                              *)
RestartUnlocked(r, stopped) ==
    /\ r \in Crashing
    /\ dView' = [dView EXCEPT ![r] = IF stopped THEN view[r] ELSE @]
    /\ Recover(r, IF stopped THEN view[r] ELSE dView[r], None, NoHeight, qcView[r])
    /\ dLock' = [dLock EXCEPT ![r] = None]
    /\ dLockHeight' = [dLockHeight EXCEPT ![r] = NoHeight]
    /\ UNCHANGED <<stored, latest, snapshots, qcView, votes, proposals>>

(* Node::stop persists the view before the process ends; a crash does not. *)
Restart(r, stopped) ==
    /\ r \in Crashing
    /\ dView' = [dView EXCEPT ![r] = IF stopped THEN view[r] ELSE @]
    /\ Recover(r, IF stopped THEN view[r] ELSE dView[r], dLock[r], dLockHeight[r], qcView[r])
    /\ UNCHANGED <<stored, latest, snapshots, qcView, dLock, dLockHeight, votes, proposals>>

(* A crash between the two writes of persist_locked_block, in the handling *)
(* of a PreCommit certificate: the height is stored, the hash is not.      *)
CrashInPersistLock(r, b, v) ==
    /\ r \in Crashing
    /\ PreCommitApplies(r, b)
    /\ HasQuorum(b, v, "PreCommit")
    /\ qcView' = [qcView EXCEPT ![r][b] = v]
    /\ dLockHeight' = [dLockHeight EXCEPT ![r] = HeightOf[b]]
    /\ \E w \in HandlingViews(r, b, v) :
          /\ dView' = [dView EXCEPT ![r] = w]
          /\ Recover(r, w, dLock[r], HeightOf[b], [qcView[r] EXCEPT ![b] = v])
    /\ UNCHANGED <<stored, latest, snapshots, dLock, votes, proposals>>

Next ==
    \E r \in Honest :
        \/ \E b \in Blocks : ReceiveProposal(r, b) \/ Propose(r, b)
        \/ \E b \in Blocks, v \in Views :
              \/ PrepareQc(r, b, v)
              \/ PreCommitQc(r, b, v)
              \/ CommitQc(r, b, v)
              \/ IgnoredQc(r, b, v)
              \/ ReceiveVote(r, b, v)
              \/ CrashInPersistLock(r, b, v)
        \/ Timeout(r)
        \/ \E q \in Honest : Synchronize(r, q)
        \/ \E stopped \in BOOLEAN : Restart(r, stopped)

Spec == Init /\ [][Next]_vars

(***************************************************************************)
(* Properties.                                                             *)
(***************************************************************************)

(* Types.  highest is never None: every start finds the certificate of     *)
(* Root in storage (restore_consensus_state_on_restart).                   *)
TypeOK ==
    /\ view \in [Honest -> Nat]
    /\ votedView \in [Honest -> Nat \cup {NoView}]
    /\ proposedView \in [Honest -> Nat \cup {NoView}]
    /\ pending \in [Honest -> SUBSET Blocks]
    /\ phase \in [Honest -> [Blocks -> BlockPhases]]
    /\ blockView \in [Honest -> [Blocks -> Nat \cup {NoView}]]
    /\ lock \in [Honest -> Blocks \cup {None}]
    /\ hsLockHeight \in [Honest -> Nat \cup {NoHeight}]
    /\ lockHeight \in [Honest -> Nat \cup {NoHeight}]
    /\ highest \in [Honest -> AllBlocks]
    /\ finalized \in [Honest -> Blocks \cup {None}]
    /\ finalizedHeight \in [Honest -> Nat]
    /\ executed \in [Honest -> AllBlocks]
    /\ stored \in [Honest -> [Heights -> AllBlocks \cup {None}]]
    /\ latest \in [Honest -> Heights]
    /\ snapshots \in [Honest -> SUBSET Heights]
    /\ qcView \in [Honest -> [AllBlocks -> Nat \cup {NoView}]]
    /\ dView \in [Honest -> Nat]
    /\ dLock \in [Honest -> Blocks \cup {None}]
    /\ dLockHeight \in [Honest -> Nat \cup {NoHeight}]
    /\ votes \subseteq [from : Honest, block : Blocks, view : Nat, phase : VotePhases]
    /\ proposals \subseteq Blocks

(* Two replicas never store different blocks at one height, whichever of   *)
(* them finalised it, synchronised it or restarted in between.             *)
Agreement ==
    \A r, q \in Honest, h \in Heights :
        stored[r][h] # None /\ stored[q][h] # None => stored[r][h] = stored[q][h]

(* A replica signs Commit votes for at most one block of a height, across  *)
(* views, competing proposals, crashes and restarts: the locked-block rule *)
(* of process_block_proposal and persist_locked_block is what enforces it. *)
OneCommitPerHeight ==
    \A m, n \in votes :
        /\ m.from = n.from
        /\ m.phase = "Commit" /\ n.phase = "Commit"
        /\ HeightOf[m.block] = HeightOf[n.block]
        => m.block = n.block

(* As long as a replica's own chain has not reached the height of a Commit *)
(* vote it sent, the lock on that block is held in memory and in storage.  *)
CommitVoteIsLocked ==
    \A m \in votes :
        m.phase = "Commit" /\ HeightOf[m.block] > latest[m.from] =>
            /\ lock[m.from] = m.block
            /\ dLock[m.from] = m.block
            /\ dLockHeight[m.from] = HeightOf[m.block]

Committed(b) == \E v \in Views : HasQuorum(b, v, "Commit")

(* Every stored block was committed by a quorum: finalisation and chain    *)
(* synchronisation from correct peers store nothing else.                  *)
StoredByQuorum ==
    \A r \in Honest, h \in Heights : stored[r][h] \in Blocks => Committed(stored[r][h])

(* The height of the stored lock never goes back, although                 *)
(* update_locked_block overwrites it without looking.                      *)
LockNeverRewinds ==
    [][\A r \in Honest : dLockHeight'[r] >= dLockHeight[r]]_vars

(* The replicas implement the replicated ledger: chains grow at the end,   *)
(* stay linked, are never rewritten and never diverge.                     *)
ReplicatedLedger == INSTANCE Ledger WITH Members <- Honest
ImplementsLedger == ReplicatedLedger!Spec

(* The inductive invariant behind them.  A replica's stored chain is       *)
(* linked by height and starts at Root; its pending block, of which there  *)
(* is at most one, sits right above the chain; the state rows are at least *)
(* as far as the chain; whatever it has pre-committed or commit-voted      *)
(* above its chain is the block it is locked on, in memory and in storage. *)
ChainShape ==
    \A r \in Honest :
        /\ latest[r] >= HeightOf[Root]
        /\ stored[r][HeightOf[Root]] = Root
        /\ \A h \in Heights :
              /\ stored[r][h] # None => HeightOf[stored[r][h]] = h /\ h <= latest[r]
              /\ HeightOf[Root] <= h /\ h <= latest[r] => stored[r][h] # None

PendingShape ==
    \A r \in Honest :
        /\ \A b \in pending[r] :
              HeightOf[b] = latest[r] + 1 /\ ParentOf[b] = stored[r][latest[r]]
        /\ \A b, c \in pending[r] : b = c
        /\ HeightOf[executed[r]] >= latest[r]
        /\ pending[r] # {} => HeightOf[executed[r]] > latest[r]

HoldsLock(r, b) ==
    /\ HeightOf[b] = latest[r] + 1
    /\ lock[r] = b /\ lockHeight[r] = HeightOf[b]
    /\ dLock[r] = b /\ dLockHeight[r] = HeightOf[b]

LockShape ==
    \A r \in Honest :
        /\ lockHeight[r] <= latest[r] + 1
        /\ dLockHeight[r] <= latest[r] + 1
        /\ \A b \in pending[r] : ~BelowLockedBlock(b, lock[r], lockHeight[r])
        /\ \A b \in Blocks :
              HeightOf[b] > latest[r] /\ phase[r][b] \in {"PreCommit", "Finalize"}
                  => HoldsLock(r, b)
        /\ \A m \in votes :
              m.from = r /\ m.phase = "Commit" /\ HeightOf[m.block] > latest[r]
                  => HoldsLock(r, m.block)

IndInv ==
    /\ ChainShape
    /\ PendingShape
    /\ LockShape
    /\ OneCommitPerHeight
    /\ StoredByQuorum

(* The guard of cast_and_broadcast_vote: "never cast two votes in the same *)
(* view" (crates/node/src/node.rs:1287).                                   *)
OnePrepareVotePerView ==
    \A m, n \in votes :
        /\ m.from = n.from
        /\ m.view = n.view
        /\ m.phase = "Prepare" /\ n.phase = "Prepare"
        => m.block = n.block

(* HotStuff::extends_locked_block: "a block strictly above the locked      *)
(* height is given the benefit of the doubt instead of being rejected      *)
(* outright" (crates/consensus/src/hotstuff/mod.rs:338-340) when its       *)
(* ancestry is not known.                                                  *)
AboveLockAccepted ==
    \A r \in Honest : \A b \in pending[r] :
        lockHeight[r] # NoHeight /\ HeightOf[b] > lockHeight[r] => ~ConflictsWithLock(r, b)
=============================================================================
