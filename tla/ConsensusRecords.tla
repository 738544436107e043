-------------------------- MODULE ConsensusRecords --------------------------
(* ConsensusStateManager (consensus/src/consensus_state.rs): the consensus   *)
(* state of one node kept as four rows of the state table, each its own      *)
(* database transaction, and what a load makes of them after a crash or a    *)
(* write that failed between two of them.  The manager is a library the      *)
(* crate exports; Consensus persists its own rows (module Consensus).        *)
EXTENDS Integers, Sequences, FiniteSets, FiniteSetsExt, TLC

CONSTANTS
    LockHeights,    \* blocks that may become locked, in the order they do
    QcViews,        \* views of the certificates that arrive
    SetHashes,      \* fingerprints of validator sets
    PeerCount,      \* peers asked for their view
    PeerViews,      \* views a peer may report
    MaxViewJump,    \* MAX_UNAUTHENTICATED_VIEW_JUMP
    MaxRecordChanges,     \* bound: changes of the state
    Nothing         \* an absent row, an absent lock or certificate

ASSUME RecordsAssumption ==
    /\ LockHeights \union QcViews \union PeerViews \union {MaxViewJump} \subseteq Int
    /\ Nothing \notin LockHeights \union QcViews
    /\ Nothing \notin [view : Int, locked : LockHeights \union {Nothing},
                       qc : QcViews \union {Nothing}, finalized : Int,
                       set : SetHashes \union {Nothing}, recovery : BOOLEAN]

VARIABLES
    record,         \* the manager's state, Nothing while the node is down
    table,          \* the rows cstate:*
    toWrite,        \* rows persist_consensus_state has still to write
    pacemaker,      \* view of the pacemaker
    ownView,        \* row consensus:current_view, written by Consensus
    checkpoints,    \* rows cstate:checkpoint:*, height to view
    whole,          \* ghost: state of the last persist that wrote every row
    changed         \* ghost: changes so far

recordVars == <<record, table, toWrite, pacemaker, ownView, checkpoints, whole, changed>>

Fresh == [view |-> 0, locked |-> Nothing, qc |-> Nothing, finalized |-> 0,
          set |-> Nothing, recovery |-> FALSE]

Above(a, b) == IF b = Nothing THEN TRUE ELSE a > b

(* The digest of a state stands for the state: it tells states apart.        *)
ComputeIntegrity(s) == s

(* The rows of one persist, in order; lock and certificate only when there.  *)
PersistConsensusState(s) ==
    IF s.locked = Nothing
    THEN IF s.qc = Nothing THEN <<"snapshot", "integrity">>
         ELSE <<"snapshot", "qc", "integrity">>
    ELSE IF s.qc = Nothing THEN <<"snapshot", "locked", "integrity">>
         ELSE <<"snapshot", "locked", "qc", "integrity">>

RowOf(s, r) == CASE r = "snapshot"  -> s
                 [] r = "locked"    -> s.locked
                 [] r = "qc"        -> s.qc
                 [] r = "integrity" -> ComputeIntegrity(s)

VerifyIntegrity(rows, s) ==
    rows.integrity = Nothing \/ rows.integrity = ComputeIntegrity(s)

LoadRefused(rows) == rows.snapshot # Nothing /\ ~VerifyIntegrity(rows, rows.snapshot)
LoadConsensusState(rows) == IF rows.snapshot = Nothing THEN Fresh ELSE rows.snapshot

RestoreLockedBlock(rows, s) == IF rows.locked = Nothing THEN s.locked ELSE rows.locked
RestoreHighestQc(rows, s) == IF rows.qc = Nothing THEN s.qc ELSE rows.qc

RestoreFullConsensus(rows) ==
    LET s == LoadConsensusState(rows) IN
    [s EXCEPT !.locked = RestoreLockedBlock(rows, s), !.qc = RestoreHighestQc(rows, s)]

DetectInconsistentState(rows, s) ==
    CASE rows.integrity # Nothing /\ rows.integrity # ComputeIntegrity(s) -> "integrity"
      [] ownView # Nothing /\ s.view < ownView -> "regressed"
      [] s.qc # Nothing /\ s.qc > s.view -> "qc"
      [] s.locked # Nothing /\ rows.locked # s.locked -> "locked"
      [] OTHER -> "ok"

RecordsInit ==
    /\ record = Fresh /\ toWrite = <<>> /\ pacemaker = 0 /\ ownView = Nothing
    /\ table = [r \in {"snapshot", "locked", "qc", "integrity"} |-> Nothing]
    /\ checkpoints = <<>> /\ whole = Nothing /\ changed = 0

-----------------------------------------------------------------------------
(* Changes: every setter changes the state in memory and persists all of it. *)

Ready == record # Nothing /\ toWrite = <<>>

Persist(s) ==
    /\ changed < MaxRecordChanges
    /\ record' = s
    /\ toWrite' = PersistConsensusState(s)
    /\ changed' = changed + 1
    /\ UNCHANGED <<table, checkpoints, whole>>

AdvanceView ==
    Ready /\ Persist([record EXCEPT !.view = @ + 1]) /\ UNCHANGED <<pacemaker, ownView>>
\* A lock only moves up: Consensus locks blocks of growing height.
SetLockedBlock(b) ==
    Ready /\ Above(b, record.locked) /\ Persist([record EXCEPT !.locked = b])
                                     /\ UNCHANGED <<pacemaker, ownView>>
SetHighestQc(v) ==
    Ready /\ Above(v, record.qc) /\ Persist([record EXCEPT !.qc = v])
                                 /\ UNCHANGED <<pacemaker, ownView>>
SetFinalizedHeight ==
    Ready /\ Persist([record EXCEPT !.finalized = @ + 1]) /\ UNCHANGED <<pacemaker, ownView>>
UpdateValidatorSetHash(h) ==
    Ready /\ Persist([record EXCEPT !.set = h]) /\ UNCHANGED <<pacemaker, ownView>>
SetRecoveryMode(on) ==
    Ready /\ Persist([record EXCEPT !.recovery = on]) /\ UNCHANGED <<pacemaker, ownView>>

\* One state_put commits; the last one completes the persist.
WriteRecordRow ==
    /\ toWrite # <<>>
    /\ table' = [table EXCEPT ![Head(toWrite)] = RowOf(record, Head(toWrite))]
    /\ toWrite' = Tail(toWrite)
    /\ whole' = IF Len(toWrite) = 1 THEN record ELSE whole
    /\ UNCHANGED <<record, pacemaker, ownView, checkpoints, changed>>

\* One state_put fails: the error ends the persist, memory keeps the change.
WriteRecordFails ==
    /\ toWrite # <<>>
    /\ toWrite' = <<>>
    /\ UNCHANGED <<record, table, pacemaker, ownView, checkpoints, whole, changed>>

(* The view a node adopts from its peers: the median of what they report.    *)
IsMedianView(views, v) ==
    /\ \E p \in DOMAIN views : views[p] = v
    /\ Cardinality({p \in DOMAIN views : views[p] < v}) <= PeerCount \div 2
    /\ Cardinality({p \in DOMAIN views : views[p] <= v}) > PeerCount \div 2

Adopted(v) == IF v <= pacemaker + MaxViewJump THEN v ELSE pacemaker

SynchronizeViewWithPeers(views) ==
    /\ Ready
    /\ \E v \in PeerViews :
          IsMedianView(views, v) /\ v > pacemaker /\ pacemaker' = Adopted(v)
    /\ Persist([record EXCEPT !.view = pacemaker'])
    /\ UNCHANGED ownView

\* Pacemaker::advance_view, and the row Consensus keeps of the current view.
PacemakerAdvances ==
    /\ Ready /\ changed < MaxRecordChanges
    /\ pacemaker' = pacemaker + 1 /\ ownView' = pacemaker + 1
    /\ changed' = changed + 1
    /\ UNCHANGED <<record, table, toWrite, checkpoints, whole>>

CheckpointFinalizedBlock ==
    /\ Ready /\ record.finalized > 0
    /\ checkpoints' = (record.finalized :> record.view) @@ checkpoints
    /\ UNCHANGED <<record, table, toWrite, pacemaker, ownView, whole, changed>>

-----------------------------------------------------------------------------
(* Crash and load.                                                           *)

RecordsCrash ==
    /\ record # Nothing
    /\ record' = Nothing /\ toWrite' = <<>> /\ pacemaker' = 0
    /\ UNCHANGED <<table, ownView, checkpoints, whole, changed>>

\* load_or_init: the snapshot row alone; a failed integrity check is an error.
LoadOrInit ==
    /\ record = Nothing /\ ~LoadRefused(table)
    /\ record' = LoadConsensusState(table)
    /\ UNCHANGED <<table, toWrite, pacemaker, ownView, checkpoints, whole, changed>>

\* restore_full_consensus, with the pacemaker moved up to the restored view.
RestoreAtStartup ==
    /\ record = Nothing /\ ~LoadRefused(table) /\ table.snapshot # Nothing
    /\ record' = RestoreFullConsensus(table)
    /\ pacemaker' = Max({pacemaker, LoadConsensusState(table).view})
    /\ UNCHANGED <<table, toWrite, ownView, checkpoints, whole, changed>>

RecordsNext ==
    \/ AdvanceView \/ SetFinalizedHeight \/ PacemakerAdvances
    \/ \E b \in LockHeights : SetLockedBlock(b)
    \/ \E v \in QcViews : SetHighestQc(v)
    \/ \E h \in SetHashes : UpdateValidatorSetHash(h)
    \/ \E on \in BOOLEAN : SetRecoveryMode(on)
    \/ \E views \in [1..PeerCount -> PeerViews] : SynchronizeViewWithPeers(views)
    \/ WriteRecordRow \/ WriteRecordFails \/ CheckpointFinalizedBlock
    \/ RecordsCrash \/ LoadOrInit \/ RestoreAtStartup

-----------------------------------------------------------------------------
(* Once an integrity row exists, rows that a load accepts are the rows of    *)
(* one complete persist: no crash or failed write between the rows of        *)
(* persist_consensus_state can make restore_full_consensus combine the       *)
(* snapshot of one state with the lock or certificate of another, and        *)
(* detect_inconsistent_state reports a manager whose state they are not.     *)
RestoredIsWhole ==
    table.integrity # Nothing /\ ~LoadRefused(table) =>
        /\ RestoreFullConsensus(table) = whole
        /\ Ready /\ record # whole => DetectInconsistentState(table, record) # "ok"
=============================================================================
