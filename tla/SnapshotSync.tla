---------------------------- MODULE SnapshotSync ----------------------------
(* State snapshots between nodes (node/src/state_sync.rs) and the recovery   *)
(* pipeline (node/src/recovery.rs). A serving validator scans its state one  *)
(* prefix at a time while its chain goes on; a joining node authenticates    *)
(* the manifest and writes the entries one by one.                           *)
EXTENDS Integers, FiniteSets

CONSTANTS
    EntryKinds,          \* account:, storage:, contract:code:, vesting: (one row each)
    Value(_, _),       \* Value(h, p): the row of prefix p after block h, or NoEntry
    NoEntry,
    TipHeight,         \* bound on the chain
    MaxServed          \* bound on snapshots taken

VARIABLES
    servedHeight,      \* height of the serving node, whose rows are State(servedHeight)
    scan,              \* the snapshot it is taking
    offers,            \* snapshots signed and sent
    localRows,         \* the joining node: durable rows
    localRoot,         \* durable: metadata:state_root, as the rows it stands for
    localTree,         \* the rows its tree commits to
    localHeight,       \* its block height, which a snapshot does not move
    setEncoding,       \* of its consensus:validator_set row
    applying,          \* the snapshot being applied and the prefixes still to write
    accepted           \* the last snapshot apply_snapshot accepted

snapVars == <<servedHeight, scan, offers, localRows, localRoot, localTree, localHeight, setEncoding,
              applying, accepted>>
server == <<servedHeight, scan, offers>>
client == <<localRows, localRoot, localTree, localHeight, setEncoding, applying, accepted>>

Blocks == 0 .. TipHeight
StateAt(h) == [p \in EntryKinds |-> Value(h, p)]
Vacant == [p \in EntryKinds |-> NoEntry]
NoScan == [height |-> -1, left |-> {}, entries |-> Vacant]
NoOffer == [height |-> -1, root |-> Vacant, entries |-> Vacant]
NotApplying == [offer |-> NoOffer, left |-> {}]
Present(entries) == {p \in EntryKinds : entries[p] # NoEntry}

SnapInit ==
    /\ servedHeight = 0 /\ scan = NoScan /\ offers = {}
    /\ localHeight \in {0, 1}
    /\ localRows = StateAt(localHeight) /\ localRoot = StateAt(localHeight)
    /\ localTree = StateAt(localHeight)
    /\ setEncoding \in {"absent", "canonical", "legacy"}
    /\ applying = NotApplying /\ accepted = NoOffer

-----------------------------------------------------------------------------
(* The serving validator.                                                    *)

ServerCommitsBlock ==
    /\ servedHeight < TipHeight /\ servedHeight' = servedHeight + 1
    /\ UNCHANGED <<scan, offers, client>>

BeginSnapshot(h) ==
    /\ scan = NoScan /\ Cardinality(offers) < MaxServed /\ h =< servedHeight
    /\ scan' = [height |-> h, left |-> EntryKinds, entries |-> Vacant]
    /\ UNCHANGED <<servedHeight, offers, client>>

\* state_prefix_scan, a read transaction for each prefix.
ScanPrefix(p) ==
    /\ p \in scan.left
    /\ scan' = [scan EXCEPT !.left = @ \ {p}, !.entries[p] = Value(servedHeight, p)]
    /\ UNCHANGED <<servedHeight, offers, client>>

\* The root row is read after the scan and compared with the header.
SignManifest ==
    /\ scan # NoScan /\ scan.left = {}
    /\ scan' = NoScan
    /\ offers' = IF StateAt(servedHeight) = StateAt(scan.height)
                 THEN offers \union {[height |-> scan.height, root |-> StateAt(servedHeight),
                                      entries |-> scan.entries]}
                 ELSE offers
    /\ UNCHANGED <<servedHeight, client>>

-----------------------------------------------------------------------------
(* The joining node.                                                         *)

\* The signer of an offer is an active validator of the row; the row decodes
\* in the fixed-width form only.
VerifyManifestAuthenticity == setEncoding = "legacy"

\* Steps 0 to 3b: signature, height, proof, checksum, count and prefixes.
BeginApply(s) ==
    /\ applying = NotApplying /\ s \in offers /\ VerifyManifestAuthenticity
    /\ localHeight > 0 => s.height > localHeight
    /\ applying' = [offer |-> s, left |-> Present(s.entries)]
    /\ UNCHANGED <<server, localRows, localRoot, localTree, localHeight, setEncoding, accepted>>

WriteEntry(p) ==
    /\ p \in applying.left
    /\ localRows' = [localRows EXCEPT ![p] = applying.offer.entries[p]]
    /\ applying' = [applying EXCEPT !.left = @ \ {p}]
    /\ UNCHANGED <<server, localRoot, localTree, localHeight, setEncoding, accepted>>

\* Mutant: the root row is written first, whatever the rows are.
FinishApplyUnchecked ==
    /\ applying # NotApplying
    /\ localTree' = localRows /\ applying' = NotApplying
    /\ localRoot' = applying.offer.root /\ accepted' = applying.offer
    /\ UNCHANGED <<server, localRows, localHeight, setEncoding>>

\* Steps 4 and 5: rebuild the tree and compare; a mismatch is an error that
\* leaves rows and tree as they are.
FinishApply ==
    /\ applying # NotApplying /\ applying.left = {}
    /\ localTree' = localRows /\ applying' = NotApplying
    /\ IF localRows = applying.offer.root
       THEN localRoot' = localRows /\ accepted' = applying.offer
       ELSE UNCHANGED <<localRoot, accepted>>
    /\ UNCHANGED <<server, localRows, localHeight, setEncoding>>

\* A crash while entries are written; the tree is rebuilt from the rows, and
\* init_state compares it with the header of the height, except at height 0.
CrashAndRestart ==
    /\ applying # NotApplying
    /\ localHeight > 0 => localRows = StateAt(localHeight)
    /\ applying' = NotApplying /\ localTree' = localRows
    /\ UNCHANGED <<server, localRows, localRoot, localHeight, setEncoding, accepted>>

\* replay_recent_blocks: over the base snapshot if there is one, else block 0
\* onwards over the state there is, whose root must then be the genesis root.
\* The first root that differs from its header rolls the replay back.
ReplayRecentBlocks(loaded) ==
    /\ applying = NotApplying /\ localHeight > 0
    /\ localTree' = IF loaded \/ localTree = StateAt(0) THEN StateAt(localHeight) ELSE localTree
    /\ localRows' = localTree'
    /\ UNCHANGED <<server, localRoot, localHeight, setEncoding, applying, accepted>>

SnapNext ==
    \/ ServerCommitsBlock \/ SignManifest \/ FinishApply \/ CrashAndRestart
    \/ \E loaded \in BOOLEAN : ReplayRecentBlocks(loaded)
    \/ \E h \in Blocks : BeginSnapshot(h)
    \/ \E p \in EntryKinds : ScanPrefix(p) \/ WriteEntry(p)
    \/ \E s \in offers : BeginApply(s)

-----------------------------------------------------------------------------
(* Properties.                                                               *)

\* A snapshot may mix the rows of two blocks (the scan is not one read), and
\* the joining node keeps rows the snapshot lacks; still, what apply_snapshot
\* accepts, and the root row it leaves, is the state of the block the manifest
\* names, whole.
AcceptedRowsAreBlock ==
    [][accepted' # accepted =>
          /\ localRows' = StateAt(accepted'.height)
          /\ localTree' = localRows' /\ localRoot' = localRows']_snapVars
=============================================================================
