--------------------------- MODULE SnapshotHistory --------------------------
(* State snapshots of many heights in one key space (crates/state,           *)
(* state_db.rs): full and incremental snapshots, the chain of bases, restore *)
(* and historical proofs, and the two ways to prune. The rows of a snapshot  *)
(* lie under a prefix that ends in the decimal height without a delimiter,   *)
(* so a scan for height 1 also returns the rows of heights 10 to 19.         *)
EXTENDS Integers, Sequences, FiniteSets, SequencesExt, TLC

CONSTANTS
    TreeKeys,          \* account: and storage: rows, which the root commits to
    VestingKeys,       \* vesting: rows, which it does not
    RowValues,
    Tombstone,         \* SNAPSHOT_TOMBSTONE
    SnapHeights,       \* heights at which a snapshot may be taken
    Retain,            \* the pruning mode's limit, and retain_count
    MaxChanges         \* bound on writes to the rows

VARIABLES
    live,              \* key -> value, of the rows there are
    dirtyKeys,
    snaps,             \* height -> [type, root, base, full, incremental]
    recorded,          \* height -> the rows when its snapshot was taken
    rewound,           \* an older snapshot was loaded
    entangled,         \* a prune rewrote a height whose scan found others
    changes

historyVars == <<live, dirtyKeys, snaps, recorded, rewound, entangled, changes>>

NoRows == [k \in {} |-> 0]
ListSnapshotHeights == DOMAIN snaps
Least(S) == CHOOSE x \in S : \A y \in S : x =< y
Greatest(S) == CHOOSE x \in S : \A y \in S : x >= y

\* build_tree_from_entries: the tree of the account and storage rows.
TreeOf(entries) == [k \in DOMAIN entries \cap TreeKeys |-> entries[k]]

-----------------------------------------------------------------------------
(* Keys.                                                                     *)

Digits[n \in Nat] == IF n < 10 THEN <<n>> ELSE Append(Digits[n \div 10], n % 10)

\* In a key the height is followed by ':', which sorts after the digits.
Spelled(h) == Append(Digits[h], 10)
KeyBefore(h, k) ==
    LET s == Spelled(h)
        t == Spelled(k)
    IN  \E i \in DOMAIN s \cap DOMAIN t : SubSeq(s, 1, i - 1) = SubSeq(t, 1, i - 1) /\ s[i] < t[i]

\* The heights that a scan of snapshot_prefix_for_height(h) meets.
HeightsUnder(h) == {k \in ListSnapshotHeights : IsPrefix(Digits[h], Digits[k])}

\* state_prefix_scan, in key order; a later row overwrites an earlier one.
ScanHeight(kind, h) ==
    FoldLeft(LAMBDA acc, k : snaps[k][kind] @@ acc, NoRows, SetToSortSeq(HeightsUnder(h), KeyBefore))

-----------------------------------------------------------------------------
(* Chains of bases.                                                          *)

\* snapshot_chain, from the full base up; none if a base is missing.
SnapshotChain[h \in Nat] ==
    IF h \notin ListSnapshotHeights THEN <<>>
    ELSE IF snaps[h].type = "full" THEN <<h>>
    ELSE IF SnapshotChain[snaps[h].base] = <<>> THEN <<>>
    ELSE Append(SnapshotChain[snaps[h].base], h)

\* apply_incremental_snapshot: rows are written, tombstones remove.
Overlay(entries, delta) ==
    LET all == delta @@ entries
    IN  [k \in {x \in DOMAIN all : all[x] # Tombstone} |-> all[k]]

Increments(rows, chain) ==
    FoldLeft(LAMBDA acc, k : Overlay(acc, ScanHeight("incremental", k)), rows, chain)

\* snapshot_entries: the full base, then each increment.
SnapshotEntries(h) == Increments(ScanHeight("full", SnapshotChain[h][1]), Tail(SnapshotChain[h]))

\* rebuild_tree_for_height, and with it every proof of a historical value.
Rebuilds(h) ==
    /\ SnapshotChain[h] # <<>>
    /\ TreeOf(SnapshotEntries(h)) = snaps[h].root

-----------------------------------------------------------------------------
HistoryInit ==
    /\ live = NoRows /\ dirtyKeys = {} /\ snaps = NoRows /\ recorded = NoRows
    /\ rewound = FALSE /\ entangled = FALSE /\ changes = 0

PutRow(k, v) ==
    /\ changes < MaxChanges /\ changes' = changes + 1
    /\ live' = (k :> v) @@ live /\ dirtyKeys' = dirtyKeys \union {k}
    /\ UNCHANGED <<snaps, recorded, rewound, entangled>>

DeleteRow(k) ==
    /\ k \in DOMAIN live /\ changes < MaxChanges /\ changes' = changes + 1
    /\ live' = [x \in DOMAIN live \ {k} |-> live[x]] /\ dirtyKeys' = dirtyKeys \union {k}
    /\ UNCHANGED <<snaps, recorded, rewound, entangled>>

WriteFullSnapshot ==
    [type |-> "full", root |-> TreeOf(live), base |-> 0, full |-> live, incremental |-> NoRows]

WriteIncrementalSnapshot(h, dirty) ==
    [type |-> "incremental", root |-> TreeOf(live), base |-> h - 1, full |-> NoRows,
     incremental |-> [k \in dirty |-> IF k \in DOMAIN live THEN live[k] ELSE Tombstone]]

\* The node commits first, which forgets what is dirty, so that the snapshot is
\* a full one; a caller that never commits gets increments. Heights only grow,
\* and after a rewind nothing goes on from here.
SnapshotState(h, dirty) ==
    /\ ~rewound /\ \A k \in ListSnapshotHeights : k < h
    /\ LET s == IF dirty = {} \/ h - 1 \notin ListSnapshotHeights
                THEN WriteFullSnapshot ELSE WriteIncrementalSnapshot(h, dirty)
       IN  snaps' = (h :> s) @@ snaps
    /\ recorded' = (h :> live) @@ recorded /\ dirtyKeys' = {}
    /\ UNCHANGED <<live, rewound, entangled, changes>>

\* apply_full_snapshot: the live rows are wiped first.
ApplyFullSnapshot(h) == ScanHeight("full", h)

\* load_snapshot: all rows are replaced by those of the chain, and stay so when
\* the root then turns out to be another.
LoadSnapshot(h) ==
    /\ h \in ListSnapshotHeights /\ SnapshotChain[h] # <<>>
    /\ live' = Increments(ApplyFullSnapshot(SnapshotChain[h][1]), Tail(SnapshotChain[h]))
    /\ dirtyKeys' = {}
    /\ rewound' = (rewound \/ h # Greatest(ListSnapshotHeights))
    /\ UNCHANGED <<snaps, recorded, entangled, changes>>

-----------------------------------------------------------------------------
(* Pruning.                                                                  *)

\* materialize_full_snapshot_at; the scans for its old rows find, and drop,
\* those of the heights beneath the same prefix.
Materialized(h) ==
    [k \in ListSnapshotHeights |->
        IF k = h
        THEN [snaps[h] EXCEPT !.type = "full", !.base = 0, !.full = SnapshotEntries(h),
                              !.incremental = NoRows]
        ELSE IF k \in HeightsUnder(h) THEN [snaps[k] EXCEPT !.full = NoRows, !.incremental = NoRows]
        ELSE snaps[k]]

\* snapshot_chain_needs_height_at_or_below
ChainNeeds(h, top) == \E i \in DOMAIN SnapshotChain[h] : SnapshotChain[h][i] =< top

\* delete_snapshots_at_or_below
DeleteSnapshotsAtOrBelow(s, top) == [k \in {x \in DOMAIN s : x > top} |-> s[k]]

PruneUnmaterialized(top) ==
    /\ snaps' = DeleteSnapshotsAtOrBelow(snaps, top)
    /\ UNCHANGED <<live, dirtyKeys, recorded, rewound, entangled, changes>>

\* The oldest snapshot that stays is rewritten first if it rests on one that
\* goes; if it cannot be rebuilt, nothing is pruned.
PruneTo(top) ==
    LET kept == {k \in ListSnapshotHeights : k > top}
        oldest == Least(kept)
    IN  /\ IF kept = {} \/ ~ChainNeeds(oldest, top)
           THEN snaps' = DeleteSnapshotsAtOrBelow(snaps, top) /\ UNCHANGED entangled
           ELSE IF Rebuilds(oldest)
           THEN /\ snaps' = DeleteSnapshotsAtOrBelow(Materialized(oldest), top)
                /\ entangled' = (entangled \/ HeightsUnder(oldest) # {oldest}
                                    \/ SnapshotEntries(oldest) # recorded[oldest])
           ELSE UNCHANGED <<snaps, entangled>>
        /\ UNCHANGED <<live, dirtyKeys, recorded, rewound, changes>>

\* prune_historical_state: Archive keeps all, Minimal is a limit of zero.
PruneHistoricalState(finalized) ==
    /\ finalized \in ListSnapshotHeights /\ finalized > Retain
    /\ PruneTo(finalized - Retain - 1)

\* prune_state_versions: all but the newest retain_count heights.
PruneStateVersions ==
    LET n == Cardinality(ListSnapshotHeights)
    IN  /\ n > Retain /\ Retain > 0
        /\ PruneTo(SetToSortSeq(ListSnapshotHeights, <)[n - Retain])

HistoryNext ==
    \/ \E k \in TreeKeys \union VestingKeys : DeleteRow(k) \/ \E v \in RowValues : PutRow(k, v)
    \/ \E h \in SnapHeights :
          \/ \E dirty \in {dirtyKeys, {}} : SnapshotState(h, dirty)
          \/ LoadSnapshot(h) \/ PruneHistoricalState(h)
    \/ PruneStateVersions

-----------------------------------------------------------------------------
(* Properties.                                                               *)

\* Whatever was pruned, in whichever of the two ways, every snapshot that is
\* still listed restores exactly the rows it was taken of, as long as no scan
\* for a height of its chain meets the rows of another height; and a historical
\* proof that is served at all is for the account and storage rows of its height.
HistoryRestores ==
    \A h \in ListSnapshotHeights :
        /\ ( /\ ~entangled
             /\ \A k \in ListSnapshotHeights, j \in DOMAIN SnapshotChain[h] :
                   k \in HeightsUnder(SnapshotChain[h][j]) => k = SnapshotChain[h][j] )
           => SnapshotChain[h] # <<>> /\ SnapshotEntries(h) = recorded[h]
        /\ Rebuilds(h) => TreeOf(SnapshotEntries(h)) = TreeOf(recorded[h])

=============================================================================
