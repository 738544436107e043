------------------------------ MODULE BlockTree ------------------------------
(***************************************************************************)
(* The blocks that may ever be proposed, and the pure rules HotStuff       *)
(* (crates/consensus/src/hotstuff/mod.rs) applies to their parent links.   *)
(* A block is opaque: its hash identifies it, so the model value itself is *)
(* the hash, and HeightOf, ParentOf and ProposerOf are the header fields   *)
(* the rules read.  Root is the last block every replica already has in    *)
(* storage when the behaviour starts.                                      *)
(***************************************************************************)
EXTENDS Integers, FiniteSets

CONSTANTS Blocks,       \* blocks other than Root
          Root,         \* the stored block everything extends
          None,         \* an absent hash (Option::None)
          HeightOf,     \* header.height
          ParentOf,     \* header.parent_hash
          ProposerOf,   \* header.proposer
          WalkLimit     \* ANCESTOR_WALK_LIMIT

AllBlocks == Blocks \cup {Root}

(* An absent height.                                                       *)
NoHeight == -1

ASSUME BlockAssumption ==
    /\ Root \notin Blocks
    /\ None \notin AllBlocks
    /\ HeightOf \in [AllBlocks -> Nat]
    /\ ParentOf \in [Blocks -> AllBlocks]
    \* validate_proposal_parent refuses any other height
    /\ \A b \in Blocks : HeightOf[b] = HeightOf[ParentOf[b]] + 1
    /\ WalkLimit \in Nat \ {0}

(* The hashes visited when walking up from b's parent, following a link    *)
(* only out of a block in known (one that still has a block_parent entry). *)
Walk(b, known) ==
    LET visited[n \in Nat] ==
            IF n = 0
            THEN {ParentOf[b]}
            ELSE visited[n - 1] \cup {ParentOf[c] : c \in visited[n - 1] \cap known}
    IN  visited[WalkLimit - 1]

(* HotStuff::extends_locked_block.  known is the domain of block_parent,   *)
(* lockedHeight is HotStuff's own locked_block_height field.               *)
ExtendsLockedBlock(b, locked, lockedHeight, known) ==
    \/ b = locked
    \/ /\ lockedHeight # NoHeight
       /\ HeightOf[b] > lockedHeight
    \/ /\ lockedHeight = NoHeight
       /\ locked \in Walk(b, known)

(* HotStuff::vote_conflicts_with_locked_block.                             *)
ConflictsWithLockedBlock(b, locked, lockedHeight, known) ==
    /\ locked # None
    /\ ~ExtendsLockedBlock(b, locked, lockedHeight, known)

(* HotStuff::protect_ancestor_chains: candidates reached from a survivor   *)
(* through candidates only.                                                *)
ProtectAncestorChains(known, candidates) ==
    candidates \cap UNION {Walk(s, candidates) : s \in known \ candidates}

(* HotStuff::prune: the blocks whose metadata goes.                        *)
PrunedBlocks(known, views, locked, minView) ==
    LET candidates == {c \in known : views[c] < minView /\ c # locked}
    IN  candidates \ ProtectAncestorChains(known, candidates)

(* consensus_state::reject_proposal_below_locked_block.  lockedHeight is   *)
(* Consensus' own copy of the height, the one restored from storage.       *)
BelowLockedBlock(b, locked, lockedHeight) ==
    /\ lockedHeight # NoHeight
    /\ \/ HeightOf[b] < lockedHeight
       \/ HeightOf[b] = lockedHeight /\ locked # None /\ b # locked
=============================================================================
