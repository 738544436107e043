------------------------------- MODULE Ledger -------------------------------
(***************************************************************************)
(* What the consensus layer promises its clients: every correct replica    *)
(* holds a chain of stored blocks that only ever grows at its end, one     *)
(* linked block at a time, and no two replicas store different blocks at   *)
(* the same height.                                                        *)
(***************************************************************************)
EXTENDS BlockTree

CONSTANT Members        \* the correct replicas

VARIABLES stored,       \* stored[r][h]: the block of replica r at height h
          latest        \* latest[r]: its LATEST_BLOCK_HEIGHT

ledgerVars == <<stored, latest>>

Heights == {HeightOf[b] : b \in AllBlocks}

RootChain == [h \in Heights |-> IF h = HeightOf[Root] THEN Root ELSE None]

Init ==
    /\ stored = [r \in Members |-> RootChain]
    /\ latest = [r \in Members |-> HeightOf[Root]]

(* Replica r appends b, which every replica that is already at this height *)
(* has as well.                                                            *)
Append(r, b) ==
    /\ HeightOf[b] = latest[r] + 1
    /\ ParentOf[b] = stored[r][latest[r]]
    /\ \A q \in Members : HeightOf[b] <= latest[q] => stored[q][HeightOf[b]] = b
    /\ stored' = [stored EXCEPT ![r][HeightOf[b]] = b]
    /\ latest' = [latest EXCEPT ![r] = HeightOf[b]]

Next == \E r \in Members, b \in Blocks : Append(r, b)

Spec == Init /\ [][Next]_ledgerVars
=============================================================================
