---------------------------- MODULE MCConsensus -----------------------------
(* Four validators, one of them faulty, two competing blocks at the first  *)
(* height and one block above the first of them.                           *)
EXTENDS Consensus

CONSTANTS r1, r2, r3, r4, A, B, C, D, E

MCHeightOf == [b \in AllBlocks |-> IF b = Root THEN 1 ELSE IF b = C THEN 3 ELSE 2]
MCParentOf == [b \in Blocks |-> IF b = C THEN A ELSE Root]
MCProposerOf == [b \in AllBlocks |->
                    IF b \in {A, E} THEN r1 ELSE IF b \in {B, D} THEN r2 ELSE IF b = C THEN r3 ELSE r4]
MCPower == [r \in {r1, r2, r3, r4} |-> 1]
MCLeader(v, seed) == <<r1, r2, r3, r4>>[((v + (IF seed = None THEN 0 ELSE 1)) % 4) + 1]

(* A chain of three blocks above Root.                                     *)
ChainHeightOf == [b \in AllBlocks |-> CASE b = A -> 2 [] b = C -> 3 [] b = D -> 4 [] OTHER -> 1]
ChainParentOf == [b \in Blocks |-> CASE b = C -> A [] b = D -> C [] OTHER -> Root]
ChainProposerOf == [b \in AllBlocks |-> IF b \in {A, D} THEN r1 ELSE IF b = C THEN r3 ELSE r4]
=============================================================================
