---------------------------- MODULE HeaderChain ----------------------------
(***************************************************************************)
(* The headers that full nodes serve to light and nano clients, and the    *)
(* check of a quorum of votes that both make.                              *)
(***************************************************************************)
EXTENDS Integers, Sequences, FiniteSets, FiniteSetsExt, SequencesExt

CONSTANTS
    SetAt,            \* height -> the validator set that certifies its block
    Power,            \* validator -> voting power
    RivalVotes,       \* height -> votes for a block of it that lost its view
    NoSet             \* zero validator_root: a header that commits to no set

-----------------------------------------------------------------------------
(* At every height one block was certified, and one other was proposed on   *)
(* top of the same parent and gathered too few votes.  A hash and a state    *)
(* root are named by the header they belong to.                              *)

Heights == 1..Len(SetAt)

Block(h) == [height |-> h, certified |-> TRUE]
Rival(h) == [height |-> h, certified |-> FALSE]
Proposed == {Block(h) : h \in Heights} \cup {Rival(h) : h \in Heights}

ParentOf(header) == Block(header.height - 1)
ValidatorRoot(header) == IF header.height = 0 THEN NoSet ELSE SetAt[header.height]
ProposerOf(header) == CHOOSE v \in SetAt[header.height] : TRUE
VotesFor(header) == IF header.certified THEN SetAt[header.height]
                                        ELSE RivalVotes[header.height]

\* A header with the votes the peer passes on: all that were cast, or none.
Voted(header) == [header |-> header, signers |-> VotesFor(header)]
Bare(header) == [header |-> header, signers |-> {}]
EnvelopesIn(start, end) ==
    UNION {{Voted(x), Bare(x)} : x \in {y \in Proposed : y.height \in start..end}}

-----------------------------------------------------------------------------

PowerOf(S) == MapThenSumSet(LAMBDA v : Power[v], S)

QuorumThreshold(S) == (2 * PowerOf(S)) \div 3 + 1

VerifyConsensusSignatures(signers, S) ==
    /\ signers # {}
    /\ signers \subseteq S
    /\ PowerOf(signers) >= QuorumThreshold(S)

\* A block that lost its view gathered too few votes.
ASSUME RivalAssumption ==
    \A h \in Heights : ~VerifyConsensusSignatures(RivalVotes[h], SetAt[h])
=============================================================================
