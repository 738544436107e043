------------------------------ MODULE FastPath ------------------------------
(* The optimistic commit of consensus/src/fastpath/optimistic.rs: votes are  *)
(* accumulated unverified, one per address, in a window that opens with the  *)
(* first of them; a commit verifies them against the block it is asked for.  *)
(* No caller of the crate uses it, so blocks, views and phases come in any   *)
(* order.  A vote's signature is the statement it signs, or Forged.          *)
EXTENDS Integers, FiniteSets

CONSTANTS
    Members,        \* addresses of the validator set
    Faulty,         \* members that may sign several blocks of a view
    Outsider,       \* an address that is not in the set
    FastBlocks,
    FastViews,
    FastQuorum,     \* quorum_threshold
    MinActive,      \* bound: members that stay active
    Forged          \* a signature that verifies for nothing

Statements == FastBlocks \X FastViews

\* Any two quorums share a member that is not faulty.
ASSUME FastAssumption ==
    /\ IsFiniteSet(Members) /\ IsFiniteSet(Statements) /\ Faulty \subseteq Members
    /\ FastQuorum \in Nat /\ 2 * FastQuorum > Cardinality(Members) + Cardinality(Faulty)
    /\ Forged \notin Statements

VARIABLES
    signed,         \* statements the members sign, one of a view if they are correct
    accumulator,    \* address to signature
    window,         \* unopened, open, expired
    activeMembers,  \* members that are active
    fastEnabled,    \* FastPath::enabled
    fastCommits     \* statements committed by the fast path

fastVars == <<signed, accumulator, window, activeMembers, fastEnabled, fastCommits>>

FastInit ==
    /\ signed \in [Members -> SUBSET Statements]
    /\ \A v \in Faulty : signed[v] = Statements
    /\ \A v \in Members \ Faulty, view \in FastViews :
          Cardinality({s \in signed[v] : s[2] = view}) = 1
    /\ accumulator = <<>> /\ window = "unopened" /\ activeMembers = Members
    /\ fastEnabled \in BOOLEAN /\ fastCommits = {}

(* add_vote: a later vote of the same address replaces the earlier one.      *)
AddFastVote(a, sig) ==
    /\ accumulator' = [b \in DOMAIN accumulator \union {a} |->
                          IF b = a THEN sig ELSE accumulator[b]]
    /\ window' = IF window = "unopened" THEN "open" ELSE window
    /\ UNCHANGED <<signed, activeMembers, fastEnabled, fastCommits>>

Deliverable(a) == {Forged} \union (IF a \in Members THEN signed[a] ELSE {})

WindowExpires ==
    /\ window = "open" /\ window' = "expired"
    /\ UNCHANGED <<signed, accumulator, activeMembers, fastEnabled, fastCommits>>

ClearAccumulator ==
    /\ accumulator # <<>>
    /\ accumulator' = <<>> /\ window' = "unopened"
    /\ UNCHANGED <<signed, activeMembers, fastEnabled, fastCommits>>

\* The validator set changes a member's status between two votes.
FastDeactivate(v) ==
    /\ v \in activeMembers /\ Cardinality(activeMembers) > MinActive
    /\ activeMembers' = activeMembers \ {v}
    /\ UNCHANGED <<signed, accumulator, window, fastEnabled, fastCommits>>

HasQuorumUnverified(votes, s) ==
    Cardinality(DOMAIN votes \intersect activeMembers) >= FastQuorum
HasQuorum(votes, s) ==
    Cardinality({a \in DOMAIN votes \intersect activeMembers : votes[a] = s}) >= FastQuorum

TryFastCommit(s) ==
    /\ fastEnabled /\ window # "expired" /\ HasQuorum(accumulator, s)
    /\ fastCommits' = fastCommits \union {s}
    /\ UNCHANGED <<signed, accumulator, window, activeMembers, fastEnabled>>

CheckConditions(votes, s) == fastEnabled /\ HasQuorum(votes, s)

\* fast_commit takes any signatures, without a window: all that were made.
FastCommit(s) ==
    /\ CheckConditions([v \in {m \in Members : s \in signed[m]} |-> s], s)
    /\ fastCommits' = fastCommits \union {s}
    /\ UNCHANGED <<signed, accumulator, window, activeMembers, fastEnabled>>

FastNext ==
    \/ \E a \in Members \union {Outsider} : \E sig \in Deliverable(a) : AddFastVote(a, sig)
    \/ WindowExpires \/ ClearAccumulator
    \/ \E v \in Members : FastDeactivate(v)
    \/ \E s \in Statements : TryFastCommit(s) \/ FastCommit(s)

(* Blocks that has_quorum lets the fast path commit in one view are one      *)
(* block, whatever votes share an accumulator, replace each other, come from *)
(* outside the set, or are counted after their member became inactive.       *)
FastCommitsAgree ==
    \A s, t \in fastCommits : s[2] = t[2] => s = t
=============================================================================
