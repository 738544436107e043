------------------------------ MODULE Staking -------------------------------
(* StakingManager (consensus/src/pos/staking.rs): validators' positions,   *)
(* the delegations added to them, the epochs that lock both, and the rows  *)
(* all of it is saved in.  A bank is the manager's five fields; zero stake *)
(* or delegation and NoEpoch stand for a missing map entry, which is exact *)
(* because no call stores a zero amount.  U256 additions saturate far      *)
(* above any total supply, so amounts are natural numbers.                 *)
EXTENDS Integers, FiniteSets, FiniteSetsExt, SequencesExt

CONSTANTS Validators,   \* every address that may hold a position
          Delegators,
          MinStake,     \* MIN_VALIDATOR_STAKE
          Lockup        \* lockup_period(), in epochs

ASSUME StakingAssumption == /\ MinStake \in Nat \ {0}
                            /\ Lockup \in Nat

NoEpoch == -1
Delegations == Delegators \X Validators

EmptyBank == [epoch |-> 0,
              stakes |-> [v \in Validators |-> 0],
              depositEpochs |-> [v \in Validators |-> NoEpoch],
              delegations |-> [p \in Delegations |-> 0],
              delegationEpochs |-> [p \in Delegations |-> NoEpoch]]

(* A position or delegation of epoch e may be withdrawn in epoch now.      *)
Matured(e, now) == e # NoEpoch /\ now >= e + Lockup

(* A position that has reached zero loses its entry and its epoch.         *)
WithoutEmpty(b, v) ==
    IF b.stakes[v] = 0 THEN [b EXCEPT !.depositEpochs[v] = NoEpoch] ELSE b

CanStake(amount) == amount >= MinStake

(* Mutant: a top-up keeps the timer of the position it joins.              *)
StakeTokensOnOldTimer(b, v, amount) ==
    [b EXCEPT !.stakes[v] = @ + amount, !.depositEpochs[v] = IF @ = NoEpoch THEN b.epoch ELSE @]

StakeTokens(b, v, amount) ==
    [b EXCEPT !.stakes[v] = @ + amount, !.depositEpochs[v] = b.epoch]

CanUnstake(b, v, amount) ==
    /\ amount > 0
    /\ Matured(b.depositEpochs[v], b.epoch)
    /\ b.stakes[v] >= amount

UnstakeTokens(b, v, amount) == WithoutEmpty([b EXCEPT !.stakes[v] = @ - amount], v)

DelegateStake(b, d, v, amount) ==
    [b EXCEPT !.delegationEpochs[<<d, v>>] = b.epoch,
              !.stakes[v] = @ + amount,
              !.delegations[<<d, v>>] = @ + amount]

CanUndelegate(b, d, v, amount) ==
    /\ amount > 0
    /\ Matured(b.delegationEpochs[<<d, v>>], b.epoch)
    /\ b.delegations[<<d, v>>] >= amount
    /\ b.stakes[v] >= amount

(* Mutant: the delegation itself is not reduced.                           *)
UndelegateStakeTwice(b, d, v, amount) == WithoutEmpty([b EXCEPT !.stakes[v] = @ - amount], v)

UndelegateStake(b, d, v, amount) ==
    LET left == b.delegations[<<d, v>>] - amount
    IN  WithoutEmpty([b EXCEPT !.delegations[<<d, v>>] = left,
                               !.delegationEpochs[<<d, v>>] = IF left = 0 THEN NoEpoch ELSE @,
                               !.stakes[v] = @ - amount], v)

SlashStake(b, v, amount) ==
    WithoutEmpty([b EXCEPT !.stakes[v] = IF @ > amount THEN @ - amount ELSE 0], v)

RewardValidator(b, v, amount) == [b EXCEPT !.stakes[v] = @ + amount]

StakingEpochUpdate(b) == [b EXCEPT !.epoch = @ + 1]

(* Rows of memory b over rows of disk; stale rows go if deletions are on.  *)
Saved(b, disk, deletions) ==
    LET Amount(have, had) == IF have > 0 THEN have ELSE IF deletions THEN 0 ELSE had
        Epoch(amount, have, row, had) ==
            IF amount > 0 THEN (IF have # NoEpoch THEN have ELSE had)
            ELSE IF deletions /\ row > 0 THEN NoEpoch ELSE had
    IN  [epoch |-> b.epoch,
         stakes |-> [v \in Validators |-> Amount(b.stakes[v], disk.stakes[v])],
         depositEpochs |->
            [v \in Validators |-> Epoch(b.stakes[v], b.depositEpochs[v],
                                        disk.stakes[v], disk.depositEpochs[v])],
         delegations |-> [p \in Delegations |-> Amount(b.delegations[p], disk.delegations[p])],
         delegationEpochs |->
            [p \in Delegations |-> Epoch(b.delegations[p], b.delegationEpochs[p],
                                         disk.delegations[p], disk.delegationEpochs[p])]]

(* staking_state_persistence: every entry in memory is written; a row with *)
(* no entry is deleted, with its epoch row, only after a full restore.     *)
Persisted(b, disk, fullyRestored) == Saved(b, disk, fullyRestored)

(* A restore that fails among the stake rows, or at the first delegation  *)
(* row when every stake was read: with_storage keeps the rows loaded so    *)
(* far and leaves fully_restored false.                                    *)
PartlyRestored(disk, kept) ==
    [EmptyBank EXCEPT !.epoch = disk.epoch,
                      !.stakes = [v \in Validators |-> IF v \in kept THEN disk.stakes[v] ELSE 0],
                      !.depositEpochs = IF kept = Validators THEN disk.depositEpochs ELSE @]

-----------------------------------------------------------------------------
(* ValidatorSet (consensus/src/pos/validator_set.rs), Validator            *)
(* (types/src/validator.rs) and UptimeMonitor (pos/uptime.rs).  Keys,      *)
(* proofs of possession and commissions are those of well-formed           *)
(* validators; what the checks can still reject is the status, the stake   *)
(* and the voting power.  A set is its members and the running total.      *)

CONSTANTS StakeUnit,      \* Validator::STAKE_UNIT
          MaxActive,      \* MAX_ACTIVE_VALIDATORS
          JailThreshold   \* UPTIME_JAIL_THRESHOLD

Absent == [status |-> "Absent", stake |-> 0, power |-> 0]
Statuses == {"Absent", "Active", "Inactive", "Jailed"}

CalculateVotingPower(stake) == stake \div StakeUnit

Member(status, stake) ==
    [status |-> status, stake |-> stake, power |-> CalculateVotingPower(stake)]

Present(set) == {v \in Validators : set.members[v].status # "Absent"}
ActiveValidators(set) == {v \in Validators : set.members[v].status = "Active"}
StakeSum(members, S) == MapThenSumSet(LAMBDA v : members[v].stake, S)

(* validate_validator, with the checks of Validator::validate_strict that  *)
(* a well-formed validator can fail.                                       *)
ValidMember(m) ==
    /\ m.power = CalculateVotingPower(m.stake)
    /\ m.status = "Active" => m.power > 0
    /\ m.status # "Jailed"
    /\ m.stake > 0

CanAdd(set, v, m) ==
    /\ ~(/\ v \notin Present(set)
         /\ m.status = "Active"
         /\ Cardinality(ActiveValidators(set)) >= MaxActive)
    /\ ValidMember(m)

AddValidator(set, v, m) ==
    [members |-> [set.members EXCEPT ![v] = m],
     total |-> set.total - set.members[v].stake + m.stake]

RemoveValidator(set, v) ==
    [members |-> [set.members EXCEPT ![v] = Absent],
     total |-> set.total - set.members[v].stake]

JailValidator(set, v) ==
    [set EXCEPT !.members[v].status = "Jailed", !.members[v].power = 0]

(* slash_validator: the stake falls, the member is jailed, and one left    *)
(* with nothing is dropped.                                                *)
SlashMember(set, v, amount) ==
    LET old == set.members[v].stake
        left == IF old > amount THEN old - amount ELSE 0
    IN  [members |-> [set.members EXCEPT ![v] = IF left = 0 THEN Absent ELSE Member("Jailed", left)],
         total |-> set.total - old + left]

CanReplace(members) ==
    /\ \A v \in Validators : members[v] = Absent \/ ValidMember(members[v])
    /\ Cardinality({v \in Validators : members[v].status = "Active"}) =< MaxActive

(* persist_validator_set: the row holds the active validators only.        *)
PersistedSet(set) ==
    [v \in Validators |-> IF set.members[v].status = "Active" THEN set.members[v] ELSE Absent]

(* replace_validators: staged in full, then swapped in.                    *)
ReplaceValidators(members) == [members |-> members, total |-> StakeSum(members, Validators)]

(* Who select_leader_weighted may return for some view and seed: an active *)
(* validator with power, or any active one when none has any.              *)
Electable(set) ==
    LET weighted == {v \in ActiveValidators(set) : set.members[v].power > 0}
    IN  IF weighted # {} THEN weighted ELSE ActiveValidators(set)

(* record_miss for the leader of one empty view: at the threshold it is    *)
(* jailed and its streak cleared.  A leader no longer electable stands for *)
(* no such view.                                                           *)
MissView(s, leader) ==
    IF leader \notin Electable(s.set) THEN s
    ELSE IF s.missed[leader] + 1 >= JailThreshold
         THEN [set |-> JailValidator(s.set, leader), missed |-> [s.missed EXCEPT ![leader] = 0]]
         ELSE [s EXCEPT !.missed[leader] = @ + 1]

(* The empty views between a finalized block and its parent, in order.     *)
MissViews(set, missed, leaders) ==
    FoldLeft(MissView, [set |-> set, missed |-> missed], leaders)
=============================================================================
