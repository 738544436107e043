---------------------------- MODULE ProofOfStake ----------------------------
(* The proof-of-stake side of one node's Consensus: staking, the validator *)
(* set and its uptime, slashing, governance and upgrades, joined by what   *)
(* finalize_block does with them, and by stops, crashes and restarts.  All *)
(* of it runs under the write lock of Consensus, so a call is one step;    *)
(* execute_slash, whose writes are separate, is one step per write so that *)
(* the node may crash between any two.                                     *)
EXTENDS Staking, Governance

CONSTANTS GenesisValidators, GenesisStake,      \* config.genesis_validators
          Amounts,                    \* what one call stakes, delegates or withdraws
          Reward,                     \* MAINNET_BLOCK_REWARD
          EpochLength,                \* epoch_length
          Offences, AccusedOf, GenuineOf, \* what happened, who did it, does the payload verify
          SlashBps,                   \* SlashingConfig, by offence
          Cooldown,                   \* cooldown_blocks
          EvidenceExpiry,             \* EVIDENCE_EXPIRY_BLOCKS
          VoteOptions, Powers,        \* ballots that may be cast
          Quorum, PassBps,            \* what the caller of tally_proposal_bps passes
          Versions,                   \* versions proposed to the upgrade manager
          RowOrder,                   \* the order a scan of the stake rows yields
          Budgets                     \* per instance: how often each class of call happens, and
                                      \* which evidence and proposals; "missed" bounds the empty views

VARIABLES up,            \* the node is running
          bank, bankDisk, fullyRestored,
          set, setDisk, missed,
          pending,       \* pending_evidence, by id
          executed, cooldown, history,  \* rows of the slashing manager
          slashing,      \* the execute_slash in progress
          gov, govDisk,
          upgrades, upgradesDisk,
          chain, height, \* the stored tip, and finalized_block_height
          budget,
          penalties, drained, lastDeposit, lossy   \* history variables

staking == <<bank, bankDisk, fullyRestored>>
slashRows == <<pending, executed, cooldown, history, slashing>>
governing == <<gov, govDisk, upgrades, upgradesDisk>>
ghosts == <<penalties, drained, lastDeposit, lossy>>
stakeVars == <<up, staking, set, setDisk, missed, slashRows, governing, chain, height, budget, ghosts>>

EvidenceIds == {"self", "reported"} \X Offences

(* Amounts, rewards and penalties are not negative, and genesis validators *)
(* have stake.                                                             *)
ASSUME StakeAssumption ==
    /\ Amounts \subseteq Nat /\ Reward \in Nat /\ GenesisStake \in Nat \ {0}
    /\ AccusedOf \in [Offences -> Validators] /\ SlashBps \in [Offences -> Nat]
    /\ \A b \in Budgets : "ids" \in DOMAIN b /\ b.ids \subseteq EvidenceIds

Idle == <<"none">>
NoEvidence == [status |-> "none", at |-> 0]

StakeInit ==
    /\ up = TRUE
    /\ bank = [EmptyBank EXCEPT
                  !.stakes = [v \in Validators |-> IF v \in GenesisValidators THEN GenesisStake ELSE 0],
                  !.depositEpochs = [v \in Validators |-> IF v \in GenesisValidators THEN 0 ELSE NoEpoch]]
    /\ bankDisk = bank
    /\ fullyRestored = TRUE
    /\ set = ReplaceValidators([v \in Validators |-> IF v \in GenesisValidators
                                                     THEN Member("Active", GenesisStake) ELSE Absent])
    /\ setDisk = PersistedSet(set)
    /\ missed = [v \in Validators |-> 0]
    /\ pending = [id \in EvidenceIds |-> NoEvidence]
    /\ executed = {}
    /\ cooldown = [v \in Validators |-> 0]
    /\ history = [v \in Validators |-> {}]
    /\ slashing = Idle
    /\ gov = <<>> /\ govDisk = <<>>
    /\ upgrades = NoUpgrades /\ upgradesDisk = NoUpgrades
    /\ chain = 0 /\ height = 0
    /\ budget \in Budgets
    /\ penalties = [id \in EvidenceIds |-> 0]
    /\ drained = {}
    /\ lastDeposit = bank.depositEpochs
    /\ lossy = FALSE

Spend(class) == budget[class] > 0 /\ budget' = [budget EXCEPT ![class] = @ - 1]
Ready == up /\ slashing = Idle

----------------------------------------------------------------------------
(* StakingManager's calls: change memory, then save all of it.             *)
SaveBank(b) == /\ bank' = b
               /\ bankDisk' = Persisted(b, bankDisk, fullyRestored)
               /\ UNCHANGED fullyRestored

StakingCall ==
    /\ Ready /\ Spend("stake")
    /\ UNCHANGED <<up, set, setDisk, missed, slashRows, governing, chain, height,
                   penalties, lossy>>

Stake(v, amount) ==
    /\ StakingCall
    /\ CanStake(amount)
    /\ SaveBank(StakeTokens(bank, v, amount))
    /\ lastDeposit' = [lastDeposit EXCEPT ![v] = bank.epoch]
    /\ UNCHANGED drained

Unstake(v, amount) ==
    /\ StakingCall
    /\ CanUnstake(bank, v, amount)
    /\ SaveBank(UnstakeTokens(bank, v, amount))
    /\ drained' = drained \cup {v}
    /\ UNCHANGED lastDeposit

Delegate(d, v, amount) ==
    /\ StakingCall
    /\ amount > 0
    /\ SaveBank(DelegateStake(bank, d, v, amount))
    /\ UNCHANGED <<drained, lastDeposit>>

Undelegate(d, v, amount) ==
    /\ StakingCall
    /\ CanUndelegate(bank, d, v, amount)
    /\ SaveBank(UndelegateStake(bank, d, v, amount))
    /\ UNCHANGED <<drained, lastDeposit>>

----------------------------------------------------------------------------
(* SlashingManager.  The id of a piece of evidence is the offence and      *)
(* whether this node detected it or had it reported.                       *)
EvidenceCall ==
    /\ Ready /\ Spend("evidence")
    /\ UNCHANGED <<up, staking, set, setDisk, missed, executed, cooldown, history, governing,
                   chain, height, ghosts>>

(* Evidence::new_self_detected and new_reported: of the same content, filed *)
(* again, it is the same entry with a newer height.                        *)
NewEvidence(id) == [status |-> "recorded", at |-> IF id[1] = "self" THEN height ELSE chain]

RecordEvidence(id) ==
    /\ EvidenceCall
    /\ pending' = [pending EXCEPT ![id] = NewEvidence(id)]
    /\ UNCHANGED slashing

(* confirm_self_detected_misbehavior checks the payload against the        *)
(* accused; confirm_misbehavior only the reporter's signature, so reported *)
(* evidence may be confirmed whatever its payload.                         *)
ConfirmEvidence(id) ==
    /\ EvidenceCall
    /\ pending[id].status # "none"
    /\ id[1] = "self" => GenuineOf[id[2]]
    /\ pending' = [pending EXCEPT ![id].status = "verified"]
    /\ UNCHANGED slashing

Expired(id, now) == now - pending[id].at > EvidenceExpiry

(* execute_slash up to the write that consumes the evidence.               *)
SlashBegin(id) ==
    /\ EvidenceCall
    /\ pending[id].status = "verified"
    /\ ~Expired(id, chain)
    /\ id \notin executed
    /\ AccusedOf[id[2]] \in Present(set)
    /\ GenuineOf[id[2]]
    /\ slashing' = <<"mark", id, (bank.stakes[AccusedOf[id[2]]] * SlashBps[id[2]]) \div 10000>>
    /\ UNCHANGED pending

SlashStep(at) ==
    /\ up /\ slashing[1] = at
    /\ UNCHANGED <<up, fullyRestored, setDisk, missed, govDisk, upgrades, upgradesDisk,
                   chain, height, budget, lastDeposit, lossy>>

(* Mutant: the evidence is not consumed before the penalty.                *)
SlashUnmarked ==
    /\ SlashStep("mark")
    /\ slashing' = [slashing EXCEPT ![1] = "stake"]
    /\ UNCHANGED <<bank, bankDisk, set, pending, executed, cooldown, history, gov, penalties, drained>>

SlashMark ==
    /\ SlashStep("mark")
    /\ executed' = executed \cup {slashing[2]}
    /\ slashing' = [slashing EXCEPT ![1] = "stake"]
    /\ UNCHANGED <<bank, bankDisk, set, pending, cooldown, history, gov, penalties, drained>>

(* slash_validator of the staking manager.                                 *)
SlashPosition ==
    LET id == slashing[2]
        v == AccusedOf[id[2]]
    IN  /\ SlashStep("stake")
        /\ bank.stakes[v] > 0
        /\ bank' = SlashStake(bank, v, slashing[3])
        /\ bankDisk' = Persisted(bank', bankDisk, fullyRestored)
        /\ penalties' = [penalties EXCEPT ![id] = @ + 1]
        /\ drained' = drained \cup {v}
        /\ slashing' = [slashing EXCEPT ![1] = "jail"]
        /\ UNCHANGED <<set, pending, executed, cooldown, history, gov>>

(* The same call failing: there is no position, or its rows cannot be      *)
(* written and only memory has changed.  execute_slash returns the error.  *)
SlashPositionFails ==
    LET id == slashing[2]
        v == AccusedOf[id[2]]
        had == bank.stakes[v] > 0
    IN  /\ SlashStep("stake")
        /\ bank' = IF had THEN SlashStake(bank, v, slashing[3]) ELSE bank
        /\ penalties' = IF had THEN [penalties EXCEPT ![id] = @ + 1] ELSE penalties
        /\ drained' = IF had THEN drained \cup {v} ELSE drained
        /\ slashing' = Idle
        /\ UNCHANGED <<bankDisk, set, pending, executed, cooldown, history, gov>>

(* The set's slash_validator, then set_cooldown.                           *)
SlashJail ==
    LET v == AccusedOf[slashing[2][2]]
    IN  /\ SlashStep("jail")
        /\ set' = SlashMember(set, v, slashing[3])
        /\ cooldown' = [cooldown EXCEPT ![v] = chain + Cooldown]
        /\ slashing' = [slashing EXCEPT ![1] = "record"]
        /\ UNCHANGED <<bank, bankDisk, pending, executed, history, gov, penalties, drained>>

(* The event and history rows, the incident proposal, and the evidence     *)
(* leaves the pool.                                                        *)
SlashRecord ==
    LET id == slashing[2]
    IN  /\ SlashStep("record")
        /\ history' = [history EXCEPT ![AccusedOf[id[2]]] = @ \cup {chain}]
        /\ gov' = SubmitProposal(gov, [kind |-> "TextProposal"], chain, chain + 10000)
        /\ pending' = [pending EXCEPT ![id] = NoEvidence]
        /\ slashing' = Idle
        /\ UNCHANGED <<bank, bankDisk, set, executed, cooldown, penalties, drained>>

----------------------------------------------------------------------------
(* GovernanceManager's calls; nothing is saved before the next finalized   *)
(* block or a clean stop.                                                  *)
GovernanceCall(class) ==
    /\ Ready /\ Spend(class)
    /\ UNCHANGED <<up, staking, set, setDisk, missed, slashRows, govDisk, upgrades, upgradesDisk,
                   chain, height, ghosts>>

Submit(body, end) ==
    /\ GovernanceCall("submit")
    /\ CanSubmit(chain, end)
    /\ gov' = SubmitProposal(gov, body, chain, end)

Vote(id, voter, option, power) ==
    /\ GovernanceCall("vote")
    /\ CanVote(gov, id, chain)
    /\ gov' = CastVote(gov, id, voter, option, power)

Tally(id) ==
    /\ GovernanceCall("tally")
    /\ gov' = TallyProposal(gov, id, Quorum, PassBps, chain)

(* UpgradeManager's calls save the list each time.                         *)
SaveUpgrades(list) == upgrades' = list /\ upgradesDisk' = list

UpgradeCall ==
    /\ Ready /\ Spend("upgrade")
    /\ UNCHANGED <<up, staking, set, setDisk, missed, slashRows, gov, govDisk, chain, height, ghosts>>

SubmitUpgrade(name, version, activation) ==
    /\ UpgradeCall
    /\ CanPropose(upgrades, name, version, activation, chain)
    /\ SaveUpgrades(ProposeUpgrade(upgrades, name, version, activation, chain, FALSE))

VoteUpgrade(name, voter, weight) ==
    /\ UpgradeCall
    /\ CanRecordVote(upgrades, name, voter)
    /\ SaveUpgrades(RecordVote(upgrades, name, voter, weight))

Schedule(name, activation) ==
    /\ UpgradeCall
    /\ CanSchedule(upgrades, name, activation, Quorum, chain)
    /\ SaveUpgrades(ScheduleUpgrade(upgrades, name, activation))

Prune ==
    /\ UpgradeCall
    /\ SaveUpgrades(PruneUpgrades(upgrades, chain))

----------------------------------------------------------------------------
(* maybe_rotate_validator_set_for_new_epoch.                               *)
InCooldown(v, h) == h < cooldown[v]

(* One passed proposal, at an epoch boundary of height h.                  *)
ApplyPassed(s, body, h) ==
    CASE body.kind = "AddValidator" ->
            LET m == Member("Active", body.stake)
            IN  IF ~InCooldown(body.who, h) /\ CanAdd(s, body.who, m)
                THEN AddValidator(s, body.who, m) ELSE s
      [] body.kind = "RemoveValidator" -> RemoveValidator(s, body.who)
      [] OTHER -> s

(* A member as the rotation would have it: stake and power from the        *)
(* staking manager, nobody without stake, nobody released by the rotation  *)
(* itself, and nobody active while cooling down.                           *)
Refreshed(m, v, stakes, h) ==
    IF m.status = "Absent" \/ stakes[v] = 0 THEN Absent
    ELSE IF m.status = "Jailed" THEN Member("Jailed", stakes[v])
    ELSE IF InCooldown(v, h) THEN [Member("Jailed", stakes[v]) EXCEPT !.power = 0]
    ELSE Member("Active", stakes[v])

(* What finalizing does to the governance lists: the upgrades among the    *)
(* matured proposals, in the order the map yields them.                    *)
ApplyUpgrade(list, body, h) ==
    IF body.kind = "SoftwareUpgrade" /\ CanPropose(list, body.name, body.version, body.at, h)
    THEN ProposeUpgrade(list, body.name, body.version, body.at, h, TRUE) ELSE list

Unexpired(h) ==
    [id \in EvidenceIds |-> IF h - pending[id].at > EvidenceExpiry THEN NoEvidence ELSE pending[id]]

(* finalize_block for the next block, proposed by p after the empty views  *)
(* of the given leaders, and what finalize_block_once_quorum_reached does  *)
(* after it.  A rotation that fails ends finalize_block with the epoch     *)
(* advanced, the passed proposals consumed and applied, and the set and    *)
(* the matured proposals as they were.                                     *)
FinalizeEpochBlock(p, leaders, passedOrder, maturedOrder) ==
    LET h == chain + 1
        boundary == h % EpochLength = 0
        rewarded == RewardValidator(bank, p, Reward)
        seen == MissViews(set, [missed EXCEPT ![p] = 0], leaders)
        entered == IF boundary THEN StakingEpochUpdate(rewarded) ELSE rewarded
        passed == IF boundary THEN Passed(gov) ELSE {}
        marked == MarkExecuted(gov, passed)
        admitted == FoldLeft(LAMBDA s, id : ApplyPassed(s, gov[id].body, h), seen.set, passedOrder)
        next == [v \in Validators |-> Refreshed(admitted.members[v], v, entered.stakes, h)]
        done == ~boundary \/ CanReplace(next)
        matured == IF done THEN MaturedProposals(marked, h) ELSE {}
    IN  /\ Ready
        /\ budget.block > 0
        /\ budget' = [budget EXCEPT !.block = @ - 1, !.missed = @ - Len(leaders)]
        /\ p \in ActiveValidators(set)
        /\ passedOrder \in SetToSeqs(passed)
        /\ maturedOrder \in SetToSeqs(matured)
        /\ chain' = h /\ height' = h
        /\ bank' = entered
        /\ bankDisk' = Persisted(entered, bankDisk, fullyRestored)
        /\ set' = IF ~boundary THEN seen.set
                  ELSE IF done THEN ReplaceValidators(next) ELSE admitted
        /\ setDisk' = IF boundary /\ done THEN PersistedSet(set') ELSE setDisk
        /\ missed' = [v \in Validators |-> IF boundary /\ next[v].status = "Active"
                                           THEN 0 ELSE seen.missed[v]]
        /\ gov' = MarkExecuted(marked, matured)
        /\ govDisk' = gov'
        /\ SaveUpgrades(FoldLeft(LAMBDA l, id : ApplyUpgrade(l, gov[id].body, h), upgrades, maturedOrder))
        /\ pending' = Unexpired(h)
        /\ UNCHANGED <<up, fullyRestored, executed, cooldown, history, slashing,
                       penalties, drained, lastDeposit, lossy>>

----------------------------------------------------------------------------
Untouched == <<executed, cooldown, history, upgrades, upgradesDisk, chain, height, missed, pending,
          penalties, drained, lastDeposit>>

(* Consensus::stop.                                                        *)
StopNode ==
    /\ Ready /\ Spend("crash")
    /\ up' = FALSE
    /\ setDisk' = PersistedSet(set)
    /\ govDisk' = gov
    /\ UNCHANGED <<staking, set, gov, slashing, lossy, Untouched>>

CrashNode ==
    /\ up /\ Spend("crash")
    /\ up' = FALSE
    /\ slashing' = Idle
    /\ UNCHANGED <<staking, set, setDisk, gov, govDisk, lossy, Untouched>>

(* new_production, start and the validator set fallback of bootstrap_node. *)
(* start fails, and with it the node, when the saved set is rejected.      *)
Restart(b, full) ==
    LET restored == ReplaceValidators(setDisk)
        fallback == ActiveValidators(restored) = {}
        refilled == [v \in Validators |-> IF v \in GenesisValidators THEN Member("Active", GenesisStake)
                                          ELSE setDisk[v]]
        again == [v \in Validators |-> v \in GenesisValidators /\ b.stakes[v] = 0]
        staked == [b EXCEPT !.stakes = [v \in Validators |-> IF again[v] THEN GenesisStake ELSE @[v]],
                            !.depositEpochs = [v \in Validators |-> IF again[v] THEN b.epoch ELSE @[v]]]
    IN  /\ ~up
        /\ CanReplace(setDisk)
        /\ up' = TRUE
        /\ fullyRestored' = full
        /\ lossy' = (lossy \/ ~full)
        /\ bank' = IF fallback THEN staked ELSE b
        /\ bankDisk' = IF fallback THEN Persisted(staked, bankDisk, full) ELSE bankDisk
        /\ lastDeposit' = [v \in Validators |-> IF fallback /\ again[v] THEN b.epoch ELSE lastDeposit[v]]
        /\ set' = IF fallback THEN ReplaceValidators(refilled) ELSE restored
        /\ setDisk' = IF fallback THEN PersistedSet(set') ELSE setDisk
        /\ missed' = [v \in Validators |-> 0]
        /\ pending' = [id \in EvidenceIds |-> NoEvidence]
        /\ gov' = govDisk
        /\ upgrades' = upgradesDisk
        /\ height' = 0
        /\ UNCHANGED <<executed, cooldown, history, slashing, govDisk, upgradesDisk, chain,
                       penalties, drained>>

RestartFull == Restart(bankDisk, TRUE) /\ UNCHANGED budget

(* The restore fails before the epoch row, or after some of the stakes.    *)
RestartLossy ==
    /\ Spend("lossy")
    /\ \E b \in {EmptyBank} \cup {PartlyRestored(bankDisk, ToSet(k)) : k \in Prefixes(RowOrder)} :
          Restart(b, FALSE)

StakeNext ==
    \/ \E v \in Validators, a \in Amounts : Stake(v, a) \/ Unstake(v, a)
    \/ \E d \in Delegators, v \in Validators, a \in Amounts : Delegate(d, v, a) \/ Undelegate(d, v, a)
    \/ \E id \in budget.ids : RecordEvidence(id) \/ ConfirmEvidence(id) \/ SlashBegin(id)
    \/ SlashMark \/ SlashPosition \/ SlashPositionFails \/ SlashJail \/ SlashRecord
    \/ \E body \in budget.bodies : Submit(body, chain + 1)
    \/ \E id \in DOMAIN gov : Tally(id)
    \/ \E id \in DOMAIN gov, w \in Voters, o \in VoteOptions, q \in Powers : Vote(id, w, o, q)
    \/ \E u \in Upgrades, n \in Versions, k \in 1 .. 2 : SubmitUpgrade(u, n, chain + k)
    \/ \E u \in Upgrades, w \in Voters, q \in Powers : VoteUpgrade(u, w, q)
    \/ \E u \in Upgrades, k \in 1 .. 2 : Schedule(u, chain + k)
    \/ Prune
    \/ \E p \in Validators, leaders \in BoundedSeq(Electable(set), budget.missed),
          a \in {<<>>} \cup SetToSeqs(Passed(gov)),
          m \in {<<>>} \cup SetToSeqs(MaturedProposals(gov, chain + 1)) : FinalizeEpochBlock(p, leaders, a, m)
    \/ StopNode \/ CrashNode \/ RestartFull \/ RestartLossy

----------------------------------------------------------------------------
(* A piece of evidence takes stake at most once, whether execute_slash     *)
(* fails or the node crashes between any two of its writes, and whether    *)
(* the evidence is recorded and confirmed again afterwards.                *)
SlashedOncePerEvidence == \A id \in EvidenceIds : penalties[id] =< 1

(* A validator withdraws only when lockup_period epochs have passed since  *)
(* it last staked, across restarts that restore the deposit epochs.        *)
LockupHolds ==
    [][\A v \in Validators, a \in Amounts :
          Unstake(v, a) => lastDeposit[v] # NoEpoch /\ bank.epoch >= lastDeposit[v] + Lockup]_stakeVars

(* What delegators may take back from a validator that was neither slashed *)
(* nor withdrew is there, in memory and after a restart, as long as every  *)
(* restore was complete.                                                   *)
DelegatedTo(b, v) == MapThenSumSet(LAMBDA d : b.delegations[<<d, v>>], Delegators)

DelegationsCovered ==
    \A v \in Validators \ drained :
        ~lossy => /\ DelegatedTo(bank, v) =< bank.stakes[v]
                  /\ DelegatedTo(bankDisk, v) =< bankDisk.stakes[v]

(* The running total of the validator set is the sum over its members      *)
(* through admissions, removals, slashes, jailings and rotations.          *)
TotalStakeExact == set.total = StakeSum(set.members, Validators)

(* Both books balance: the delegations of StakingManager and the running   *)
(* total of ValidatorSet.                                                  *)
StakeBooksBalance == DelegationsCovered /\ TotalStakeExact

(* The votes a proposal counts are those of the last ballots cast on it,   *)
(* each with the power it was cast with.                                   *)
TallyMatchesBallots ==
    \A id \in DOMAIN gov, o \in Options :
        gov[id].votes[o] = MapThenSumSet(LAMBDA w : gov[id].ballots[w].power,
                                         {w \in Voters : gov[id].ballots[w].option = o})

(* The version active at a height already reached never changes, through   *)
(* proposals, votes, prunings, crashes and restarts; only schedule_upgrade *)
(* may move an upgrade that was scheduled before.                          *)
ForkHeightsFixed ==
    [][(\A u \in Upgrades : upgrades[u].scheduled /\ upgrades'[u].scheduled
                               => upgrades'[u].activation = upgrades[u].activation)
       => \A h \in 0 .. chain : ActiveVersion(upgrades', h) = ActiveVersion(upgrades, h)]_stakeVars

=============================================================================
