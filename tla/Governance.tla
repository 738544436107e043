---------------------------- MODULE Governance ----------------------------
(* GovernanceManager (consensus/src/governance.rs) and UpgradeManager      *)
(* (consensus/src/upgrades.rs).  A proposal is the record the manager      *)
(* keeps, with the ballots cast on it; proposals are numbered from one in  *)
(* the order they were submitted.  Titles and descriptions are left out,   *)
(* except an upgrade's title, which names the upgrade.                     *)
EXTENDS Integers, Sequences, FiniteSets, FiniteSetsExt

CONSTANTS Voters,
          Upgrades,      \* upgrade names
          TimeLock,      \* GOVERNANCE_TIME_LOCK_BLOCKS
          UpgradeAge     \* MAX_UPGRADE_PROPOSAL_AGE

Options == {"Yes", "No", "Abstain", "NoWithVeto"}
NoBallot == [option |-> "none", power |-> 0]
NoHeight == -1

(* submit_proposal: numbered next, voting open from start to end.          *)
CanSubmit(start, end) == end > start

SubmitProposal(gov, body, start, end) ==
    Append(gov, [body |-> body, status |-> "VotingPeriod", start |-> start, end |-> end,
                 votes |-> [o \in Options |-> 0],
                 ballots |-> [w \in Voters |-> NoBallot],
                 executionHeight |-> NoHeight])

CanVote(gov, id, height) ==
    /\ gov[id].status = "VotingPeriod"
    /\ height >= gov[id].start
    /\ height =< gov[id].end

(* Mutant: the earlier ballot stays counted.                               *)
CastVoteAgain(gov, id, voter, option, power) ==
    [gov EXCEPT ![id].votes[option] = @ + power,
                ![id].ballots[voter] = [option |-> option, power |-> power]]

(* cast_vote: the voter's earlier weight is taken back before the new one  *)
(* is counted.                                                             *)
CastVote(gov, id, voter, option, power) ==
    LET old == gov[id].ballots[voter]
        without == [o \in Options |-> gov[id].votes[o] - (IF o = old.option THEN old.power ELSE 0)]
    IN  [gov EXCEPT ![id].votes = [without EXCEPT ![option] = @ + power],
                    ![id].ballots[voter] = [option |-> option, power |-> power]]

TimeLocked(body) == body.kind \in {"SoftwareUpgrade", "ParameterChange"}

(* tally_proposal_bps: decided on the votes so far, whatever the height    *)
(* and the status.                                                         *)
TallyProposal(gov, id, quorum, passBps, height) ==
    LET p == gov[id]
        total == MapThenSumSet(LAMBDA o : p.votes[o], Options)
        quorate == total >= quorum /\ total > 0
        passed == p.votes["Yes"] * 10000 >= total * passBps
        locked == quorate /\ passed /\ TimeLocked(p.body)
    IN  [gov EXCEPT ![id].status = IF ~quorate THEN "Failed"
                                   ELSE IF ~passed THEN "Rejected"
                                   ELSE IF locked THEN "TimeLocked" ELSE "Passed",
                    ![id].executionHeight = IF locked THEN height + TimeLock ELSE @]

Passed(gov) == {id \in DOMAIN gov : gov[id].status = "Passed"}
MaturedProposals(gov, height) ==
    {id \in DOMAIN gov : /\ gov[id].status = "TimeLocked"
                         /\ gov[id].executionHeight # NoHeight
                         /\ height >= gov[id].executionHeight}

(* get_and_mark_passed_proposals and execute_time_locked_proposals.        *)
MarkExecuted(gov, ids) ==
    [id \in DOMAIN gov |-> IF id \in ids THEN [gov[id] EXCEPT !.status = "Executed"] ELSE gov[id]]

----------------------------------------------------------------------------
(* UpgradeManager.  Names are unique in the list, so it is a function of   *)
(* the name; the version a node starts with is 1 and is never changed.     *)
InitialVersion == 1
NoUpgrade == [version |-> 0, activation |-> 0, votes |-> 0, voters |-> {},
              submitted |-> 0, scheduled |-> FALSE]
NoUpgrades == [u \in Upgrades |-> NoUpgrade]

(* The checks of submit_proposal and apply_governance_upgrade.             *)
CanPropose(list, name, version, activation, height) ==
    /\ activation > height
    /\ version > InitialVersion
    /\ list[name] = NoUpgrade

ProposeUpgrade(list, name, version, activation, height, scheduled) ==
    [list EXCEPT ![name] = [version |-> version, activation |-> activation, votes |-> 0,
                            voters |-> {}, submitted |-> height, scheduled |-> scheduled]]

CanRecordVote(list, name, voter) == list[name] # NoUpgrade /\ voter \notin list[name].voters

RecordVote(list, name, voter, weight) ==
    [list EXCEPT ![name].voters = @ \cup {voter}, ![name].votes = @ + weight]

CanSchedule(list, name, activation, quorum, height) ==
    /\ activation > height
    /\ list[name] # NoUpgrade
    /\ list[name].votes >= quorum

ScheduleUpgrade(list, name, activation) ==
    [list EXCEPT ![name].activation = activation, ![name].scheduled = TRUE]

(* Mutant: age alone decides.                                              *)
PruneUpgradesByAge(list, height) ==
    [u \in Upgrades |-> IF height - list[u].submitted =< UpgradeAge THEN list[u] ELSE NoUpgrade]

(* prune_expired_proposals never drops a scheduled upgrade.                *)
PruneUpgrades(list, height) ==
    [u \in Upgrades |-> IF list[u].scheduled \/ height - list[u].submitted =< UpgradeAge
                        THEN list[u] ELSE NoUpgrade]

(* get_active_version: the highest scheduled version active at a height.   *)
ActiveVersion(list, height) ==
    Max({InitialVersion} \cup
        {list[u].version : u \in {n \in Upgrades : /\ list[n].scheduled
                                                   /\ height >= list[n].activation}})
=============================================================================
