-------------------------- MODULE TransactionPaths --------------------------
(***************************************************************************)
(* The three pieces of code that run a transaction of a block.             *)
(*                                                                         *)
(*  - The proposer builds a block with Executor::execute_pipeline, which   *)
(*    writes the state database account by account                         *)
(*    (execution/src/executor.rs, evm_runtime.rs StateDbBackend).          *)
(*  - A validator executes the proposal with                               *)
(*    execute_transaction_speculative, which collects a write set over the *)
(*    multi-version memory (evm_runtime.rs OccStateDbBackend).  The        *)
(*    transactions are taken here in block order: what conflicts do to the *)
(*    order is ParallelExecution's subject.                                *)
(*  - A stateless verifier replays the block with StateDb::state_transition*)
(*    (state/src/state_db.rs).                                             *)
(*                                                                         *)
(* The block is accepted when all of them reach the same state.  The price *)
(* of gas is 1, and no balance comes near the largest one.  The EVM is     *)
(* external: what a contract does is part of the transaction.              *)
(***************************************************************************)
EXTENDS Integers, Sequences, FiniteSetsExt

CONSTANTS
    Addresses,
    Slots,        \* the storage slots of a contract
    Nobody,       \* tx.to of a deployment
    Absent,       \* no account row
    Intrinsic,    \* the gas of a transfer
    Worlds,       \* the states before the block
    Locks,        \* the amounts a vesting schedule may lock, by address
    Batches       \* the blocks: sequences of transactions

VARIABLES
    start,      \* the state before the block, which is what storage holds
    locked,     \* VestingSchedule::locked_amount at the block's timestamp
    txs,        \* the transactions of the block
    stage,      \* who is executing
    proposer, validator, stateless   \* each one's [world, results]

pathVars == <<start, locked, txs, stage, proposer, validator, stateless>>

NoSlots == [s \in Slots |-> 0]

-----------------------------------------------------------------------------
(* The state database *)

Fresh == [balance |-> 0, nonce |-> 0, code |-> FALSE, root |-> NoSlots]

Load(w, a) == IF w.account[a] = Absent THEN Fresh ELSE w.account[a]

UpdateAccount(w, a, row) == [w EXCEPT !.account[a] = row]

\* compute_storage_root leaves the slots that hold zero out.
RootOf(entries) == [s \in Slots |-> IF entries[s] = Absent THEN 0 ELSE entries[s]]

SetStorage(w, a, s, v) ==
    LET put == [w EXCEPT !.slot[a][s] = IF v = 0 THEN Absent ELSE v]
    IN  UpdateAccount(put, a, [Load(put, a) EXCEPT !.root = RootOf(put.slot[a])])

DeleteAccount(w, a) ==
    [w EXCEPT !.account[a] = Absent, !.slot[a] = [s \in Slots |-> Absent]]

\* What a vesting schedule leaves of a balance.
Spendable(balance, a) == IF balance > locked[a] THEN balance - locked[a] ELSE 0

-----------------------------------------------------------------------------
(* Contracts *)

IsDeploy(tx) == tx.to = Nobody
RunsCode(tx) == IsDeploy(tx) \/ tx.data
Callee(tx) == IF IsDeploy(tx) THEN tx.created ELSE tx.to

\* revm with a gas price of zero: the nonce of the caller goes up whether or
\* not the code reverts, the value moves only when it does not.
CallerAfter(w, tx) ==
    [Load(w, tx.from) EXCEPT !.nonce = @ + 1,
                             !.balance = @ - (IF tx.evm.ok THEN tx.value ELSE 0)]

CalleeAfter(w, tx) ==
    [Load(w, Callee(tx)) EXCEPT !.balance = @ + tx.value,
                                !.nonce = IF IsDeploy(tx) THEN 1 ELSE @,
                                !.code = @ \/ IsDeploy(tx)]

\* StateDbBackend::commit writes through to the state database.
CommitChanges(w, tx) ==
    LET called == UpdateAccount(w, tx.from, CallerAfter(w, tx))
        callee == Callee(tx)
    IN  IF ~tx.evm.ok THEN called
        ELSE IF tx.evm.destroys THEN DeleteAccount(called, callee)
        ELSE FoldSet(LAMBDA s, acc : SetStorage(acc, callee, s, tx.evm.writes[s]),
                     UpdateAccount(called, callee, CalleeAfter(w, tx)),
                     DOMAIN tx.evm.writes)

\* OccStateDbBackend::commit puts rows in the write set.  The storage root is
\* computed from the entries storage holds, not from the ones the earlier
\* transactions of the block wrote, and a slot set to zero keeps a row.
\* deploy_contract_speculative puts the row of a contract that destroyed
\* itself back as it was before.
CommitChangesOcc(w, tx) ==
    LET called == UpdateAccount(w, tx.from, CallerAfter(w, tx))
        callee == Callee(tx)
        over(f) == [s \in Slots |-> IF s \in DOMAIN tx.evm.writes
                                    THEN tx.evm.writes[s] ELSE f[s]]
        row == CalleeAfter(w, tx)
    IN  IF tx.evm.destroys THEN called ELSE
        [UpdateAccount(called, callee,
                       IF DOMAIN tx.evm.writes = {} THEN row
                       ELSE [row EXCEPT !.root = RootOf(over(start.slot[callee]))])
            EXCEPT !.slot[callee] = over(@)]

-----------------------------------------------------------------------------
(* The three executions: [world, status, used] *)

Outcome(w, status, used) == [world |-> w, status |-> status, used |-> used]

\* An error of execute_pipeline ends the building of the block.
Sequential(w, tx) ==
    LET sender == w.account[tx.from]
        refused == Outcome(w, "error", 0)
        upfront == sender.balance - tx.limit
        \* sync_sender_to_canonical charges what the code used, then
        \* refund_unused_gas credits what it did not use of the upfront fee
        synced == LET ran == CommitChanges(w, tx)
                  IN  UpdateAccount(ran, tx.from,
                          [ran.account[tx.from] EXCEPT
                              !.balance = @ - tx.evm.used + (tx.limit - tx.evm.used)])
        debited == UpdateAccount(w, tx.from, [sender EXCEPT !.balance = upfront - tx.value,
                                                            !.nonce = @ + 1])
        credited == UpdateAccount(debited, tx.to,
                        [Load(w, tx.to) EXCEPT !.balance = @ + tx.value])
        refunded == UpdateAccount(credited, tx.from,
                        [credited.account[tx.from] EXCEPT !.balance = @ + (tx.limit - Intrinsic)])
    IN  IF sender = Absent THEN refused
        ELSE IF \/ sender.nonce # tx.nonce
                \/ upfront < 0
                \/ Spendable(upfront, tx.from) < tx.value
                \/ RunsCode(tx) /\ ~IsDeploy(tx) /\ ~Load(w, tx.to).code
        THEN refused
        ELSE IF RunsCode(tx)
        THEN Outcome(synced, IF tx.evm.ok THEN "success" ELSE "reverted", tx.evm.used)
        ELSE Outcome(refunded, "success", Intrinsic)

\* The transfer without the refund of the gas it does not use.
TransferRowsUnrefunded(w, tx) ==
    LET sender == Load(w, tx.from)
        credited == UpdateAccount(w, tx.to, [Load(w, tx.to) EXCEPT !.balance = @ + tx.value])
    IN  UpdateAccount(credited, tx.from,
            [sender EXCEPT !.nonce = @ + 1, !.balance = @ - tx.value - tx.limit])

\* The rows a speculative transfer writes: the sender's last.
TransferRows(w, tx) ==
    LET sender == Load(w, tx.from)
        credited == UpdateAccount(w, tx.to, [Load(w, tx.to) EXCEPT !.balance = @ + tx.value])
    IN  UpdateAccount(credited, tx.from,
            [sender EXCEPT !.nonce = @ + 1,
                           !.balance = @ - tx.value - tx.limit + (tx.limit - Intrinsic)])

\* The rows of a contract transaction: all of the write set, or, when the code
\* reverted, the sender's alone; the sender pays for the gas used.
ContractRows(w, tx) ==
    LET ran == IF tx.evm.ok THEN CommitChangesOcc(w, tx)
               ELSE UpdateAccount(w, tx.from, CallerAfter(w, tx))
    IN  UpdateAccount(ran, tx.from,
            [ran.account[tx.from] EXCEPT !.balance = @ - tx.evm.used])

\* A wrong nonce or too small a balance is a failed outcome with no writes.
\* A missing account is an error of the infrastructure: the block is dropped.
Speculative(w, tx) ==
    LET sender == Load(w, tx.from)
    IN  IF \/ sender.nonce # tx.nonce
           \/ Spendable(sender.balance, tx.from) < tx.value + tx.limit
        THEN Outcome(w, "refused", Intrinsic)
        ELSE IF ~RunsCode(tx) THEN Outcome(TransferRows(w, tx), "success", Intrinsic)
        ELSE IF \/ ~IsDeploy(tx) /\ w.account[tx.to] = Absent
                \/ tx.evm.ok /\ tx.evm.destroys /\ w.account[tx.created] = Absent
        THEN Outcome(w, "error", 0)
        ELSE Outcome(ContractRows(w, tx),
                     IF tx.evm.ok THEN "success" ELSE "reverted", tx.evm.used)

\* plan_counterparty: a transfer to oneself goes on from the debited row.
PlanCounterparty(w, a, from, sender) == IF a = from THEN sender ELSE Load(w, a)

\* state_transition keeps all of the upfront fee and runs no code: a call
\* writes one slot, named by its data, and a deployment stores its data.
StateTransition(w, tx) ==
    LET sender == Load(w, tx.from)
        debited == [sender EXCEPT !.balance = @ - tx.limit - tx.value, !.nonce = @ + 1]
        target == PlanCounterparty(w, Callee(tx), tx.from, debited)
        credited == [target EXCEPT !.balance = @ + tx.value, !.code = @ \/ IsDeploy(tx)]
        moved == UpdateAccount(UpdateAccount(w, tx.from, debited), Callee(tx), credited)
    IN  IF \/ sender.nonce # tx.nonce
           \/ sender.balance < tx.value + tx.limit
           \/ RunsCode(tx) /\ ~IsDeploy(tx) /\ ~Load(w, tx.to).code
        THEN Outcome(w, "error", 0)
        ELSE Outcome(IF RunsCode(tx) /\ ~IsDeploy(tx)
                     THEN SetStorage(moved, tx.to, tx.digest, 1) ELSE moved,
                     "success", tx.limit)

-----------------------------------------------------------------------------
(* One block through the three of them *)

Begun == [world |-> start, results |-> <<>>]

\* validate_transaction_batch has passed: the senders exist and their nonces
\* are consecutive, which Batches respects.
PathsInit ==
    /\ start \in Worlds /\ locked \in Locks /\ txs \in Batches
    /\ stage = "propose"
    /\ proposer = Begun /\ validator = Begun /\ stateless = Begun

After(run, out) ==
    [world |-> out.world,
     results |-> Append(run.results, [status |-> out.status, used |-> out.used])]

\* An error ends the block; after the last transaction the next one starts.
Advance(out, i, next) ==
    IF out.status = "error" THEN "done" ELSE IF i = Len(txs) THEN next ELSE stage

ProposeTx ==
    /\ stage = "propose"
    /\ LET i == Len(proposer.results) + 1
           out == Sequential(proposer.world, txs[i])
       IN  proposer' = After(proposer, out) /\ stage' = Advance(out, i, "validate")
    /\ UNCHANGED <<start, locked, txs, validator, stateless>>

ValidateTx ==
    /\ stage = "validate"
    /\ LET i == Len(validator.results) + 1
           out == Speculative(validator.world, txs[i])
       IN  validator' = After(validator, out) /\ stage' = Advance(out, i, "replay")
    /\ UNCHANGED <<start, locked, txs, proposer, stateless>>

ReplayTx ==
    /\ stage = "replay"
    /\ LET i == Len(stateless.results) + 1
           out == StateTransition(stateless.world, txs[i])
       IN  stateless' = After(stateless, out) /\ stage' = Advance(out, i, "judge")
    /\ UNCHANGED <<start, locked, txs, proposer, validator>>

\* verify_block_stateless compares the root it computed with the header's, the
\* one the validator's rows have.
JudgeRoot ==
    /\ stage = "judge"
    /\ stage' = IF stateless.world = validator.world THEN "accepted" ELSE "refused"
    /\ UNCHANGED <<start, locked, txs, proposer, validator, stateless>>

PathsNext == ProposeTx \/ ValidateTx \/ ReplayTx \/ JudgeRoot

-----------------------------------------------------------------------------
(* Properties *)

Finished(run) == Len(run.results) = Len(txs) /\ \A r \in DOMAIN run.results :
                                                    run.results[r].status # "error"

TransfersOnly == \A i \in DOMAIN txs :
    /\ ~RunsCode(txs[i])
    /\ txs[i].from # txs[i].to
    /\ txs[i].value = 0 => locked[txs[i].from] = 0

\* A block of transfers the proposer could build is executed by a validator
\* to the same rows, with the same gas and status for every transaction:
\* execute_pipeline and execute_transaction_speculative agree.  Contract
\* calls (the sender is refunded gas it was not charged), transfers to
\* oneself and transfers of nothing out of a vesting account are the cases
\* in which they do not.
TransfersReproduced ==
    (TransfersOnly /\ Finished(proposer) /\ Len(validator.results) = Len(txs))
        => validator = proposer

Balance(w, a) == Load(w, a).balance
Total(w) == MapThenSumSet(LAMBDA a : Balance(w, a), Addresses)

\* What a transaction takes out of the accounts: the gas it is charged, and
\* the value of a transfer to oneself, whose credit is overwritten, or sent
\* to a contract that destroys itself.
Burnt(i) ==
    LET r == validator.results[i]
    IN  (IF r.status \in {"success", "reverted"} THEN r.used ELSE 0)
        + (IF r.status = "success" /\ (txs[i].from = txs[i].to \/ txs[i].evm.destroys)
           THEN txs[i].value ELSE 0)

\* Executing a block moves value and burns gas, and creates nothing: in a
\* validator's state the balances add up to what they were before the block
\* less the gas charged.
ValueConserved ==
    Total(start) = Total(validator.world)
                     + MapThenSumSet(LAMBDA i : Burnt(i), DOMAIN validator.results)

WrittenBefore(n, a) ==
    {i \in 1..n : RunsCode(txs[i]) /\ Callee(txs[i]) = a /\ txs[i].evm.ok
                                   /\ DOMAIN txs[i].evm.writes # {}}

RootsExact(w, A) == \A a \in A :
    w.account[a] # Absent => w.account[a].root = RootOf(w.slot[a])

\* The storage root in an account row commits to the account's slots: always
\* in the state a proposer builds, and in a validator's for the contracts that
\* no more than one transaction of the block has written, because
\* OccStateDbBackend::commit hashes the slots storage holds.
RootsCommitToSlots ==
    /\ RootsExact(proposer.world, Addresses)
    /\ RootsExact(validator.world,
                  {a \in Addresses :
                      Cardinality(WrittenBefore(Len(validator.results), a)) <= 1})

\* The proposer's and the validators' ways through a block account alike: equal
\* transfers, no value created, roots that commit to their slots.
PathsAccountAlike == TransfersReproduced /\ ValueConserved /\ RootsCommitToSlots
=============================================================================
