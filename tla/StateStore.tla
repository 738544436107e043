----------------------------- MODULE StateStore -----------------------------
(***************************************************************************)
(* The state of one node, in memory and on disk: the StateDb               *)
(* (crates/state/src/state_db.rs), the executor that writes it             *)
(* (crates/execution/src/executor.rs) and the node that executes, stores,  *)
(* snapshots, stops, crashes and starts again (crates/node/src).           *)
(*                                                                         *)
(* The event loop runs one handler at a time, but the process may die      *)
(* between any two writes to storage, and the pruning service runs beside  *)
(* it, so an action is one storage write (or an atomic batch) with the     *)
(* memory updates that go with it.                                         *)
(*                                                                         *)
(* A received block runs in memory (ParallelExecution shows how), and      *)
(* ParallelExecutor::finalize then writes its rows to live storage, before *)
(* CommitManager::commit_pipeline stages them again and before anything is *)
(* compared with the header.                                               *)
(*                                                                         *)
(* A row of the state is the set of effects it reflects, so a half-applied *)
(* transaction shows.  A state root commits to the rows it was computed    *)
(* from, so the root is the rows.  Contract rows behave like account rows. *)
(* The execution records of a block, which no start reads, are left out.   *)
(***************************************************************************)
EXTENDS Integers, Sequences, FiniteSets

CONSTANTS Accounts,     \* accounts that exist from genesis
          Txs,          \* transactions
          SenderOf,     \* tx.from
          RecipientOf,  \* tx.to
          Earlier,      \* transactions of the sender with a lower nonce
          Exhausts,     \* transactions after which the sender cannot pay
          Blocks,       \* blocks above Genesis
          Genesis,
          HeightOf,     \* header.height
          ParentOf,     \* header.parent_hash
          BlockTxs,     \* body.transactions
          HeaderRoot,   \* header.state_root
          HeaderReceipts, \* the roots in the receipts of header.receipts_root
          Proven,       \* blocks whose proof verifies against the parent's root
          Own,          \* batches this node may take from its pool as leader
          Unset,        \* an absent row, state or block
          Retain,       \* SNAPSHOT_RETAIN_COUNT
          MaxOutages    \* bound on crashes and stops

AllBlocks == Blocks \cup {Genesis}

Heights == {HeightOf[b] : b \in AllBlocks}

Effects == Txs \X {"nonce", "debit", "refund", "credit"}

Rows == SUBSET Effects

States == [Accounts -> Rows]

Writes == [Accounts -> {Unset} \cup Rows]

ASSUME AccountAssumption ==
    /\ SenderOf \in [Txs -> Accounts]
    /\ RecipientOf \in [Txs -> Accounts]
    /\ \A t \in Txs : SenderOf[t] # RecipientOf[t]
    /\ Earlier \in [Txs -> SUBSET Txs]
    /\ Exhausts \in [Txs -> SUBSET Txs]

ASSUME StateBlockAssumption ==
    /\ Genesis \notin Blocks
    /\ Unset \notin AllBlocks
    /\ \A row \in Rows : row # Unset
    /\ Unset \notin States
    /\ HeightOf \in [AllBlocks -> Nat]
    /\ ParentOf \in [Blocks -> AllBlocks]
    /\ \A b \in Blocks : HeightOf[b] = HeightOf[ParentOf[b]] + 1
    /\ HeightOf[Genesis] = 0
    /\ BlockTxs \in [Blocks -> Seq(Txs)]
    /\ HeaderRoot \in [AllBlocks -> States]
    /\ \A b \in Blocks : DOMAIN HeaderReceipts[b] = DOMAIN BlockTxs[b]
    /\ Proven \subseteq Blocks
    /\ Own \subseteq Blocks
    /\ Retain \in Nat \ {0}
    /\ MaxOutages \in Nat

VARIABLES
    \* storage
    rows,       \* account rows
    meta,       \* metadata:state_root
    ledger,     \* stored header and body of each height
    head,       \* the block at LATEST_BLOCK_HEIGHT
    snaps,      \* full state snapshot of each height
    \* the node's StateDb
    tree,       \* tree
    committed,  \* committed_tree
    undo,       \* undo_log; its domain is dirty_keys
    \* the pipeline and its own StateDb
    memory,     \* latest committed versions of MVMemory
    outcomes,   \* TxExecutionOutcome of each transaction
    unflushed,  \* writes that finalize has still to apply
    logged,     \* undo_log
    staged,     \* tree
    deferred,   \* deferred_writes
    exact,      \* the receipts so far are the header's
    \* control
    pc,         \* what the event loop is in the middle of
    job,        \* the block being executed, built or stored
    purpose,    \* why it is executed: "vote" or "sync"
    at,         \* index of its next transaction
    admitted,   \* blocks consensus has admitted since the start
    expected,   \* root a start compares with
    todo,       \* genesis allocations still to apply
    doomed,     \* snapshots the pruning service is about to delete
    leaked,     \* a block was given up with its rows in place
    outages     \* crashes and stops so far

disk == <<rows, meta, ledger, head, snaps>>
stateDb == <<tree, committed, undo>>
pipeline == <<memory, outcomes, unflushed, logged, staged, deferred, exact>>
work == <<job, purpose, at>>
rest == <<leaked, outages>>
vars == <<disk, stateDb, pipeline, pc, work, admitted, expected, todo, doomed, rest>>

NoRows == [a \in Accounts |-> Unset]

(* VerkleTree::new.                                                        *)
EmptyState == [a \in Accounts |-> {}]

TypeOK ==
    /\ rows \in States
    /\ meta \in States
    /\ ledger \in [Heights -> AllBlocks \cup {Unset}]
    /\ head \in AllBlocks
    /\ snaps \in [Heights -> {Unset} \cup States]
    /\ tree \in States
    /\ committed \in States
    /\ undo \in Writes
    /\ memory \in Writes
    /\ outcomes \in Seq([ok : BOOLEAN, writes : Writes])
    /\ unflushed \subseteq (Nat \X Accounts)
    /\ logged \in Writes
    /\ staged \in States
    /\ deferred \in Writes
    /\ exact \in BOOLEAN
    /\ pc \in {"down", "rebuild", "alloc", "idle", "run", "flush", "stage", "undone", "landed",
               "put", "credit", "refund", "settle", "final", "snap"}
    /\ job \in AllBlocks
    /\ purpose \in {"vote", "sync"}
    /\ at \in Nat
    /\ admitted \subseteq Blocks
    /\ expected \in {Unset} \cup States
    /\ todo \subseteq Accounts
    /\ doomed \subseteq Heights
    /\ leaked \in BOOLEAN
    /\ outages \in 0 .. MaxOutages

(* Startup::bootstrap_node on a fresh database: the allocations are        *)
(* committed and the genesis block stored.                                 *)
Init ==
    /\ rows = HeaderRoot[Genesis]
    /\ meta = HeaderRoot[Genesis]
    /\ ledger = [h \in Heights |-> IF h = 0 THEN Genesis ELSE Unset]
    /\ head = Genesis
    /\ snaps = [h \in Heights |-> Unset]
    /\ tree = HeaderRoot[Genesis]
    /\ committed = HeaderRoot[Genesis]
    /\ undo = NoRows
    /\ memory = NoRows
    /\ outcomes = << >>
    /\ unflushed = {}
    /\ logged = NoRows
    /\ staged = EmptyState
    /\ deferred = NoRows
    /\ exact = TRUE
    /\ pc = "idle"
    /\ job = Genesis
    /\ purpose = "vote"
    /\ at = 1
    /\ admitted = {}
    /\ expected = Unset
    /\ todo = {}
    /\ doomed = {}
    /\ leaked = FALSE
    /\ outages = 0

(***************************************************************************)
(* StateDb                                                                 *)
(***************************************************************************)

Overlaid(base, over) == [a \in Accounts |-> IF over[a] = Unset THEN base[a] ELSE over[a]]

(* Mutant: every write logs the row it replaces, not only the first one.   *)
UpdateLogsAgain(a, row) ==
    /\ undo' = [undo EXCEPT ![a] = rows[a]]
    /\ rows' = [rows EXCEPT ![a] = row]
    /\ tree' = [tree EXCEPT ![a] = row]
    /\ UNCHANGED <<meta, committed>>

(* StateDb::update_account, with mark_dirty.                               *)
UpdateAccount(a, row) ==
    /\ undo' = IF undo[a] = Unset THEN [undo EXCEPT ![a] = rows[a]] ELSE undo
    /\ rows' = [rows EXCEPT ![a] = row]
    /\ tree' = [tree EXCEPT ![a] = row]
    /\ UNCHANGED <<meta, committed>>

(* StateDb::commit.                                                        *)
Commit ==
    /\ meta' = tree
    /\ committed' = tree
    /\ undo' = NoRows
    /\ UNCHANGED <<rows, tree>>

(* StateDb::rollback.  Its two writes are one step: when there are rows to *)
(* undo, the metadata root already is the committed one, except on top of  *)
(* Genesis, where no start compares it.                                    *)
Rollback ==
    /\ rows' = Overlaid(rows, undo)
    /\ tree' = committed
    /\ meta' = committed
    /\ undo' = NoRows
    /\ UNCHANGED committed

(* StateDb::rebuild_tree_from_storage, of storage that holds s.            *)
RebuildTree(s) ==
    /\ tree' = s
    /\ committed' = s
    /\ undo' = NoRows
    /\ meta' = s

(***************************************************************************)
(* Transactions                                                            *)
(***************************************************************************)

Nonces(row) == {t \in Txs : <<t, "nonce">> \in row}

(* Executor::validate_transaction_batch.                                   *)
BatchValid(state, txs) ==
    \A i \in DOMAIN txs :
        LET before == {j \in 1 .. (i - 1) : SenderOf[txs[j]] = SenderOf[txs[i]]}
        IN  Nonces(state[SenderOf[txs[i]]]) \cup {txs[j] : j \in before} = Earlier[txs[i]]

(* The nonce and balance checks that run when a transaction executes.      *)
Executable(state, t) ==
    /\ Nonces(state[SenderOf[t]]) = Earlier[t]
    /\ \A u \in Exhausts[t] : <<u, "debit">> \notin state[SenderOf[t]]

(* The sender's row after the upfront fee, the value and the nonce.        *)
Debited(row, t) == row \cup {<<t, "nonce">>, <<t, "debit">>}
Refunded(row, t) == row \cup {<<t, "refund">>}
Credited(row, t) == row \cup {<<t, "credit">>}

(* The rows a transaction of the pipeline writes; a failed one writes none.*)
WriteSet(state, t) ==
    [a \in Accounts |->
        CASE ~Executable(state, t) -> Unset
          [] Executable(state, t) /\ a = SenderOf[t] -> Refunded(Debited(state[a], t), t)
          [] Executable(state, t) /\ a = RecipientOf[t] -> Credited(state[a], t)
          [] OTHER -> Unset]

(***************************************************************************)
(* Executing a block received by gossip or by synchronisation:             *)
(* Executor::execute_block_pipeline and its two callers in the node.       *)
(***************************************************************************)

(* verify_proof binds the block to the root the node is at.                *)
ProofVerifies(b) == b \in Proven /\ tree = HeaderRoot[ParentOf[b]]

(* The pipeline and its StateDb are dropped.                               *)
DropPipeline ==
    /\ memory' = NoRows
    /\ outcomes' = << >>
    /\ unflushed' = {}
    /\ logged' = NoRows
    /\ staged' = EmptyState
    /\ deferred' = NoRows
    /\ exact' = TRUE

(* Up to initialize_backend_rebuild_only, which writes the metadata root.  *)
BeginBlock(b, why) ==
    /\ pc = "idle"
    /\ ParentOf[b] = head
    /\ BatchValid(rows, BlockTxs[b])
    /\ ProofVerifies(b)
    /\ pc' = "run"
    /\ job' = b
    /\ purpose' = why
    /\ at' = 1
    /\ memory' = NoRows
    /\ outcomes' = << >>
    /\ unflushed' = {}
    /\ logged' = NoRows
    /\ staged' = rows
    /\ deferred' = NoRows
    /\ exact' = TRUE
    /\ meta' = rows
    /\ UNCHANGED <<rows, ledger, head, snaps, stateDb, admitted, expected, todo, doomed, rest>>

(* The error path of handle_network_block_proposal for a block that passed *)
(* the checks against the stored parent while the node's own state is not  *)
(* the parent's.  A block from synchronisation is dropped without it.      *)
RefuseProposal(b) ==
    /\ pc = "idle"
    /\ ParentOf[b] = head
    /\ b \in Proven
    /\ BatchValid(rows, BlockTxs[b])
    /\ ~ProofVerifies(b)
    /\ Rollback
    /\ UNCHANGED <<ledger, head, snaps, pipeline, pc, work, admitted, expected, todo, doomed, rest>>

(* The transaction the running block or batch has come to.                 *)
CurrentTx == BlockTxs[job][at]

(* ParallelExecutor::execute_block, in memory, for blocks on which it      *)
(* agrees with a sequential run (SequentialUnlessRevived of                *)
(* ParallelExecution).                                                     *)
RunTx ==
    /\ pc = "run"
    /\ at \in DOMAIN BlockTxs[job]
    /\ LET seen   == Overlaid(rows, memory)
           writes == WriteSet(seen, CurrentTx)
       IN  /\ outcomes' = Append(outcomes, [ok |-> Executable(seen, CurrentTx), writes |-> writes])
           /\ memory' = Overlaid(memory, writes)
    /\ at' = at + 1
    /\ UNCHANGED <<disk, stateDb, unflushed, logged, staged, deferred, exact, pc, job, purpose,
                   admitted, expected, todo, doomed, rest>>

(* All transactions are settled: finalize takes the outcomes.              *)
BeginFinalize ==
    /\ pc = "run"
    /\ at \notin DOMAIN BlockTxs[job]
    /\ unflushed' = {w \in (DOMAIN outcomes) \X Accounts : outcomes[w[1]].writes[w[2]] # Unset}
    /\ pc' = "flush"
    /\ UNCHANGED <<disk, stateDb, memory, outcomes, logged, staged, deferred, exact, work,
                   admitted, expected, todo, doomed, rest>>

(* Mutant: a row written by two transactions is logged twice.              *)
FlushRowLogsAgain(i, a) ==
    /\ pc = "flush"
    /\ <<i, a>> \in unflushed
    /\ \A w \in unflushed : w[1] >= i
    /\ logged' = [logged EXCEPT ![a] = rows[a]]
    /\ rows' = [rows EXCEPT ![a] = outcomes[i].writes[a]]
    /\ staged' = [staged EXCEPT ![a] = outcomes[i].writes[a]]
    /\ unflushed' = unflushed \ {<<i, a>>}
    /\ UNCHANGED <<meta, ledger, head, snaps, stateDb, memory, outcomes, deferred, exact, pc, work,
                   admitted, expected, todo, doomed, rest>>

(* One write of ParallelExecutor::finalize, WriteBatch::flush and          *)
(* apply_speculative_write: outcome by outcome, the rows of one in any     *)
(* order, each its own database transaction.                               *)
FlushRow(i, a) ==
    /\ pc = "flush"
    /\ <<i, a>> \in unflushed
    /\ \A w \in unflushed : w[1] >= i
    /\ logged' = IF logged[a] = Unset THEN [logged EXCEPT ![a] = rows[a]] ELSE logged
    /\ rows' = [rows EXCEPT ![a] = outcomes[i].writes[a]]
    /\ staged' = [staged EXCEPT ![a] = outcomes[i].writes[a]]
    /\ unflushed' = unflushed \ {<<i, a>>}
    /\ UNCHANGED <<meta, ledger, head, snaps, stateDb, memory, outcomes, deferred, exact, pc, work,
                   admitted, expected, todo, doomed, rest>>

BeginStage ==
    /\ pc = "flush"
    /\ unflushed = {}
    /\ at' = 1
    /\ pc' = "stage"
    /\ UNCHANGED <<disk, stateDb, pipeline, job, purpose, admitted, expected, todo, doomed, rest>>

(* CommitManager::commit_pipeline, one transaction: the tree of the        *)
(* pipeline and the metadata root move, the rows are buffered, and the     *)
(* root goes into the receipt.                                             *)
StageTx ==
    /\ pc = "stage"
    /\ at \in DOMAIN outcomes
    /\ staged' = Overlaid(staged, outcomes[at].writes)
    /\ deferred' = Overlaid(deferred, outcomes[at].writes)
    /\ meta' = staged'
    /\ exact' = (exact /\ staged' = HeaderReceipts[job][at])
    /\ at' = at + 1
    /\ UNCHANGED <<rows, ledger, head, snaps, stateDb, memory, outcomes, unflushed, logged, pc, job,
                   purpose, admitted, expected, todo, doomed, rest>>

Staged == pc = "stage" /\ at \notin DOMAIN outcomes

Hashable == \A i \in DOMAIN outcomes : outcomes[i].ok

(* rollback_pipeline_state, after an infrastructure error anywhere in the  *)
(* run or a header that does not match: the logged rows go back in one     *)
(* batch.                                                                  *)
RejectBlock ==
    /\ pc \in {"run", "flush", "stage"}
    /\ rows' = Overlaid(rows, logged)
    /\ DropPipeline
    /\ pc' = "undone"
    /\ UNCHANGED <<meta, ledger, head, snaps, stateDb, work, admitted, expected, todo, doomed, rest>>

(* Its write of the metadata root, and the rebuild of the node's tree.     *)
EndReject ==
    /\ pc = "undone"
    /\ RebuildTree(rows)
    /\ pc' = "idle"
    /\ UNCHANGED <<rows, ledger, head, snaps, pipeline, work, admitted, expected, todo, doomed, rest>>

(* compute_receipts_merkle_root refuses a failed receipt that carries a    *)
(* root, as every receipt of commit_pipeline does, and the error returns   *)
(* past rollback_pipeline_state.  The proposal handler rolls back the      *)
(* node's own StateDb, which has logged none of the rows.                  *)
AbandonBlock ==
    /\ Staged
    /\ ~Hashable
    /\ \/ purpose = "vote" /\ Rollback
       \/ purpose = "sync" /\ UNCHANGED <<rows, meta, stateDb>>
    /\ leaked' = TRUE
    /\ DropPipeline
    /\ pc' = "idle"
    /\ UNCHANGED <<ledger, head, snaps, work, admitted, expected, todo, doomed, outages>>

(* Mutant: the rows land without the comparison with the header.           *)
LandUnchecked ==
    /\ Staged
    /\ Hashable
    /\ rows' = Overlaid(rows, deferred)
    /\ RebuildTree(rows')
    /\ DropPipeline
    /\ pc' = "landed"
    /\ UNCHANGED <<ledger, head, snaps, work, admitted, expected, todo, doomed, rest>>

(* The header matches: flush_staged_writes in one batch, the pipeline's    *)
(* commit, the rebuild and the commit of the node's own StateDb.           *)
LandBlock ==
    /\ Staged
    /\ Hashable
    /\ exact
    /\ staged = HeaderRoot[job]
    /\ rows' = Overlaid(rows, deferred)
    /\ RebuildTree(rows')
    /\ DropPipeline
    /\ pc' = "landed"
    /\ UNCHANGED <<ledger, head, snaps, work, admitted, expected, todo, doomed, rest>>

(* process_block_proposal takes the executed block.                        *)
AdmitBlock ==
    /\ pc = "landed"
    /\ purpose = "vote"
    /\ admitted' = admitted \cup {job}
    /\ pc' = "idle"
    /\ UNCHANGED <<disk, stateDb, pipeline, work, expected, todo, doomed, rest>>

(* ... or refuses it, and the node rolls its state back.                   *)
DeclineBlock ==
    /\ pc = "landed"
    /\ purpose = "vote"
    /\ Rollback
    /\ pc' = "idle"
    /\ UNCHANGED <<ledger, head, snaps, pipeline, work, admitted, expected, todo, doomed, rest>>

(* Node::update_local_chain_head: no snapshot, no commit.                  *)
StoreSynced ==
    /\ pc = "landed"
    /\ purpose = "sync"
    /\ ledger' = [ledger EXCEPT ![HeightOf[job]] = job]
    /\ head' = job
    /\ pc' = "idle"
    /\ UNCHANGED <<rows, meta, snaps, stateDb, pipeline, work, admitted, expected, todo,
                   doomed, rest>>

(***************************************************************************)
(* Building a block: Executor::produce_block_from_transactions writes the  *)
(* rows of the live state one by one and commits after each transaction.   *)
(***************************************************************************)

BeginBatch(b) ==
    /\ pc = "idle"
    /\ b \in Own
    /\ ParentOf[b] = head
    /\ BatchValid(rows, BlockTxs[b])
    /\ pc' = "put"
    /\ job' = b
    /\ at' = 1
    /\ UNCHANGED <<disk, stateDb, pipeline, purpose, admitted, expected, todo, doomed, rest>>

(* The batch is refused before any of it runs, and the node rolls back.    *)
RefuseBatch(b) ==
    /\ pc = "idle"
    /\ b \in Own
    /\ ParentOf[b] = head
    /\ ~BatchValid(rows, BlockTxs[b])
    /\ Rollback
    /\ UNCHANGED <<ledger, head, snaps, pipeline, pc, work, admitted, expected, todo, doomed, rest>>

(* One row of Executor::execute_pipeline, and the step that comes after it.*)
PutRow(a, row, then) ==
    /\ UpdateAccount(a, row)
    /\ pc' = then
    /\ UNCHANGED <<ledger, head, snaps, pipeline, work, admitted, expected, todo, doomed, rest>>

PutSender ==
    /\ pc = "put"
    /\ at \in DOMAIN BlockTxs[job]
    /\ Executable(rows, CurrentTx)
    /\ PutRow(SenderOf[CurrentTx], Debited(rows[SenderOf[CurrentTx]], CurrentTx), "credit")

PutRecipient ==
    /\ pc = "credit"
    /\ PutRow(RecipientOf[CurrentTx], Credited(rows[RecipientOf[CurrentTx]], CurrentTx), "refund")

PutRefund ==
    /\ pc = "refund"
    /\ PutRow(SenderOf[CurrentTx], Refunded(rows[SenderOf[CurrentTx]], CurrentTx), "settle")

(* post_execution_updates and commit_state, after every transaction.  The  *)
(* rollback_on_conflict that precedes the next one finds nothing to undo.  *)
CommitTx ==
    /\ pc = "settle"
    /\ Commit
    /\ at' = at + 1
    /\ pc' = "put"
    /\ UNCHANGED <<ledger, head, snaps, pipeline, job, purpose, admitted, expected, todo,
                   doomed, rest>>

(* A transaction of the batch fails its checks, or an error cuts it after  *)
(* its first row: the node rolls back what is not committed and proposes   *)
(* nothing.                                                                *)
FailBatch ==
    /\ \/ pc = "put" /\ at \in DOMAIN BlockTxs[job] /\ ~Executable(rows, CurrentTx)
       \/ pc \in {"credit", "refund"}
    /\ Rollback
    /\ pc' = "idle"
    /\ UNCHANGED <<ledger, head, snaps, pipeline, work, admitted, expected, todo, doomed, rest>>

(* The block carries the root of the tree.  Another root makes it another  *)
(* block than job, which no validator that holds the parent's state takes. *)
ProposeBatch ==
    /\ pc = "put"
    /\ at \notin DOMAIN BlockTxs[job]
    /\ meta' = tree
    /\ admitted' = IF tree = HeaderRoot[job] THEN admitted \cup {job} ELSE admitted
    /\ pc' = "idle"
    /\ UNCHANGED <<rows, ledger, head, snaps, stateDb, pipeline, work, expected, todo, doomed,
                   rest>>

(* Signing or admission fails after the batch ran.                         *)
AbandonBatch ==
    /\ pc = "put"
    /\ at \notin DOMAIN BlockTxs[job]
    /\ Rollback
    /\ pc' = "idle"
    /\ UNCHANGED <<ledger, head, snaps, pipeline, work, admitted, expected, todo, doomed, rest>>

(***************************************************************************)
(* Finalisation: Consensus::finalize_block, then                           *)
(* Node::handle_finalized_block.                                           *)
(***************************************************************************)

(* The engine stores the block before the node looks at its own state.     *)
(* Consensus finalises one chain (Agreement of Consensus), so a block that *)
(* is not the child of the head is one that was synchronised before.       *)
FinalizeBlock(b) ==
    /\ pc = "idle"
    /\ b \in admitted
    /\ ParentOf[b] = head \/ ledger[HeightOf[b]] = b
    /\ ledger' = [ledger EXCEPT ![HeightOf[b]] = b]
    /\ head' = IF HeightOf[b] > HeightOf[head] THEN b ELSE head
    /\ job' = b
    /\ pc' = "final"
    /\ admitted' = {c \in admitted : HeightOf[c] > HeightOf[b]}
    /\ UNCHANGED <<rows, meta, snaps, stateDb, pipeline, purpose, at, expected, todo, doomed,
                   rest>>

(* The commit and the comparison with the header; the writes of the block  *)
(* and of the metadata root that follow repeat what is stored.             *)
CommitFinalized ==
    /\ pc = "final"
    /\ Commit
    /\ pc' = IF tree = HeaderRoot[job] THEN "snap" ELSE "idle"
    /\ UNCHANGED <<ledger, head, snaps, pipeline, work, admitted, expected, todo, doomed, rest>>

(* StateDb::snapshot_state.  The log is empty after the commit, so it      *)
(* always writes a full snapshot.                                          *)
WriteSnapshot ==
    /\ pc = "snap"
    /\ snaps' = [snaps EXCEPT ![HeightOf[job]] = rows]
    /\ committed' = tree
    /\ pc' = "idle"
    /\ UNCHANGED <<rows, meta, ledger, head, tree, undo, pipeline, work, admitted, expected, todo,
                   doomed, rest>>

(***************************************************************************)
(* The pruning service: StateDb::prune_state_versions lists, then deletes. *)
(***************************************************************************)

Kept == {h \in Heights : snaps[h] # Unset}

(* Mutant: the newest snapshots go, the oldest stay.                       *)
RemovableNewest == {h \in Kept : Cardinality({g \in Kept : g < h}) >= Retain}

Removable == {h \in Kept : Cardinality({g \in Kept : g > h}) >= Retain}

ListSnapshots ==
    /\ pc \notin {"down", "rebuild", "alloc"}
    /\ doomed = {}
    /\ doomed' = Removable
    /\ doomed' # {}
    /\ UNCHANGED <<disk, stateDb, pipeline, pc, work, admitted, expected, todo, rest>>

DeleteSnapshots ==
    /\ doomed # {}
    /\ snaps' = [h \in Heights |-> IF h \in doomed THEN Unset ELSE snaps[h]]
    /\ doomed' = {}
    /\ UNCHANGED <<rows, meta, ledger, head, stateDb, pipeline, pc, work, admitted, expected, todo,
                   rest>>

(***************************************************************************)
(* Stopping, crashing and starting                                         *)
(***************************************************************************)

(* What the process held in memory is gone.                                *)
Forget ==
    /\ pc' = "down"
    /\ tree' = EmptyState
    /\ committed' = EmptyState
    /\ undo' = NoRows
    /\ DropPipeline
    /\ job' = Genesis
    /\ purpose' = "vote"
    /\ at' = 1
    /\ admitted' = {}
    /\ expected' = Unset
    /\ todo' = {}
    /\ doomed' = {}

(* Node::stop commits the state and stores its root.                       *)
Stop ==
    /\ pc = "idle"
    /\ outages < MaxOutages
    /\ outages' = outages + 1
    /\ meta' = tree
    /\ Forget
    /\ UNCHANGED <<rows, ledger, head, snaps, leaked>>

Crash ==
    /\ pc # "down"
    /\ outages < MaxOutages
    /\ outages' = outages + 1
    /\ Forget
    /\ UNCHANGED <<disk, leaked>>

(* Mutant: a start keeps the rows it finds.                                *)
BeginStartInPlace ==
    /\ pc = "down"
    /\ expected' = IF HeightOf[head] > 0 THEN meta ELSE Unset
    /\ pc' = "rebuild"
    /\ UNCHANGED <<disk, stateDb, pipeline, work, admitted, todo, doomed, rest>>

(* Startup::restore_blockchain_state reads the expected root, then         *)
(* initialize_backend lays a snapshot of the latest height over the rows.  *)
BeginStart ==
    /\ pc = "down"
    /\ expected' = IF HeightOf[head] > 0 THEN meta ELSE Unset
    /\ rows' = IF HeightOf[head] > 0 /\ snaps[HeightOf[head]] # Unset
               THEN snaps[HeightOf[head]]
               ELSE rows
    /\ pc' = "rebuild"
    /\ UNCHANGED <<meta, ledger, head, snaps, stateDb, pipeline, work, admitted, todo, doomed,
                   rest>>

(* The rebuild writes the metadata root before the root is compared with   *)
(* the expected one; on a mismatch the process exits.                      *)
RefuseStart ==
    /\ pc = "rebuild"
    /\ expected \notin {Unset, rows}
    /\ meta' = rows
    /\ Forget
    /\ UNCHANGED <<rows, ledger, head, snaps, rest>>

(* Mutant: a start that expects no root is not accepted.                   *)
AcceptStartExpected ==
    /\ pc = "rebuild"
    /\ expected = rows
    /\ RebuildTree(rows)
    /\ expected' = Unset
    /\ todo' = {}
    /\ pc' = "idle"
    /\ UNCHANGED <<rows, ledger, head, snaps, pipeline, work, admitted, doomed, rest>>

(* The roots agree.  At height zero the genesis allocations are applied    *)
(* once more.                                                              *)
AcceptStart ==
    /\ pc = "rebuild"
    /\ expected \in {Unset, rows}
    /\ RebuildTree(rows)
    /\ expected' = Unset
    /\ todo' = IF HeightOf[head] = 0 THEN Accounts ELSE {}
    /\ pc' = IF HeightOf[head] = 0 THEN "alloc" ELSE "idle"
    /\ UNCHANGED <<rows, ledger, head, snaps, pipeline, work, admitted, doomed, rest>>

(* Startup::apply_genesis_allocations: set_balance keeps the nonce.        *)
Allocate(a) ==
    /\ pc = "alloc"
    /\ a \in todo
    /\ UpdateAccount(a, {e \in rows[a] : e[2] = "nonce"})
    /\ todo' = todo \ {a}
    /\ UNCHANGED <<ledger, head, snaps, pipeline, pc, work, admitted, expected, doomed, rest>>

EndAllocate ==
    /\ pc = "alloc"
    /\ todo = {}
    /\ pc' = "idle"
    /\ UNCHANGED <<disk, stateDb, pipeline, work, admitted, expected, todo, doomed, rest>>

StartSteps == BeginStart \/ RefuseStart \/ AcceptStart \/ (\E a \in Accounts : Allocate(a)) \/ EndAllocate

Next ==
    \/ \E b \in Blocks, why \in {"vote", "sync"} : BeginBlock(b, why)
    \/ \E b \in Blocks : RefuseProposal(b) \/ BeginBatch(b) \/ RefuseBatch(b) \/ FinalizeBlock(b)
    \/ \E i \in DOMAIN outcomes, a \in Accounts : FlushRow(i, a)
    \/ RunTx \/ BeginFinalize \/ BeginStage \/ StageTx
    \/ RejectBlock \/ EndReject \/ AbandonBlock \/ LandBlock \/ AdmitBlock \/ DeclineBlock \/ StoreSynced
    \/ PutSender \/ PutRecipient \/ PutRefund \/ CommitTx \/ FailBatch \/ ProposeBatch \/ AbandonBatch
    \/ CommitFinalized \/ WriteSnapshot
    \/ ListSnapshots \/ DeleteSnapshots
    \/ Stop \/ Crash
    \/ StartSteps

Spec == Init /\ [][Next]_vars

(***************************************************************************)
(* Properties                                                              *)
(***************************************************************************)

Running == pc \notin {"down", "rebuild"}

(* The rows less what a running pipeline has written.                      *)
Beneath == Overlaid(rows, logged)

(* Whenever the node runs, the tree it serves roots and proofs from is the *)
(* tree of the rows on disk less what a running pipeline has written, and  *)
(* undoing the log would take those back to the committed tree: row        *)
(* writes, commit, rollback and rebuild keep two logs, two trees and the   *)
(* rows in step through every crash point, until a block is abandoned with *)
(* its rows in place.                                                      *)
TreeMatchesRows ==
    Running /\ ~leaked =>
        /\ tree = Beneath
        /\ Overlaid(Beneath, undo) = committed

(* Every snapshot that exists holds the state of the block stored at its   *)
(* height, although executions, batches and the pruning service run on.    *)
SnapshotsAreBlocks ==
    ~leaked =>
        \A h \in Heights :
            snaps[h] # Unset => ledger[h] \in AllBlocks /\ snaps[h] = HeaderRoot[ledger[h]]

(* The snapshot of the latest block is never pruned away: the pruning      *)
(* service may list before and delete after a block is stored.             *)
LatestSnapshotStays ==
    [][snaps[HeightOf[head]] # Unset => snaps'[HeightOf[head]] # Unset]_vars

(* No block becomes the head that this node has not executed itself: its   *)
(* post-state is in the rows, or the node executed it, found its header    *)
(* right and has moved on since.                                           *)
StoredWasExecuted ==
    [][head' # head => rows = HeaderRoot[head'] \/ head' \in admitted]_vars

(* A rejected block leaves nothing behind: although its rows were on disk  *)
(* before the header was looked at, the rollback of the pipeline's own     *)
(* StateDb ends in the post-state of the parent, after any number of       *)
(* writes to the same row.                                                 *)
RejectRestoresParent ==
    [][pc' = "undone" /\ pc # "undone" /\ ~leaked => rows' = HeaderRoot[ParentOf[job]]]_vars

(* A start that finds a snapshot of the latest block ends with the state   *)
(* of that block, whatever was executed or half-written before the outage. *)
StartRestoresHead ==
    [][pc = "rebuild" /\ pc' = "idle" /\ snaps[HeightOf[head]] # Unset /\ ~leaked =>
          rows' = HeaderRoot[head]]_vars

(* The stored chain: the head is at its height, no snapshot is above it,   *)
(* what the pruning service is about to delete is below it, and a start    *)
(* has laid the head's snapshot over the rows.                             *)
ChainInv ==
    /\ ledger[HeightOf[head]] = head
    /\ \A h \in Heights : h > HeightOf[head] => snaps[h] = Unset
    /\ \A h \in doomed : h < HeightOf[head]
    /\ pc = "rebuild" /\ HeightOf[head] > 0 /\ snaps[HeightOf[head]] # Unset =>
           rows = snaps[HeightOf[head]]

(* The handlers: a block in hand is a child of the head, what finalize has *)
(* still to write are rows of outcomes, a tree of the pipeline is ahead of *)
(* the rows by what is deferred, a landed block is in the rows and one     *)
(* about to be snapshotted is stored.                                      *)
HandlerInv ==
    /\ pc \in {"run", "flush", "stage", "undone", "landed", "put", "credit", "refund", "settle"} =>
           job \in Blocks /\ ParentOf[job] = head
    /\ \A w \in unflushed :
           w[1] \in DOMAIN outcomes /\ outcomes[w[1]].writes[w[2]] # Unset
    /\ pc \in {"run", "flush", "stage"} => staged = Overlaid(rows, deferred)
    /\ pc \in {"run", "flush"} => deferred = NoRows
    /\ pc \notin {"flush", "stage"} => logged = NoRows
    /\ pc = "landed" => rows = HeaderRoot[job]
    /\ pc \in {"final", "snap"} => ledger[HeightOf[job]] = job /\ HeightOf[job] <= HeightOf[head]
    /\ pc = "snap" => undo = NoRows
    /\ pc \in {"credit", "refund", "settle"} => at \in DOMAIN BlockTxs[job]

(* What the rows are, as long as no block was abandoned: a block in the    *)
(* pipeline ran on its parent's state, one about to be snapshotted is in   *)
(* the rows.                                                               *)
RowsInv ==
    ~leaked =>
        /\ pc \in {"run", "flush", "stage"} => Beneath = HeaderRoot[ParentOf[job]]
        /\ pc = "snap" => rows = HeaderRoot[job]

(* The inductive invariant: memory, storage and the handler that a crash   *)
(* may cut agree at every cut.                                             *)
StateInv == TreeMatchesRows /\ SnapshotsAreBlocks /\ ChainInv /\ HandlerInv /\ RowsInv

(* A start after an executed block that is not final is refused once: the  *)
(* metadata root is ahead of the snapshot.  The refused start must leave   *)
(* storage in a condition from which the next one succeeds.                *)
NodeComesBack == pc = "down" ~> pc = "idle"

(* Node::handle_finalized_block: the metadata root is stored "so node      *)
(* restarts can verify that the on-disk state trie matches the last        *)
(* committed block".                                                       *)
RestartVerifiesHead ==
    [][pc = "rebuild" /\ pc' = "idle" => rows' = HeaderRoot[head]]_vars
=============================================================================
