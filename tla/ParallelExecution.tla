------------------------- MODULE ParallelExecution --------------------------
(***************************************************************************)
(* Optimistic parallel execution of one block                              *)
(* (execution/src/parallel/executor.rs, ParallelExecutor::execute_block).  *)
(*                                                                         *)
(* The transactions of the block run speculatively, each on its own thread *)
(* of the pool, in rounds.  After a round the read and write sets are      *)
(* compared; of two transactions in conflict the later one is aborted and  *)
(* runs again in the next round.  A transaction that survives is promoted  *)
(* in the multi-version memory and put in a queue that releases outcomes   *)
(* in block order.  When too many conflict, or after MaxRounds rounds, the *)
(* rest of the block runs serially.                                        *)
(*                                                                         *)
(* A row is abstracted to the set of effects it has received: which        *)
(* transaction debited, credited or charged it.  The nonce of an account   *)
(* is then the number of debits and charges in its row, and an update      *)
(* overwritten by one that did not see it leaves a row without its effect. *)
(***************************************************************************)
EXTENDS Integers, FiniteSets, Sequences, FiniteSetsExt

-----------------------------------------------------------------------------
(***************************************************************************)
(* The multi-version memory of one block execution                         *)
(* (execution/src/parallel/mv_memory.rs, MVMemory).                        *)
(*                                                                         *)
(* A transaction version is a transaction index and an incarnation: how    *)
(* often the transaction was retried.  The memory keeps                    *)
(*   versions : the values written, each with the transaction version that *)
(*              wrote it and whether it is committed or still speculative; *)
(*   reads    : for each transaction version, the keys it read and the     *)
(*              version it observed there.                                 *)
(* The two maps sit behind two read-write locks, so every operation below  *)
(* is one step to the threads that share the memory.  The watermark and    *)
(* garbage collection are left out: no caller uses them.                   *)
(***************************************************************************)
CONSTANTS
    Keys,     \* the rows transactions read and write
    Missing   \* what is observed when no version is visible

EmptyMemory == [versions |-> {}, reads |-> {}]

\* The order of the versions of a key: by transaction, then by incarnation.
Precedes(u, v) ==
    \/ u.tx < v.tx
    \/ u.tx = v.tx /\ u.inc < v.inc

Newest(vs) ==
    IF vs = {} THEN Missing
    ELSE CHOOSE v \in vs : \A u \in vs \ {v} : Precedes(u, v)

Stamp(v) == IF v = Missing THEN Missing ELSE [tx |-> v.tx, inc |-> v.inc]

OfKey(mem, key) == {v \in mem.versions : v.key = key}

\* The committed versions of a key that lie below a transaction.
CommittedBelow(mem, tx, key) ==
    {v \in OfKey(mem, key) : v.committed /\ v.tx < tx}

\* read_at_version: a transaction sees its own write, else the newest
\* committed write of an earlier transaction.
VisibleTo(mem, tv, key) ==
    LET own == {v \in OfKey(mem, key) : Stamp(v) = tv}
    IN  IF own # {} THEN Newest(own)
        ELSE Newest(CommittedBelow(mem, tv.tx, key))

RecordReads(mem, tv, keys) ==
    [mem EXCEPT !.reads = @ \cup
        {[by |-> tv, key |-> k, seen |-> Stamp(VisibleTo(mem, tv, k))] :
            k \in keys}]

\* record_speculative_write, for each key of a write set: a write replaces
\* the one the same incarnation made before.
RecordSpeculativeWrites(mem, tv, writes) ==
    [mem EXCEPT !.versions =
        {v \in @ : ~(v.key \in DOMAIN writes /\ Stamp(v) = tv)} \cup
        {[key |-> k, tx |-> tv.tx, inc |-> tv.inc, value |-> writes[k],
          committed |-> FALSE] : k \in DOMAIN writes}]

\* validate_reads: each key read must still show the version observed.
ValidateReads(mem, tv) ==
    \A r \in mem.reads :
        r.by = tv =>
            r.seen = Stamp(Newest(CommittedBelow(mem, tv.tx, r.key)))

DiscardSpeculative(mem, tv) ==
    [versions |-> {v \in mem.versions : Stamp(v) # tv},
     reads    |-> {r \in mem.reads : r.by # tv}]

PromoteToCommitted(mem, tv) ==
    [mem EXCEPT !.versions =
        {IF Stamp(v) = tv THEN [v EXCEPT !.committed = TRUE] ELSE v : v \in @}]

-----------------------------------------------------------------------------
(* The rounds of one block *)

CONSTANTS
    Blocks,       \* the blocks a run may execute: sequences of transactions
    MaxRounds,    \* config.max_rounds
    AbortShare    \* config.conflict_abort_threshold, a pair <<n, d>> for n/d

VARIABLES
    block,      \* the transactions: [from, to, reverts]
    poor,       \* the accounts that hold nothing before the block
    pc,         \* where execute_block is
    round,      \* rounds
    pending,    \* the transactions still to commit
    outputs,    \* executed_outputs: what this round's executions returned
    aborted,    \* conflict_set of this round
    unsettled,  \* the transactions of the round the commit loop is still to see
    written,    \* committed_write_keys of this round
    retries,    \* retry_counts
    memory,     \* mv_memory
    queue,      \* commit_queue: [next, waiting, released]
    committed,  \* the outcomes execute_block will return
    rows,       \* the account rows of the state database
    failed,     \* history: who failed an execution of an earlier round
    revived     \* history: who failed in one round and committed in a later

vars == <<block, poor, pc, round, pending, outputs, aborted, unsettled,
          written, retries, memory, queue, committed, rows, failed, revived>>

history == <<failed, revived>>
roundVars == <<outputs, aborted, unsettled, written>>

Indices == DOMAIN block
Effects == Indices \X {"debit", "credit", "charge"}
BlankRows == [a \in Keys |-> {}]

-----------------------------------------------------------------------------
(* Executing one transaction *)

NonceIn(row) == Cardinality({e \in row : e[2] \in {"debit", "charge"}})

\* Each transfer moves one unit; an account that is not poor can pay for all.
BalanceIn(row, a) ==
    (IF a \in poor THEN 0 ELSE Len(block))
        + Cardinality({e \in row : e[2] = "credit"})
        - Cardinality({e \in row : e[2] = "debit"})

\* The nonces of a sender's transactions are consecutive in a block:
\* validate_transaction_batch refuses any other.
NonceOf(i) == Cardinality({j \in Indices : j < i /\ block[j].from = block[i].from})

FailedOutput == [ok |-> FALSE, reads |-> {}, writes |-> [a \in {} |-> {}]]

\* execute_transaction_speculative: a wrong nonce or too small a balance is
\* an error, and its outcome has empty read and write sets.  A call that
\* reverts has the status of a failure but charges its sender.
Execution(i, view) ==
    LET tx == block[i]
        payer == view[tx.from]
    IN  IF NonceIn(payer) # NonceOf(i) \/ BalanceIn(payer, tx.from) < 1
        THEN FailedOutput
        ELSE IF tx.reverts
        THEN [ok     |-> FALSE,
              reads  |-> {tx.from, tx.to},
              writes |-> [a \in {tx.from} |-> payer \cup {<<i, "charge">>}]]
        ELSE [ok     |-> TRUE,
              reads  |-> {tx.from, tx.to},
              writes |-> [a \in {tx.from, tx.to} |->
                            IF a = tx.from THEN payer \cup {<<i, "debit">>}
                            ELSE view[a] \cup {<<i, "credit">>}]]

\* What the backend of a transaction version reads: the multi-version
\* memory first, the state database for a key no version is visible of.
ViewOf(tv) ==
    [a \in Keys |->
        LET v == VisibleTo(memory, tv, a)
        IN  IF v = Missing THEN rows[a] ELSE v.value]

Recorded(mem, tv, out) ==
    RecordSpeculativeWrites(RecordReads(mem, tv, out.reads), tv, out.writes)

Footprint(out) == out.reads \cup DOMAIN out.writes

-----------------------------------------------------------------------------
(* Rounds *)

TypeOK ==
    /\ pc \in {"round", "execute", "settle", "serial", "finalize", "done"}
    /\ round \in 0..MaxRounds
    /\ pending \subseteq Indices /\ unsettled \subseteq pending
    /\ DOMAIN outputs \subseteq Indices /\ aborted \subseteq Indices
    /\ written \subseteq Keys
    /\ retries \in [Indices -> 0..MaxRounds]
    /\ queue.next \in 1..Len(block) + 1
    /\ DOMAIN queue.waiting \subseteq Indices \ pending
    /\ DOMAIN committed \subseteq Indices
    /\ \A a \in Keys : rows[a] \subseteq Effects
    /\ revived \subseteq failed /\ failed \subseteq Indices

Nothing == [i \in {} |-> FailedOutput]

Init ==
    /\ block \in Blocks
    /\ poor \in SUBSET {block[i].from : i \in Indices}
    /\ pc = "round"
    /\ round = 0
    /\ pending = Indices
    /\ outputs = Nothing
    /\ aborted = {}
    /\ unsettled = {}
    /\ written = {}
    /\ retries = [i \in Indices |-> 0]
    /\ memory = EmptyMemory
    /\ queue = [next |-> 1, waiting |-> Nothing, released |-> Nothing]
    /\ committed = Nothing
    /\ rows = BlankRows
    /\ failed = {}
    /\ revived = {}

\* The head of the while loop: another round, the serial fallback for what
\* is left after the last one, or the end.
BeginRound ==
    /\ pc = "round"
    /\ IF pending # {} /\ round < MaxRounds
       THEN round' = round + 1 /\ pc' = "execute"
       ELSE round' = round /\ pc' = IF pending = {} THEN "finalize" ELSE "serial"
    /\ outputs' = Nothing
    /\ UNCHANGED <<block, poor, pending, aborted, unsettled, written, retries,
                   memory, queue, committed, rows, history>>

\* execute_batch, one thread: run the transaction under its incarnation and
\* mirror its reads and writes into the memory.  Other threads' writes are
\* speculative until the settling of the round, so the reads of one
\* execution may be taken together.
ExecuteTask(i) ==
    LET tv == [tx |-> i, inc |-> retries[i]]
        out == Execution(i, ViewOf(tv))
    IN  /\ pc = "execute"
        /\ i \in pending \ DOMAIN outputs
        /\ outputs' = [j \in DOMAIN outputs \cup {i} |->
                         IF j = i THEN out ELSE outputs[j]]
        /\ memory' = Recorded(memory, tv, out)
        /\ UNCHANGED <<block, poor, pc, round, pending, aborted, unsettled,
                       written, retries, queue, committed, rows, history>>

\* A mutant: two transactions that write the same row do not conflict.
ReadConflict(u, v) ==
    \/ DOMAIN u.writes \cap (v.reads \ DOMAIN v.writes) # {}
    \/ (u.reads \ DOMAIN u.writes) \cap DOMAIN v.writes # {}

\* detect_conflicts_detailed, for one pair: a key one of the two writes and
\* the other reads or writes.
InConflict(u, v) ==
    \/ DOMAIN u.writes \cap Footprint(v) # {}
    \/ u.reads \cap DOMAIN v.writes # {}

\* ConflictResolver::resolve under PriorityByIndex: of each pair in conflict
\* the later transaction is aborted.
ConflictSet ==
    {j \in DOMAIN outputs :
        \E i \in DOMAIN outputs : i < j /\ InConflict(outputs[i], outputs[j])}

\* All of the batch has returned.  Too high a share of conflicts leaves the
\* loop before anything of the round is committed.
Resolve ==
    /\ pc = "execute"
    /\ DOMAIN outputs = pending
    /\ IF Cardinality(ConflictSet) * AbortShare[2] > AbortShare[1] * Cardinality(pending)
       THEN pc' = "serial" /\ UNCHANGED <<aborted, unsettled>>
       ELSE pc' = "settle" /\ aborted' = ConflictSet /\ unsettled' = pending
    /\ written' = {}
    /\ UNCHANGED <<block, poor, round, pending, outputs, retries, memory, queue,
                   committed, rows, history>>

\* A mutant: only the outcome that arrives is released, not those that
\* waited for it.
EnqueueOne(q, i, out) ==
    IF i = q.next
    THEN [q EXCEPT !.next = @ + 1,
                   !.released = [j \in DOMAIN @ \cup {i} |->
                                   IF j = i THEN out ELSE @[j]]]
    ELSE [q EXCEPT !.waiting = [j \in DOMAIN @ \cup {i} |->
                                  IF j = i THEN out ELSE @[j]]]

\* OrderedCommitQueue::enqueue: the contiguous run from next on is released.
Enqueue(q, i, out) ==
    LET waiting == [j \in DOMAIN q.waiting \cup {i} |->
                      IF j = i THEN out ELSE q.waiting[j]]
        next == Min({j \in q.next..Len(block) + 1 : j \notin DOMAIN waiting})
        run == q.next..next - 1
    IN  [next     |-> next,
         waiting  |-> [j \in DOMAIN waiting \ run |-> waiting[j]],
         released |-> [j \in DOMAIN q.released \cup run |->
                         IF j \in run THEN waiting[j] ELSE q.released[j]]]

Survives(i, tv) ==
    /\ outputs[i].ok
    /\ i \notin aborted
    /\ Footprint(outputs[i]) \cap written = {}
    /\ ValidateReads(memory, tv)

\* The commit loop visits the outputs in block order; one visit.
Settle ==
    /\ pc = "settle"
    /\ unsettled # {}
    /\ LET i == Min(unsettled)
           tv == [tx |-> i, inc |-> retries[i]]
       IN  /\ unsettled' = unsettled \ {i}
           /\ failed' = IF outputs[i].ok THEN failed ELSE failed \cup {i}
           /\ \/ /\ Survives(i, tv)
                 /\ memory' = PromoteToCommitted(memory, tv)
                 /\ written' = written \cup DOMAIN outputs[i].writes
                 /\ queue' = Enqueue(queue, i, outputs[i])
                 /\ pending' = pending \ {i}
                 /\ revived' = IF i \in failed THEN revived \cup {i} ELSE revived
                 /\ UNCHANGED retries
              \/ /\ ~Survives(i, tv)
                 /\ memory' = DiscardSpeculative(memory, tv)
                 /\ retries' = [retries EXCEPT ![i] = @ + 1]
                 /\ UNCHANGED <<written, queue, pending, revived>>
    /\ UNCHANGED <<block, poor, pc, round, outputs, aborted, committed, rows>>

Joined(f, g) ==
    [i \in DOMAIN f \cup DOMAIN g |-> IF i \in DOMAIN f THEN f[i] ELSE g[i]]

\* drain_ordered, at the end of a round.
EndRound ==
    /\ pc = "settle"
    /\ unsettled = {}
    /\ committed' = Joined(committed, queue.released)
    /\ queue' = [queue EXCEPT !.released = Nothing]
    /\ pc' = "round"
    /\ UNCHANGED <<block, poor, round, pending, outputs, aborted, unsettled,
                   written, retries, memory, rows, history>>

\* The serial fallback runs what is left in block order, commits whatever
\* comes out, and passes by the commit queue.
SerialTask ==
    /\ pc = "serial"
    /\ pending # {}
    /\ LET i == Min(pending)
           tv == [tx |-> i, inc |-> round + 1]
           out == Execution(i, ViewOf(tv))
       IN  /\ memory' = PromoteToCommitted(Recorded(memory, tv, out), tv)
           /\ committed' = Joined([j \in {i} |-> out], committed)
           /\ pending' = pending \ {i}
    /\ pc' = IF Cardinality(pending) = 1 THEN "finalize" ELSE "serial"
    /\ UNCHANGED <<block, poor, round, retries, queue, rows, roundVars, history>>

\* finalize: the write sets of the outcomes reach the rows in block order.
Finalize ==
    /\ pc = "finalize"
    /\ rows' = [a \in Keys |->
                  LET writers == {i \in DOMAIN committed :
                                    a \in DOMAIN committed[i].writes}
                  IN  IF writers = {} THEN rows[a]
                      ELSE committed[Max(writers)].writes[a]]
    /\ pc' = "done"
    /\ UNCHANGED <<block, poor, round, pending, retries, memory, queue, committed,
                   roundVars, history>>

Done == pc = "done" /\ UNCHANGED vars

Next ==
    \/ BeginRound
    \/ \E i \in Indices : ExecuteTask(i)
    \/ Resolve
    \/ Settle
    \/ EndRound
    \/ SerialTask
    \/ Finalize
    \/ Done

Spec == Init /\ [][Next]_vars

-----------------------------------------------------------------------------
(* What parallel execution must come to *)

\* The reference: the rows and the outputs of running the first i
\* transactions of the block one after another.
InOrder ==
    LET after[i \in 0..Len(block)] ==
          IF i = 0 THEN [rows |-> BlankRows, outputs |-> Nothing]
          ELSE LET out == Execution(i, after[i - 1].rows)
               IN  [rows    |-> [a \in Keys |->
                                   IF a \in DOMAIN out.writes THEN out.writes[a]
                                   ELSE after[i - 1].rows[a]],
                    outputs |-> Joined(after[i - 1].outputs, [j \in {i} |-> out])]
    IN  after[Len(block)]

AllReturned == DOMAIN committed = Indices

\* Parallel execution is sequential execution: when the rounds and the
\* serial fallback have returned every outcome, the outcomes and the rows
\* are those of running the block in order, whatever the threads did.  The
\* exception is a transaction that failed in one round, with an empty
\* footprint, and committed in a later one: a transaction after it may have
\* committed in between without seeing its writes.
SequentialUnlessRevived ==
    pc = "done" /\ AllReturned /\ revived = {} =>
        committed = InOrder.outputs /\ rows = InOrder.rows

\* As long as execute_block does not fall back to serial execution, the
\* reorder buffer returns the outcome of every transaction it was given.
RoundsReturnAll ==
    [][pc = "round" /\ pc' = "finalize" => AllReturned]_vars

\* A round that is not given up commits the first transaction it still has
\* to commit, unless that transaction failed: retries make progress, since
\* nothing before it can conflict with it and what it read is settled.
FirstCommits ==
    [][pc = "settle" /\ unsettled = DOMAIN outputs
         /\ outputs[Min(pending)].ok
           => Min(pending) \notin pending']_vars

\* The rounds of execute_block make progress: each commits its first
\* transaction, and rounds that are never given up return every outcome.
RoundsProgress == RoundsReturnAll /\ FirstCommits
=============================================================================
