-------------------------- MODULE TransactionPool ---------------------------
(* The clear-text transaction pool: crates/mempool/src/{mempool,pool,        *)
(* validation}.rs. Only the pool itself is behind a lock: validation before  *)
(* it, and the duplicate cache and the durable rows after it, are steps of   *)
(* their own, so submissions, block commits and sweeps interleave there.     *)
EXTENDS Integers, FiniteSets, Sequences, SequencesExt

CONSTANTS
    PoolTxs,           \* [id, from, nonce, price, cost]
    Submitters,        \* RPC and gossip tasks
    MaxPool,           \* max_pending_transactions
    MaxPerAccount,     \* max_transactions_per_account
    FutureGap,         \* max_future_nonce_gap
    Funds,             \* balance of each account at first
    PoolBudgets        \* bounds [submits, blocks, ages, starts] on a run, one chosen at first

VARIABLES
    arrived,           \* txs with by_arrival_time: pending transactions, oldest first
    bySender,          \* <<sender, nonce>> -> transaction
    seenTxs,           \* seen_transactions
    poolRows,          \* durable mempool rows
    stateNonce, stateFunds,
    work,              \* submitter, or "node", -> the operation it is in
    overdue,           \* pending transactions past their time to live
    tangled,           \* a transaction was removed while its submission was under way
    budget             \* what is left of the bounds

poolVars == <<arrived, bySender, seenTxs, poolRows, stateNonce, stateFunds, work, overdue, tangled,
              budget>>
Actors == Submitters \union {"node"}
Senders == {tx.from : tx \in PoolTxs}
NoTx == [id |-> 0]
AtRest == [at |-> "rest", tx |-> NoTx, gone |-> {}]
Pending == {arrived[i] : i \in DOMAIN arrived}
Slot(tx) == <<tx.from, tx.nonce>>
Slots == {Slot(tx) : tx \in PoolTxs}
NoIndex == [s \in Slots |-> NoTx]
PoolOf(list, index) == [list |-> list, index |-> index]

-----------------------------------------------------------------------------
(* TransactionPool.                                                          *)

\* remove clears whatever the sender index holds at the nonce.
RemoveTx(p, tx) == IF tx \notin ToSet(p.list) THEN p
                 ELSE PoolOf(SelectSeq(p.list, LAMBDA x : x # tx), [p.index EXCEPT ![Slot(tx)] = NoTx])
RemoveMany(p, gone) == [list |-> SelectSeq(p.list, LAMBDA x : x \notin gone),
                        index |-> [s \in Slots |-> IF p.index[s] \in gone THEN NoTx ELSE p.index[s]]]

MayInsert(p, tx) == tx \notin ToSet(p.list)
                    /\ (p.index[Slot(tx)] # NoTx => tx.price > p.index[Slot(tx)].price)

\* The incumbent is removed after the newcomer was indexed.
InsertThenRemove(p, tx) ==
    LET incumbent == p.index[Slot(tx)]
        added == PoolOf(Append(p.list, tx), [p.index EXCEPT ![Slot(tx)] = tx])
    IN  IF incumbent = NoTx THEN added ELSE RemoveTx(added, incumbent)

\* insert_with_replaced, replacement by fee included.
InsertWithReplaced(p, tx) ==
    LET q == IF p.index[Slot(tx)] = NoTx THEN p ELSE RemoveTx(p, p.index[Slot(tx)])
    IN  PoolOf(Append(q.list, tx), [q.index EXCEPT ![Slot(tx)] = tx])

SenderTransactionCount(p, a) == Cardinality({s \in Slots : s[1] = a /\ p.index[s] # NoTx})

\* Best first: the higher price, then the earlier arrival.
PrioritizedTransactions(p) ==
    LET better(i, j) == \/ p.list[i].price > p.list[j].price
                        \/ p.list[i].price = p.list[j].price /\ i < j
        order == SetToSortSeq(DOMAIN p.list, better)
    IN  [k \in DOMAIN order |-> p.list[order[k]]]
LowestPriorityTransaction(p) == Last(PrioritizedTransactions(p))

\* validate_transaction_for_selection; the checks of the transaction alone hold.
ValidForSelection(tx, nonces, funds) ==
    /\ tx.nonce >= nonces[tx.from] /\ tx.nonce =< nonces[tx.from] + FutureGap
    /\ tx.cost =< funds[tx.from]

\* One pass in priority order: nonces without a gap from the account's, costs
\* within what earlier picks of the sender have left.
SelectTransactionsForBlock(p, limit) ==
    FoldLeft(LAMBDA s, tx :
                IF /\ Len(s.picked) < limit /\ ValidForSelection(tx, stateNonce, stateFunds)
                   /\ tx.nonce = s.next[tx.from] /\ tx.cost =< s.left[tx.from]
                THEN [picked |-> Append(s.picked, tx), next |-> [s.next EXCEPT ![tx.from] = @ + 1],
                      left |-> [s.left EXCEPT ![tx.from] = @ - tx.cost]]
                ELSE s,
             [picked |-> <<>>, next |-> stateNonce, left |-> stateFunds],
             PrioritizedTransactions(p)).picked

-----------------------------------------------------------------------------
(* Operations.                                                               *)

ThePool == PoolOf(arrived, bySender)
Become(p) == arrived' = p.list /\ bySender' = p.index

PoolInit ==
    /\ arrived = <<>> /\ bySender = NoIndex /\ seenTxs = {} /\ poolRows = {}
    /\ stateNonce = [a \in Senders |-> 0] /\ stateFunds = [a \in Senders |-> Funds]
    /\ work = [c \in Actors |-> AtRest] /\ overdue = {} /\ tangled = FALSE /\ budget \in PoolBudgets

Spend(what) == budget[what] > 0 /\ budget' = [budget EXCEPT ![what] = @ - 1]
Do(c, step) == work' = [work EXCEPT ![c] = step]
\* Transactions leave the pool; some of them may still be in their submission.
Leave(c, gone) ==
    /\ overdue' = overdue \ gone
    /\ tangled' = (tangled \/ \E d \in Actors \ {c} : work[d].tx \in gone)

\* add_transaction up to the lock: validation against the state and the cache.
SubmitTransaction(c, tx) ==
    /\ work[c] = AtRest /\ c # "node"
    /\ ValidForSelection(tx, stateNonce, stateFunds) /\ tx \notin seenTxs
    /\ Do(c, [at |-> "insert", tx |-> tx, gone |-> {}])
    /\ Spend("submits")
    /\ UNCHANGED <<arrived, bySender, seenTxs, poolRows, stateNonce, stateFunds, overdue, tangled>>

\* Under the lock: account limit, eviction when full, insertion.
InsertUnderLock(c) ==
    LET tx == work[c].tx
        replacing == bySender[Slot(tx)] # NoTx
        full == ~replacing /\ Len(arrived) >= MaxPool
        lowest == LowestPriorityTransaction(ThePool)
        evicted == IF full THEN {lowest} ELSE {}
        replaced == IF replacing THEN {bySender[Slot(tx)]} ELSE {}
    IN  /\ work[c].at = "insert"
        /\ IF /\ replacing \/ SenderTransactionCount(ThePool, tx.from) < MaxPerAccount
              /\ full => tx.price > lowest.price
              /\ MayInsert(ThePool, tx)
           THEN /\ Become(InsertWithReplaced(RemoveMany(ThePool, evicted), tx))
                /\ Do(c, [at |-> "mark", tx |-> tx, gone |-> evicted \union replaced])
                /\ Leave(c, evicted \union replaced)
           ELSE Do(c, AtRest) /\ UNCHANGED <<arrived, bySender, overdue, tangled>>
        /\ UNCHANGED <<seenTxs, poolRows, stateNonce, stateFunds, budget>>

MarkSeen(c) ==
    /\ work[c].at = "mark" /\ seenTxs' = seenTxs \union {work[c].tx}
    /\ Do(c, [work[c] EXCEPT !.at = "clean"])
    /\ UNCHANGED <<arrived, bySender, poolRows, stateNonce, stateFunds, overdue, tangled, budget>>

\* remove_persisted_transaction and unmark_seen of what was evicted or replaced.
CleanUp(c) ==
    /\ work[c].at = "clean"
    /\ poolRows' = poolRows \ work[c].gone /\ seenTxs' = seenTxs \ work[c].gone
    /\ Do(c, [work[c] EXCEPT !.at = "persist", !.gone = {}])
    /\ UNCHANGED <<arrived, bySender, stateNonce, stateFunds, overdue, tangled, budget>>

\* persist_transaction_to_disk looks the transaction up, then writes its row.
LookUpForRow(c) ==
    /\ work[c].at = "persist"
    /\ Do(c, [work[c] EXCEPT !.at = IF work[c].tx \in Pending THEN "write" ELSE "sweep"])
    /\ UNCHANGED <<arrived, bySender, seenTxs, poolRows, stateNonce, stateFunds, overdue, tangled,
                   budget>>

WriteRow(c) ==
    /\ work[c].at = "write" /\ poolRows' = poolRows \union {work[c].tx}
    /\ Do(c, [work[c] EXCEPT !.at = "sweep"])
    /\ UNCHANGED <<arrived, bySender, seenTxs, stateNonce, stateFunds, overdue, tangled, budget>>

\* remove_expired_transactions_periodically, when its interval has passed.
SweepExpired(c, due) ==
    /\ work[c].at = "sweep"
    /\ LET gone == IF due THEN overdue ELSE {}
       IN  /\ Become(RemoveMany(ThePool, gone))
           /\ Leave(c, gone)
           /\ poolRows' = poolRows \ gone /\ seenTxs' = seenTxs \ gone
    /\ Do(c, AtRest)
    /\ UNCHANGED <<stateNonce, stateFunds, budget>>

\* The execution of a block has moved the account; remove_many under the lock.
BlockFinalized(tx) ==
    /\ work["node"] = AtRest /\ tx.nonce = stateNonce[tx.from] /\ tx.cost =< stateFunds[tx.from]
    /\ stateNonce' = [stateNonce EXCEPT ![tx.from] = @ + 1]
    /\ stateFunds' = [stateFunds EXCEPT ![tx.from] = @ - tx.cost]
    /\ Become(RemoveTx(ThePool, tx))
    /\ Leave("node", {tx} \intersect Pending)
    /\ Do("node", [at |-> "cleanBlock", tx |-> NoTx, gone |-> {tx}])
    /\ Spend("blocks")
    /\ UNCHANGED <<seenTxs, poolRows>>

CleanBlock ==
    /\ work["node"].at = "cleanBlock"
    /\ poolRows' = poolRows \ work["node"].gone /\ seenTxs' = seenTxs \ work["node"].gone
    /\ Do("node", [work["node"] EXCEPT !.at = "revalidate"])
    /\ UNCHANGED <<arrived, bySender, stateNonce, stateFunds, overdue, tangled, budget>>

\* revalidate_senders, under the lock.
RevalidateSenders ==
    LET senders == {tx.from : tx \in work["node"].gone}
        invalid == {tx \in Pending : tx.from \in senders /\ ~ValidForSelection(tx, stateNonce, stateFunds)}
    IN  /\ work["node"].at = "revalidate"
        /\ Become(RemoveMany(ThePool, invalid))
        /\ Leave("node", invalid)
        /\ Do("node", [work["node"] EXCEPT !.at = "cleanLast", !.gone = invalid])
        /\ UNCHANGED <<seenTxs, poolRows, stateNonce, stateFunds, budget>>

CleanLast ==
    /\ work["node"].at = "cleanLast"
    /\ poolRows' = poolRows \ work["node"].gone /\ seenTxs' = seenTxs \ work["node"].gone
    /\ Do("node", AtRest)
    /\ UNCHANGED <<arrived, bySender, stateNonce, stateFunds, overdue, tangled, budget>>

TimeToLivePasses ==
    /\ overdue # Pending /\ overdue' = Pending
    /\ Spend("ages")
    /\ UNCHANGED <<arrived, bySender, seenTxs, poolRows, stateNonce, stateFunds, work, tangled>>

\* restore_from_disk: rows are validated again and inserted in the order of
\* their hashes, without the limits; a row that is refused is deleted.
Restored(rows) ==
    FoldLeft(LAMBDA p, tx : IF ValidForSelection(tx, stateNonce, stateFunds) /\ MayInsert(p, tx)
                            THEN InsertWithReplaced(p, tx) ELSE p,
             PoolOf(<<>>, NoIndex),
             SetToSortSeq(rows, LAMBDA x, y : x.id < y.id))

\* persist_transactions_to_disk at a stop replaces the rows by the pending
\* transactions; a crash leaves them.
RestartPool(clean) ==
    /\ Spend("starts")
    /\ clean => \A c \in Actors : work[c] = AtRest
    /\ LET p == Restored(IF clean THEN Pending ELSE poolRows)
       IN  Become(p) /\ seenTxs' = ToSet(p.list) /\ poolRows' = ToSet(p.list)
    /\ work' = [c \in Actors |-> AtRest] /\ overdue' = {} /\ tangled' = FALSE
    /\ UNCHANGED <<stateNonce, stateFunds>>

PoolNext ==
    \/ \E c \in Submitters :
          \/ \E tx \in PoolTxs : SubmitTransaction(c, tx)
          \/ InsertUnderLock(c) \/ MarkSeen(c) \/ CleanUp(c) \/ LookUpForRow(c) \/ WriteRow(c)
          \/ \E due \in BOOLEAN : SweepExpired(c, due)
    \/ \E tx \in PoolTxs : BlockFinalized(tx)
    \/ CleanBlock \/ RevalidateSenders \/ CleanLast \/ TimeToLivePasses
    \/ \E clean \in BOOLEAN : RestartPool(clean)

-----------------------------------------------------------------------------
(* Properties.                                                               *)

\* The sender index, by which the limits, replacement and selection go, holds
\* the pending transactions and no others, through replacements, evictions,
\* sweeps, block commits and restarts; at most one per sender and nonce.
SenderIndexExact ==
    /\ \A s \in Slots : bySender[s] # NoTx => bySender[s] \in Pending /\ Slot(bySender[s]) = s
    /\ \A tx \in Pending : bySender[Slot(tx)] = tx
    /\ Len(arrived) = Cardinality(Pending)

\* A block made from any state of the pool can be executed in its order: no
\* nonce gap, and no sender overspends over several of its transactions.
SelectionExecutable ==
    \A limit \in 1 .. MaxPool :
       LET block == SelectTransactionsForBlock(ThePool, limit)
       IN  \A i \in DOMAIN block :
              LET earlier == {j \in 1 .. i - 1 : block[j].from = block[i].from}
                  spent == FoldLeft(LAMBDA sum, tx : sum + tx.cost, 0,
                                    SelectSeq(SubSeq(block, 1, i), LAMBDA tx : tx.from = block[i].from))
              IN  /\ block[i].nonce = stateNonce[block[i].from] + Cardinality(earlier)
                  /\ spent =< stateFunds[block[i].from]

\* Between operations the duplicate cache and the durable rows hold the
\* pending transactions: a transaction that left the pool may be sent again,
\* and a restart brings back what was pending. Only a transaction removed
\* while its own submission was still marking it can leave a trace behind.
TracesFollowPool ==
    ((\A c \in Actors : work[c] = AtRest) /\ ~tangled) => seenTxs = Pending /\ poolRows = Pending

\* The pool, its index, its duplicate cache and its rows agree, and any block
\* made from it can be executed.
PoolSound == SenderIndexExact /\ SelectionExecutable /\ TracesFollowPool
=============================================================================
