--------------------------- MODULE StorageEngine ----------------------------
(* The block tables of the storage crate: the persistent engine              *)
(* (storage/src/redb_store.rs) and the in-memory backend                     *)
(* (storage/src/memory.rs), driven by the same calls.  Both keep headers and *)
(* bodies by height, the canonical hash of a height, the height of a hash,   *)
(* the height of a transaction, its receipt, and rows that belong to a       *)
(* height (log blooms, validity proofs, validator sets), here `extras`.      *)
(* A block is [height, name, parent, txs]; its name stands for its hash.     *)
(* Encodings and the roots a header commits to are left out: a block is      *)
(* stored with its own body.                                                 *)
EXTENDS Integers, FiniteSets, Functions, TLC, Sequences, SequencesExt

CONSTANTS
    Chain,          \* the blocks there are, forks included
    NoHash          \* the parent of a genesis block

VARIABLES
    engine,         \* tables of StorageEngine
    memory,         \* tables of MemoryDatabaseBackend
    finalHash,      \* hash the caller last finalized, or NoHash
    indexed         \* whether the caller stores through store_canonical_block
storeVars == <<engine, memory, finalHash, indexed>>

Heights == {b.height : b \in Chain}
NoHeight == -1
Drop(f, S) == Restrict(f, DOMAIN f \ S)
Reported(h) == IF h = NoHeight THEN 0 ELSE h

Empty ==
    [headers |-> <<>>, bodies |-> <<>>, canonical |-> <<>>, hashIndex |-> <<>>,
     forks |-> {}, txIndex |-> <<>>, receipts |-> {}, extras |-> {},
     finalizedRows |-> {}, latest |-> NoHeight, finalized |-> NoHeight]

-----------------------------------------------------------------------------
(* Storing blocks.                                                           *)

\* The engine's latest height only grows when a block is stored.
UpdateLatest(s, h) ==
    [s EXCEPT !.latest = IF h > Reported(s.latest) \/ s.latest = NoHeight THEN h ELSE @]

MemoryLatest(s, h) ==
    [s EXCEPT !.latest = IF h > Reported(s.latest) THEN h ELSE Reported(s.latest)]

\* The row of a header, and that of a body, each under the height.
PutHeader(s, b) == [s EXCEPT !.headers = (b.height :> b) @@ @]
PutBody(s, b) == [s EXCEPT !.bodies = (b.height :> b) @@ @]
Parts(s, b) == PutBody(PutHeader(s, b), b)

\* The index rows of a canonical block: one write transaction in the engine.
Indexed(s, b) ==
    [Parts(s, b) EXCEPT
        !.canonical = (b.height :> b.name) @@ @,
        !.hashIndex = (b.name :> b.height) @@ @,
        !.txIndex = [t \in b.txs |-> b.height] @@ @,
        !.receipts = @ \union b.txs]

StoreCanonical(s, b) == UpdateLatest(Indexed(s, b), b.height)
MemoryStoreCanonical(s, b) == MemoryLatest(Indexed(s, b), b.height)

\* What the node does for a finalized block: header and body in one
\* transaction, then the transaction rows; no hash index, no canonical row.
AtomicBlockCommit(s, b) == UpdateLatest(Parts(s, b), b.height)
MemoryAtomicBlockCommit(s, b) == MemoryLatest(Parts(s, b), b.height)

StoreBlockTransactions(s, b) ==
    [s EXCEPT !.txIndex = [t \in b.txs |-> b.height] @@ @, !.receipts = @ \union b.txs]

GetBlockByHash(s, n) ==
    IF /\ n \in DOMAIN s.hashIndex
       /\ s.hashIndex[n] \in DOMAIN s.canonical
       /\ s.canonical[s.hashIndex[n]] = n
    THEN IF s.hashIndex[n] \in DOMAIN s.headers \intersect DOMAIN s.bodies
         THEN {s.headers[s.hashIndex[n]]} ELSE {}
    ELSE {b \in s.forks : b.name = n}

-----------------------------------------------------------------------------
(* Reverting and pruning.                                                    *)

\* The per-height rows and the indexes of the canonical blocks at heights H.
RemoveRows(s, H) ==
    [s EXCEPT !.headers = Drop(@, H), !.bodies = Drop(@, H), !.extras = @ \ H,
              !.canonical = Drop(@, H),
              !.hashIndex = Drop(@, {s.canonical[h] : h \in H \intersect DOMAIN s.canonical})]

TxsAt(s, H) == UNION {s.bodies[h].txs : h \in H \intersect DOMAIN s.bodies}

\* Reverting also drops the transaction index and the receipts of the bodies.
RevertRows(s, H) ==
    [RemoveRows(s, H) EXCEPT !.txIndex = Drop(@, TxsAt(s, H)), !.receipts = @ \ TxsAt(s, H)]

MayRevert(s, h) == s.finalized = NoHeight \/ h > s.finalized

RevertBlock(s, h) ==
    IF ~MayRevert(s, h) THEN s
    ELSE [RevertRows(s, {h}) EXCEPT !.latest = IF h > 0 THEN h - 1 ELSE NoHeight]

MemoryRevertBlock(s, h) ==
    IF ~MayRevert(s, h) THEN s
    ELSE [RevertRows(s, {h}) EXCEPT
            !.latest = IF Reported(@) >= h THEN (IF h > 0 THEN h - 1 ELSE 0) ELSE @]

RevertBlocksTo(s, target) ==
    IF target >= Reported(s.latest) \/ (s.finalized # NoHeight /\ target < s.finalized) THEN s
    ELSE LET kept == RevertRows(s, (target + 1)..s.latest)
         IN  [kept EXCEPT !.latest =
                IF target > 0 \/ 0 \in DOMAIN kept.headers THEN target ELSE NoHeight]

\* The in-memory backend reverts block by block, from the top.
MemoryRevertBlocksTo(s, target) ==
    IF target >= Reported(s.latest) \/ (s.finalized # NoHeight /\ target < s.finalized) THEN s
    ELSE LET Down[h \in target..s.latest] ==
                IF h = s.latest THEN s ELSE MemoryRevertBlock(Down[h + 1], h + 1)
         IN  Down[target]

MayPrune(s, h) ==
    IF s.finalized # NoHeight THEN h <= s.finalized ELSE h <= 1

Sweep(s, h) == {x \in DOMAIN s.headers \union s.extras : x < h}

PruneBlocksBefore(s, h) ==
    IF ~MayPrune(s, h) THEN s
    ELSE [RemoveRows(s, Sweep(s, h)) EXCEPT
            !.latest = IF Reported(s.latest) >= h THEN Reported(s.latest) ELSE NoHeight]

MemoryPruneBlocksBefore(s, h) ==
    IF ~MayPrune(s, h) THEN s ELSE RemoveRows(s, Sweep(s, h))

SetFinalized(s, h) ==
    [s EXCEPT !.finalizedRows = @ \union {h}, !.finalized = h]

-----------------------------------------------------------------------------
(* The calls.  The chain grows at its tip, a reorganisation reverts from the *)
(* tip, and finality only moves up: the order the callers of both stores     *)
(* keep.                                                                     *)

StoreInit ==
    /\ engine = Empty
    /\ memory = [Empty EXCEPT !.latest = 0]
    /\ finalHash = NoHash
    /\ indexed \in BOOLEAN

NextBlock(b) ==
    IF engine.headers = <<>> THEN b.parent = NoHash
    ELSE /\ b.height = Reported(engine.latest) + 1
         /\ b.height - 1 \in DOMAIN engine.headers
         /\ b.parent = engine.headers[b.height - 1].name

StoreBlock(b) ==
    /\ NextBlock(b)
    /\ IF indexed
       THEN /\ engine' = StoreCanonical(engine, b)
            /\ memory' = MemoryStoreCanonical(memory, b)
       ELSE /\ engine' = StoreBlockTransactions(AtomicBlockCommit(engine, b), b)
            /\ memory' = StoreBlockTransactions(MemoryAtomicBlockCommit(memory, b), b)
    /\ UNCHANGED <<finalHash, indexed>>

StoreForkBlock(b) ==
    /\ b.height \in DOMAIN engine.headers /\ engine.headers[b.height] # b
    /\ engine' = [engine EXCEPT !.forks = @ \union {b}]
    /\ memory' = [memory EXCEPT !.forks = @ \union {b}]
    /\ UNCHANGED <<finalHash, indexed>>

\* A validity proof may be stored for a height whose block is not there yet.
StoreZkProof(h) ==
    /\ engine' = [engine EXCEPT !.extras = @ \union {h}]
    /\ memory' = [memory EXCEPT !.extras = @ \union {h}]
    /\ UNCHANGED <<finalHash, indexed>>

RevertTip ==
    /\ engine.latest \in DOMAIN engine.headers
    /\ engine' = RevertBlock(engine, engine.latest)
    /\ memory' = MemoryRevertBlock(memory, engine.latest)
    /\ UNCHANGED <<finalHash, indexed>>

Reorganise(target) ==
    /\ engine' = RevertBlocksTo(engine, target)
    /\ memory' = MemoryRevertBlocksTo(memory, target)
    /\ UNCHANGED <<finalHash, indexed>>

FinalizeBlock(h) ==
    /\ h \in DOMAIN engine.headers /\ h > engine.finalized /\ h <= engine.latest
    /\ engine' = SetFinalized(engine, h)
    /\ memory' = SetFinalized(memory, h)
    /\ finalHash' = engine.headers[h].name
    /\ UNCHANGED indexed

Prune(h) ==
    /\ engine' = PruneBlocksBefore(engine, h)
    /\ memory' = MemoryPruneBlocksBefore(memory, h)
    /\ UNCHANGED <<finalHash, indexed>>

StoreNext ==
    \/ \E b \in Chain : StoreBlock(b) \/ StoreForkBlock(b)
    \/ RevertTip
    \/ \E h \in Heights : StoreZkProof(h) \/ Reorganise(h) \/ FinalizeBlock(h) \/ Prune(h)

-----------------------------------------------------------------------------
(* check_chain_invariants: the rows it reads, and the sequence check it      *)
(* shares with the in-memory backend.                                        *)

CanonicalRows(s) ==
    DOMAIN s.canonical \subseteq DOMAIN s.headers \intersect DOMAIN s.bodies

VerifyCanonicalSequence(s) ==
    \A h \in DOMAIN s.canonical :
        /\ s.headers[h].name = s.canonical[h] /\ s.headers[h].height = h
        /\ s.bodies[h] = s.headers[h]
        /\ s.canonical[h] \in DOMAIN s.hashIndex /\ s.hashIndex[s.canonical[h]] = h
        /\ IF \E x \in DOMAIN s.canonical : x < h
           THEN h - 1 \in DOMAIN s.canonical /\ s.headers[h].parent = s.canonical[h - 1]
           ELSE h = 0 => s.headers[h].parent = NoHash

-----------------------------------------------------------------------------
(* Properties.                                                               *)

\* No order of storing, reverting, reorganising and pruning loses the block
\* last finalized: its header and body stay stored at its height, and a prune
\* stops below it (prune_blocks_before, revert_blocks_to).
FinalizedKept ==
    engine.finalized # NoHeight =>
        /\ engine.finalized \in DOMAIN engine.headers \intersect DOMAIN engine.bodies
        /\ engine.headers[engine.finalized].name = finalHash

\* After any history, check_chain_invariants still accepts the tables, every
\* stored block's transactions are indexed at its height with their receipts,
\* and no transaction is indexed at a stored height whose block lacks it.
IndexesFollowChain ==
    /\ CanonicalRows(engine) /\ VerifyCanonicalSequence(engine)
    /\ \A h \in DOMAIN engine.bodies : \A t \in engine.bodies[h].txs :
        t \in DOMAIN engine.txIndex /\ engine.txIndex[t] = h /\ t \in engine.receipts
    /\ \A t \in DOMAIN engine.txIndex :
        engine.txIndex[t] \in DOMAIN engine.bodies =>
            t \in engine.bodies[engine.txIndex[t]].txs

\* The in-memory backend holds the rows the engine holds and reports the same
\* latest height, whatever the calls.
MemoryParity ==
    /\ Reported(engine.latest) = Reported(memory.latest)
    /\ [engine EXCEPT !.latest = 0] = [memory EXCEPT !.latest = 0]

-----------------------------------------------------------------------------
(* The state rows of StorageEngine (storage/src/redb_store.rs): the durable  *)
(* table, the buffer of writes deferred to a flush, the background flush     *)
(* scheduler, the read cache, clean shutdown, and the replacement of the     *)
(* database file by an exported snapshot.  Threads are the callers of the    *)
(* engine and the scheduler; a step is what runs under one lock or one       *)
(* database transaction.  The tables a snapshot copies are the state rows.   *)

CONSTANTS
    BufferedKeys,   \* rows written through the buffer
    DirectKeys,     \* rows written by atomic commits
    Values,
    NoRow,          \* value of a row that is not there
    MaxBuffered,    \* MAX_BUFFERED_WRITES
    MaxWrites       \* bound: writes the callers make in all

Keys == BufferedKeys \union DirectKeys
Rows == [Keys -> Values \union {NoRow}]
Blank == [k \in Keys |-> NoRow]
Nobody == "nobody"

VARIABLES
    rows,           \* durable state table of the open database file
    buffer,         \* buffered_state_writes
    flushing,       \* holder of flush_lock, the batch it took, its stage
    cache,          \* LRU read cache
    reader,         \* state_get_cached after a miss: the key and the value read
    direct,         \* atomic_state_commit that has invalidated, not committed
    life,           \* open, stopping (scheduler joined), closed
    cleanFlag,      \* last_shutdown_clean
    snapshot,       \* exported database file, or {}
    backup,         \* the .bak file of a restore, or {}
    file,           \* the database file: whole, missing or being copied
    written,        \* ghost: value last written to each row
    raced,          \* ghost: rows a reader read before a write and cached after it
    writes          \* ghost: writes so far

backupVars == <<snapshot, backup, file>>
rowVars == <<rows, buffer, flushing, cache, reader, direct, life, cleanFlag,
             snapshot, backup, file, written, raced, writes>>

NoFlush == [by |-> Nobody, batch |-> <<>>, landed |-> FALSE]
NoRead == [key |-> Nobody, value |-> NoRow]

Apply(r, batch) ==
    FoldLeft(LAMBDA acc, w : [acc EXCEPT ![w[1]] = w[2]], r, batch)
KeysOf(batch) == {batch[i][1] : i \in DOMAIN batch}
Evict(S) == Restrict(cache, DOMAIN cache \ S)

RowsInit ==
    /\ rows = Blank /\ buffer = <<>> /\ flushing = NoFlush
    /\ cache = <<>> /\ reader = NoRead /\ direct = <<>>
    /\ life = "open" /\ cleanFlag = FALSE
    /\ snapshot = {} /\ backup = {} /\ file = "whole"
    /\ written = Blank /\ raced = {} /\ writes = 0

-----------------------------------------------------------------------------
(* Buffered writes and their flush.                                          *)

\* A full buffer is flushed by the caller before its write is added.
BufferWrite(k, v) ==
    /\ life = "open" /\ writes < MaxWrites /\ Len(buffer) < MaxBuffered
    /\ buffer' = Append(buffer, <<k, v>>)
    /\ written' = [written EXCEPT ![k] = v]
    /\ writes' = writes + 1
    /\ UNCHANGED <<rows, flushing, cache, reader, direct, life, cleanFlag, raced, backupVars>>

\* Under flush_lock: the whole buffer is taken.
BeginFlush(t) ==
    /\ life = "open" \/ (life = "stopping" /\ t = "caller")
    /\ flushing.by = Nobody /\ buffer # <<>>
    /\ flushing' = [by |-> t, batch |-> buffer, landed |-> FALSE]
    /\ buffer' = <<>>
    /\ UNCHANGED <<rows, cache, reader, direct, life, cleanFlag, written, raced, writes, backupVars>>

\* The loop of start_flush_scheduler, and a caller of flush_to_disk.
ScheduledFlush == BeginFlush("scheduler")
FlushToDisk == BeginFlush("caller")

CommitFlush ==
    /\ flushing.by # Nobody /\ ~flushing.landed
    /\ rows' = Apply(rows, flushing.batch)
    /\ flushing' = [flushing EXCEPT !.landed = TRUE]
    /\ raced' = raced \union ({reader.key} \intersect KeysOf(flushing.batch))
    /\ UNCHANGED <<buffer, cache, reader, direct, life, cleanFlag, written, writes, backupVars>>

EvictFlushed ==
    /\ flushing.by # Nobody /\ flushing.landed
    /\ cache' = Evict(KeysOf(flushing.batch))
    /\ flushing' = NoFlush
    /\ UNCHANGED <<rows, buffer, reader, direct, life, cleanFlag, written, raced, writes, backupVars>>

\* A failed batch goes behind what was written while it was in flight.
FlushFailsBehind ==
    /\ flushing.by # Nobody /\ ~flushing.landed
    /\ buffer' = buffer \o flushing.batch
    /\ flushing' = NoFlush
    /\ UNCHANGED <<rows, cache, reader, direct, life, cleanFlag, written, raced, writes, backupVars>>

\* The transaction could not be opened or committed: the batch is put back
\* ahead of what was written while it was in flight.
FlushFails ==
    /\ flushing.by # Nobody /\ ~flushing.landed
    /\ buffer' = flushing.batch \o buffer
    /\ flushing' = NoFlush
    /\ UNCHANGED <<rows, cache, reader, direct, life, cleanFlag, written, raced, writes, backupVars>>

-----------------------------------------------------------------------------
(* Direct writes and cached reads.                                           *)

\* atomic_state_commit: cache entries go while the transaction is open.
BeginCommit(k, v) ==
    /\ life = "open" /\ direct = <<>> /\ writes < MaxWrites
    /\ direct' = <<k, v>>
    /\ cache' = Evict({k})
    /\ writes' = writes + 1
    /\ UNCHANGED <<rows, buffer, flushing, reader, life, cleanFlag, written, raced, backupVars>>

CommitDirect ==
    /\ direct # <<>>
    /\ rows' = [rows EXCEPT ![direct[1]] = direct[2]]
    /\ written' = [written EXCEPT ![direct[1]] = direct[2]]
    /\ raced' = raced \union ({direct[1]} \intersect (DOMAIN cache \union {reader.key}))
    /\ direct' = <<>>
    /\ UNCHANGED <<buffer, flushing, cache, reader, life, cleanFlag, writes, backupVars>>

\* state_get_cached: a miss reads the row and caches it under the lock again.
ReadMiss(k) ==
    /\ life = "open" /\ reader = NoRead /\ k \notin DOMAIN cache /\ rows[k] # NoRow
    /\ reader' = [key |-> k, value |-> rows[k]]
    /\ UNCHANGED <<rows, buffer, flushing, cache, direct, life, cleanFlag, written, raced, writes,
                   backupVars>>

CacheRead ==
    /\ reader # NoRead
    /\ cache' = (reader.key :> reader.value) @@ cache
    /\ reader' = NoRead
    /\ UNCHANGED <<rows, buffer, flushing, direct, life, cleanFlag, written, raced, writes, backupVars>>

-----------------------------------------------------------------------------
(* Shutdown, crash and reopening.                                            *)

StopFlushScheduler ==
    /\ life = "open" /\ direct = <<>> /\ flushing.by # "scheduler"
    /\ life' = "stopping"
    /\ UNCHANGED <<rows, buffer, flushing, cache, reader, direct, cleanFlag, written, raced, writes,
                   backupVars>>

RecordCleanShutdown == cleanFlag' = TRUE

\* shutdown: flush_to_disk has succeeded, the clean flag is recorded, the
\* engine is dropped.
Shutdown ==
    /\ life = "stopping" /\ flushing.by = Nobody /\ buffer = <<>>
    /\ life' = "closed" /\ RecordCleanShutdown
    /\ cache' = <<>> /\ reader' = NoRead
    /\ UNCHANGED <<rows, buffer, flushing, direct, written, raced, writes, backupVars>>

Crash ==
    /\ life # "closed"
    /\ life' = "closed"
    /\ buffer' = <<>> /\ flushing' = NoFlush /\ cache' = <<>> /\ reader' = NoRead /\ direct' = <<>>
    /\ UNCHANGED <<rows, cleanFlag, written, raced, writes, backupVars>>

\* StorageEngine::new: a missing file is created empty, the flag is cleared.
Open ==
    /\ life = "closed" /\ file # "copying"
    /\ life' = "open" /\ cleanFlag' = FALSE /\ file' = "whole"
    /\ rows' = IF file = "missing" THEN Blank ELSE rows
    /\ written' = rows' /\ raced' = {}
    /\ UNCHANGED <<buffer, flushing, cache, reader, direct, writes, snapshot, backup>>

-----------------------------------------------------------------------------
(* Snapshots of the database file.                                           *)

ExportSnapshot ==
    /\ life = "open" /\ buffer = <<>> /\ flushing.by = Nobody /\ snapshot = {}
    /\ snapshot' = {rows}
    /\ UNCHANGED <<rows, buffer, flushing, cache, reader, direct, life, cleanFlag, written, raced,
                   writes, backup, file>>

\* restore_from_snapshot: any old backup goes, the database becomes the backup.
BeginRestore ==
    /\ life = "closed" /\ snapshot # {} /\ file = "whole"
    /\ backup' = {rows} /\ file' = "copying"
    /\ UNCHANGED <<rows, buffer, flushing, cache, reader, direct, life, cleanFlag, written, raced,
                   writes, snapshot>>

\* The copy opens: it replaces the database and the backup is removed.
CopyValidated ==
    /\ file = "copying"
    /\ rows' \in snapshot /\ written' = rows'
    /\ file' = "whole" /\ backup' = {}
    /\ UNCHANGED <<buffer, flushing, cache, reader, direct, life, cleanFlag, raced, writes, snapshot>>

\* The copy fails, or does not open: the backup is renamed back.
CopyFails ==
    /\ file = "copying"
    /\ rows' \in backup
    /\ file' = "whole" /\ backup' = {}
    /\ UNCHANGED <<buffer, flushing, cache, reader, direct, life, cleanFlag, written, raced, writes,
                   snapshot>>

\* The process dies between the rename and the copy.
CrashInRestore ==
    /\ file = "copying"
    /\ file' = "missing"
    /\ UNCHANGED <<rows, buffer, flushing, cache, reader, direct, life, cleanFlag, written, raced,
                   writes, snapshot, backup>>

RowsNext ==
    \/ \E k \in BufferedKeys, v \in Values \union {NoRow} : BufferWrite(k, v)
    \/ \E k \in DirectKeys, v \in Values \union {NoRow} : BeginCommit(k, v)
    \/ ScheduledFlush \/ FlushToDisk
    \/ \E k \in Keys : ReadMiss(k)
    \/ CommitFlush \/ EvictFlushed \/ FlushFails \/ CommitDirect \/ CacheRead
    \/ StopFlushScheduler \/ Shutdown \/ Crash \/ Open
    \/ ExportSnapshot \/ BeginRestore \/ CopyValidated \/ CopyFails \/ CrashInRestore

-----------------------------------------------------------------------------
(* Properties.                                                               *)

\* With callers and the scheduler flushing concurrently and flushes failing,
\* the durable rows followed by the batch in flight and the buffer always give
\* the value last written to each buffered row, and a database marked cleanly
\* shut down holds every write (flush_buffered_state_writes_inner, shutdown).
NoLostUpdate ==
    /\ life # "closed" =>
        LET batch == IF flushing.landed THEN <<>> ELSE flushing.batch
        IN  \A k \in BufferedKeys : Apply(Apply(rows, batch), buffer)[k] = written[k]
    /\ (life = "closed" /\ cleanFlag /\ file = "whole") => rows = written

\* The read cache serves an old value only for a row that was written while
\* a reader stood between reading it and caching it; a flush that has let go
\* of its lock has evicted every row it wrote.
StaleOnlyWhenRaced ==
    \A k \in DOMAIN cache :
        \/ cache[k] = rows[k]
        \/ k \in raced
        \/ flushing.landed /\ k \in KeysOf(flushing.batch)
=============================================================================
