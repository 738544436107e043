------------------------------- MODULE MCNode -------------------------------
(* One run over the parts of a node around consensus and execution: storage, *)
(* startup, state snapshots, the RPC server, the clear-text pool, keys, the  *)
(* ceremony, the consensus records and the fast path.  They share no state:  *)
(* each initial state picks one of them, and only that one takes steps.      *)
EXTENDS StorageEngine, Bootstrap, SnapshotSync, RpcServer, TransactionPool,
        Keystore, Ceremony, SnapshotHistory, ConsensusRecords, FastPath

CONSTANTS g, x1, x2, x3, y1, y2, t1, t2, m1, m2, m3, m4, a, w
VARIABLE part

-----------------------------------------------------------------------------
(* Instances.                                                                *)

\* A chain of four blocks and a fork of two.
StoredBlock(height, name, parent, txs) ==
    [height |-> height, name |-> name, parent |-> parent, txs |-> txs]
MCChain ==
    {StoredBlock(0, g, NoHash, {}), StoredBlock(1, x1, g, {t1}), StoredBlock(2, x2, x1, {t2}),
     StoredBlock(3, x3, x2, {}), StoredBlock(1, y1, g, {t2}), StoredBlock(2, y2, y1, {t1})}

\* A mainnet validator, and every change of its environment and key sources.
Settings ==
    [env |-> "production", srs |-> "production", net |-> "mainnet",
     keys |-> <<"absent", "good">>, p2pKey |-> "own", sp1 |-> "production",
     vkHash |-> "pinned", srsFile |-> "ceremony", jwt |-> "file", allowHttp |-> FALSE,
     tls |-> "files", verifyParallel |-> TRUE, strayKeys |-> FALSE, writeAuth |-> FALSE,
     transcript |-> "unset", genesisFile |-> "final",
     config |-> [file |-> "present", explicit |-> TRUE, wellFormed |-> TRUE,
                 inRange |-> TRUE, validators |-> "valid", commitReveal |-> "complete",
                 protocol |-> "compiled", network |-> "mainnet", mode |-> "validator",
                 inlineKey |-> FALSE, rpcPublic |-> FALSE, templateBootnodes |-> FALSE,
                 genesisTime |-> 1]]
KeySources ==
    {<<"absent", "absent">>, <<"absent", "trivial">>, <<"trivial", "good">>,
     <<"unreadable", "good">>, <<"insecure", "good">>, <<"absent", "good">>}
MCMachines ==
    {[Settings EXCEPT !.env = e, !.srs = s, !.net = n, !.config.network = c,
                      !.keys = k, !.p2pKey = p] :
        e, s \in {"production", "dev"}, n \in {"mainnet", "none"},
        c \in {"mainnet", "devnet"}, k \in KeySources, p \in {"own", "absent"}}

\* Entries of two kinds: one changes with every block, one comes and goes.
MCValue(h, kind) == IF kind = "account" THEN h ELSE IF h = 2 THEN 7 ELSE NoEntry

Request(path, from, token, named) ==
    [path |-> path, from |-> from, token |-> token, calls |-> named]
MCRequests ==
    {Request("rpc", "remote", "none", <<"read", "admin">>),
     Request("rpc", "listed", "k1", <<"malformed", "write">>),
     Request("ws", "loopback", "k1", <<>>)}
MCKeyFiles == {{"k1"}, {"k2"}, Garbled}

\* Two transactions that replace each other, a successor and another sender.
PoolTx(id, from, nonce, price, cost) ==
    [id |-> id, from |-> from, nonce |-> nonce, price |-> price, cost |-> cost]
MCPoolTxs ==
    {PoolTx(1, "a", 0, 1, 2), PoolTx(2, "a", 0, 2, 2), PoolTx(3, "a", 1, 2, 2),
     PoolTx(4, "b", 0, 3, 1)}
PoolBudget(submits, blocks, ages, restarts) ==
    [submits |-> submits, blocks |-> blocks, ages |-> ages, starts |-> restarts]
MCPoolBudgets ==
    {PoolBudget(3, 1, 0, 0), PoolBudget(2, 0, 1, 1), PoolBudget(2, 1, 0, 1)}

-----------------------------------------------------------------------------

vars ==
    <<part, storeVars, rowVars, bootVars, snapVars, rpcVars, poolVars,
      keystoreVars, ceremonyVars, historyVars, recordVars, fastVars>>

\* A part that takes no steps starts in one fixed state.
MCInit ==
    /\ part \in {"blocks", "rows", "boot", "snapshots", "rpc", "pool",
                "keys", "ceremony", "history", "records", "fast"}
    /\ StoreInit /\ (part # "blocks" => indexed)
    /\ RowsInit /\ BootInit
    /\ SnapInit /\ (part # "snapshots" => localHeight = 0 /\ setEncoding = "absent")
    /\ ServerInit /\ (part # "rpc" => keyFile = {"k1"})
    /\ PoolInit /\ (part # "pool" => budget = PoolBudget(3, 1, 0, 0))
    /\ KeystoreInit
    /\ CeremonyInit /\ (part # "ceremony" => \A p \in Paths : srsFiles[p] = Absent)
    /\ HistoryInit /\ RecordsInit
    /\ FastInit /\ (part # "fast" => fastEnabled /\ \A v \in Members \ Faulty : <<x1, 1>> \in signed[v])

MCNext ==
    \/ part = "blocks" /\ StoreNext
       /\ UNCHANGED <<part, rowVars, bootVars, snapVars, rpcVars, poolVars, keystoreVars,
                       ceremonyVars, historyVars, recordVars, fastVars>>
    \/ part = "rows" /\ RowsNext
       /\ UNCHANGED <<part, storeVars, bootVars, snapVars, rpcVars, poolVars, keystoreVars,
                       ceremonyVars, historyVars, recordVars, fastVars>>
    \/ part = "boot" /\ BootNext
       /\ UNCHANGED <<part, storeVars, rowVars, snapVars, rpcVars, poolVars, keystoreVars,
                       ceremonyVars, historyVars, recordVars, fastVars>>
    \/ part = "snapshots" /\ SnapNext
       /\ UNCHANGED <<part, storeVars, rowVars, bootVars, rpcVars, poolVars, keystoreVars,
                       ceremonyVars, historyVars, recordVars, fastVars>>
    \/ part = "rpc" /\ ServerNext
       /\ UNCHANGED <<part, storeVars, rowVars, bootVars, snapVars, poolVars, keystoreVars,
                       ceremonyVars, historyVars, recordVars, fastVars>>
    \/ part = "pool" /\ PoolNext
       /\ UNCHANGED <<part, storeVars, rowVars, bootVars, snapVars, rpcVars, keystoreVars,
                       ceremonyVars, historyVars, recordVars, fastVars>>
    \* Files and Vault are used apart: neither affects the other.
    \/ part = "keys" /\ KeystoreNext
       /\ \/ possible' = {NoKey} /\ vaultCall' = NoCall
          \/ \A l \in Locations : files'[l] = NoKey
       /\ UNCHANGED <<part, storeVars, rowVars, bootVars, snapVars, rpcVars, poolVars,
                       ceremonyVars, historyVars, recordVars, fastVars>>
    \/ part = "ceremony" /\ CeremonyNext
       /\ UNCHANGED <<part, storeVars, rowVars, bootVars, snapVars, rpcVars, poolVars,
                       keystoreVars, historyVars, recordVars, fastVars>>
    \/ part = "history" /\ HistoryNext
       /\ UNCHANGED <<part, storeVars, rowVars, bootVars, snapVars, rpcVars, poolVars,
                       keystoreVars, ceremonyVars, recordVars, fastVars>>
    \/ part = "records" /\ RecordsNext
       /\ UNCHANGED <<part, storeVars, rowVars, bootVars, snapVars, rpcVars, poolVars,
                       keystoreVars, ceremonyVars, historyVars, fastVars>>
    \/ part = "fast" /\ FastNext
       /\ UNCHANGED <<part, storeVars, rowVars, bootVars, snapVars, rpcVars, poolVars,
                       keystoreVars, ceremonyVars, historyVars, recordVars>>

MCSpec == MCInit /\ [][MCNext]_vars

\* The storage engines: finalized blocks stay, indexes follow the chain, the
\* memory engine does what the disk engine does, no row update is lost and the
\* cache is stale only in the race it is known to lose.
StorageSound ==
    /\ part = "blocks" => FinalizedKept /\ IndexesFollowChain /\ MemoryParity
    /\ part = "rows" => NoLostUpdate /\ StaleOnlyWhenRaced

\* Keys survive interrupted and repeated saves, and the ceremony's transcript is
\* that of its contributions.
KeyMaterialKept ==
    /\ part = "keys" => KeysSurvive
    /\ part = "ceremony" => CeremonySound

\* What is restored, a state snapshot or the consensus records, is what was
\* saved, and whole.
RestoresAreWhole ==
    /\ part = "history" => HistoryRestores
    /\ part = "records" => RestoredIsWhole
=============================================================================
