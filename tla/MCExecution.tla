---------------------------- MODULE MCExecution ----------------------------
(***************************************************************************)
(* Six parts of block execution, each checked by itself: the rounds of     *)
(* optimistic execution, the three ways a transaction is run, the gas      *)
(* meter, the dependency scheduler and the two authenticated trees.  The   *)
(* initial state chooses one; the variables of the others keep a fixed     *)
(* value.                                                                  *)
(***************************************************************************)
EXTENDS ParallelExecution, TransactionPaths, GasMeter, Scheduling, HashTrees

CONSTANTS a, b, c, d, e, f, g, con, n0, n1, s, t

VARIABLE part

-----------------------------------------------------------------------------
(* Blocks for the rounds: all blocks of three transactions between four      *)
(* accounts up to renaming them, one of which may revert, and longer ones.   *)

Pay(x, y) == [from |-> x, to |-> y, reverts |-> FALSE]
Fail(x, y) == [from |-> x, to |-> y, reverts |-> TRUE]

Transfers == {Pay(x, y) : x, y \in {a, b, c, d}} \ {Pay(x, x) : x \in {a, b, c, d}}

ShortBlocks ==
    {<<Pay(a, b), y, z>> : y, z \in Transfers}
        \cup {<<Fail(a, b), x, y>> : x, y \in Transfers}
        \cup {<<x, Fail(a, b), y>> : x, y \in Transfers}
        \cup {<<x, y, Fail(a, b)>> : x, y \in Transfers}

\* In the first, four transactions conflict one with the next and two with
\* none: the share of conflicts passes one half in the second round.  In the
\* second and third a transaction must not overtake the one before it, which
\* is aborted.  In the fourth two outcomes wait for the second transaction,
\* in the fifth the credit of the third is the one the last needs.
LongBlocks ==
    {<<Pay(a, b), Pay(b, c), Pay(c, b), Pay(b, a), Pay(d, e), Pay(f, g)>>,
     <<Pay(a, b), Pay(b, c), Pay(d, c), Pay(e, f)>>,
     <<Pay(a, b), Pay(e, f), Pay(c, b), Pay(c, d), Pay(f, g)>>,
     <<Pay(a, b), Pay(b, a), Pay(c, d), Pay(e, f)>>,
     <<Pay(d, e), Pay(a, c), Pay(b, c), Pay(c, a), Pay(c, b)>>}

Half == <<1, 2>>

MCBlocks == ShortBlocks \cup LongBlocks

-----------------------------------------------------------------------------
(* Batches for the three ways to run a transaction: all pairs of transfers,  *)
(* calls and deployments, the first from a, the second from a or b.          *)

NoWrites == [x \in {} |-> 0]

Effect(ok, used, writes, destroys) ==
    [ok |-> ok, used |-> used, writes |-> writes, destroys |-> destroys]

Calls(limit) ==
    {Effect(TRUE, u, w, FALSE) :
        u \in 1..limit,
        w \in {NoWrites, [x \in {s} |-> 1], [x \in {s} |-> 0], [x \in {t} |-> 1]}}
      \cup {Effect(FALSE, u, NoWrites, FALSE) : u \in 1..limit}

Deployments(limit) ==
    {Effect(TRUE, u, w, FALSE) : u \in 1..limit, w \in {NoWrites, [x \in {s} |-> 1]}}
      \cup {Effect(TRUE, limit, NoWrites, TRUE), Effect(FALSE, limit, NoWrites, FALSE)}

Tx(from, to, value, limit, data, evm, nonce) ==
    [from |-> from, to |-> to, value |-> value, limit |-> limit, data |-> data,
     evm |-> evm, nonce |-> nonce, created |-> IF nonce = 0 THEN n0 ELSE n1,
     digest |-> s]

Transactions(x, q) ==
    {Tx(x, y, v, l, FALSE, Effect(TRUE, 0, NoWrites, FALSE), q) :
        y \in {a, b, con, n1}, v \in 0..1, l \in 1..2}
      \cup UNION {{Tx(x, con, v, l, TRUE, r, q) : r \in Calls(l)} :
                     v \in 0..1, l \in 1..2}
      \cup IF x # a THEN {} ELSE
           UNION {{Tx(x, Nobody, v, l, TRUE, r, q) : r \in Deployments(l)} :
                     v \in 0..1, l \in 1..2}

MCBatches ==
    {<<x, y>> : x \in Transactions(a, 0), y \in Transactions(a, 1) \cup Transactions(b, 0)}

Blank == [balance |-> 0, nonce |-> 0, code |-> FALSE, root |-> NoSlots]
Bare == [x \in Slots |-> Absent]

World(funds) ==
    [account |-> [x \in Addresses |->
        CASE x = a -> [Blank EXCEPT !.balance = funds]
          [] x = b -> [Blank EXCEPT !.balance = 3]
          [] x = con -> [Blank EXCEPT !.code = TRUE, !.root[s] = 1]
          [] OTHER -> Absent],
     slot |-> [x \in Addresses |-> IF x = con THEN [Bare EXCEPT ![s] = 1] ELSE Bare]]

MCWorlds == {World(3), World(6)}

Lock(l) == [x \in Addresses |-> IF x = a THEN l ELSE 0]
MCLocks == {Lock(0), Lock(2)}

-----------------------------------------------------------------------------
(* The trees: two keys below one node and one beside it.                     *)

MCTreePaths == {<<0, 0>>, <<0, 2>>, <<1, 0>>}
MCTreeValues == {<<1>>, <<2>>}
MCLeafHashes == {<<1>>, <<2>>}

-----------------------------------------------------------------------------

RoundsIdle ==
    /\ block = <<>> /\ poor = {} /\ pc = "done" /\ round = 0 /\ pending = {}
    /\ outputs = Nothing /\ aborted = {} /\ unsettled = {} /\ written = {}
    /\ retries = <<>> /\ memory = EmptyMemory
    /\ queue = [next |-> 1, waiting |-> Nothing, released |-> Nothing]
    /\ committed = Nothing /\ rows = BlankRows /\ failed = {} /\ revived = {}

PathsIdle ==
    /\ start = World(3) /\ locked = Lock(0) /\ txs = <<>> /\ stage = "idle"
    /\ proposer = Begun /\ validator = Begun /\ stateless = Begun

GasIdle ==
    /\ gasLimit = 0 /\ gasUsed = 0 /\ gasRefund = 0 /\ memoryWords = 0
    /\ warmStorage = {} /\ warmAccounts = {}
    /\ original = [x \in SlotKeys |-> 0] /\ current = original
    /\ memoryGas = 0 /\ charges = 0

SchedIdle ==
    /\ rwSets = [i \in TaskIndices |-> [reads |-> {}, writes |-> {}]]
    /\ edges = {} /\ reexecution = {} /\ batches = <<>> /\ taskGraph = {}
    /\ remaining = <<>> /\ executedIn = [i \in TaskIndices |-> 0]
    /\ forced = {} /\ phase = "idle"

MCInit ==
    /\ part \in {"rounds", "paths", "gas", "schedule", "verkle", "merkle"}
    /\ IF part = "rounds" THEN Init ELSE RoundsIdle
    /\ IF part = "paths" THEN PathsInit ELSE PathsIdle
    /\ IF part = "gas" THEN GasInit ELSE GasIdle
    /\ IF part = "schedule" THEN SchedInit ELSE SchedIdle
    /\ VerkleInit /\ (part # "verkle" => devSrs)
    /\ MerkleInit

MCNext ==
    \/ part = "rounds" /\ Next
       /\ UNCHANGED <<part, pathVars, gasVars, schedVars, verkleVars, merkleVars>>
    \/ part = "paths" /\ PathsNext
       /\ UNCHANGED <<part, vars, gasVars, schedVars, verkleVars, merkleVars>>
    \/ part = "gas" /\ GasNext
       /\ UNCHANGED <<part, vars, pathVars, schedVars, verkleVars, merkleVars>>
    \/ part = "schedule" /\ SchedNext
       /\ UNCHANGED <<part, vars, pathVars, gasVars, verkleVars, merkleVars>>
    \* Proofs and the snapshot file are read apart: neither affects the other.
    \/ part = "verkle" /\ (TreeStep \/ (file = NoFile /\ ProofStep) \/ (issued = {} /\ FileStep))
       /\ UNCHANGED <<part, vars, pathVars, gasVars, schedVars, merkleVars>>
    \/ part = "merkle" /\ MerkleNext
       /\ UNCHANGED <<part, vars, pathVars, gasVars, schedVars, verkleVars>>

MCSpec ==
    MCInit /\ [][MCNext]_<<part, vars, pathVars, gasVars, schedVars, verkleVars, merkleVars>>

\* Verkle proofs and snapshots follow the tree they were made of, and the
\* Merkle tree of a block proves exactly its transactions.
TreesProveTheirContents ==
    /\ part = "verkle" => ProofsFollowTree /\ SnapshotRestoresTree
    /\ part = "merkle" => InclusionExact
=============================================================================
