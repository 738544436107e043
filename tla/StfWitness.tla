----------------------------- MODULE StfWitness -----------------------------
(***************************************************************************)
(* The validity proof of a block: the witness the host builds from the     *)
(* execution traces, the constraints the host checks before proving and    *)
(* the guest program checks while proving, the proof, and the check a node *)
(* makes of the proof a block header carries (zk/src/lib.rs, zk/src/sp1,   *)
(* zk/guest/src/stf.rs).  A digest is the tuple of what is hashed.         *)
(***************************************************************************)
EXTENDS Integers, FiniteSets, Sequences, SequencesExt

CONSTANTS
    ZkBlocks,        \* blocks: [height, parent, before, after, beacon, txs]
    TraceOptions,    \* what a transaction's trace may hold: [reads, writes, proofs]
    RevealNonces,    \* reveal nonces
    CommitRank(_, _),\* the rank of a commit hash, by nonce and transaction
    Draw(_, _),      \* the digest randomize_ordering draws, by seed and index
    MaxBlockGas,     \* DEFAULT_MAX_BLOCK_GAS
    Zero, NoProof    \* the zero hash; a header without a proof

VARIABLES
    engine,          \* [mainnet, sdk]: the trust policy and the build
    traces,          \* execution traces by block
    witness,         \* the ZkBlockWitness of a block, or NoProof
    zkProof,         \* the Sp1Proof made from it, or NoProof
    headerProof,     \* header.zk_proof
    proven           \* blocks whose header proof a node has accepted

stfVars == <<engine, traces, witness, zkProof, headerProof, proven>>

SumOf(s) == FoldLeft(LAMBDA x, y : x + y, 0, s)
GasOf(txs) == SumOf([i \in DOMAIN txs |-> txs[i].used])

\* BlockBody::compute_tx_root: the root of no transactions is zero.
TxRoot(b) == IF b.txs = << >> THEN Zero ELSE <<"txs", b.txs>>

\* compute_verkle_commitment: it covers the witness root of every proof.
VerkleCommitment(proofs) == <<"verkle", proofs>>

\* ZkPublicInputs::new as build_block_witness and validate_block_proof fill it.
PublicInputs(b, witnessRoot) ==
    [height |-> b.height, parent |-> b.parent, before |-> b.before, after |-> b.after,
     txRoot |-> TxRoot(b), witnessRoot |-> witnessRoot, beacon |-> b.beacon]

\* compute_binding.
Binding(public, p) ==
    <<public, GasOf(p.txs), p.maxGas, p.reads, p.writes, p.proofs, p.digests>>

\* build_tx_witness: a native transaction needs its key and signature, an
\* Ethereum one its signing hash.
HasTxWitness(tx) == tx.signed

\* StfPrivateInputs::from_block.  << >> where it fails.
FromBlock(b, gas, reads, writes, proofs, nonces, public) ==
    IF Len(gas) # Len(b.txs) \/ Len(nonces) # Len(b.txs) \/ \E i \in DOMAIN b.txs : ~HasTxWitness(b.txs[i])
    THEN << >>
    ELSE LET p == [maxGas |-> MaxBlockGas, digests |-> << >>, reads |-> reads,
                   writes |-> writes, proofs |-> proofs,
                   txs |-> [i \in DOMAIN b.txs |->
                              [id |-> b.txs[i].id, kind |-> b.txs[i].kind, own |-> b.txs[i].own,
                               limit |-> b.txs[i].limit, used |-> gas[i], nonce |-> nonces[i]]]]
         IN  <<[private |-> p, binding |-> Binding(public, p)]>>

\* randomize_ordering: from the last place down, swap with the place drawn.
RandomizeOrdering(items, seed) ==
    FoldLeft(LAMBDA s, i : LET j == 1 + (Draw(seed, i - 1) % i)
                           IN  [s EXCEPT ![i] = s[j], ![j] = s[i]],
             items, [k \in 1 .. Len(items) - 1 |-> Len(items) + 1 - k])

\* The order the constraints expect: by commit hash, then shuffled.
ExpectedOrder(txs, public) ==
    LET commit(t) == CommitRank(t.nonce, t.id)
        ids == SortSeq(txs, LAMBDA s, t : commit(s) < commit(t))
    IN  RandomizeOrdering([i \in DOMAIN ids |-> ids[i].id],
                          <<public.parent, public.height, public.beacon>>)

\* The checks that the host and the guest share, without the proofs.
CommonConstraints(public, p) ==
    /\ GasOf(p.txs) <= p.maxGas
    /\ p.txs = << >> => public.before = public.after /\ p.writes = 0
    /\ p.txs # << >> =>
          /\ public.txRoot # Zero
          /\ p.writes > 0 => public.before # public.after
    /\ [i \in DOMAIN p.txs |-> p.txs[i].id] = ExpectedOrder(p.txs, public)
    /\ \A i \in DOMAIN p.txs :
          /\ p.txs[i].limit > 0
          /\ p.txs[i].used <= p.txs[i].limit
          /\ p.txs[i].kind = "native" => p.txs[i].own
    /\ \A i \in DOMAIN p.proofs :
          /\ p.proofs[i].root = public.before
          /\ p.proofs[i].witnessRoot = public.witnessRoot
    /\ \A i \in DOMAIN p.digests : p.digests[i] # Zero

\* verify_stf_private of the guest.
GuestConstraints(public, w) ==
    /\ CommonConstraints(public, w.private)
    /\ w.binding = Binding(public, w.private)

\* verify_stf_private of the host: also the openings, where an empty one is
\* let pass outside production, and a proof wherever state is accessed.
HostConstraints(public, w) ==
    /\ GuestConstraints(public, w)
    /\ \A i \in DOMAIN w.private.proofs :
          \/ w.private.proofs[i].opening = "valid"
          \/ w.private.proofs[i].opening = "empty" /\ ~engine.mainnet
    /\ w.private.reads + w.private.writes > 0 => w.private.proofs # << >>

-----------------------------------------------------------------------------

StfInit ==
    /\ engine \in [mainnet : BOOLEAN, sdk : BOOLEAN]
    /\ traces = [b \in ZkBlocks |-> << >>]
    /\ witness = [b \in ZkBlocks |-> NoProof]
    /\ zkProof = [b \in ZkBlocks |-> NoProof]
    /\ headerProof = [b \in ZkBlocks |-> NoProof]
    /\ proven = {}

\* ExecutionTrace::capture_from_execution_engine and
\* generate_verkle_proof_for_accessed_accounts, for the block's next transaction.
CaptureTrace(b) ==
    /\ Len(traces[b]) < Len(b.txs)
    /\ \E t \in TraceOptions : traces' = [traces EXCEPT ![b] = Append(@, t)]
    /\ UNCHANGED <<engine, witness, zkProof, headerProof, proven>>

Reads(b) == SumOf([i \in DOMAIN traces[b] |-> traces[b][i].reads])
Writes(b) == SumOf([i \in DOMAIN traces[b] |-> traces[b][i].writes])
GasPerTx(b) == [i \in DOMAIN traces[b] |-> b.txs[i].used]
ProofsWith(b, root) ==
    LET all == FlattenSeq([i \in DOMAIN traces[b] |-> traces[b][i].proofs])
    IN  [i \in DOMAIN all |-> [root |-> all[i].root, opening |-> all[i].opening, witnessRoot |-> root]]

Emit(b, public, made) ==
    /\ made # << >>
    /\ HostConstraints(public, made[1])
    /\ witness' = [witness EXCEPT ![b] = [public |-> public, stf |-> made[1]]]
    /\ UNCHANGED <<engine, traces, zkProof, headerProof, proven>>

\* build_block_witness: the proofs carry a zero witness root, the public inputs
\* the commitment to them, and no reveal nonce is given.
BuildBlockWitness(b) ==
    /\ Len(traces[b]) = Len(b.txs)
    /\ witness[b] = NoProof
    /\ LET proofs == ProofsWith(b, Zero)
           public == PublicInputs(b, VerkleCommitment(proofs))
       IN  Emit(b, public, FromBlock(b, GasPerTx(b), Reads(b), Writes(b), proofs, << >>, public))

\* attach_private_to_witness with private inputs that the caller built with
\* from_block, its own nonces and its own witness root.
AttachPrivateToWitness(b) ==
    /\ Len(traces[b]) = Len(b.txs)
    /\ witness[b] = NoProof
    /\ \E nonces \in [DOMAIN b.txs -> RevealNonces],
          root \in {Zero, VerkleCommitment(<< >>), VerkleCommitment(ProofsWith(b, Zero))} :
          LET public == PublicInputs(b, root)
          IN  Emit(b, public, FromBlock(b, GasPerTx(b), Reads(b), Writes(b),
                                        ProofsWith(b, root), nonces, public))

\* Sp1Prover::execute: the host's constraints first, then, with the SDK, a run
\* of the guest, which fails where one of its own constraints does.
Executes(w) ==
    /\ HostConstraints(w.public, w.stf)
    /\ engine.sdk => GuestConstraints(w.public, w.stf)

\* generate_stark_proof without the SDK: a commitment to the public inputs under
\* the program's key.
SimulatedProof(b) ==
    [system |-> "simulated", public |-> witness[b].public, of |-> b, verkle |-> << >>]

\* generate_real_sdk_proof: what the guest commits are the public inputs of the
\* witness it ran on, and no Verkle proof comes along.
SdkProof(b) ==
    [system |-> "sdk", public |-> witness[b].public, of |-> b, verkle |-> << >>]

\* prove_block.
ProveBlock(b) ==
    /\ witness[b] # NoProof
    /\ zkProof[b] = NoProof
    /\ Executes(witness[b])
    /\ zkProof' = [zkProof EXCEPT ![b] = IF engine.sdk THEN SdkProof(b) ELSE SimulatedProof(b)]
    /\ UNCHANGED <<engine, traces, witness, headerProof, proven>>

\* A header carries the proof of its block, or that of another one.
AttachProof(b, from) ==
    /\ zkProof[from] # NoProof
    /\ headerProof[b] = NoProof
    /\ headerProof' = [headerProof EXCEPT ![b] = zkProof[from]]
    /\ UNCHANGED <<engine, traces, witness, zkProof, proven>>

\* Sp1Verifier::verify up to its last step: the envelope is well formed, the
\* trust policy admits its proof system and it names the public inputs given.
EnvelopeValid(proof, public) ==
    /\ proof.system = "simulated" => ~engine.mainnet
    /\ proof.public = public

\* verify_final_proof_validity: the commitment is recomputed, or the SDK decides.
FinalProofValid(proof) ==
    proof.system = "sdk" => engine.sdk

\* Sp1Verifier::verify_block_proof and the checks of the public inputs after it.
VerifyBlockProof(proof, public) ==
    /\ EnvelopeValid(proof, public)
    /\ FinalProofValid(proof)
    /\ public.before # Zero /\ public.after # Zero /\ public.txRoot # Zero

\* validate_block_proof as it would be if it took the public inputs from the
\* proof alone.
ProofTrusted(b) ==
    /\ headerProof[b] # NoProof
    /\ VerifyBlockProof(headerProof[b], headerProof[b].public)

\* ZkEngine::validate_block_proof: the public inputs a node expects, with the
\* witness root of the proof, which must commit to the proofs that come along.
ProofValid(b) ==
    /\ headerProof[b] # NoProof
    /\ LET given == headerProof[b].public
           public == PublicInputs(b, given.witnessRoot)
       IN  /\ given = public
           /\ VerkleCommitment(headerProof[b].verkle) = given.witnessRoot
           /\ \A i \in DOMAIN headerProof[b].verkle : headerProof[b].verkle[i].opening = "valid"
           /\ VerifyBlockProof(headerProof[b], public)

\* The last check of validate_gossip_block_authenticity.
ValidateBlockProof(b) ==
    /\ ProofValid(b)
    /\ proven' = proven \cup {b}
    /\ UNCHANGED <<engine, traces, witness, zkProof, headerProof>>

StfNext ==
    \E b \in ZkBlocks :
        \/ CaptureTrace(b)
        \/ BuildBlockWitness(b)
        \/ AttachPrivateToWitness(b)
        \/ ProveBlock(b)
        \/ \E from \in ZkBlocks : AttachProof(b, from)
        \/ ValidateBlockProof(b)

-----------------------------------------------------------------------------

\* A node accepts the proof of a block's header only if a proof was made of
\* that very block: its transactions stand in the order the public inputs
\* dictate, use no more gas than the block may, and the block moves the state
\* from the root the node holds to the root it names.
ProvenBlocksWereProved ==
    \A b \in proven :
        \E c \in ZkBlocks :
            /\ zkProof[c] # NoProof
            /\ GuestConstraints(PublicInputs(b, zkProof[c].public.witnessRoot), witness[c].stf)
            /\ [i \in DOMAIN b.txs |-> b.txs[i].id] =
                  [i \in DOMAIN b.txs |-> witness[c].stf.private.txs[i].id]

=============================================================================
