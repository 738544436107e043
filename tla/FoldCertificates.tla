-------------------------- MODULE FoldCertificates --------------------------
(***************************************************************************)
(* Recursive state-sync certificates (zk/src/lib.rs, zk/src/groth16/       *)
(* fold.rs and the two command-line tools).  A bootstrap certificate takes *)
(* the step from genesis to its target on trust; a folded one proves, in   *)
(* its circuit, that the certificate it builds on verifies.  Two layers    *)
(* alternate, each with its own verifying key.  A Groth16 proof is the     *)
(* public inputs it was made for, under a setup, and whether the circuit   *)
(* was satisfied: a proof verifies for exactly those inputs.               *)
(***************************************************************************)
EXTENDS Integers, FiniteSets, Sequences

CONSTANTS
    Checkpoints,     \* finalized heads: [root, hash, height]
    GenesisRoot, ZeroHash,
    HashSize,        \* 2^256: a digest is one of 0..HashSize-1
    Element(_, _),   \* the Poseidon element of a setup's verifying key, by layer
    MaxSetups, MaxCertificates,
    NoCert

VARIABLES
    stack,           \* the engine's fold stack: [setup, anchor], or NoCert
    setups,          \* trusted setups run so far
    keyFiles,        \* the setup whose keys generate_fold_cert exported, or 0
    certificates,    \* the certificates in circulation
    delivered        \* edges <<setup, prior, target>> the engine proved

foldVars == <<stack, setups, keyFiles, certificates, delivered>>

Other(layer) == IF layer = "A" THEN "B" ELSE "A"

\* fold_vk_digest: hash_from_field keeps the low 32 bytes of the element.
VkDigest(setup, layer) == Element(setup, layer) % HashSize

GenesisPoint == [root |-> GenesisRoot, hash |-> ZeroHash, height |-> 0]

\* FoldStatement (the genesis root and the chain id are the same everywhere).
Statement(sel, target, digest, prior) ==
    [sel |-> sel, target |-> target, digest |-> digest, prior |-> prior]
GenesisPrior(digest) == Statement(FALSE, GenesisPoint, digest, GenesisPoint)
StatementOf(c) == Statement(c.sel, c.target, c.digest, c.prior)

\* fold_public_inputs: its own statement, and the prior one's fields.
FoldPublicInputs(own, prior) == <<own, prior>>

\* The single pairing check of Groth16::verify.
PairingHolds(setup, layer, inputs, proof) ==
    proof.sound /\ proof.setup = setup /\ proof.layer = layer /\ proof.inputs = inputs

AnchorMatch(anchor, prior) == prior = Statement(FALSE, anchor, prior.digest, GenesisPoint)

\* RecursiveFoldCircuit::generate_constraints.  setup and layer are those of the
\* witness verifying key.  The digest it is compared with is the truncated one.
Circuit(anchor, own, prior, priorPrior, setup, layer, proof) ==
    /\ own.target.height # 0
    /\ ~own.sel => own.prior = GenesisPoint
    /\ own.sel => /\ prior.target = own.prior
                  /\ prior.sel \/ AnchorMatch(anchor, prior)
                  /\ Element(setup, layer) = prior.digest
                  /\ PairingHolds(setup, layer, FoldPublicInputs(prior, priorPrior), proof)

\* FoldLayerProver::prove: a release build proves an unsatisfied circuit too,
\* and the proof does not verify.
Prove(layer, own, prior, priorPrior, priorProof) ==
    [setup |-> stack.setup, layer |-> layer, inputs |-> FoldPublicInputs(own, prior),
     sound |-> Circuit(stack.anchor, own, prior, priorPrior,
                       stack.setup, Other(layer), priorProof)]

FoldCertificate(sel, layer, target, prior, prev, proof) ==
    [sel |-> sel, layer |-> layer, target |-> target, prior |-> prior, prev |-> prev,
     digest |-> VkDigest(stack.setup, layer), proof |-> proof]

\* certificate_bytes and decode_certificate: what the canonical bytes carry, for a
\* proof of the layer's size.
Encodable(c) == c.proof.layer = c.layer
Header(c) == [layer |-> c.layer, sel |-> c.sel, height |-> c.target.height, prev |-> c.prev]
CertificateHash(c) == <<Header(c), c.proof>>

-----------------------------------------------------------------------------
\* FoldLayerVerifier::verify.
LayerVerifies(setup, layer, own, prior, proof) ==
    /\ own.digest = VkDigest(setup, layer)
    /\ own.sel => prior.digest = VkDigest(setup, Other(layer))
    /\ PairingHolds(setup, layer, FoldPublicInputs(own, prior), proof)

\* verify_recursive_state_sync_proof.
BootstrapVerifies(setup, target, proof) ==
    LET d == VkDigest(setup, "A") IN
    /\ proof.layer = "A"
    /\ LayerVerifies(setup, "A", Statement(FALSE, target, d, GenesisPoint), GenesisPrior(d), proof)

\* verify_folded_certificate.
FoldedVerifies(setup, c, prior, priorPrior) ==
    /\ c.sel
    /\ prior.target = c.prior
    /\ IF priorPrior = NoCert THEN ~prior.sel ELSE priorPrior.target = prior.prior
    /\ c.proof.layer = c.layer
    /\ LayerVerifies(setup, c.layer, StatementOf(c), StatementOf(prior), c.proof)

\* verify_recursive_certificate_chain.
ChainVerifies(setup, chain) ==
    /\ chain # << >>
    /\ \A i \in DOMAIN chain :
         /\ chain[i].prev = IF i = 1 THEN ZeroHash ELSE CertificateHash(chain[i - 1])
         /\ i > 1 => chain[i].target.height > chain[i - 1].target.height
         /\ CASE i = 1 -> ~chain[i].sel /\ BootstrapVerifies(setup, chain[i].target, chain[i].proof)
              [] i = 2 -> FoldedVerifies(setup, chain[i], chain[i - 1], NoCert)
              [] OTHER -> FoldedVerifies(setup, chain[i], chain[i - 1], chain[i - 2])
         /\ Encodable(chain[i])

\* run_verification of verify_fold_proof where it found exported keys: the
\* layer's verifier alone, on the statements of the files given.
VerifiesWithKeys(c, prior) ==
    IF c.sel
    THEN /\ prior # NoCert
         /\ LayerVerifies(keyFiles, c.layer, StatementOf(c), StatementOf(prior), c.proof)
    ELSE BootstrapVerifies(keyFiles, c.target, c.proof)

\* run_verification without them: an engine whose setup is made for the occasion.
VerifiesInProcess(c, prior, priorPrior) ==
    IF c.sel
    THEN prior # NoCert /\ FoldedVerifies(setups + 1, c, prior, priorPrior)
    ELSE BootstrapVerifies(setups + 1, c.target, c.proof)

\* run_verification, after it has read the certificate and looked for the keys.
ToolVerifies(c, prior, priorPrior) ==
    /\ Encodable(c)
    /\ IF keyFiles # 0 THEN VerifiesWithKeys(c, prior)
                       ELSE VerifiesInProcess(c, prior, priorPrior)

-----------------------------------------------------------------------------
FoldInit ==
    /\ stack = NoCert
    /\ setups = 0
    /\ keyFiles = 0
    /\ certificates = {}
    /\ delivered = {}

\* init_fold_stack: FoldStack::generate runs a fresh setup of both layers.
InitFoldStack(anchor) ==
    /\ setups < MaxSetups
    /\ setups' = setups + 1
    /\ stack' = [setup |-> setups + 1, anchor |-> anchor]
    /\ UNCHANGED <<keyFiles, certificates, delivered>>

\* A certificate is issued, and the step it is for recorded if its proof is sound.
Issue(c) ==
    /\ c \notin certificates
    /\ Cardinality(certificates) < MaxCertificates
    /\ certificates' = certificates \cup {c}
    /\ delivered' = IF c.proof.sound
                    THEN delivered \cup {<<c.proof.setup, c.prior, c.target>>}
                    ELSE delivered

\* generate_recursive_state_sync_proof: height 0 has no inverse and fails.
GenerateBootstrap(target) ==
    /\ stack # NoCert
    /\ target.height # 0
    /\ LET d     == VkDigest(stack.setup, "A")
           proof == Prove("A", Statement(FALSE, target, d, GenesisPoint), GenesisPrior(d),
                          GenesisPrior(d), NoCert)
       IN  Issue(FoldCertificate(FALSE, "A", target, GenesisPoint, ZeroHash, proof))
    /\ UNCHANGED <<stack, setups, keyFiles>>

\* generate_folded_certificate on prior, and on the certificate before it.
GenerateFolded(prior, priorPrior, target) ==
    /\ stack # NoCert
    /\ target.height # 0
    /\ ~prior.sel => prior.target = stack.anchor /\ prior.prior = GenesisPoint
    /\ Encodable(prior)
    /\ LET layer == Other(prior.layer)
           own   == Statement(TRUE, target, VkDigest(stack.setup, layer), prior.target)
           pp    == IF priorPrior = NoCert THEN GenesisPrior(prior.digest)
                                           ELSE StatementOf(priorPrior)
           proof == Prove(layer, own, StatementOf(prior), pp, prior.proof)
       IN  Issue(FoldCertificate(TRUE, layer, target, prior.target, CertificateHash(prior), proof))
    /\ UNCHANGED <<stack, setups, keyFiles>>

\* generate_fold_cert exports the verifying keys of its setup.
ExportKeys ==
    /\ stack # NoCert
    /\ keyFiles' = stack.setup
    /\ UNCHANGED <<stack, setups, certificates, delivered>>

\* A certificate reaches a reader with the statement of another head: its proof is
\* its own, the metadata is not covered by the canonical bytes.
Restate(c, target) ==
    /\ target # c.target
    /\ [c EXCEPT !.target = target] \notin certificates
    /\ Cardinality(certificates) < MaxCertificates
    /\ certificates' = certificates \cup {[c EXCEPT !.target = target]}
    /\ UNCHANGED <<stack, setups, keyFiles, delivered>>

FoldNext ==
    \/ \E a \in Checkpoints : InitFoldStack(a)
    \/ \E t \in Checkpoints : GenerateBootstrap(t)
    \/ \E p \in certificates, t \in Checkpoints :
          \E pp \in IF p.sel THEN certificates ELSE {NoCert} : GenerateFolded(p, pp, t)
    \/ ExportKeys
    \/ \E c \in certificates, t \in Checkpoints : Restate(c, t)

-----------------------------------------------------------------------------
\* Whoever accepts a folded certificate - from its statement and the prior one's
\* alone, or at the end of a certificate chain - holds a head that the engine's own
\* provings lead to: from genesis to the anchor, then one fold after the other.
Reached(setup, anchor) ==
    LET F[n \in 0..MaxCertificates] ==
          IF n = 0 THEN {anchor} \cap {d[3] : d \in {e \in delivered : e[1] = setup /\ e[2] = GenesisPoint}}
          ELSE F[n - 1] \cup {e[3] : e \in {d \in delivered : d[1] = setup /\ d[2] \in F[n - 1]}}
    IN  F[MaxCertificates]
FoldsReachAnchor ==
    stack # NoCert =>
      LET reached == Reached(stack.setup, stack.anchor) IN
      /\ \A c, p \in certificates, pp \in certificates \cup {NoCert} :
           FoldedVerifies(stack.setup, c, p, pp) => c.target \in reached
      /\ \A n \in 2..MaxCertificates : \A chain \in [1..n -> certificates] :
           ChainVerifies(stack.setup, chain) =>
             /\ chain[1].target = stack.anchor
             /\ \A i \in 2..n : <<stack.setup, chain[i - 1].target, chain[i].target>> \in delivered
      /\ \A c, p \in certificates :
           c.sel /\ ToolVerifies(c, p, NoCert) /\ keyFiles \in {0, stack.setup}
             => c.target \in reached

=============================================================================
