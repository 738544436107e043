----------------------------- MODULE HashTrees ------------------------------
(***************************************************************************)
(* The authenticated state tree (state/src/verkle_tree.rs, node.rs), the   *)
(* KZG vector commitments it is built on (crypto/src/kzg.rs), the proofs   *)
(* and multiproofs served to stateless clients (state/src/proof.rs) and    *)
(* the chunked tree snapshot (state/src/snapshot.rs).                      *)
(*                                                                         *)
(* Curve points are modelled by their discrete logarithms, so a pairing    *)
(* equation is an equation in the field of Prime elements.  A 32-byte word *)
(* is a tuple: <<>> stands for None, <<v>> for a stored value, and         *)
(* <<point, vector>> for the digest of a commitment, which is injective as *)
(* the hash is collision free.                                             *)
(***************************************************************************)
EXTENDS Integers, FiniteSets, Sequences, SequencesExt

CONSTANTS
    Branching,   \* BRANCHING_FACTOR, 256 in the code
    Prime,       \* order of the scalar field
    Tau,         \* the secret of the reference string
    TreePaths,        \* tree keys: sequences of child indices, one per level
    Values,      \* stored values, as words
    ChunkSize,   \* leaves per snapshot chunk
    NoFile

VARIABLES
    devSrs,      \* whether the reference string carries its secret
    tree,        \* root node
    issued,      \* proofs handed out, with the leaves they were made from
    file         \* snapshot file

verkleVars == <<devSrs, tree, issued, file>>

None == <<>>
ChildSlots == 0 .. Branching - 1
NoNode == [absent |-> TRUE]
Refused == [refused |-> TRUE]

-----------------------------------------------------------------------------
(* Field and polynomial arithmetic; a polynomial is the sequence of its    *)
(* coefficients, constant term first.                                      *)

Fr(n) == n % Prime

FieldInverse(x) == CHOOSE y \in 1 .. Prime - 1 : Fr(x * y) = 1

TimesLinear(p, x) ==
    [i \in 1 .. Len(p) + 1 |->
        Fr((IF i > 1 THEN p[i - 1] ELSE 0) - (IF i <= Len(p) THEN p[i] * x ELSE 0))]

Scaled(p, c) == [i \in DOMAIN p |-> Fr(p[i] * c)]

SlotSeq == [i \in 1 .. Branching |-> i - 1]

Others(i) == SelectSeq(SlotSeq, LAMBDA j : j # i)

Product(f(_), js) == FoldLeft(LAMBDA acc, j : Fr(acc * f(j)), 1, js)

VanishingPolynomial == FoldLeft(TimesLinear, <<1>>, SlotSeq)

DivideByLinear(p, root) ==
    LET n == Len(p) - 1
        quotient[i \in 1 .. n] ==
            IF i = n THEN p[n + 1] ELSE Fr(p[i + 1] + quotient[i + 1] * root)
    IN  [i \in 1 .. n |-> quotient[i]]

EvaluatePolynomial(p, x) == FoldRight(LAMBDA c, acc : Fr(acc * x + c), p, 0)

(* lagrange_basis multiplies the factors out, lagrange_basis_coefficients  *)
(* divides the vanishing polynomial, lagrange_evaluation works at a point. *)
LagrangeBasis ==
    [i \in ChildSlots |->
        Scaled(FoldLeft(TimesLinear, <<1>>, Others(i)),
               FieldInverse(Product(LAMBDA j : i - j, Others(i))))]

LagrangeBasisCoefficients(i) ==
    LET basis == DivideByLinear(VanishingPolynomial, i)
    IN  Scaled(basis, FieldInverse(EvaluatePolynomial(basis, i)))

LagrangeEvaluation(i, x) ==
    Fr(Product(LAMBDA j : x - j, Others(i))
        * FieldInverse(Product(LAMBDA j : i - j, Others(i))))

CommitCoefficients(p) == EvaluatePolynomial(p, Tau)

BasisPoints ==
    [secret \in BOOLEAN |->
        [i \in ChildSlots |->
            IF secret THEN LagrangeEvaluation(i, Tau)
            ELSE CommitCoefficients(LagrangeBasisCoefficients(i))]]

(* A word reduced into the field: any fixed function that tells the words  *)
(* of an instance apart.                                                   *)
FieldValue(w) ==
    CASE Len(w) = 0 -> 0
      [] Len(w) = 1 -> Fr(w[1])
      [] Len(w) = 2 -> Fr(w[1] * 7919 + 17)

-----------------------------------------------------------------------------
(* Vector commitments and their openings.                                  *)

AllZero(vector) == \A i \in ChildSlots : vector[i] \in {None, <<0>>}

SumOverSlots(term(_)) ==
    LET sum[i \in 0 .. Branching] == IF i = 0 THEN 0 ELSE Fr(sum[i - 1] + term(i - 1))
    IN  sum[Branching]

CommitmentPoint(vector) ==
    SumOverSlots(LAMBDA i : FieldValue(vector[i]) * BasisPoints[devSrs][i])

EmptyCommitment == <<0, [i \in ChildSlots |-> None]>>

KzgCommitment(vector) ==
    IF AllZero(vector) THEN EmptyCommitment ELSE <<CommitmentPoint(vector), vector>>

Coefficients(vector) ==
    [d \in 1 .. Branching |->
        SumOverSlots(LAMBDA i : LagrangeBasis[i][d] * FieldValue(vector[i]))]

QuotientCoefficients(p, z, y) == DivideByLinear([p EXCEPT ![1] = Fr(@ - y)], z)

OpenKzg(vector, i) ==
    IF AllZero(vector) THEN 0
    ELSE CommitCoefficients(QuotientCoefficients(Coefficients(vector), i, FieldValue(vector[i])))

VerifyKzgOpening(point, i, value, opening) ==
    Fr(point - FieldValue(value)) = Fr(opening * Fr(Tau - i))

BatchingChallenge(points, indices, values, openings) ==
    1 + FoldLeft(LAMBDA acc, j : (acc * 31 + points[j] + indices[j]
                                    + FieldValue(values[j]) + openings[j]) % (Prime - 1),
                 3, [j \in DOMAIN points |-> j])

VerifyBatchedOpenings(points, indices, values, openings) ==
    LET k == Len(points)
        r == BatchingChallenge(points, indices, values, openings)
        power[j \in 1 .. k] == IF j = 1 THEN 1 ELSE Fr(power[j - 1] * r)
        Aggregate(term(_)) ==
            FoldLeft(LAMBDA acc, j : Fr(acc + Fr(term(j)) * power[j]), 0, [j \in 1 .. k |-> j])
    IN  IF k = 1 THEN VerifyKzgOpening(points[1], indices[1], values[1], openings[1])
        ELSE Fr(Aggregate(LAMBDA j : openings[j]) * Tau)
                = Aggregate(LAMBDA j : openings[j] * indices[j] + points[j] - FieldValue(values[j]))

-----------------------------------------------------------------------------
(* Nodes cache the digest of their vector.                                 *)

VectorValues(n) ==
    [i \in ChildSlots |->
        CASE n.children[i] # NoNode -> n.children[i].commitment
          [] n.children[i] = NoNode /\ i = 0 -> n.value
          [] OTHER -> None]

Refreshed(n) == [n EXCEPT !.commitment = KzgCommitment(VectorValues(n))]

NewInternal ==
    [commitment |-> EmptyCommitment, children |-> [i \in ChildSlots |-> NoNode], value |-> None]

Childless(n) == \A i \in ChildSlots : n.children[i] = NoNode

IsLeaf(n) == n.value # None /\ Childless(n)

WithChild(n, i, child) == Refreshed([n EXCEPT !.children[i] = child])

WithValue(n, v) == Refreshed([n EXCEPT !.value = v])

VerkleDone(n) == [ok |-> TRUE, node |-> n]
Failed(n) == [ok |-> FALSE, node |-> n]

(* insert_recursive and update_recursive take the child out before they    *)
(* descend: when the call below fails it is not put back.                  *)
RECURSIVE InsertRecursive(_, _, _)
InsertRecursive(n, path, v) ==
    IF path = <<>> THEN IF n.value # None THEN Failed(n) ELSE VerkleDone(WithValue(n, v))
    ELSE IF IsLeaf(n) THEN Failed(n)
    ELSE LET i == Head(path)
             without == WithChild(n, i, NoNode)
             below == InsertRecursive(IF n.children[i] = NoNode THEN NewInternal
                                      ELSE n.children[i], Tail(path), v)
         IN  IF below.ok THEN VerkleDone(WithChild(without, i, below.node)) ELSE Failed(without)

RECURSIVE UpdateRecursive(_, _, _)
UpdateRecursive(n, path, v) ==
    IF path = <<>> THEN IF n.value = None THEN Failed(n) ELSE VerkleDone(WithValue(n, v))
    ELSE LET i == Head(path)
             without == WithChild(n, i, NoNode)
             below == UpdateRecursive(n.children[i], Tail(path), v)
         IN  IF n.children[i] # NoNode /\ below.ok
             THEN VerkleDone(WithChild(without, i, below.node)) ELSE Failed(without)

(* A mutant of DeleteRecursive: emptied nodes stay in the tree. *)
RECURSIVE DeleteKeepingNodes(_, _)
DeleteKeepingNodes(n, path) ==
    IF path = <<>> THEN IF n.value = None THEN Failed(n) ELSE VerkleDone(WithValue(n, None))
    ELSE LET i == Head(path)
             below == DeleteKeepingNodes(n.children[i], Tail(path))
         IN  IF n.children[i] = NoNode \/ ~below.ok THEN Failed(n)
             ELSE VerkleDone(WithChild(n, i, below.node))

RECURSIVE DeleteRecursive(_, _)
DeleteRecursive(n, path) ==
    IF path = <<>> THEN IF n.value = None THEN Failed(n) ELSE VerkleDone(WithValue(n, None))
    ELSE LET i == Head(path)
             below == DeleteRecursive(n.children[i], Tail(path))
         IN  IF n.children[i] = NoNode \/ ~below.ok THEN Failed(n)
             ELSE IF below.node.value = None /\ Childless(below.node)
             THEN VerkleDone(WithChild(n, i, NoNode))
             ELSE VerkleDone(WithChild(n, i, Refreshed(below.node)))

RECURSIVE FindNode(_, _)
FindNode(n, path) ==
    IF n = NoNode \/ path = <<>> THEN n ELSE FindNode(n.children[Head(path)], Tail(path))

GetLeaf(root, key) ==
    LET n == FindNode(root, key) IN IF n # NoNode /\ IsLeaf(n) THEN n.value ELSE None

(* One entry of batch_commitment_updates; StateDb's setters do the same. *)
Updated(root, key, v) ==
    CASE v # None /\ GetLeaf(root, key) # None -> UpdateRecursive(root, key, v).node
      [] v # None /\ GetLeaf(root, key) = None -> InsertRecursive(root, key, v).node
      [] v = None /\ GetLeaf(root, key) # None -> DeleteRecursive(root, key).node
      [] OTHER -> root

-----------------------------------------------------------------------------
(* Proofs: one node per level, from the root to the leaf.                  *)

NodesOnPath(root, key) ==
    [d \in 1 .. Len(key) + 1 |-> FindNode(root, SubSeq(key, 1, d - 1))]

GenerateProof(root, key) ==
    LET nodes == NodesOnPath(root, key)
    IN  [commitments |-> [d \in DOMAIN nodes |-> nodes[d].commitment],
         points |-> [d \in DOMAIN nodes |-> CommitmentPoint(VectorValues(nodes[d]))],
         openings |-> [d \in DOMAIN key |-> OpenKzg(VectorValues(nodes[d]), key[d])],
         path |-> key,
         values |-> [d \in DOMAIN nodes |->
                        IF nodes[d].value = None THEN <<0>> ELSE nodes[d].value]]

FullShape(p, key) ==
    /\ Len(p.commitments) > 0
    /\ Len(p.values) = Len(p.commitments)
    /\ p.path = key
    /\ Len(p.commitments) = Len(p.path) + 1
    /\ Len(p.points) = Len(p.commitments)
    /\ Len(p.openings) = Len(p.path)

LeafCommitment(v) == WithValue(NewInternal, v).commitment

(* A mutant of Anchored: the first commitment is not compared with the     *)
(* trusted root.                                                           *)
Unanchored(p, key, v, root) == FullShape(p, key) /\ Last(p.values) = v

Anchored(p, key, v, root) ==
    FullShape(p, key) /\ p.commitments[1] = root /\ Last(p.values) = v

VerifyProofBatched(p, key, v, root) ==
    /\ Anchored(p, key, v, root)
    /\ VerifyBatchedOpenings(Front(p.points), p.path, Tail(p.commitments), p.openings)
    /\ Last(p.commitments) = LeafCommitment(v)

VerifyProofSequential(p, key, v, root) ==
    /\ Anchored(p, key, v, root)
    /\ \A d \in DOMAIN key :
        VerifyKzgOpening(p.points[d], p.path[d], p.commitments[d + 1], p.openings[d])
    /\ Last(p.commitments) = LeafCommitment(v)

(* Reduced forms sent to save bandwidth: generate_minimal_proof, and what  *)
(* decompress recovers from a compressed witness.                          *)
MinimalProof(p) ==
    [commitments |-> <<Head(p.commitments), Last(p.commitments)>>, points |-> <<>>,
     openings |-> <<>>, path |-> p.path, values |-> <<Last(p.values)>>]

Compress(proofs) ==
    [unique |-> FoldLeft(LAMBDA seen, c : IF Contains(seen, c) THEN seen ELSE Append(seen, c),
                         <<>>, FlattenSeq([j \in DOMAIN proofs |-> proofs[j].points])),
     starts |-> [j \in DOMAIN proofs |-> Head(proofs[j].points)],
     paths |-> [j \in DOMAIN proofs |-> proofs[j].path],
     leaves |-> [j \in DOMAIN proofs |-> Last(proofs[j].values)]]

Decompress(c) ==
    [j \in DOMAIN c.paths |->
        [commitments |-> <<<<c.starts[j]>>>>, points |-> <<c.starts[j]>>, openings |-> <<>>,
         path |-> c.paths[j], values |-> <<c.paths[j], c.leaves[j]>>]]

(* A witness binds account payloads through full proofs only; a proof of   *)
(* the same leaf value for another key is an error, not a miss.            *)
AccountPreimageVerified(proofs, key, v, root) ==
    LET candidates == SelectSeq(proofs, LAMBDA p : Last(p.values) = v /\ p.openings # <<>>)
        Decides(j) == ~FullShape(candidates[j], key) \/ VerifyProofBatched(candidates[j], key, v, root)
    IN  \E j \in DOMAIN candidates :
            /\ VerifyProofBatched(candidates[j], key, v, root)
            /\ \A i \in 1 .. j - 1 : ~Decides(i)

StoragePreimageVerified(proofs, key, v, root) ==
    \E j \in DOMAIN proofs : VerifyProofBatched(proofs[j], key, v, root)

-----------------------------------------------------------------------------
(* Multiproofs share the openings of the nodes that several paths cross.   *)

PathEntries(p) ==
    [d \in DOMAIN p.path |->
        [point |-> p.points[d], index |-> p.path[d], child |-> p.commitments[d + 1],
         self |-> p.commitments[d], opening |-> p.openings[d]]]

GenerateMultiproof(root, keys) ==
    LET paths == [j \in DOMAIN keys |-> PathEntries(GenerateProof(root, keys[j]))]
        shared == FoldLeft(LAMBDA seen, x : IF Contains(seen, x) THEN seen ELSE Append(seen, x),
                           <<>>, FlattenSeq(paths))
    IN  [shared |-> shared,
         refs |-> [j \in DOMAIN keys |->
                    [d \in DOMAIN paths[j] |-> CHOOSE i \in DOMAIN shared : shared[i] = paths[j][d]]],
         leaves |-> [j \in DOMAIN keys |-> GetLeaf(root, keys[j])]]

MultiLinked(m, keys, values, root) ==
    /\ Len(keys) = Len(m.leaves) /\ Len(values) = Len(keys) /\ Len(m.refs) = Len(keys)
    /\ m.leaves = values
    /\ \A j \in DOMAIN keys :
        LET entry == [d \in DOMAIN m.refs[j] |-> m.shared[m.refs[j][d]]]
        IN  /\ Len(m.refs[j]) = Len(keys[j])
            /\ \A d \in DOMAIN keys[j] : entry[d].index = keys[j][d]
            /\ entry[1].self = root
            /\ \A d \in 1 .. Len(keys[j]) - 1 : entry[d + 1].self = entry[d].child
            /\ Last(entry).child = LeafCommitment(m.leaves[j])

VerifyMultiproof(m, keys, values, root) ==
    /\ MultiLinked(m, keys, values, root)
    /\ \A j \in DOMAIN m.shared :
        VerifyKzgOpening(m.shared[j].point, m.shared[j].index, m.shared[j].child, m.shared[j].opening)

VerifyMultiproofBatched(m, keys, values, root) ==
    /\ MultiLinked(m, keys, values, root)
    /\ VerifyBatchedOpenings([j \in DOMAIN m.shared |-> m.shared[j].point],
                             [j \in DOMAIN m.shared |-> m.shared[j].index],
                             [j \in DOMAIN m.shared |-> m.shared[j].child],
                             [j \in DOMAIN m.shared |-> m.shared[j].opening])
-----------------------------------------------------------------------------
(* Snapshot files: a header with the root and the number of chunks, then   *)
(* the chunks, each behind its hash.                                       *)

RECURSIVE CollectLeaves(_, _)
CollectLeaves(n, path) ==
    IF n = NoNode THEN <<>>
    ELSE IF IsLeaf(n) THEN <<<<path, n.value>>>>
    ELSE FlattenSeq([i \in 1 .. Branching |-> CollectLeaves(n.children[i - 1], Append(path, i - 1))])

Chunks(items) ==
    [c \in 1 .. (Len(items) + ChunkSize - 1) \div ChunkSize |->
        SubSeq(items, (c - 1) * ChunkSize + 1,
               IF c * ChunkSize < Len(items) THEN c * ChunkSize ELSE Len(items))]

Restore(f, expected) ==
    LET Inserted(r, item) == IF r.ok THEN InsertRecursive(r.node, item[1], item[2]) ELSE r
        whole == Len(f.chunks) = f.count /\ \A c \in DOMAIN f.chunks : f.chunks[c] = f.hashes[c]
        built == FoldLeft(Inserted, VerkleDone(NewInternal), FlattenSeq(f.chunks))
    IN  IF f.root = expected /\ whole /\ built.ok /\ built.node.commitment = expected
        THEN built.node ELSE Refused

-----------------------------------------------------------------------------
VerkleInit ==
    /\ devSrs \in BOOLEAN
    /\ tree = NewInternal
    /\ issued = {}
    /\ file = NoFile

SetTreeValue(key, v) ==
    /\ tree' = Updated(tree, key, v)
    /\ UNCHANGED <<devSrs, issued, file>>

(* VerkleTree::insert itself, for a key that is already there. *)
InsertDuplicate(key) ==
    /\ GetLeaf(tree, key) # None
    /\ tree' = InsertRecursive(tree, key, GetLeaf(tree, key)).node
    /\ UNCHANGED <<devSrs, issued, file>>

ClearTree ==
    /\ tree' = NewInternal
    /\ UNCHANGED <<devSrs, issued, file>>

(* generate_proof and generate_multiproof fail for a key that is absent. *)
IssueProofs(keys) ==
    /\ issued = {}
    /\ \A j \in DOMAIN keys : FindNode(tree, keys[j]) # NoNode
    /\ issued' = {[keys |-> keys, multi |-> GenerateMultiproof(tree, keys),
                   proofs |-> [j \in DOMAIN keys |-> GenerateProof(tree, keys[j])]]}
    /\ UNCHANGED <<devSrs, tree, file>>

(* The file is written in place: a crash leaves the chunks so far. *)
WriteSnapshot(written) ==
    LET chunks == Chunks(CollectLeaves(tree, <<>>))
    IN  /\ file = NoFile
        /\ written <= Len(chunks)
        /\ file' = [root |-> tree.commitment, count |-> Len(chunks),
                    chunks |-> SubSeq(chunks, 1, written), hashes |-> SubSeq(chunks, 1, written),
                    of |-> tree, intact |-> written = Len(chunks)]
        /\ UNCHANGED <<devSrs, tree, issued>>

(* A stored value of the file decays on disk. *)
Decay(c, j, v) ==
    /\ file # NoFile
    /\ c \in DOMAIN file.chunks
    /\ j \in DOMAIN file.chunks[c]
    /\ v # file.hashes[c][j][2]
    /\ file' = [file EXCEPT !.chunks[c][j][2] = v, !.intact = FALSE]
    /\ UNCHANGED <<devSrs, tree, issued>>

TreeStep ==
    \/ \E key \in TreePaths, v \in Values \cup {None} : SetTreeValue(key, v)
    \/ \E key \in TreePaths : InsertDuplicate(key)
    \/ ClearTree

ProofStep == \E k1, k2 \in TreePaths : k1 # k2 /\ IssueProofs(<<k1, k2>>)

FileStep ==
    \/ \E written \in 0 .. Cardinality(TreePaths) : WriteSnapshot(written)
    \/ \E c, j \in 1 .. Cardinality(TreePaths), v \in Values : Decay(c, j, v)

-----------------------------------------------------------------------------
ProvenBy(s, key, v, root) ==
    \/ \E p \in Range(s.proofs) \cup {MinimalProof(q) : q \in Range(s.proofs)}
                \cup Range(Decompress(Compress(s.proofs))) :
        VerifyProofBatched(p, key, v, root) \/ VerifyProofSequential(p, key, v, root)
    \/ AccountPreimageVerified(s.proofs, key, v, root)
    \/ StoragePreimageVerified(s.proofs, key, v, root)
    \/ \E w \in Values : VerifyMultiproof(s.multi, s.keys, <<v, w>>, root) /\ s.keys[1] = key

(* Whatever updates, deletions and failed insertions came between, a proof *)
(* handed out earlier proves nothing under the root of today's tree that   *)
(* is not in today's tree, whichever of the single, batched, multi or      *)
(* witness verifiers looks at it (proof.rs); and when the tree comes back  *)
(* to the root the proof was made under, every verifier accepts it.        *)
ProofsFollowTree ==
    \A s \in issued :
        /\ \A key \in TreePaths, v \in Values :
            ProvenBy(s, key, v, tree.commitment) => GetLeaf(tree, key) = v
        /\ (s.proofs[1].commitments[1] = tree.commitment) =>
            LET leaves == [j \in DOMAIN s.keys |-> GetLeaf(tree, s.keys[j])]
            IN  /\ \A j \in DOMAIN s.keys :
                    /\ VerifyProofBatched(s.proofs[j], s.keys[j], leaves[j], tree.commitment)
                    /\ VerifyProofSequential(s.proofs[j], s.keys[j], leaves[j], tree.commitment)
                /\ VerifyMultiproof(s.multi, s.keys, leaves, tree.commitment)
                /\ VerifyMultiproofBatched(s.multi, s.keys, leaves, tree.commitment)

(* A complete, undamaged snapshot restores the very tree it was taken      *)
(* from, cached digests and shape included, so the root does not depend on *)
(* the order of the updates that built it; an incomplete or damaged one is *)
(* refused (snapshot.rs restore).                                          *)
SnapshotRestoresTree ==
    file # NoFile =>
        Restore(file, file.root) = IF file.intact THEN file.of ELSE Refused

-----------------------------------------------------------------------------
(***************************************************************************)
(* The binary Merkle tree of crypto/src/merkle.rs: appended leaves, cached *)
(* layers with a fixed pad node at odd level ends, the parallel root, and  *)
(* inclusion proofs.  A node hash is the pair of its children, leaves are  *)
(* 1-tuples, so distinct lists collide only if the tree makes them.        *)
(***************************************************************************)

CONSTANTS
    LeafHashes,   \* hashes that are appended
    MaxLeaves

VARIABLES
    leaves,
    layers,       \* cached layers, leaves first
    inclusion     \* inclusion proofs handed out, with the root they are for

merkleVars == <<leaves, layers, inclusion>>

EmptyRoot == <<0>>
PadNode == <<>>

HashPair(left, right) == <<left, right>>

NextLayer(layer) ==
    [i \in 1 .. (Len(layer) + 1) \div 2 |->
        HashPair(layer[2 * i - 1], IF 2 * i <= Len(layer) THEN layer[2 * i] ELSE PadNode)]

RECURSIVE LayersAbove(_)
LayersAbove(layer) ==
    IF Len(layer) = 1 THEN <<layer>> ELSE <<layer>> \o LayersAbove(NextLayer(layer))

BuildLayers(list) == IF list = <<>> THEN <<>> ELSE LayersAbove(list)

Root(cached) == IF cached = <<>> THEN EmptyRoot ELSE Last(cached)[1]

(* parallel_root keeps no layers and starts from the leaves. *)
RECURSIVE ParallelRoot(_)
ParallelRoot(layer) ==
    CASE Len(layer) = 0 -> EmptyRoot
      [] Len(layer) = 1 -> layer[1]
      [] OTHER -> ParallelRoot(NextLayer(layer))

(* Siblings from the leaf layer up to the layer below the root; index 0 is *)
(* the first leaf.                                                         *)
RECURSIVE Siblings(_, _)
Siblings(cached, index) ==
    IF Len(cached) <= 1 THEN <<>>
    ELSE LET layer == Head(cached)
             sibling == CASE index % 2 = 1 -> layer[index]
                          [] index % 2 = 0 /\ index + 1 < Len(layer) -> layer[index + 2]
                          [] OTHER -> PadNode
         IN  <<sibling>> \o Siblings(Tail(cached), index \div 2)

RECURSIVE Climbed(_, _, _)
Climbed(hash, siblings, index) ==
    IF siblings = <<>> THEN hash
    ELSE Climbed(IF index % 2 = 1 THEN HashPair(Head(siblings), hash)
                 ELSE HashPair(hash, Head(siblings)), Tail(siblings), index \div 2)

VerifyInclusion(leaf, siblings, root, index) == Climbed(leaf, siblings, index) = root

ValidStructure(siblings) ==
    IF leaves = <<>> THEN siblings = <<>>
    ELSE Len(layers[1]) = Len(leaves) /\ Len(siblings) = Len(layers) - 1

-----------------------------------------------------------------------------
MerkleInit ==
    /\ leaves = <<>>
    /\ layers = <<>>
    /\ inclusion = {}

AppendLeaf(hash) ==
    /\ Len(leaves) < MaxLeaves
    /\ leaves' = Append(leaves, hash)
    /\ layers' = BuildLayers(Append(leaves, hash))
    /\ UNCHANGED inclusion

ProveInclusion(index) ==
    /\ index < Len(leaves)
    /\ inclusion' = {[index |-> index, siblings |-> Siblings(layers, index),
                      root |-> Root(layers), of |-> leaves]}
    /\ UNCHANGED <<leaves, layers>>

MerkleNext ==
    \/ \E hash \in LeafHashes : AppendLeaf(hash)
    \/ \E index \in 0 .. MaxLeaves - 1 : ProveInclusion(index)

(* An inclusion proof proves, under a root, the leaf of the list with that *)
(* root and no other: under the root it was made for, its own leaf; under  *)
(* the root of the tree after more leaves, nothing the tree does not hold; *)
(* a root belongs to one list (merkle.rs pads odd levels for that), and    *)
(* the cached and the parallel root agree.                                 *)
InclusionExact ==
    /\ Root(layers) = ParallelRoot(leaves)
    /\ \A p \in inclusion : \A hash \in LeafHashes : \A index \in 0 .. Len(leaves) - 1 :
        /\ VerifyInclusion(p.of[p.index + 1], p.siblings, p.root, p.index)
        /\ (index < Len(p.of) /\ VerifyInclusion(hash, p.siblings, p.root, index))
            => p.of[index + 1] = hash
        /\ (ValidStructure(p.siblings) /\ VerifyInclusion(hash, p.siblings, Root(layers), index))
            => leaves[index + 1] = hash
    /\ \A p \in inclusion : p.root = Root(layers) => p.of = leaves
=============================================================================
