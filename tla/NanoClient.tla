----------------------------- MODULE NanoClient -----------------------------
(***************************************************************************)
(* The nano client (crates/nano): NanoLightClient follows headers one by   *)
(* one, or jumps over a gap with a chain of epoch handover certificates;   *)
(* EpochSyncManager keeps the validator set of the current epoch.          *)
(***************************************************************************)
EXTENDS HeaderChain

CONSTANTS
    EpochEnds,            \* epoch + 1 -> height of its last block
    RingBufferCapacity,
    MaxGap,               \* certificates in one gap sync
    NoHeader

VARIABLES
    currentEpoch,         \* EpochSyncManager.current_epoch
    activeSet,            \* EpochSyncManager.active_validator_set
    headerBuffer,         \* NanoLightClient.header_buffer
    latestVerified,       \* NanoLightClient.latest_verified_header
    anchor,               \* the epoch the client was started in
    rotatedAlone          \* whether a handover came through the FFI

nanoVars == <<currentEpoch, activeSet, headerBuffer, latestVerified, anchor, rotatedAlone>>

Epochs == 0..(Len(EpochEnds) - 1)
SetOf(e) == SetAt[EpochEnds[e + 1]]

\* The certificate that ends an epoch; a node may not have its votes yet.
Certificate(e, signed) ==
    [epoch |-> e, header |-> Block(EpochEnds[e + 1]),
     signers |-> IF signed THEN SetOf(e) ELSE {},
     next |-> SetOf(e + 1)]

Certificates == {Certificate(e, signed) : e \in Epochs \ {Len(EpochEnds) - 1},
                                          signed \in BOOLEAN}

-----------------------------------------------------------------------------

\* verify_and_apply_checkpoint, of a checkpoint of this chain that is not stale.
VerifyAndApplyCheckpoint(e) ==
    /\ currentEpoch = e
    /\ activeSet = SetOf(e)

\* A client starts at genesis, or from a checkpoint that is not stale; either
\* way it has the set of an epoch and no header.
NanoInit ==
    /\ \E e \in Epochs : VerifyAndApplyCheckpoint(e)
    /\ headerBuffer = <<>>
    /\ latestVerified = NoHeader
    /\ anchor = currentEpoch
    /\ rotatedAlone = FALSE

\* A ring buffer without capacity still takes the header.
Push(buffer, header) ==
    IF Len(buffer) >= RingBufferCapacity
    THEN Append(SubSeq(buffer, 2, Len(buffer)), header)
    ELSE Append(buffer, header)

\* The first header a client sees needs no parent.
Linked(header) ==
    latestVerified # NoHeader =>
        /\ header.height = latestVerified.height + 1
        /\ ParentOf(header) = latestVerified

VerifyAndAppendHeader(x, clock) ==
    /\ x.header.height <= clock
    /\ Linked(x.header)
    /\ ProposerOf(x.header) \in activeSet
    /\ VerifyConsensusSignatures(x.signers, activeSet)
    /\ headerBuffer' = Push(headerBuffer, x.header)
    /\ latestVerified' = x.header
    /\ UNCHANGED <<currentEpoch, activeSet, anchor, rotatedAlone>>

HandoverAnyEpoch(cert, e, S, clock) ==
    /\ cert.next # {}
    /\ VerifyConsensusSignatures(cert.signers, S)

\* verify_and_apply_handover in epoch e under set S.
HandoverValid(cert, e, S, clock) ==
    /\ cert.epoch = e
    /\ cert.header.height <= clock
    /\ cert.next # {}
    /\ VerifyConsensusSignatures(cert.signers, S)

Synced ==
    [epoch |-> currentEpoch, set |-> activeSet, buffer |-> headerBuffer,
     latest |-> latestVerified, failed |-> FALSE]

\* One certificate of a gap sync: the first that fails ends it.
ApplyCertificate(s, cert, clock) ==
    IF s.failed THEN s
    ELSE IF ~HandoverValid(cert, s.epoch, s.set, clock) THEN [s EXCEPT !.failed = TRUE]
    ELSE [epoch |-> s.epoch + 1, set |-> cert.next, buffer |-> Push(s.buffer, cert.header),
          latest |-> cert.header, failed |-> FALSE]

\* handle_gap_sync.  A proof statement must name the last boundary before
\* anything changes; certificates applied before one that fails stay applied.
HandleGapSync(certs, proofs, clock) ==
    /\ certs # <<>>
    /\ \A p \in proofs : p = Last(certs).header
    /\ LET s == FoldLeft(LAMBDA acc, cert : ApplyCertificate(acc, cert, clock), Synced, certs)
       IN /\ currentEpoch' = s.epoch
          /\ activeSet' = s.set
          /\ headerBuffer' = s.buffer
          /\ latestVerified' = s.latest
    /\ UNCHANGED <<anchor, rotatedAlone>>

\* sxiaum_nano_epoch_handover rotates the set and leaves the headers alone.
EpochHandover(cert, clock) ==
    /\ HandoverValid(cert, currentEpoch, activeSet, clock)
    /\ currentEpoch' = currentEpoch + 1
    /\ activeSet' = cert.next
    /\ rotatedAlone' = TRUE
    /\ UNCHANGED <<headerBuffer, latestVerified, anchor>>

-----------------------------------------------------------------------------

NanoNext ==
    \/ \E x \in EnvelopesIn(1, Len(SetAt)), clock \in Heights : VerifyAndAppendHeader(x, clock)
    \/ \E certs \in BoundedSeq(Certificates, MaxGap), clock \in Heights,
          proofs \in {{}} \cup {{Block(h)} : h \in Range(EpochEnds)} :
          HandleGapSync(certs, proofs, clock)
    \/ \E cert \in Certificates, clock \in Heights : EpochHandover(cert, clock)

-----------------------------------------------------------------------------
(* Properties.                                                               *)

\* handle_gap_sync is not atomic: a certificate that fails leaves the ones
\* before it applied.  Even so the set is the set of the epoch the client is
\* in, every header it holds was certified, the newest is the one it reports,
\* and the buffer keeps to its capacity.
NanoFollowsEpochs ==
    /\ activeSet = SetOf(currentEpoch)
    /\ \A x \in Range(headerBuffer) : x.certified
    /\ Len(headerBuffer) <= Max({1, RingBufferCapacity})
    /\ IF headerBuffer = <<>> THEN latestVerified = NoHeader
                              ELSE latestVerified = Last(headerBuffer)

\* A client that rotates through gap syncs alone never trusts the set of an
\* epoch while its tip is still below the boundary that began it.
TipReachesEpoch ==
    ~rotatedAlone /\ currentEpoch > anchor =>
        /\ latestVerified # NoHeader
        /\ latestVerified.height >= EpochEnds[currentEpoch]

=============================================================================
