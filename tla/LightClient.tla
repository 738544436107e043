---------------------------- MODULE LightClient ----------------------------
(***************************************************************************)
(* The light client (crates/light-client): HeaderSync verifies batches of  *)
(* headers and retains the newest; LightClient drives it from concurrent   *)
(* sync loops and answers state queries against a retained header.  A peer *)
(* serves what it has: headers of any heights, with all or none of the     *)
(* votes that were cast for them.                                          *)
(***************************************************************************)
EXTENDS HeaderChain

CONSTANTS
    Callers,          \* tasks that run the sync loop
    FullNodes,        \* peers that serve headers
    MaxHeaderBatchSize,
    MaxRetainedHeaders

\* A client keeps at least its tip.
ASSUME RetentionAssumption == MaxRetainedHeaders \in Nat \ {0} /\ MaxHeaderBatchSize \in Nat

VARIABLES
    latestHeader,     \* LightClient.latest_header
    trackedPeer,      \* LightClient.peer
    syncPeer,         \* HeaderSync.peer
    verifiedHeaders,  \* HeaderSync.verified_headers; current_height is the last's
    trustedSet,       \* HeaderSync.validator_set
    syncLoop,         \* caller -> the request its sync loop waits for
    query             \* a state query: asked for, then answered

lightVars == <<latestHeader, trackedPeer, syncPeer, verifiedHeaders, trustedSet,
               syncLoop, query>>

-----------------------------------------------------------------------------
(* Verification.                                                             *)

\* Timestamps grow with the height; "clock" is the height whose timestamp is
\* the newest the verifier's clock admits.
ValidateHeaderFull(header, parent, clock) ==
    /\ header.height = parent.height + 1
    /\ ParentOf(header) = parent
    /\ header.height <= clock

\* validate_validator_set: members are active, distinct and of power one, so
\* what is left to refuse is a set without members.
ValidateValidatorSet(S) == S # {}

ProcessBatch(batch, clock) ==
    LET tip == Last(verifiedHeaders)
    IN \A i \in DOMAIN batch :
          LET header == batch[i].header
              parent == IF i = 1 THEN tip ELSE batch[i - 1].header
          IN /\ header.height = tip.height + i
             /\ ProposerOf(header) \in trustedSet
             /\ ValidateHeaderFull(header, parent, clock)
             /\ ValidatorRoot(header) = trustedSet
             /\ VerifyConsensusSignatures(batch[i].signers, trustedSet)

\* Headers of one height stay in the order they came in, which may be any.
SortedByHeight(S) ==
    {batch \in [1..Cardinality(S) -> S] :
        \A i, j \in DOMAIN batch : i < j =>
            /\ batch[i] # batch[j]
            /\ batch[i].header.height <= batch[j].header.height}

Prune(headers) ==
    SubSeq(headers, Max({1, Len(headers) - MaxRetainedHeaders + 1}), Len(headers))

\* All of the batch or none of it; the caller then publishes the new tip.
ReceiveVerifiedHeaders(S, clock) ==
    IF Cardinality(S) > MaxHeaderBatchSize THEN UNCHANGED <<verifiedHeaders, latestHeader>>
    ELSE \E batch \in SortedByHeight(S) :
            IF ProcessBatch(batch, clock)
            THEN /\ verifiedHeaders' =
                       Prune(verifiedHeaders \o [i \in DOMAIN batch |-> batch[i].header])
                 /\ latestHeader' = Last(verifiedHeaders')
            ELSE UNCHANGED <<verifiedHeaders, latestHeader>>

-----------------------------------------------------------------------------

Waiting(c) == syncLoop[c] # {}

\* new_trusted: a header with a validator root is only trusted with its set.
LightInit ==
    /\ \E h \in 0..Len(SetAt), S \in Range(SetAt) :
          /\ ValidateValidatorSet(S)
          /\ ValidatorRoot(Block(h)) \in {NoSet, S}
          /\ latestHeader = Block(h)
          /\ trustedSet = S
    /\ verifiedHeaders = <<latestHeader>>
    /\ trackedPeer \in FullNodes
    /\ syncPeer = trackedPeer
    /\ syncLoop = [c \in Callers |-> {}]
    /\ query = [height |-> 0, answer |-> {}]

\* run_sync_loop up to its request: the peer reports a height, and the gap
\* above the tip is asked for, at most a batch of it.
BeginSync(c, target) ==
    /\ ~Waiting(c)
    /\ target > latestHeader.height
    /\ LET end == Min({target, latestHeader.height + MaxHeaderBatchSize})
       IN syncLoop' = [syncLoop EXCEPT ![c] =
             {[peer |-> trackedPeer, start |-> latestHeader.height + 1, end |-> end]}]
    /\ UNCHANGED <<latestHeader, trackedPeer, syncPeer, verifiedHeaders, trustedSet, query>>

\* run_sync_loop after the response, whatever was verified meanwhile.  An
\* empty response is an error before anything changes.
FinishSync(c, r, S, clock) ==
    /\ r \in syncLoop[c]
    /\ syncLoop' = [syncLoop EXCEPT ![c] = {}]
    /\ IF S = {} THEN UNCHANGED <<syncPeer, verifiedHeaders, latestHeader>>
       ELSE /\ syncPeer' = r.peer
            /\ ReceiveVerifiedHeaders(S, clock)
    /\ UNCHANGED <<trackedPeer, trustedSet, query>>

UpdateVerifiedHeaders(S, clock) ==
    /\ S # {}
    /\ ReceiveVerifiedHeaders(S, clock)
    /\ UNCHANGED <<trackedPeer, syncPeer, trustedSet, syncLoop, query>>

\* Only to the set that the latest verified header commits to.
TransitionValidatorSet(S) ==
    /\ ValidateValidatorSet(S)
    /\ ValidatorRoot(Last(verifiedHeaders)) = S
    /\ trustedSet' = S
    /\ UNCHANGED <<latestHeader, trackedPeer, syncPeer, verifiedHeaders, syncLoop, query>>

UpdateTrackingPeer(p) ==
    /\ trackedPeer' = p
    /\ syncPeer' = p
    /\ UNCHANGED <<latestHeader, verifiedHeaders, trustedSet, syncLoop, query>>

-----------------------------------------------------------------------------
(* State queries: request_account_state_at_height and its storage twin.      *)

RequestStateAtHeight(h) ==
    /\ query' = [height |-> h, answer |-> {}]
    /\ UNCHANGED <<latestHeader, trackedPeer, syncPeer, verifiedHeaders, trustedSet, syncLoop>>

VerifiedHeaderAtHeight(h) ==
    {x \in {latestHeader} \cup Range(verifiedHeaders) : x.height = h}

\* The peer proves a value under some state root.  The header is looked up
\* after the answer arrived: the tip may have moved since the request, and the
\* header may have been pruned.
AnswerStateQuery(root) ==
    /\ query.height # 0 /\ query.answer = {}
    /\ root \in VerifiedHeaderAtHeight(query.height)
    /\ query' = [query EXCEPT !.answer = {root}]
    /\ UNCHANGED <<latestHeader, trackedPeer, syncPeer, verifiedHeaders, trustedSet, syncLoop>>

-----------------------------------------------------------------------------
(* What a peer may answer: runs of headers that begin at the tip, just above  *)
(* it, or above a gap.                                                       *)

\* The headers of an interval, or all but one of them with another beside.
Responses(start, end) ==
    LET run == {Voted(Block(h)) : h \in start..end}
    IN {run} \cup {(run \ {x}) \cup {y} : x \in run, y \in EnvelopesIn(start, end)}

\* A clock that is behind the next header, or ahead of all of them.
Clocks == {latestHeader.height, Len(SetAt)}

LightNext ==
    \/ \E c \in Callers, t \in Heights : BeginSync(c, t)
    \/ \E c \in Callers, clock \in Clocks : \E r \in syncLoop[c] :
          \E S \in Responses(r.start, r.end) \cup {{}} : FinishSync(c, r, S, clock)
    \/ \E start, end \in Heights, clock \in Clocks :
          /\ start \in latestHeader.height..(latestHeader.height + 2)
          /\ end <= start + MaxHeaderBatchSize
          /\ \E S \in Responses(start, end) : UpdateVerifiedHeaders(S, clock)
    \/ \E S \in Range(SetAt) : TransitionValidatorSet(S)
    \/ \E p \in FullNodes : UpdateTrackingPeer(p)
    \/ \E h \in Heights : RequestStateAtHeight(h)
    \/ \E root \in Proposed : AnswerStateQuery(root)

-----------------------------------------------------------------------------
(* Properties.                                                               *)

\* process_verified_batch, run by overlapping loops on stale requests: what is
\* retained is a run of consecutive certified blocks that ends in the header
\* the client publishes, and all of them above the checkpoint were certified
\* by the set the client trusts now.
HeaderChainCertified ==
    /\ latestHeader = Last(verifiedHeaders)
    /\ Len(verifiedHeaders) <= MaxRetainedHeaders
    /\ \A i \in DOMAIN verifiedHeaders :
          /\ verifiedHeaders[i] = Block(verifiedHeaders[1].height + i - 1)
          /\ i > 1 => ValidatorRoot(verifiedHeaders[i]) = trustedSet

\* request_account_state_at_height looks the header up after the answer came:
\* an answer that is accepted is a proof under the state root of the certified
\* block of the height that was asked for.
AnswersMatchHeight == query.answer \subseteq {Block(query.height)}
=============================================================================
