-------------------------- MODULE StateStoreProofs --------------------------
(***************************************************************************)
(* The theorems about StateStore, for every set of accounts, transactions  *)
(* and blocks, every retention and any number of outages. First what its   *)
(* operators on rows return, that every step keeps the types, which steps  *)
(* touch what, and that every step keeps the tree, the rows and the log in *)
(* agreement; then the rest of the inductive invariant and the safety      *)
(* properties.                                                             *)
(***************************************************************************)
EXTENDS StateStore, FiniteSetTheorems, TLAPS

(***************************************************************************)
(* The operators on rows                                                   *)
(***************************************************************************)

(* The transaction that a handler is at is one of its block.               *)
LEMMA CurrentTxIsTx ==
    ASSUME job \in Blocks, at \in DOMAIN BlockTxs[job]
    PROVE  CurrentTx \in Txs
  BY StateBlockAssumption DEF CurrentTx

(* Recording an outcome keeps the earlier ones.                            *)
LEMMA AppendKeeps ==
    ASSUME NEW S, NEW s \in Seq(S), NEW e \in S
    PROVE  \A i \in DOMAIN s : i \in DOMAIN Append(s, e) /\ Append(s, e)[i] = s[i]
  OBVIOUS

(* The rows before a transaction's row write are rows after it.            *)
LEMMA RowsClosed ==
    ASSUME NEW row \in Rows, NEW t \in Txs
    PROVE  /\ Debited(row, t) \in Rows
           /\ Refunded(row, t) \in Rows
           /\ Credited(row, t) \in Rows
           /\ {e \in row : e[2] = "nonce"} \in Rows
  <1>1. \A k \in {"nonce", "debit", "refund", "credit"} : <<t, k>> \in Effects
    BY Zenon DEF Effects
  <1>2. row \subseteq Effects
    BY Zenon DEF Rows
  <1>3. /\ <<t, "nonce">> \in Effects
        /\ <<t, "debit">> \in Effects
        /\ <<t, "refund">> \in Effects
        /\ <<t, "credit">> \in Effects
    BY <1>1, Zenon
  <1> HIDE DEF Effects
  <1> QED
    BY <1>2, <1>3, Zenon DEF Rows, Debited, Refunded, Credited

(* Laying rows over a state gives a state, over absent rows perhaps none.  *)
LEMMA OverlaidTypes ==
    ASSUME NEW over \in Writes
    PROVE  /\ \A base \in States : Overlaid(base, over) \in States
           /\ \A base \in Writes :
                  Overlaid(base, over) \in Writes
  BY Zenon DEF Overlaid, States, Writes

(* No rows over a state leave it as it is.                                 *)
LEMMA OverlaidNothing ==
    ASSUME NEW base \in States
    PROVE  Overlaid(base, NoRows) = base
  BY Zenon DEF Overlaid, NoRows, States

(* Buffering writes and laying the buffer over the state later is laying   *)
(* them over it at once: what makes flush_staged_writes exact.             *)
LEMMA OverlaidTwice ==
    ASSUME NEW base \in States,
           NEW over \in Writes,
           NEW writes \in Writes
    PROVE  Overlaid(Overlaid(base, over), writes) = Overlaid(base, Overlaid(over, writes))
  BY Zenon DEF Overlaid, States, Writes

(* Logging the replaced row keeps the undo target.                         *)
LEMMA LogKeepsTarget ==
    ASSUME NEW base \in States, NEW log \in Writes,
           NEW a \in Accounts, NEW row \in Rows
    PROVE  Overlaid([base EXCEPT ![a] = row],
                    IF log[a] = Unset THEN [log EXCEPT ![a] = base[a]] ELSE log)
           = Overlaid(base, log)
  BY StateBlockAssumption DEF Overlaid, States, Writes

(* The rows a transaction writes are rows.                                 *)
LEMMA WriteSetTypes ==
    ASSUME NEW state \in States, NEW t \in Txs
    PROVE  WriteSet(state, t) \in Writes
  <1> SUFFICES ASSUME NEW a \in Accounts
               PROVE  WriteSet(state, t)[a] \in {Unset} \cup Rows
    BY Zenon DEF WriteSet, Writes
  <1>1. state[a] \in Rows
    BY Zenon DEF States
  <1>2. /\ Refunded(Debited(state[a], t), t) \in Rows
        /\ Credited(state[a], t) \in Rows
    BY <1>1, RowsClosed, Zenon
  <1> QED
    BY <1>2, Zenon DEF WriteSet

(* The states that are written as constants.                               *)
LEMMA ConstantStates ==
    /\ EmptyState \in States
    /\ NoRows \in Writes
    /\ \A b \in AllBlocks : HeightOf[b] \in Heights /\ HeaderRoot[b] \in States
    /\ Heights \subseteq Nat
  <1>1. {} \in Rows
    BY Zenon DEF Rows
  <1> QED
    BY <1>1, StateBlockAssumption DEF EmptyState, States, NoRows, Heights, Writes


(* Dropping the pipeline leaves its variables at their initial values.     *)
LEMMA DropTypes ==
    ASSUME DropPipeline
    PROVE  /\ memory' \in Writes /\ logged' \in Writes /\ deferred' \in Writes
           /\ outcomes' \in Seq([ok : BOOLEAN, writes : Writes])
           /\ unflushed' \subseteq (Nat \X Accounts)
           /\ staged' \in States
           /\ exact' \in BOOLEAN
  BY ConstantStates DEF DropPipeline

(* The rows that finalize and commit_pipeline take from an outcome.        *)
LEMMA OutcomeTypes ==
    ASSUME TypeOK
    PROVE  /\ DOMAIN outcomes \subseteq Nat
           /\ \A i \in DOMAIN outcomes : outcomes[i].writes \in Writes
           /\ \A i \in DOMAIN outcomes, a \in Accounts :
                  outcomes[i].writes[a] # Unset => outcomes[i].writes[a] \in Rows
  <1> DEFINE Outcome == [ok : BOOLEAN, writes : Writes]
  <1>1. outcomes \in Seq(Outcome)
    BY Zenon DEF TypeOK
  <1>2. \A out \in Outcome : out.writes \in Writes
    OBVIOUS
  <1> HIDE DEF Outcome
  <1>3. DOMAIN outcomes \subseteq Nat /\ \A i \in DOMAIN outcomes : outcomes[i] \in Outcome
    BY <1>1
  <1> QED
    BY <1>2, <1>3, Zenon DEF Writes

(* Every step of the node keeps the types.                                 *)
LEMMA TypesKept ==
    ASSUME TypeOK, StateInv, [Next]_vars
    PROVE  TypeOK'
  <1> USE ConstantStates
  <1> USE DEF TypeOK, vars, disk, stateDb, pipeline, work, rest
  <1>1. ASSUME NEW b \in Blocks, NEW why \in {"vote", "sync"}, BeginBlock(b, why)
        PROVE  TypeOK'
    BY <1>1 DEF BeginBlock, AllBlocks
  <1>2. ASSUME NEW b \in Blocks, RefuseProposal(b)
        PROVE  TypeOK'
    <2>1. Overlaid(rows, undo) \in States
      BY OverlaidTypes, Zenon
    <2> QED
      BY <1>2, <2>1, Zenon DEF RefuseProposal, Rollback
  <1>31. CASE RunTx
    <2>1. CurrentTx \in Txs
      BY <1>31, StateBlockAssumption DEF RunTx, CurrentTx, StateInv, HandlerInv
    <2>2. Overlaid(rows, memory) \in States
      BY OverlaidTypes, Zenon
    <2>3. WriteSet(Overlaid(rows, memory), CurrentTx) \in Writes
      BY <2>1, <2>2, WriteSetTypes, Zenon
    <2>4. memory' \in Writes
      BY <1>31, <2>3, OverlaidTypes, Zenon DEF RunTx
    <2>5. Executable(Overlaid(rows, memory), CurrentTx) \in BOOLEAN
      BY Zenon DEF Executable
    <2>6. outcomes' \in Seq([ok : BOOLEAN, writes : Writes])
      <3> DEFINE out == [ok     |-> Executable(Overlaid(rows, memory), CurrentTx),
                         writes |-> WriteSet(Overlaid(rows, memory), CurrentTx)]
      <3>1. out \in [ok : BOOLEAN, writes : Writes]
        BY <2>3, <2>5, Zenon
      <3>2. outcomes' = Append(outcomes, out)
        BY <1>31, Zenon DEF RunTx
      <3> HIDE DEF out
      <3> QED
        BY <3>1, <3>2
    <2>7. at' \in Nat
      BY <1>31 DEF RunTx
    <2> QED
      BY <1>31, <2>4, <2>6, <2>7, Zenon DEF RunTx
  <1>32. CASE BeginFinalize
    <2>1. unflushed' \subseteq (Nat \X Accounts)
      BY <1>32, OutcomeTypes, Zenon DEF BeginFinalize
    <2> QED
      BY <1>32, <2>1, Zenon DEF BeginFinalize
  <1>33. ASSUME NEW i \in DOMAIN outcomes, NEW a \in Accounts, FlushRow(i, a)
         PROVE  TypeOK'
    <2>1. outcomes[i].writes[a] # Unset
      BY <1>33, Zenon DEF FlushRow, StateInv, HandlerInv
    <2>2. outcomes[i].writes[a] \in Rows
      BY <2>1, OutcomeTypes, Zenon
    <2>3. rows' \in States /\ staged' \in States /\ logged' \in Writes
      BY <1>33, <2>2, Zenon DEF FlushRow, States, Writes
    <2> QED
      BY <1>33, <2>3, Zenon DEF FlushRow
  <1>34. CASE BeginStage
    BY <1>34, Zenon DEF BeginStage
  <1>3. CASE StageTx
    <2>1. outcomes[at].writes \in Writes
      BY <1>3, OutcomeTypes, Zenon DEF StageTx
    <2>2. staged' \in States /\ deferred' \in Writes
      BY <1>3, <2>1, OverlaidTypes, Zenon DEF StageTx
    <2>3. exact' \in BOOLEAN
      BY <1>3, Zenon DEF StageTx
    <2> QED
      BY <1>3, <2>2, <2>3 DEF StageTx
  <1>4. CASE RejectBlock
    <2>1. rows' \in States
      BY <1>4, OverlaidTypes, Zenon DEF RejectBlock
    <2> QED
      BY <1>4, <2>1, DropTypes, Zenon DEF RejectBlock
  <1>35. CASE EndReject
    BY <1>35, Zenon DEF EndReject, RebuildTree
  <1>36. CASE AbandonBlock
    <2>1. Overlaid(rows, undo) \in States
      BY OverlaidTypes, Zenon
    <2>2. rows' \in States /\ meta' \in States /\ tree' \in States /\ committed' \in States
          /\ undo' \in Writes
      BY <1>36, <2>1, Zenon DEF AbandonBlock, Rollback
    <2> QED
      BY <1>36, <2>2, DropTypes, Zenon DEF AbandonBlock
  <1>5. CASE LandBlock
    <2>1. rows' \in States
      BY <1>5, OverlaidTypes, Zenon DEF LandBlock
    <2> QED
      BY <1>5, <2>1, DropTypes, Zenon DEF LandBlock, RebuildTree
  <1>6. CASE AdmitBlock
    <2>1. job \in Blocks
      BY <1>6, Zenon DEF AdmitBlock, StateInv, HandlerInv
    <2> QED
      BY <1>6, <2>1, Zenon DEF AdmitBlock
  <1>7. CASE DeclineBlock
    <2>1. Overlaid(rows, undo) \in States
      BY OverlaidTypes
    <2> QED
      BY <1>7, <2>1, Zenon DEF DeclineBlock, Rollback
  <1>8. CASE StoreSynced
    BY <1>8, Zenon DEF StoreSynced
  <1>9. ASSUME NEW b \in Blocks, BeginBatch(b)
        PROVE  TypeOK'
    BY <1>9, Zenon DEF BeginBatch, AllBlocks
  <1>10. ASSUME NEW b \in Blocks, RefuseBatch(b)
        PROVE  TypeOK'
    <2>1. Overlaid(rows, undo) \in States
      BY OverlaidTypes
    <2> QED
      BY <1>10, <2>1, Zenon DEF RefuseBatch, Rollback
  <1>11. CASE PutSender
    <2>1. at \in DOMAIN BlockTxs[job] /\ job \in Blocks
      BY <1>11, Zenon DEF PutSender, StateInv, HandlerInv
    <2>2. CurrentTx \in Txs
      BY <2>1, CurrentTxIsTx, Zenon
    <2>3. SenderOf[CurrentTx] \in Accounts
      BY <2>2, AccountAssumption, Zenon
    <2>4. rows[SenderOf[CurrentTx]] \in Rows
      BY <2>3, Zenon DEF States
    <2>5. Debited(rows[SenderOf[CurrentTx]], CurrentTx) \in Rows
      BY <2>2, <2>4, RowsClosed, Zenon
    <2> QED
      BY <1>11, <2>3, <2>5, Zenon DEF PutSender, PutRow, UpdateAccount, States, Writes
  <1>12. CASE PutRecipient
    <2>1. at \in DOMAIN BlockTxs[job] /\ job \in Blocks
      BY <1>12, Zenon DEF PutRecipient, StateInv, HandlerInv
    <2>2. CurrentTx \in Txs
      BY <2>1, CurrentTxIsTx, Zenon
    <2>3. RecipientOf[CurrentTx] \in Accounts
      BY <2>2, AccountAssumption, Zenon
    <2>4. rows[RecipientOf[CurrentTx]] \in Rows
      BY <2>3 DEF States
    <2>5. Credited(rows[RecipientOf[CurrentTx]], CurrentTx) \in Rows
      BY <2>2, <2>4, RowsClosed, Zenon
    <2> QED
      BY <1>12, <2>3, <2>5, Zenon DEF PutRecipient, PutRow, UpdateAccount, States, Writes
  <1>13. CASE PutRefund
    <2>1. at \in DOMAIN BlockTxs[job] /\ job \in Blocks
      BY <1>13, Zenon DEF PutRefund, StateInv, HandlerInv
    <2>2. CurrentTx \in Txs
      BY <2>1, CurrentTxIsTx, Zenon
    <2>3. SenderOf[CurrentTx] \in Accounts
      BY <2>2, AccountAssumption
    <2>4. rows[SenderOf[CurrentTx]] \in Rows
      BY <2>3 DEF States
    <2>5. Refunded(rows[SenderOf[CurrentTx]], CurrentTx) \in Rows
      BY <2>2, <2>4, RowsClosed, Zenon
    <2> QED
      BY <1>13, <2>3, <2>5 DEF PutRefund, PutRow, UpdateAccount, States, Writes
  <1>14. CASE CommitTx
    BY <1>14 DEF CommitTx, Commit
  <1>15. CASE FailBatch
    <2>1. Overlaid(rows, undo) \in States
      BY OverlaidTypes
    <2> QED
      BY <1>15, <2>1, Zenon DEF FailBatch, Rollback
  <1>16. CASE ProposeBatch
    <2>1. job \in Blocks
      BY <1>16, Zenon DEF ProposeBatch, StateInv, HandlerInv
    <2> QED
      BY <1>16, <2>1, Zenon DEF ProposeBatch
  <1>17. CASE AbandonBatch
    <2>1. Overlaid(rows, undo) \in States
      BY OverlaidTypes
    <2> QED
      BY <1>17, <2>1, Zenon DEF AbandonBatch, Rollback
  <1>18. ASSUME NEW b \in Blocks, FinalizeBlock(b)
        PROVE  TypeOK'
    BY <1>18, Zenon DEF FinalizeBlock, AllBlocks
  <1>19. CASE CommitFinalized
    BY <1>19, Zenon DEF CommitFinalized, Commit
  <1>20. CASE WriteSnapshot
    BY <1>20, Zenon DEF WriteSnapshot
  <1>21. CASE ListSnapshots
    BY <1>21 DEF ListSnapshots, Removable, Kept
  <1>22. CASE DeleteSnapshots
    BY <1>22 DEF DeleteSnapshots
  <1>23. CASE Stop
    BY <1>23, StateBlockAssumption, DropTypes DEF Stop, Forget, AllBlocks
  <1>24. CASE Crash
    BY <1>24, StateBlockAssumption, DropTypes DEF Crash, Forget, AllBlocks
  <1>25. CASE BeginStart
    BY <1>25, Zenon DEF BeginStart
  <1>26. CASE RefuseStart
    BY <1>26, StateBlockAssumption, DropTypes, Zenon DEF RefuseStart, Forget, AllBlocks
  <1>27. CASE AcceptStart
    BY <1>27, Zenon DEF AcceptStart, RebuildTree
  <1>28. ASSUME NEW a \in Accounts, Allocate(a)
        PROVE  TypeOK'
    <2>1. rows[a] \in Rows
      BY Zenon DEF States
    <2>2. {e \in rows[a] : e[2] = "nonce"} \in Rows
      BY <2>1, Zenon DEF Rows
    <2> QED
      BY <1>28, <2>1, <2>2, Zenon DEF Allocate, UpdateAccount, States, Writes
  <1>29. CASE EndAllocate
    BY <1>29, Zenon DEF EndAllocate
  <1>30. CASE UNCHANGED vars
    BY <1>30
  <1> QED
    BY <1>1, <1>2, <1>3, <1>4, <1>5, <1>6, <1>7, <1>8, <1>9, <1>10, <1>11, <1>12, <1>13,
       <1>14, <1>15, <1>16, <1>17, <1>18, <1>19, <1>20, <1>21, <1>22, <1>23, <1>24,
       <1>25, <1>26, <1>27, <1>28, <1>29, <1>30, <1>31, <1>32, <1>33, <1>34, <1>35, <1>36, Zenon
    DEF Next, StartSteps

(***************************************************************************)
(* Frames                                                                  *)
(***************************************************************************)

(* A step that touches neither the stored chain nor the snapshots, and     *)
(* does not begin a start.                                                 *)
Elsewhere ==
    /\ UNCHANGED <<ledger, head, snaps>>
    /\ doomed' \in {doomed, {}}
    /\ pc' = "rebuild" => pc = "rebuild" /\ rows' = rows

(* The steps that write a block or a snapshot, change the rows under a     *)
(* pipeline, reject a block, begin a start or end one.                     *)
FrameStep ==
    /\ leaked => leaked'
    /\ pc # "undone" /\ pc' = "undone" => RejectBlock
    /\ pc' \in {"run", "flush", "stage"} =>
           \/ \E b \in Blocks, why \in {"vote", "sync"} : BeginBlock(b, why)
           \/ \E i \in DOMAIN outcomes, a \in Accounts : FlushRow(i, a)
           \/ pc \in {"run", "flush", "stage"} /\ UNCHANGED <<rows, logged, job>>
    /\ pc' = "snap" => CommitFinalized \/ (pc = "snap" /\ UNCHANGED <<rows, job>>)
    /\ pc = "rebuild" => pc' # "idle" \/ AcceptStart
    /\ \/ Elsewhere
       \/ StoreSynced
       \/ \E b \in Blocks : FinalizeBlock(b)
       \/ WriteSnapshot
       \/ ListSnapshots
       \/ DeleteSnapshots
       \/ BeginStart

(* Every step is within these frames.                                      *)
LEMMA FrameKept ==
    ASSUME [Next]_vars
    PROVE  FrameStep
  <1> USE DEF FrameStep, Elsewhere, vars, disk, stateDb, pipeline, work, rest
  <1>1. ASSUME NEW b \in Blocks, NEW why \in {"vote", "sync"}, BeginBlock(b, why)
        PROVE  FrameStep
    BY <1>1, Zenon DEF BeginBlock
  <1>2. ASSUME NEW b \in Blocks, RefuseProposal(b)
        PROVE  FrameStep
    BY <1>2, Zenon DEF RefuseProposal, Rollback
  <1>31. CASE RunTx
    BY <1>31, Zenon DEF RunTx
  <1>32. CASE BeginFinalize
    BY <1>32, Zenon DEF BeginFinalize
  <1>33. ASSUME NEW i \in DOMAIN outcomes, NEW a \in Accounts, FlushRow(i, a)
         PROVE  FrameStep
    BY <1>33, Zenon DEF FlushRow
  <1>34. CASE BeginStage
    BY <1>34, Zenon DEF BeginStage
  <1>3. CASE StageTx
    BY <1>3, Zenon DEF StageTx
  <1>4. CASE RejectBlock
    BY <1>4, Zenon DEF RejectBlock
  <1>35. CASE EndReject
    BY <1>35, Zenon DEF EndReject, RebuildTree
  <1>36. CASE AbandonBlock
    <2>1. /\ pc = "stage" /\ pc' = "idle" /\ UNCHANGED <<ledger, head, snaps, doomed>>
          /\ leaked'
      BY <1>36, Zenon DEF AbandonBlock, Staged
    <2> QED
      BY <2>1, Zenon
  <1>5. CASE LandBlock
    BY <1>5, Zenon DEF LandBlock, RebuildTree
  <1>6. CASE AdmitBlock
    BY <1>6, Zenon DEF AdmitBlock
  <1>7. CASE DeclineBlock
    BY <1>7, Zenon DEF DeclineBlock, Rollback
  <1>8. CASE StoreSynced
    BY <1>8, Zenon DEF StoreSynced
  <1>9. ASSUME NEW b \in Blocks, BeginBatch(b)
        PROVE  FrameStep
    BY <1>9, Zenon DEF BeginBatch
  <1>10. ASSUME NEW b \in Blocks, RefuseBatch(b)
        PROVE  FrameStep
    BY <1>10, Zenon DEF RefuseBatch, Rollback
  <1>11. CASE PutSender
    BY <1>11, Zenon DEF PutSender, PutRow, UpdateAccount
  <1>12. CASE PutRecipient
    BY <1>12, Zenon DEF PutRecipient, PutRow, UpdateAccount
  <1>13. CASE PutRefund
    BY <1>13, Zenon DEF PutRefund, PutRow, UpdateAccount
  <1>14. CASE CommitTx
    BY <1>14, Zenon DEF CommitTx, Commit
  <1>15. CASE FailBatch
    BY <1>15, Zenon DEF FailBatch, Rollback
  <1>16. CASE ProposeBatch
    BY <1>16, Zenon DEF ProposeBatch
  <1>17. CASE AbandonBatch
    BY <1>17, Zenon DEF AbandonBatch, Rollback
  <1>18. ASSUME NEW b \in Blocks, FinalizeBlock(b)
        PROVE  FrameStep
    BY <1>18, Zenon DEF FinalizeBlock
  <1>19. CASE CommitFinalized
    BY <1>19, Zenon DEF CommitFinalized, Commit
  <1>20. CASE WriteSnapshot
    BY <1>20, Zenon DEF WriteSnapshot
  <1>21. CASE ListSnapshots
    BY <1>21, Zenon DEF ListSnapshots
  <1>22. CASE DeleteSnapshots
    BY <1>22, Zenon DEF DeleteSnapshots
  <1>23. CASE Stop
    BY <1>23, Zenon DEF Stop, Forget
  <1>24. CASE Crash
    BY <1>24, Zenon DEF Crash, Forget
  <1>25. CASE BeginStart
    BY <1>25, Zenon DEF BeginStart
  <1>26. CASE RefuseStart
    BY <1>26, Zenon DEF RefuseStart, Forget
  <1>27. CASE AcceptStart
    BY <1>27, Zenon DEF AcceptStart, RebuildTree
  <1>28. ASSUME NEW a \in Accounts, Allocate(a)
        PROVE  FrameStep
    BY <1>28, Zenon DEF Allocate, UpdateAccount
  <1>29. CASE EndAllocate
    BY <1>29, Zenon DEF EndAllocate
  <1>30. CASE UNCHANGED vars
    BY <1>30, Zenon
  <1> QED
    BY <1>1, <1>2, <1>3, <1>4, <1>5, <1>6, <1>7, <1>8, <1>9, <1>10, <1>11, <1>12, <1>13,
       <1>14, <1>15, <1>16, <1>17, <1>18, <1>19, <1>20, <1>21, <1>22, <1>23, <1>24,
       <1>25, <1>26, <1>27, <1>28, <1>29, <1>30, <1>31, <1>32, <1>33, <1>34, <1>35, <1>36, Zenon
    DEF Next, StartSteps

(***************************************************************************)
(* The inductive invariant                                                 *)
(***************************************************************************)

(* Outside finalize and commit_pipeline nothing is logged by a pipeline.   *)
LEMMA NothingLogged ==
    ASSUME TypeOK, logged = NoRows
    PROVE  Beneath = rows
  BY OverlaidNothing, Zenon DEF Beneath, TypeOK

(* One write of a row keeps the tree, the rows and the log in agreement.   *)
LEMMA UpdateKeeps ==
    ASSUME TypeOK, TypeOK', TreeMatchesRows, Running, ~leaked,
           logged = NoRows, logged' = NoRows,
           NEW a \in Accounts, NEW row, UpdateAccount(a, row)
    PROVE  tree' = Beneath' /\ Overlaid(Beneath', undo') = committed'
  <1>1. row \in Rows
    <2>1. rows'[a] = row
      BY Zenon DEF UpdateAccount, TypeOK, States
    <2> QED
      BY <2>1, Zenon DEF TypeOK, States
  <1>2. rows \in States /\ undo \in Writes
    BY Zenon DEF TypeOK
  <1>3. Overlaid([rows EXCEPT ![a] = row],
                 IF undo[a] = Unset THEN [undo EXCEPT ![a] = rows[a]] ELSE undo)
        = Overlaid(rows, undo)
    BY <1>1, <1>2, LogKeepsTarget, Zenon
  <1>4. Beneath = rows
    BY NothingLogged, Zenon
  <1>5. Overlaid(rows', NoRows) = rows'
    BY OverlaidNothing, Zenon DEF TypeOK
  <1>6. Beneath' = rows'
    BY <1>5, Zenon DEF Beneath
  <1> QED
    BY <1>3, <1>4, <1>6, Zenon DEF UpdateAccount, TreeMatchesRows

(* What a pipeline writes and logs, or takes back, leaves the rows beneath *)
(* it alone.                                                               *)
LEMMA BeneathKept ==
    ASSUME TypeOK, TypeOK', HandlerInv
    PROVE  /\ \A i \in DOMAIN outcomes, a \in Accounts : FlushRow(i, a) => Beneath' = Beneath
           /\ RejectBlock => Beneath' = Beneath
  <1>1. rows \in States /\ rows' \in States /\ logged \in Writes
    BY Zenon DEF TypeOK
  <1>2. ASSUME NEW i \in DOMAIN outcomes, NEW a \in Accounts, FlushRow(i, a)
        PROVE  Beneath' = Beneath
    <2> DEFINE row == outcomes[i].writes[a]
    <2>1. row \in Rows
      BY <1>2, OutcomeTypes, Zenon DEF FlushRow, HandlerInv
    <2>2. /\ rows' = [rows EXCEPT ![a] = row]
          /\ logged' = IF logged[a] = Unset THEN [logged EXCEPT ![a] = rows[a]] ELSE logged
      BY <1>2, Zenon DEF FlushRow
    <2> HIDE DEF row
    <2>3. Overlaid([rows EXCEPT ![a] = row],
                   IF logged[a] = Unset THEN [logged EXCEPT ![a] = rows[a]] ELSE logged)
          = Overlaid(rows, logged)
      BY <1>1, <2>1, LogKeepsTarget, Zenon
    <2> QED
      BY <2>2, <2>3, Zenon DEF Beneath
  <1>3. ASSUME RejectBlock
        PROVE  Beneath' = Beneath
    <2>1. rows' = Beneath /\ logged' = NoRows
      BY <1>3, Zenon DEF RejectBlock, DropPipeline, Beneath
    <2>2. Overlaid(rows', NoRows) = rows'
      BY <1>1, OverlaidNothing, Zenon
    <2> QED
      BY <2>1, <2>2, Zenon DEF Beneath
  <1> QED
    BY <1>2, <1>3, Zenon

(* A rollback of the node's own StateDb outside a pipeline.                *)
LEMMA RollbackKeeps ==
    ASSUME TypeOK, TypeOK', TreeMatchesRows, Running, ~leaked,
           logged = NoRows, logged' = NoRows, Rollback
    PROVE  tree' = Beneath' /\ Overlaid(Beneath', undo') = committed'
  <1>1. Beneath = rows
    BY NothingLogged, Zenon
  <1>2. rows' = committed /\ tree' = committed /\ committed' = committed /\ undo' = NoRows
    BY <1>1, Zenon DEF Rollback, TreeMatchesRows
  <1>3. Overlaid(rows', NoRows) = rows'
    BY OverlaidNothing, Zenon DEF TypeOK
  <1>4. Beneath' = rows'
    BY <1>3, Zenon DEF Beneath
  <1> QED
    BY <1>2, <1>3, <1>4, Zenon

(* A rebuild of the node's tree from the rows.                             *)
LEMMA RebuildKeeps ==
    ASSUME TypeOK', logged' = NoRows, RebuildTree(rows')
    PROVE  tree' = Beneath' /\ Overlaid(Beneath', undo') = committed'
  <1>1. Overlaid(rows', NoRows) = rows'
    BY OverlaidNothing, Zenon DEF TypeOK
  <1>2. Beneath' = rows'
    BY <1>1, Zenon DEF Beneath
  <1> QED
    BY <1>1, <1>2, Zenon DEF RebuildTree

(* Every step keeps the trees, the rows and the logs in agreement.         *)
LEMMA AgreementKept ==
    ASSUME TypeOK, TypeOK', TreeMatchesRows, HandlerInv, [Next]_vars
    PROVE  TreeMatchesRows'
  <1> DEFINE Agree == tree = Beneath /\ Overlaid(Beneath, undo) = committed
  <1> SUFFICES ASSUME Running', ~leaked'
               PROVE  Agree'
    BY Zenon DEF TreeMatchesRows
  <1> USE DEF Running, vars, disk, stateDb, pipeline, work, rest
  <1>0. ASSUME ~leaked, Running, UNCHANGED <<rows, stateDb, logged>>
        PROVE  Agree'
    BY <1>0, Zenon DEF TreeMatchesRows, Beneath
  <1>1. ASSUME NEW b \in Blocks, NEW why \in {"vote", "sync"}, BeginBlock(b, why)
        PROVE  Agree'
    BY <1>0, <1>1, Zenon DEF BeginBlock, HandlerInv
  <1>2. ASSUME NEW b \in Blocks, RefuseProposal(b)
        PROVE  Agree'
    BY <1>2, RollbackKeeps, Zenon DEF RefuseProposal, HandlerInv
  <1>31. CASE RunTx
    BY <1>0, <1>31, Zenon DEF RunTx
  <1>32. CASE BeginFinalize
    BY <1>0, <1>32, Zenon DEF BeginFinalize
  <1>33. ASSUME NEW i \in DOMAIN outcomes, NEW a \in Accounts, FlushRow(i, a)
         PROVE  Agree'
    <2>1. Beneath' = Beneath
      BY <1>33, BeneathKept, Zenon
    <2>2. ~leaked /\ Running /\ UNCHANGED stateDb
      BY <1>33, Zenon DEF FlushRow
    <2> QED
      BY <2>1, <2>2, Zenon DEF TreeMatchesRows
  <1>34. CASE BeginStage
    BY <1>0, <1>34, Zenon DEF BeginStage
  <1>3. CASE StageTx
    BY <1>0, <1>3, Zenon DEF StageTx
  <1>4. CASE RejectBlock
    <2>1. Beneath' = Beneath
      BY <1>4, BeneathKept, Zenon
    <2>2. ~leaked /\ Running /\ UNCHANGED stateDb
      BY <1>4, Zenon DEF RejectBlock
    <2> QED
      BY <2>1, <2>2, Zenon DEF TreeMatchesRows
  <1>35. CASE EndReject
    BY <1>35, RebuildKeeps, Zenon DEF EndReject, HandlerInv
  <1>36. CASE AbandonBlock
    BY <1>36, Zenon DEF AbandonBlock
  <1>5. CASE LandBlock
    BY <1>5, RebuildKeeps, Zenon DEF LandBlock, DropPipeline
  <1>6. CASE AdmitBlock
    BY <1>0, <1>6, Zenon DEF AdmitBlock
  <1>7. CASE DeclineBlock
    BY <1>7, RollbackKeeps, Zenon DEF DeclineBlock, HandlerInv
  <1>8. CASE StoreSynced
    BY <1>0, <1>8, Zenon DEF StoreSynced
  <1>9. ASSUME NEW b \in Blocks, BeginBatch(b)
        PROVE  Agree'
    BY <1>0, <1>9, Zenon DEF BeginBatch
  <1>10. ASSUME NEW b \in Blocks, RefuseBatch(b)
        PROVE  Agree'
    BY <1>10, RollbackKeeps, Zenon DEF RefuseBatch, HandlerInv
  <1>11. CASE PutSender
    <2>1. at \in DOMAIN BlockTxs[job] /\ job \in Blocks
      BY <1>11, Zenon DEF PutSender, HandlerInv
    <2>2. CurrentTx \in Txs
      BY <2>1, CurrentTxIsTx, Zenon
    <2>3. SenderOf[CurrentTx] \in Accounts
      BY <2>2, AccountAssumption, Zenon
    <2>4. ~leaked /\ Running /\ logged = NoRows /\ logged' = NoRows
      BY <1>11, Zenon DEF PutSender, PutRow, HandlerInv
    <2> QED
      BY <1>11, <2>3, <2>4, UpdateKeeps, Zenon DEF PutSender, PutRow
  <1>12. CASE PutRecipient
    <2>1. at \in DOMAIN BlockTxs[job] /\ job \in Blocks
      BY <1>12, Zenon DEF PutRecipient, HandlerInv
    <2>2. CurrentTx \in Txs
      BY <2>1, CurrentTxIsTx, Zenon
    <2>3. RecipientOf[CurrentTx] \in Accounts
      BY <2>2, AccountAssumption, Zenon
    <2>4. ~leaked /\ Running /\ logged = NoRows /\ logged' = NoRows
      BY <1>12, Zenon DEF PutRecipient, PutRow, HandlerInv
    <2> QED
      BY <1>12, <2>3, <2>4, UpdateKeeps, Zenon DEF PutRecipient, PutRow
  <1>13. CASE PutRefund
    <2>1. at \in DOMAIN BlockTxs[job] /\ job \in Blocks
      BY <1>13, Zenon DEF PutRefund, HandlerInv
    <2>2. CurrentTx \in Txs
      BY <2>1, CurrentTxIsTx, Zenon
    <2>3. SenderOf[CurrentTx] \in Accounts
      BY <2>2, AccountAssumption
    <2>4. ~leaked /\ Running /\ logged = NoRows /\ logged' = NoRows
      BY <1>13, Zenon DEF PutRefund, PutRow, HandlerInv
    <2> QED
      BY <1>13, <2>3, <2>4, UpdateKeeps, Zenon DEF PutRefund, PutRow
  <1>37. ASSUME ~leaked, Running, logged = NoRows, logged' = NoRows, Commit
         PROVE  Agree'
    <2>1. Beneath = rows /\ Overlaid(rows, NoRows) = rows
      BY <1>37, NothingLogged, OverlaidNothing, Zenon DEF TypeOK
    <2>2. Beneath' = rows
      BY <1>37, <2>1, Zenon DEF Commit, Beneath
    <2> QED
      BY <1>37, <2>1, <2>2, Zenon DEF Commit, TreeMatchesRows
  <1>14. CASE CommitTx
    BY <1>14, <1>37, Zenon DEF CommitTx, HandlerInv
  <1>15. CASE FailBatch
    BY <1>15, RollbackKeeps, Zenon DEF FailBatch, HandlerInv
  <1>16. CASE ProposeBatch
    BY <1>0, <1>16, Zenon DEF ProposeBatch
  <1>17. CASE AbandonBatch
    BY <1>17, RollbackKeeps, Zenon DEF AbandonBatch, HandlerInv
  <1>18. ASSUME NEW b \in Blocks, FinalizeBlock(b)
        PROVE  Agree'
    BY <1>0, <1>18, Zenon DEF FinalizeBlock
  <1>19. CASE CommitFinalized
    BY <1>19, <1>37, Zenon DEF CommitFinalized, HandlerInv
  <1>20. CASE WriteSnapshot
    <2>1. /\ ~leaked /\ Running /\ undo = NoRows /\ logged = NoRows
          /\ UNCHANGED <<rows, tree, undo, logged>> /\ committed' = tree
      BY <1>20, Zenon DEF WriteSnapshot, HandlerInv
    <2>2. Beneath' = Beneath /\ Beneath = rows
      BY <2>1, NothingLogged, Zenon DEF Beneath
    <2>3. Overlaid(rows, NoRows) = rows
      BY OverlaidNothing, Zenon DEF TypeOK
    <2> QED
      BY <2>1, <2>2, <2>3, Zenon DEF TreeMatchesRows
  <1>21. CASE ListSnapshots
    BY <1>0, <1>21, Zenon DEF ListSnapshots
  <1>22. CASE DeleteSnapshots
    BY <1>0, <1>22, Zenon DEF DeleteSnapshots
  <1>23. CASE Stop
    BY <1>23, Zenon DEF Stop, Forget
  <1>24. CASE Crash
    BY <1>24, Zenon DEF Crash, Forget
  <1>25. CASE BeginStart
    BY <1>25, Zenon DEF BeginStart
  <1>26. CASE RefuseStart
    BY <1>26, Zenon DEF RefuseStart, Forget
  <1>27. CASE AcceptStart
    <2>1. rows' = rows /\ logged' = NoRows
      BY <1>27, Zenon DEF AcceptStart, HandlerInv
    <2>2. RebuildTree(rows')
      BY <1>27, <2>1, Zenon DEF AcceptStart
    <2> QED
      BY <2>1, <2>2, RebuildKeeps, Zenon
  <1>28. ASSUME NEW a \in Accounts, Allocate(a)
        PROVE  Agree'
    <2>1. ~leaked /\ Running /\ logged = NoRows /\ logged' = NoRows
      BY <1>28, Zenon DEF Allocate, HandlerInv
    <2> QED
      BY <1>28, <2>1, UpdateKeeps, Zenon DEF Allocate
  <1>29. CASE EndAllocate
    BY <1>0, <1>29, Zenon DEF EndAllocate
  <1>30. CASE UNCHANGED vars
    BY <1>0, <1>30, Zenon
  <1> QED
    BY <1>1, <1>2, <1>3, <1>4, <1>5, <1>6, <1>7, <1>8, <1>9, <1>10, <1>11, <1>12, <1>13,
       <1>14, <1>15, <1>16, <1>17, <1>18, <1>19, <1>20, <1>21, <1>22, <1>23, <1>24,
       <1>25, <1>26, <1>27, <1>28, <1>29, <1>30, <1>31, <1>32, <1>33, <1>34, <1>35, <1>36, Zenon
    DEF Next, StartSteps

(* What the pruning service lists is below the head: Retain is not zero.   *)
LEMMA RemovableBelow ==
    ASSUME TypeOK, ChainInv
    PROVE  \A h \in Removable : h < HeightOf[head]
  <1> SUFFICES ASSUME NEW h \in Removable
               PROVE  h < HeightOf[head]
    OBVIOUS
  <1> DEFINE Above == {g \in Kept : g > h}
  <1>1. Cardinality(Above) >= Retain /\ h \in Heights
    BY Zenon DEF Removable, Kept
  <1>2. Above # {}
    <2>1. Cardinality({}) = 0
      BY FS_EmptySet, Zenon
    <2>2. Retain \in Nat /\ Retain # 0
      BY StateBlockAssumption, Zenon
    <2>3. ~(0 >= Retain)
      BY <2>2
    <2> HIDE DEF Above
    <2> QED
      BY <1>1, <2>1, <2>3, Zenon
  <1>3. PICK g \in Heights : g > h /\ snaps[g] # Unset
    BY <1>2, Zenon DEF Kept
  <1>4. ~(g > HeightOf[head])
    BY <1>3, Zenon DEF ChainInv
  <1>5. HeightOf[head] \in Nat /\ g \in Nat /\ h \in Nat
    BY <1>1, ConstantStates, Zenon DEF TypeOK
  <1> QED
    BY <1>3, <1>4, <1>5
(***************************************************************************)
(* Types                                                                   *)
(***************************************************************************)


(* Every step keeps each snapshot the state of the block at its height.    *)
LEMMA SnapshotsKept ==
    ASSUME TypeOK, TypeOK', SnapshotsAreBlocks, ChainInv, HandlerInv, RowsInv, [Next]_vars
    PROVE  SnapshotsAreBlocks'
  <1> USE DEF SnapshotsAreBlocks
  <1>0. leaked => leaked'
    BY FrameKept, Zenon DEF FrameStep
  <1> SUFFICES ASSUME ~leaked'
               PROVE  SnapshotsAreBlocks'
    OBVIOUS
  <1> USE <1>0
  <1>1. CASE Elsewhere
    BY <1>1, Zenon DEF Elsewhere
  <1>2. CASE StoreSynced
    <2>1. job \in Blocks /\ ParentOf[job] = head
      BY <1>2, Zenon DEF StoreSynced, HandlerInv, TypeOK
    <2>2. /\ HeightOf[job] = HeightOf[head] + 1
          /\ HeightOf[job] \in Heights
          /\ HeightOf[head] \in Nat
      BY <2>1, StateBlockAssumption DEF Heights, AllBlocks, TypeOK
    <2>3. snaps[HeightOf[job]] = Unset
      BY <2>2 DEF ChainInv, TypeOK
    <2> QED
      BY <1>2, <2>2, <2>3, Zenon DEF StoreSynced, TypeOK
  <1>3. ASSUME NEW b \in Blocks, FinalizeBlock(b)
        PROVE  SnapshotsAreBlocks'
    <2>1. HeightOf[b] \in Heights /\ HeightOf[b] \in Nat /\ HeightOf[head] \in Nat
      BY StateBlockAssumption DEF Heights, AllBlocks, TypeOK
    <2>2. CASE ParentOf[b] = head
      <3>1. HeightOf[b] = HeightOf[head] + 1
        BY <2>2, StateBlockAssumption, Zenon
      <3>2. HeightOf[b] > HeightOf[head]
        BY <2>1, <3>1
      <3>3. snaps[HeightOf[b]] = Unset
        BY <2>1, <3>2, Zenon DEF ChainInv
      <3> QED
        BY <1>3, <2>1, <3>3, Zenon DEF FinalizeBlock, TypeOK
    <2>3. CASE ledger[HeightOf[b]] = b
      BY <1>3, <2>1, <2>3 DEF FinalizeBlock, TypeOK
    <2> QED
      BY <1>3, <2>2, <2>3, Zenon DEF FinalizeBlock, TypeOK
  <1>4. CASE WriteSnapshot
    <2>1. rows = HeaderRoot[job] /\ ledger[HeightOf[job]] = job
      BY <1>4, Zenon DEF WriteSnapshot, HandlerInv, RowsInv, TypeOK
    <2> QED
      BY <1>4, <2>1, ConstantStates, Zenon DEF WriteSnapshot, TypeOK
  <1>5. CASE ListSnapshots
    BY <1>5, Zenon DEF ListSnapshots, disk
  <1>6. CASE DeleteSnapshots
    BY <1>6, Zenon DEF DeleteSnapshots
  <1>7. CASE BeginStart
    BY <1>7, Zenon DEF BeginStart
  <1> QED
    BY <1>1, <1>2, <1>3, <1>4, <1>5, <1>6, <1>7, FrameKept, Zenon DEF FrameStep

(* Every step keeps the stored chain's invariant.                          *)
LEMMA ChainKept ==
    ASSUME TypeOK, TypeOK', ChainInv, HandlerInv, [Next]_vars
    PROVE  ChainInv'
  <1> USE DEF ChainInv
  <1>1. CASE Elsewhere
    BY <1>1, Zenon DEF Elsewhere
  <1>2. CASE StoreSynced
    <2>1. job \in Blocks /\ ParentOf[job] = head
      BY <1>2, Zenon DEF StoreSynced, HandlerInv, TypeOK
    <2>2. /\ HeightOf[job] = HeightOf[head] + 1
          /\ HeightOf[job] \in Heights
          /\ HeightOf[head] \in Nat
      BY <2>1, StateBlockAssumption, Zenon DEF Heights, AllBlocks, TypeOK
    <2>3. Heights \subseteq Nat
      BY ConstantStates, Zenon DEF TypeOK
    <2> QED
      BY <1>2, <2>2, <2>3 DEF StoreSynced, TypeOK
  <1>3. ASSUME NEW b \in Blocks, FinalizeBlock(b)
        PROVE  ChainInv'
    <2>1. HeightOf[b] \in Heights /\ HeightOf[b] \in Nat /\ HeightOf[head] \in Nat
      BY StateBlockAssumption DEF Heights, AllBlocks, TypeOK
    <2>2. Heights \subseteq Nat /\ doomed \subseteq Heights
      BY ConstantStates, Zenon DEF TypeOK
    <2>3. /\ ledger \in [Heights -> AllBlocks \cup {Unset}]
          /\ HeightOf[head] \in Heights
      BY ConstantStates, Zenon DEF TypeOK
    <2>4. /\ snaps' = snaps /\ doomed' = doomed /\ pc' # "rebuild"
          /\ ledger' = [ledger EXCEPT ![HeightOf[b]] = b]
      BY <1>3, Zenon DEF FinalizeBlock
    <2>5. CASE HeightOf[b] > HeightOf[head]
      <3>1. head' = b
        BY <1>3, <2>5, Zenon DEF FinalizeBlock
      <3>2. ledger'[HeightOf[b]] = b
        BY <2>1, <2>3, <2>4, Zenon
      <3>3. \A h \in Heights : h > HeightOf[b] => h > HeightOf[head]
        BY <2>1, <2>2, <2>5
      <3>4. \A h \in Heights : h < HeightOf[head] => h < HeightOf[b]
        BY <2>1, <2>2, <2>5
      <3> QED
        BY <2>2, <2>4, <3>1, <3>2, <3>3, <3>4, Zenon
    <2>6. CASE ~(HeightOf[b] > HeightOf[head])
      <3>1. head' = head
        BY <1>3, <2>6, Zenon DEF FinalizeBlock
      <3>2. ledger[HeightOf[b]] = b
        <4>1. ParentOf[b] # head
          BY <2>1, <2>6, StateBlockAssumption
        <4> QED
          BY <1>3, <4>1, Zenon DEF FinalizeBlock
      <3>3. ledger' = ledger
        BY <2>3, <2>4, <3>2, Zenon
      <3> QED
        BY <2>4, <3>1, <3>3, Zenon
    <2> QED
      BY <2>5, <2>6, Zenon
  <1>4. CASE WriteSnapshot
    <2>1. HeightOf[job] <= HeightOf[head]
      BY <1>4, Zenon DEF WriteSnapshot, HandlerInv, TypeOK
    <2>2. HeightOf[head] \in Nat /\ HeightOf[job] \in Nat
      BY StateBlockAssumption, Zenon DEF TypeOK
    <2> QED
      BY <1>4, <2>1, <2>2 DEF WriteSnapshot, TypeOK
  <1>5. CASE ListSnapshots
    BY <1>5, RemovableBelow, Zenon DEF ListSnapshots, disk
  <1>6. CASE DeleteSnapshots
    <2>1. HeightOf[head] \in Heights
      BY ConstantStates, Zenon DEF TypeOK
    <2>2. /\ \A h \in Heights : snaps'[h] = IF h \in doomed THEN Unset ELSE snaps[h]
          /\ doomed' = {}
          /\ ledger' = ledger /\ head' = head /\ pc' = pc /\ rows' = rows
      BY <1>6, Zenon DEF DeleteSnapshots
    <2> QED
      BY <2>1, <2>2, Zenon
  <1>7. CASE BeginStart
    BY <1>7, Zenon DEF BeginStart
  <1> QED
    BY <1>1, <1>2, <1>3, <1>4, <1>5, <1>6, <1>7, FrameKept, Zenon DEF FrameStep

(* Every step keeps what the handlers rely on.                             *)
LEMMA HandlersKept ==
    ASSUME TypeOK, TypeOK', HandlerInv, [Next]_vars
    PROVE  HandlerInv'
  <1> USE DEF HandlerInv, vars, disk, stateDb, pipeline, work, rest
  <1>1. ASSUME NEW b \in Blocks, NEW why \in {"vote", "sync"}, BeginBlock(b, why)
        PROVE  HandlerInv'
    <2>1. Overlaid(rows, NoRows) = rows
      BY OverlaidNothing, Zenon DEF TypeOK
    <2> QED
      BY <1>1, <2>1, Zenon DEF BeginBlock
  <1>2. ASSUME NEW b \in Blocks, RefuseProposal(b)
        PROVE  HandlerInv'
    BY <1>2, Zenon DEF RefuseProposal, Rollback
  <1>31. CASE RunTx
    <2> DEFINE Outcome == [ok : BOOLEAN, writes : Writes]
    <2>1. outcomes \in Seq(Outcome) /\ outcomes' \in Seq(Outcome)
      BY Zenon DEF TypeOK
    <2> DEFINE out == [ok     |-> Executable(Overlaid(rows, memory), CurrentTx),
                       writes |-> WriteSet(Overlaid(rows, memory), CurrentTx)]
    <2>2. outcomes' = Append(outcomes, out)
      BY <1>31, Zenon DEF RunTx
    <2>6. out \in Outcome
      <3>1. CurrentTx \in Txs
        BY <1>31, StateBlockAssumption DEF RunTx, CurrentTx
      <3>2. Overlaid(rows, memory) \in States
        BY OverlaidTypes, Zenon DEF TypeOK
      <3>3. WriteSet(Overlaid(rows, memory), CurrentTx) \in Writes
        BY <3>1, <3>2, WriteSetTypes, Zenon
      <3> QED
        BY <3>3, Zenon DEF Executable
    <2> HIDE DEF out, Outcome
    <2>3. \A i \in DOMAIN outcomes : i \in DOMAIN outcomes' /\ outcomes'[i] = outcomes[i]
      BY <2>1, <2>2, <2>6, AppendKeeps
    <2>4. unflushed' = unflushed /\ pc = "run" /\ pc' = "run"
      BY <1>31, Zenon DEF RunTx
    <2>5. \A w \in unflushed' :
              w[1] \in DOMAIN outcomes' /\ outcomes'[w[1]].writes[w[2]] # Unset
      BY <2>3, <2>4, Zenon
    <2> QED
      BY <1>31, <2>4, <2>5, Zenon DEF RunTx
  <1>32. CASE BeginFinalize
    <2>1. \A w \in unflushed' :
              w[1] \in DOMAIN outcomes' /\ outcomes'[w[1]].writes[w[2]] # Unset
      BY <1>32, Zenon DEF BeginFinalize
    <2> QED
      BY <1>32, <2>1, Zenon DEF BeginFinalize
  <1>33. ASSUME NEW i \in DOMAIN outcomes, NEW a \in Accounts, FlushRow(i, a)
         PROVE  HandlerInv'
    <2>1. deferred = NoRows /\ staged = rows
      BY <1>33, OverlaidNothing, Zenon DEF FlushRow, TypeOK
    <2>2. Overlaid(rows', NoRows) = rows'
      BY OverlaidNothing, Zenon DEF TypeOK
    <2>3. staged' = rows'
      BY <1>33, <2>1, Zenon DEF FlushRow
    <2> QED
      BY <1>33, <2>1, <2>2, <2>3, Zenon DEF FlushRow
  <1>34. CASE BeginStage
    BY <1>34, Zenon DEF BeginStage
  <1>3. CASE StageTx
    <2>1. /\ rows \in States /\ deferred \in Writes /\ outcomes[at].writes \in Writes
      BY <1>3, OutcomeTypes, Zenon DEF TypeOK, StageTx
    <2>2. staged = Overlaid(rows, deferred)
      BY <1>3, Zenon DEF StageTx
    <2>3. /\ staged' = Overlaid(staged, outcomes[at].writes)
          /\ deferred' = Overlaid(deferred, outcomes[at].writes)
      BY <1>3, Zenon DEF StageTx
    <2>4. staged' = Overlaid(rows, deferred')
      BY <2>1, <2>2, <2>3, OverlaidTwice, Zenon
    <2> QED
      BY <1>3, <2>4, Zenon DEF StageTx
  <1>4. CASE RejectBlock
    BY <1>4, Zenon DEF RejectBlock, DropPipeline
  <1>35. CASE EndReject
    BY <1>35, Zenon DEF EndReject, RebuildTree
  <1>36. CASE AbandonBlock
    <2>1. pc' = "idle" /\ unflushed' = {} /\ logged' = NoRows
      BY <1>36, Zenon DEF AbandonBlock, DropPipeline
    <2> QED
      BY <2>1, Zenon
  <1>5. CASE LandBlock
    <2>1. /\ pc' = "landed" /\ unflushed' = {} /\ logged' = NoRows
          /\ job' = job /\ head' = head
          /\ rows' = HeaderRoot[job] /\ job \in Blocks /\ ParentOf[job] = head
      BY <1>5, Zenon DEF LandBlock, DropPipeline, Staged
    <2> QED
      BY <2>1, Zenon
  <1>6. CASE AdmitBlock
    BY <1>6, Zenon DEF AdmitBlock
  <1>7. CASE DeclineBlock
    BY <1>7, Zenon DEF DeclineBlock, Rollback
  <1>8. CASE StoreSynced
    BY <1>8, Zenon DEF StoreSynced
  <1>9. ASSUME NEW b \in Blocks, BeginBatch(b)
        PROVE  HandlerInv'
    BY <1>9, Zenon DEF BeginBatch
  <1>10. ASSUME NEW b \in Blocks, RefuseBatch(b)
        PROVE  HandlerInv'
    BY <1>10, Zenon DEF RefuseBatch, Rollback
  <1>11. CASE PutSender
    BY <1>11, Zenon DEF PutSender, PutRow, UpdateAccount
  <1>12. CASE PutRecipient
    BY <1>12, Zenon DEF PutRecipient, PutRow, UpdateAccount
  <1>13. CASE PutRefund
    BY <1>13, Zenon DEF PutRefund, PutRow, UpdateAccount
  <1>14. CASE CommitTx
    BY <1>14, Zenon DEF CommitTx, Commit
  <1>15. CASE FailBatch
    BY <1>15, Zenon DEF FailBatch, Rollback
  <1>16. CASE ProposeBatch
    BY <1>16, Zenon DEF ProposeBatch
  <1>17. CASE AbandonBatch
    BY <1>17, Zenon DEF AbandonBatch, Rollback
  <1>18. ASSUME NEW b \in Blocks, FinalizeBlock(b)
        PROVE  HandlerInv'
    <2>1. HeightOf[b] \in Heights /\ HeightOf[b] \in Nat /\ HeightOf[head] \in Nat
      BY StateBlockAssumption, Zenon DEF Heights, AllBlocks, TypeOK
    <2>2. pc' = "final" /\ job' = b /\ ledger'[HeightOf[b]] = b
      BY <1>18, <2>1, Zenon DEF FinalizeBlock, TypeOK
    <2>3. HeightOf[b] <= HeightOf[head']
      <3>1. CASE HeightOf[b] > HeightOf[head]
        <4>1. head' = b
          BY <1>18, <3>1, Zenon DEF FinalizeBlock
        <4> QED
          BY <2>1, <4>1
      <3>2. CASE ~(HeightOf[b] > HeightOf[head])
        <4>1. head' = head
          BY <1>18, <3>2, Zenon DEF FinalizeBlock
        <4>2. HeightOf[b] <= HeightOf[head]
          BY <2>1, <3>2
        <4> QED
          BY <4>1, <4>2, Zenon
      <3> QED
        BY <3>1, <3>2, Zenon
    <2>4. logged' = NoRows /\ unflushed' = unflushed /\ outcomes' = outcomes
      BY <1>18, Zenon DEF FinalizeBlock
    <2> QED
      BY <2>2, <2>3, <2>4, Zenon
  <1>19. CASE CommitFinalized
    BY <1>19, Zenon DEF CommitFinalized, Commit
  <1>20. CASE WriteSnapshot
    BY <1>20, Zenon DEF WriteSnapshot
  <1>21. CASE ListSnapshots
    BY <1>21, Zenon DEF ListSnapshots
  <1>22. CASE DeleteSnapshots
    BY <1>22, Zenon DEF DeleteSnapshots
  <1>23. CASE Stop
    BY <1>23, Zenon DEF Stop, Forget, DropPipeline
  <1>24. CASE Crash
    BY <1>24, Zenon DEF Crash, Forget, DropPipeline
  <1>25. CASE BeginStart
    BY <1>25, Zenon DEF BeginStart
  <1>26. CASE RefuseStart
    BY <1>26, Zenon DEF RefuseStart, Forget, DropPipeline
  <1>27. CASE AcceptStart
    BY <1>27, Zenon DEF AcceptStart, RebuildTree
  <1>28. ASSUME NEW a \in Accounts, Allocate(a)
        PROVE  HandlerInv'
    BY <1>28, Zenon DEF Allocate, UpdateAccount
  <1>29. CASE EndAllocate
    BY <1>29, Zenon DEF EndAllocate
  <1>30. CASE UNCHANGED vars
    BY <1>30, Zenon
  <1> QED
    BY <1>1, <1>2, <1>3, <1>4, <1>5, <1>6, <1>7, <1>8, <1>9, <1>10, <1>11, <1>12, <1>13,
       <1>14, <1>15, <1>16, <1>17, <1>18, <1>19, <1>20, <1>21, <1>22, <1>23, <1>24,
       <1>25, <1>26, <1>27, <1>28, <1>29, <1>30, <1>31, <1>32, <1>33, <1>34, <1>35, <1>36, Zenon
    DEF Next, StartSteps

(* Every step keeps what the rows are, or abandons a block.                *)
LEMMA RowsKept ==
    ASSUME TypeOK, TypeOK', TreeMatchesRows, HandlerInv, RowsInv, [Next]_vars
    PROVE  RowsInv'
  <1>0. leaked => leaked'
    BY FrameKept, Zenon DEF FrameStep
  <1> SUFFICES ASSUME ~leaked', ~leaked
               PROVE  RowsInv'
    BY <1>0, Zenon DEF RowsInv
  <1>1. ASSUME pc' \in {"run", "flush", "stage"}
        PROVE  Beneath' = HeaderRoot[ParentOf[job']]
    <2>1. ASSUME NEW b \in Blocks, NEW why \in {"vote", "sync"}, BeginBlock(b, why)
          PROVE  Beneath' = HeaderRoot[ParentOf[job']]
      <3>1. pc = "idle" /\ logged' = NoRows /\ rows' = rows /\ job' = b
            /\ tree = HeaderRoot[ParentOf[b]]
        BY <2>1, Zenon DEF BeginBlock, ProofVerifies
      <3>2. Beneath = rows /\ Overlaid(rows, NoRows) = rows
        BY <3>1, NothingLogged, OverlaidNothing, Zenon DEF HandlerInv, TypeOK
      <3>3. tree = Beneath
        BY <3>1, Zenon DEF TreeMatchesRows, Running
      <3> QED
        BY <3>1, <3>2, <3>3, Zenon DEF Beneath
    <2>2. ASSUME NEW i \in DOMAIN outcomes, NEW a \in Accounts, FlushRow(i, a)
          PROVE  Beneath' = HeaderRoot[ParentOf[job']]
      <3>1. Beneath' = Beneath
        BY <2>2, BeneathKept, Zenon
      <3>2. pc = "flush" /\ job' = job
        BY <2>2, Zenon DEF FlushRow, work
      <3> QED
        BY <3>1, <3>2, Zenon DEF RowsInv
    <2>3. CASE pc \in {"run", "flush", "stage"} /\ UNCHANGED <<rows, logged, job>>
      BY <2>3, Zenon DEF RowsInv, Beneath
    <2> QED
      BY <1>1, <2>1, <2>2, <2>3, FrameKept, Zenon DEF FrameStep
  <1>2. ASSUME pc' = "snap"
        PROVE  rows' = HeaderRoot[job']
    <2>1. CASE pc = "snap" /\ UNCHANGED <<rows, job>>
      BY <2>1, Zenon DEF RowsInv
    <2>2. CASE CommitFinalized
      <3>1. pc = "final" /\ rows' = rows /\ job' = job /\ tree = HeaderRoot[job]
        BY <1>2, <2>2, Zenon DEF CommitFinalized, Commit, work
      <3>2. tree = Beneath /\ Beneath = rows
        BY <3>1, NothingLogged, Zenon DEF TreeMatchesRows, Running, HandlerInv
      <3> QED
        BY <3>1, <3>2, Zenon
    <2> QED
      BY <1>2, <2>1, <2>2, FrameKept, Zenon DEF FrameStep
  <1> QED
    BY <1>1, <1>2, Zenon DEF RowsInv

(***************************************************************************)
(* Theorems                                                                *)
(***************************************************************************)

(* The first start of a fresh database establishes the invariant.          *)
LEMMA InitInvariant == Init => TypeOK /\ StateInv
  <1> SUFFICES ASSUME Init
               PROVE  TypeOK /\ StateInv
    OBVIOUS
  <1>1. Genesis \in AllBlocks /\ HeightOf[Genesis] = 0 /\ 0 \in Heights
    BY StateBlockAssumption, Zenon DEF AllBlocks, Heights
  <1>2. TypeOK
    <2>1. outcomes \in Seq([ok : BOOLEAN, writes : Writes]) /\ unflushed \subseteq (Nat \X Accounts)
      BY DEF Init
    <2>2. MaxOutages \in Nat
      BY StateBlockAssumption, Zenon
    <2> QED
      BY <1>1, <2>1, <2>2, ConstantStates DEF Init, TypeOK
  <1>3. TreeMatchesRows
    BY <1>1, ConstantStates, OverlaidNothing, Zenon DEF Init, TreeMatchesRows, Beneath
  <1>4. SnapshotsAreBlocks
    BY Zenon DEF Init, SnapshotsAreBlocks
  <1>5. ChainInv /\ HandlerInv /\ RowsInv
    BY <1>1, Zenon DEF Init, ChainInv, HandlerInv, RowsInv
  <1> QED
    BY <1>2, <1>3, <1>4, <1>5, Zenon DEF StateInv

(* The types and the invariant hold in every state a node reaches, through *)
(* executions, batches, refusals, pruning, crashes and starts.             *)
THEOREM StateInvariance == Spec => [](TypeOK /\ StateInv)
  <1>1. TypeOK /\ StateInv /\ [Next]_vars => TypeOK' /\ StateInv'
    <2> SUFFICES ASSUME TypeOK, StateInv, [Next]_vars
                 PROVE  TypeOK' /\ StateInv'
      OBVIOUS
    <2>1. TypeOK'
      BY TypesKept, Zenon
    <2>2. TreeMatchesRows /\ SnapshotsAreBlocks /\ ChainInv /\ HandlerInv /\ RowsInv
      BY Zenon DEF StateInv
    <2>3. TreeMatchesRows'
      BY <2>1, <2>2, AgreementKept, Zenon
    <2>4. SnapshotsAreBlocks'
      BY <2>1, <2>2, SnapshotsKept, Zenon
    <2>5. ChainInv'
      BY <2>1, <2>2, ChainKept, Zenon
    <2>6. HandlerInv'
      BY <2>1, <2>2, HandlersKept, Zenon
    <2>7. RowsInv'
      BY <2>1, <2>2, RowsKept, Zenon
    <2> QED
      BY <2>1, <2>3, <2>4, <2>5, <2>6, <2>7, Zenon DEF StateInv
  <1> QED
    BY <1>1, InitInvariant, PTL DEF Spec

(* Whenever the node runs, the tree it serves roots from is the tree of    *)
(* the rows, and undoing the log leads to the committed tree.              *)
THEOREM TreeMatchesRowsTheorem == Spec => []TreeMatchesRows
  <1>1. TypeOK /\ StateInv => TreeMatchesRows
    BY Zenon DEF StateInv
  <1> QED
    BY <1>1, StateInvariance, PTL

(* Every snapshot is the state of the block stored at its height.          *)
THEOREM SnapshotsTheorem == Spec => []SnapshotsAreBlocks
  <1>1. TypeOK /\ StateInv => SnapshotsAreBlocks
    BY Zenon DEF StateInv
  <1> QED
    BY <1>1, StateInvariance, PTL

(* The pruning service never takes the snapshot of the latest block, even  *)
(* when blocks are stored between its listing and its deletions.           *)
THEOREM LatestSnapshotTheorem == Spec => LatestSnapshotStays
  <1>1. TypeOK /\ StateInv /\ [Next]_vars =>
            [snaps[HeightOf[head]] # Unset => snaps'[HeightOf[head]] # Unset]_vars
    <2> SUFFICES ASSUME TypeOK, StateInv, Next, snaps[HeightOf[head]] # Unset
                 PROVE  snaps'[HeightOf[head]] # Unset
      BY Zenon DEF vars
    <2>1. /\ HeightOf[head] \in Heights /\ HeightOf[head] \in Nat
          /\ snaps \in [Heights -> {Unset} \cup States]
      BY ConstantStates, Zenon DEF TypeOK
    <2>2. CASE DeleteSnapshots
      <3>1. HeightOf[head] \notin doomed
        BY <2>1, Zenon DEF StateInv, ChainInv
      <3> QED
        BY <2>1, <2>2, <3>1, Zenon DEF DeleteSnapshots
    <2>3. CASE WriteSnapshot
      <3>1. rows # Unset
        BY StateBlockAssumption, Zenon DEF TypeOK
      <3> QED
        BY <2>1, <2>3, <3>1, Zenon DEF WriteSnapshot
    <2>4. snaps' = snaps \/ DeleteSnapshots \/ WriteSnapshot
      BY FrameKept, Zenon DEF FrameStep, Elsewhere, StoreSynced, FinalizeBlock, ListSnapshots, BeginStart,
                       disk
    <2> QED
      BY <2>2, <2>3, <2>4, Zenon
  <1> QED
    BY <1>1, StateInvariance, PTL DEF Spec, LatestSnapshotStays

(* No block becomes the head that this node has not executed itself.       *)
THEOREM StoredTheorem == Spec => StoredWasExecuted
  <1>1. TypeOK /\ StateInv /\ [Next]_vars =>
            [head' # head => rows = HeaderRoot[head'] \/ head' \in admitted]_vars
    <2> SUFFICES ASSUME StateInv, Next, head' # head
                 PROVE  rows = HeaderRoot[head'] \/ head' \in admitted
      BY Zenon DEF vars
    <2>1. CASE StoreSynced
      BY <2>1, Zenon DEF StoreSynced, StateInv, HandlerInv
    <2>2. ASSUME NEW b \in Blocks, FinalizeBlock(b)
          PROVE  head' \in admitted
      BY <2>2, Zenon DEF FinalizeBlock
    <2>3. StoreSynced \/ \E b \in Blocks : FinalizeBlock(b)
      BY FrameKept, Zenon DEF FrameStep, Elsewhere, WriteSnapshot, ListSnapshots, DeleteSnapshots,
                       BeginStart, disk
    <2> QED
      BY <2>1, <2>2, <2>3, Zenon
  <1> QED
    BY <1>1, StateInvariance, PTL DEF Spec, StoredWasExecuted

(* A rejected block leaves the post-state of its parent in the rows.       *)
THEOREM RejectTheorem == Spec => RejectRestoresParent
  <1>1. TypeOK /\ StateInv /\ [Next]_vars =>
            [pc' = "undone" /\ pc # "undone" /\ ~leaked => rows' = HeaderRoot[ParentOf[job]]]_vars
    <2> SUFFICES ASSUME StateInv, Next, pc' = "undone", pc # "undone", ~leaked
                 PROVE  rows' = HeaderRoot[ParentOf[job]]
      BY Zenon DEF vars
    <2>1. RejectBlock
      BY FrameKept, Zenon DEF FrameStep
    <2> QED
      BY <2>1, Zenon DEF RejectBlock, StateInv, RowsInv, Beneath
  <1> QED
    BY <1>1, StateInvariance, PTL DEF Spec, RejectRestoresParent

(* A start that finds the snapshot of the latest block ends in that        *)
(* block's state.                                                          *)
THEOREM StartRestoresTheorem == Spec => StartRestoresHead
  <1>1. TypeOK /\ StateInv /\ [Next]_vars =>
            [pc = "rebuild" /\ pc' = "idle" /\ snaps[HeightOf[head]] # Unset /\ ~leaked =>
                rows' = HeaderRoot[head]]_vars
    <2> SUFFICES ASSUME TypeOK, StateInv, Next, pc = "rebuild", pc' = "idle",
                        snaps[HeightOf[head]] # Unset, ~leaked
                 PROVE  rows' = HeaderRoot[head]
      BY Zenon DEF vars
    <2>1. AcceptStart
      BY FrameKept, Zenon DEF FrameStep
    <2>2. HeightOf[head] # 0 /\ rows' = rows
      BY <2>1, Zenon DEF AcceptStart
    <2>3. HeightOf[head] \in Heights /\ HeightOf[head] \in Nat
      BY ConstantStates, Zenon DEF TypeOK
    <2>4. HeightOf[head] > 0
      BY <2>2, <2>3
    <2>5. rows = snaps[HeightOf[head]] /\ ledger[HeightOf[head]] = head
      BY <2>4, Zenon DEF StateInv, ChainInv
    <2> QED
      BY <2>2, <2>3, <2>5, Zenon DEF StateInv, SnapshotsAreBlocks
  <1> QED
    BY <1>1, StateInvariance, PTL DEF Spec, StartRestoresHead

=============================================================================
