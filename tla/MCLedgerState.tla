--------------------------- MODULE MCLedgerState ---------------------------
(* The two sides of what a finalized block changes, each checked by itself: *)
(* the account rows with their snapshots, and the stake, the validator set *)
(* and the governance lists.  The initial state chooses one of them.       *)
(*                                                                         *)
(* Rows: three accounts.  A chain B1, B2, B3; siblings C1 and C2 of its    *)
(* blocks; a block X1 whose header does not match its body; two batches    *)
(* P1, P2 of our own whose second transaction cannot be paid for; a batch  *)
(* D1 that a leader builds over the rows of B1 before B1 is final; a block *)
(* F1 with the transactions of P1, which an importer runs to a failed      *)
(* receipt; and a batch G1 of two senders.                                 *)
(*                                                                         *)
(* Stake: two genesis validators with two units of stake and one address   *)
(* that may be voted in; one delegator; a genuine and a forged accusation. *)
(* Each budget is an instance: how many calls of each class may happen.    *)
EXTENDS StateStore, ProofOfStake, TLC

CONSTANTS alice, bob, carol, t1, t2, t3, t4, t5, t6, B1, B2, B3, C1, C2, X1, P1, P2, D1, F1, G1,
          v1, v2, v3, d1, o1, o2, w1, w2, u1

VARIABLE part

MCSenderOf == [t \in Txs |-> CASE t \in {t2, t5} -> bob [] t = t6 -> carol [] OTHER -> alice]
MCRecipientOf == [t \in Txs |-> IF t \in {t2, t5} THEN alice ELSE bob]
MCEarlier == [t \in Txs |-> CASE t \in {t3, t4} -> {t1} [] t = t5 -> {t2} [] OTHER -> {}]
MCExhausts == [t \in Txs |-> IF t = t4 THEN {t1} ELSE {}]

MCHeightOf == [b \in AllBlocks |-> CASE b = Genesis -> 0
                                     [] b \in {B2, C2, P2} -> 2
                                     [] b = B3 -> 3
                                     [] OTHER -> 1]
MCParentOf == [b \in Blocks |-> CASE b \in {B2, C2, P2} -> B1 [] b = B3 -> B2 [] OTHER -> Genesis]
MCBlockTxs ==
    [b \in Blocks |-> CASE b \in {B1, X1} -> <<t1, t2>>
                        [] b \in {B2, D1} -> <<t3>>
                        [] b \in {B3, C2} -> <<t5>>
                        [] b = C1 -> <<t2>>
                        [] b = G1 -> <<t1, t6>>
                        [] b \in {P1, F1} -> <<t1, t4>>
                        [] b = P2 -> <<t5, t4>>]

(* The states after each of a list of transactions, run one by one.        *)
RanEach(state, txs) ==
    LET after[n \in 0 .. Len(txs)] ==
            IF n = 0 THEN state ELSE Overlaid(after[n - 1], WriteSet(after[n - 1], txs[n]))
    IN  [n \in DOMAIN txs |-> after[n]]

Ran(state, txs) == RanEach(state, txs)[Len(txs)]

AfterB1 == Ran(EmptyState, <<t1, t2>>)
AfterB2 == Ran(AfterB1, <<t3>>)

MCHeaderRoot ==
    [b \in AllBlocks |-> CASE b = B1 -> AfterB1
                           [] b = B2 -> AfterB2
                           [] b = B3 -> Ran(AfterB2, <<t5>>)
                           [] b = C1 -> Ran(EmptyState, <<t2>>)
                           [] b = G1 -> Ran(EmptyState, <<t1, t6>>)
                           [] b = C2 -> Ran(AfterB1, <<t5>>)
                           [] OTHER -> EmptyState]

MCHeaderReceipts == [b \in Blocks |-> RanEach(MCHeaderRoot[MCParentOf[b]], MCBlockTxs[b])]

-----------------------------------------------------------------------------
MCRowOrder == <<v1, v2, v3>>

MCAccusedOf == (o1 :> v1) @@ (o2 :> v2)
MCGenuineOf == (o1 :> TRUE) @@ (o2 :> FALSE)
MCSlashBps == (o1 :> 5000) @@ (o2 :> 5000)

Admit == [kind |-> "AddValidator", who |-> v3, stake |-> 2]
Readmit == [kind |-> "AddValidator", who |-> v1, stake |-> 4]
Expel == [kind |-> "RemoveValidator", who |-> v2]
Upgrade == [kind |-> "SoftwareUpgrade", name |-> u1, version |-> 2, at |-> 3]

Budget(s, e, ids, g, bodies, u, b, m, c, l) ==
    [stake |-> s, evidence |-> e, ids |-> ids, submit |-> g[1], vote |-> g[2], tally |-> g[3],
     bodies |-> bodies, upgrade |-> u, block |-> b, missed |-> m, crash |-> c, lossy |-> l]

Nothing == <<0, 0, 0>>
Detected == {<<"self", o1>>}

(* Positions and lockups; jailings; a failed restore; evidence over two    *)
(* epochs; evidence executed again after a crash; two proposals; a voted   *)
(* upgrade; one voted by the validators; both; a slashed validator voted   *)
(* back in.                                                                *)
MCBudgets == {Budget(3, 0, {}, Nothing, {}, 0, 3, 0, 1, 0),
              Budget(1, 0, {}, Nothing, {}, 0, 3, 2, 1, 0),
              Budget(2, 0, {}, Nothing, {}, 0, 2, 0, 1, 1),
              Budget(0, 4, EvidenceIds, Nothing, {}, 0, 2, 0, 1, 0),
              Budget(0, 6, Detected, Nothing, {}, 0, 2, 0, 1, 0),
              Budget(0, 0, {}, <<2, 2, 1>>, {Admit, Expel}, 0, 2, 0, 0, 0),
              Budget(0, 0, {}, <<1, 2, 2>>, {Upgrade}, 0, 3, 0, 1, 0),
              Budget(0, 0, {}, Nothing, {}, 4, 2, 0, 1, 0),
              Budget(0, 0, {}, <<1, 1, 1>>, {Upgrade}, 2, 3, 0, 0, 0),
              Budget(0, 3, Detected, <<1, 1, 1>>, {Readmit}, 0, 2, 0, 0, 0)}

-----------------------------------------------------------------------------
MCInit ==
    /\ part \in {"rows", "stake"}
    /\ Init
    /\ StakeInit /\ (part # "stake" => budget = CHOOSE x \in Budgets : TRUE)

MCNext ==
    \/ part = "rows" /\ Next /\ UNCHANGED <<part, stakeVars>>
    \/ part = "stake" /\ StakeNext /\ UNCHANGED <<part, vars>>

\* A node that is down is started again, as often as it takes.
MCSpec ==
    /\ MCInit /\ [][MCNext]_<<part, vars, stakeVars>>
    /\ WF_vars(part = "rows" /\ StartSteps)
=============================================================================
