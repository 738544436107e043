--------------------------- MODULE MCCommitReveal ---------------------------
(***************************************************************************)
(* Small instances of CommitReveal.  Two senders; s1 sends the             *)
(* transactions t0 and t1, with nonces 0 and 1.  The commitments p0 and q0 *)
(* both hide t0: a wallet that submits it twice.                           *)
(***************************************************************************)
EXTENDS CommitReveal

CONSTANTS s1, s2, t0, t1, p0, q0, p1

MCTxOf == [h \in Hashes |-> IF h = p1 THEN t1 ELSE t0]
MCGossip == {Commit(p0, s1, 3), Commit(p0, s2, 3)}
MCSenderOf == [t \in Txs |-> s1]
MCNonceOf == [t \in Txs |-> IF t = t1 THEN 1 ELSE 0]
=============================================================================
