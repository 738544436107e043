------------------------- MODULE CommitRevealProofs -------------------------
(***************************************************************************)
(* The safety properties of the commit-reveal pool, for every set of       *)
(* senders, transactions and commitments, every window and limit, and any  *)
(* number of proposals, crashes and restarts.                              *)
(***************************************************************************)
EXTENDS CommitReveal, FiniteSetTheorems, TLAPS

(***************************************************************************)
(* Sequences and orders                                                    *)
(***************************************************************************)

(* The positions of a finite set of numbers are 1, 2, ... without a gap:   *)
(* what Pick counts on when it numbers the pairs it takes.                 *)
LEMMA PositionsOnto ==
    ASSUME NEW S \in SUBSET Nat, IsFiniteSet(S)
    PROVE  /\ \A i \in S : Cardinality({j \in S : j <= i}) \in 1 .. Cardinality(S)
           /\ \A i, l \in S : Cardinality({j \in S : j <= i}) = Cardinality({j \in S : j <= l})
                                 => i = l
           /\ \A k \in 1 .. Cardinality(S) : \E i \in S : Cardinality({j \in S : j <= i}) = k
  <1> DEFINE Upto(i) == {j \in S : j <= i}
             rank == [i \in S |-> Cardinality(Upto(i))]
             n == Cardinality(S)
  <1>1. n \in Nat
    BY FS_CardinalityType, Zenon
  <1>2. \A i \in S : /\ IsFiniteSet(Upto(i)) /\ Upto(i) # {}
                     /\ Cardinality(Upto(i)) \in Nat /\ Cardinality(Upto(i)) <= n
    BY FS_Subset, FS_CardinalityType
  <1>3. \A i \in S : Cardinality(Upto(i)) \in 1 .. n
    <2> SUFFICES ASSUME NEW i \in S PROVE Cardinality(Upto(i)) \in 1 .. n
      OBVIOUS
    <2>1. Cardinality(Upto(i)) # 0
      BY <1>2, FS_EmptySet, Zenon
    <2> HIDE DEF Upto, n
    <2> QED BY <1>1, <1>2, <2>1
  <1>4. ASSUME NEW i \in S, NEW l \in S, i < l
        PROVE  Cardinality(Upto(i)) # Cardinality(Upto(l))
    <2>1. \A j \in S : j <= i => j <= l
      BY <1>4
    <2>2. l <= l /\ ~(l <= i)
      BY <1>4
    <2>3. Upto(i) \subseteq Upto(l) /\ l \in Upto(l) /\ l \notin Upto(i)
      BY <2>1, <2>2, Zenon
    <2> HIDE DEF Upto
    <2> QED BY <1>2, <2>3, FS_Subset, Zenon
  <1>5. \A i, l \in S : Cardinality(Upto(i)) = Cardinality(Upto(l)) => i = l
    <2> SUFFICES ASSUME NEW i \in S, NEW l \in S, i # l
                 PROVE  Cardinality(Upto(i)) # Cardinality(Upto(l))
      OBVIOUS
    <2>1. i < l \/ l < i
      OBVIOUS
    <2> HIDE DEF Upto
    <2> QED BY <1>4, <2>1, Zenon
  <1>6. rank \in Injection(S, 1 .. n)
    <2> HIDE DEF Upto, n
    <2> QED BY <1>3, <1>5, Zenon DEF Injection, IsInjective
  <1>7. IsFiniteSet(1 .. n) /\ Cardinality(1 .. n) = n
    <2> HIDE DEF n
    <2> QED BY <1>1, FS_Interval
  <1>8. rank \in Surjection(S, 1 .. n)
    <2> HIDE DEF rank
    <2> QED BY <1>6, <1>7, FS_Injection, Zenon
  <1>9. \A k \in 1 .. n : \E i \in S : Cardinality(Upto(i)) = k
    <2> HIDE DEF Upto, n
    <2> QED BY <1>8, Zenon DEF Surjection
  <1> QED BY <1>3, <1>5, <1>9, Zenon

(* Pick takes exactly the pairs at the given positions.                    *)
LEMMA PickTakes ==
    ASSUME NEW X, NEW pairs \in Seq(X), NEW S \in SUBSET DOMAIN pairs
    PROVE  /\ Pick(pairs, S) \in Seq(X)
           /\ Range(Pick(pairs, S)) = {pairs[i] : i \in S}
  <1> DEFINE Place(i) == Cardinality({j \in S : j <= i})
             Slot(k) == CHOOSE i \in S : Place(i) = k
  <1>1. DOMAIN pairs = 1 .. Len(pairs) /\ Len(pairs) \in Nat
    OBVIOUS
  <1>2. IsFiniteSet(S) /\ S \in SUBSET Nat /\ Cardinality(S) \in Nat
    <2>1. IsFiniteSet(DOMAIN pairs)
      BY <1>1, FS_Interval
    <2>2. IsFiniteSet(S)
      BY <2>1, FS_Subset, Zenon
    <2> QED BY <1>1, <2>2, FS_CardinalityType
  <1>3. /\ \A i \in S : Place(i) \in 1 .. Cardinality(S)
        /\ \A i, l \in S : Place(i) = Place(l) => i = l
        /\ \A k \in 1 .. Cardinality(S) : \E i \in S : Place(i) = k
    BY <1>2, PositionsOnto, Zenon
  <1>4. Pick(pairs, S) = [k \in 1 .. Cardinality(S) |-> pairs[Slot(k)]]
    BY Zenon DEF Pick
  <1> HIDE DEF Place
  <1>5. \A k \in 1 .. Cardinality(S) : Slot(k) \in S
    BY <1>3, Zenon
  <1>6. \A i \in S : Place(i) \in 1 .. Cardinality(S) /\ Slot(Place(i)) = i
    BY <1>3, Zenon
  <1> HIDE DEF Slot
  <1>7. Pick(pairs, S) \in [1 .. Cardinality(S) -> X]
    BY <1>1, <1>4, <1>5
  <1>8. Pick(pairs, S) \in Seq(X)
    BY <1>2, <1>7
  <1>9. Range(Pick(pairs, S)) = {pairs[i] : i \in S}
    BY <1>4, <1>5, <1>6 DEF Range
  <1> QED BY <1>8, <1>9, Zenon

(* An arrangement of pairs is one of the same pairs.                       *)
LEMMA ArrangementKeeps ==
    ASSUME NEW X, NEW pairs \in Seq(X), NEW p \in Arrangements(pairs)
    PROVE  p \in Seq(X) /\ Range(p) = Range(pairs) /\ (p = <<>> <=> pairs = <<>>)
  <1>1. PICK f \in Bijection(DOMAIN pairs, DOMAIN pairs) : p = [i \in DOMAIN pairs |-> pairs[f[i]]]
    BY Zenon DEF Arrangements
  <1>2. /\ f \in [DOMAIN pairs -> DOMAIN pairs]
        /\ \A i \in DOMAIN pairs : \E j \in DOMAIN pairs : f[j] = i
    BY <1>1, Zenon DEF Bijection, Injection, Surjection
  <1>3. DOMAIN pairs = 1 .. Len(pairs) /\ Len(pairs) \in Nat
    OBVIOUS
  <1>4. p \in [1 .. Len(pairs) -> X]
    BY <1>1, <1>2, <1>3
  <1>5. p \in Seq(X)
    BY <1>3, <1>4
  <1>6. Range(p) = Range(pairs)
    BY <1>1, <1>2, Zenon DEF Range
  <1>7. p = <<>> <=> pairs = <<>>
    BY <1>1, <1>3, <1>5
  <1> QED BY <1>5, <1>6, <1>7, Zenon

(* An order of a finite set lists all of it.                               *)
LEMMA OrderCovers ==
    ASSUME NEW R, IsFiniteSet(R), NEW order \in Orders(R)
    PROVE  order \in Seq(R) /\ Range(order) = R /\ DOMAIN order = 1 .. Cardinality(R)
  <1> DEFINE n == Cardinality(R)
  <1>1. n \in Nat
    BY FS_CardinalityType, Zenon
  <1>2. order \in [1 .. n -> R]
    BY Zenon DEF Orders, Injection
  <1>3. order \in Injection(1 .. n, R)
    BY Zenon DEF Orders
  <1>4. IsFiniteSet(1 .. n) /\ Cardinality(1 .. n) = n
    BY <1>1, FS_Interval
  <1>5. order \in Surjection(1 .. n, R)
    BY <1>3, <1>4, FS_Injection, Zenon
  <1>6. Range(order) = R
    BY <1>2, <1>5, Zenon DEF Range, Surjection
  <1>7. order \in Seq(R)
    BY <1>1, <1>2
  <1> QED BY <1>2, <1>6, <1>7, Zenon

(***************************************************************************)
(* The inductive invariant                                                 *)
(***************************************************************************)

(* A commit to a transaction of the commit's own sender.                   *)
Pairs == {c \in Commits : c.sender = TxSender(c)}

Blocks == [txs : Seq(Txs), valid : BOOLEAN]

(* The node: the chain stays below its bound because a block is pending    *)
(* only while the state rows hold one.                                     *)
NodeShape ==
    /\ chain \in Nat /\ chain <= MaxHeight /\ height \in Nat /\ height <= chain
    /\ executed \in Blocks \cup {None} /\ candidate \in Blocks \cup {None}
    /\ candidate # None => executed # None /\ chain < MaxHeight
    /\ finalised \subseteq Txs /\ rows \in [Senders -> Nat]
    /\ serviceStarted \in BOOLEAN /\ snapshot \in BOOLEAN

(* The tables of commits and reveals, in memory and in storage.            *)
TableShape ==
    /\ pending \subseteq Commits /\ commitRows \subseteq Commits
    /\ seen \subseteq Commits /\ admitted \subseteq Commits
    /\ queued \subseteq [commit : Commits, at : Nat]
    /\ revealRows \subseteq [commit : Commits, at : Nat]
    /\ \A r \in revealRows : r.commit \in Pairs
    /\ count \in [Senders -> Nat]

(* The queue of revealed pairs and the reservations.                       *)
QueueShape ==
    /\ revealed \in Seq(Pairs)
    /\ nextId \in Nat \ {0}
    /\ DOMAIN reserved \subseteq 1 .. nextId - 1
    /\ \A i \in DOMAIN reserved : reserved[i] \in Seq(Pairs)
    /\ active \subseteq Txs

(* Every table of the pool is finite.                                      *)
Finite ==
    /\ IsFiniteSet(pending) /\ IsFiniteSet(commitRows)
    /\ IsFiniteSet(queued) /\ IsFiniteSet(revealRows) /\ IsFiniteSet(finalised)

(* A pending commit is not expired: drop_unrevealed_commits runs before    *)
(* anything reads the table at the new height.                             *)
PendingLive == \A c \in pending : ~IsExpired(c, height)

(* prune_seen_commits forgets a commit only when it is too old to insert.  *)
ForgottenIsOld ==
    \A c \in admitted \ seen : c.at + 1 <= chain /\ (height = 0 \/ c.at + 1 < height)

(* The counter may drift above the number of pending commits, never below, *)
(* and a commit row is of a pending commit or of one that was revealed.    *)
CountCovers ==
    /\ \A s \in Senders : Cardinality(Owned(pending, s)) <= count[s]
    /\ \A c \in commitRows : c \in pending \/ \E r \in revealRows : r.commit = c

PoolInv ==
    /\ NodeShape
    /\ TableShape
    /\ QueueShape
    /\ Finite
    /\ PendingLive
    /\ ForgottenIsOld
    /\ CountCovers
    /\ PendingWithinLimit
    /\ ReservationsExact
    /\ PoolIsDurable

(***************************************************************************)
(* Commits, pairs and what the operators of the pool return                *)
(***************************************************************************)

LEMMA Bounds ==
    /\ Window \in Nat /\ Window > 0 /\ Expiry \in Nat /\ PruneSlack \in Nat
    /\ MaxPerSender \in Nat /\ FirstHeight \in Nat /\ MaxHeight \in Nat
    /\ FirstHeight <= MaxHeight
  BY PoolAssumption, Zenon

LEMMA CommitFields ==
    \A c \in Commits : /\ c.at \in Nat /\ c.sender \in Senders /\ c.hash \in Hashes
                       /\ Tx(c) \in Txs /\ TxSender(c) \in Senders
  BY PoolAssumption, Zenon DEF Commits, Tx, TxSender

(* The commit restore_from_storage rebuilds from a reveal is one of the    *)
(* transaction's sender, to the same transaction.                          *)
LEMMA RebuiltCommit ==
    ASSUME NEW c \in Commits, NEW n \in Nat
    PROVE  /\ Commit(c.hash, TxSender(c), Monus(n, 1)) \in Pairs
           /\ Tx(Commit(c.hash, TxSender(c), Monus(n, 1))) = Tx(c)
  <1> DEFINE d == Commit(c.hash, TxSender(c), Monus(n, 1))
  <1>1. Monus(n, 1) \in Nat
    BY DEF Monus
  <1>2. d \in Commits
    BY <1>1, CommitFields, Zenon DEF Commit, Commits
  <1>3. d.hash = c.hash /\ d.sender = TxSender(c)
    BY Zenon DEF Commit
  <1>4. d \in Pairs /\ Tx(d) = Tx(c)
    <2> HIDE DEF d
    <2> QED BY <1>2, <1>3, Zenon DEF Pairs, Tx, TxSender
  <1> QED BY <1>4, Zenon

LEMMA TxsOfRange ==
    ASSUME NEW pairs \in Seq(Pairs)
    PROVE  /\ TxsOf(pairs) \in Seq(Txs)
           /\ Range(TxsOf(pairs)) = {Tx(c) : c \in Range(pairs)}
           /\ Range(pairs) \subseteq Pairs
  <1>1. Pairs \subseteq Commits
    BY Zenon DEF Pairs
  <1>2. DOMAIN pairs = 1 .. Len(pairs) /\ Len(pairs) \in Nat /\ \A i \in DOMAIN pairs : pairs[i] \in Pairs
    OBVIOUS
  <1>3. TxsOf(pairs) \in [1 .. Len(pairs) -> Txs]
    BY <1>1, <1>2, CommitFields, Zenon DEF TxsOf
  <1>4. TxsOf(pairs) \in Seq(Txs)
    BY <1>2, <1>3
  <1> QED BY <1>2, <1>4, Zenon DEF TxsOf, Range

(* acknowledge_transactions keeps the pairs of the other transactions.     *)
LEMMA UnacknowledgedKeeps ==
    ASSUME NEW pairs \in Seq(Pairs), NEW T
    PROVE  /\ Unacknowledged(pairs, T) \in Seq(Pairs)
           /\ Range(Unacknowledged(pairs, T)) = {c \in Range(pairs) : Tx(c) \notin T}
           /\ Kept(pairs, T) = {} <=> \A c \in Range(pairs) : Tx(c) \in T
  <1>1. Kept(pairs, T) \in SUBSET DOMAIN pairs
    BY Zenon DEF Kept
  <1>2. /\ Unacknowledged(pairs, T) \in Seq(Pairs)
        /\ Range(Unacknowledged(pairs, T)) = {pairs[i] : i \in Kept(pairs, T)}
    BY <1>1, PickTakes, Zenon DEF Unacknowledged
  <1> QED BY <1>2, Zenon DEF Kept, Range

(* Pairs restored from reveal rows are of the rows' transactions.          *)
LEMMA RestoredCovers ==
    ASSUME NEW R \in SUBSET [commit : Commits, at : Nat], IsFiniteSet(R),
           \A r \in R : r.commit \in Pairs,
           NEW P, NEW pairs \in RestoredPairs(R, P)
    PROVE  /\ pairs \in Seq(Pairs)
           /\ \A c \in Range(pairs) : \E r \in R : Tx(r.commit) = Tx(c)
           /\ \A r \in R : \E c \in Range(pairs) : Tx(c) = Tx(r.commit)
  <1>1. PICK order \in Orders(R) : pairs = [i \in DOMAIN order |-> RestoredPair(order[i], P)]
    BY Zenon DEF RestoredPairs
  <1>2. order \in Seq(R) /\ Range(order) = R
    BY <1>1, OrderCovers, Zenon
  <1>3. \A r \in R : RestoredPair(r, P) \in Pairs /\ Tx(RestoredPair(r, P)) = Tx(r.commit)
    <2> SUFFICES ASSUME NEW r \in R
                 PROVE  RestoredPair(r, P) \in Pairs /\ Tx(RestoredPair(r, P)) = Tx(r.commit)
      OBVIOUS
    <2>1. r.commit \in Commits /\ r.at \in Nat /\ r.commit \in Pairs
      OBVIOUS
    <2> QED BY <2>1, RebuiltCommit, Zenon DEF RestoredPair
  <1>4. DOMAIN order = 1 .. Len(order) /\ Len(order) \in Nat /\ \A i \in DOMAIN order : order[i] \in R
    BY <1>2
  <1>5. pairs \in [1 .. Len(order) -> Pairs]
    BY <1>1, <1>3, <1>4, Zenon
  <1>6. pairs \in Seq(Pairs)
    BY <1>4, <1>5
  <1>7. \A r \in R : \E i \in DOMAIN order : order[i] = r
    BY <1>2, Zenon DEF Range
  <1>8. DOMAIN pairs = DOMAIN order /\ \A i \in DOMAIN order : pairs[i] = RestoredPair(order[i], P)
    BY <1>1, Zenon
  <1> QED BY <1>3, <1>4, <1>6, <1>7, <1>8 DEF Range

LEMMA ConcatPairs ==
    ASSUME NEW p \in Seq(Pairs), NEW q \in Seq(Pairs)
    PROVE  p \o q \in Seq(Pairs) /\ Range(p \o q) = Range(p) \cup Range(q)
  <1>1. p \o q \in Seq(Pairs)
    OBVIOUS
  <1>2. DOMAIN p = 1 .. Len(p) /\ DOMAIN q = 1 .. Len(q) /\ DOMAIN (p \o q) = 1 .. Len(p) + Len(q)
    OBVIOUS
  <1>3. /\ \A i \in 1 .. Len(p) : (p \o q)[i] = p[i]
        /\ \A i \in 1 .. Len(q) : (p \o q)[Len(p) + i] = q[i]
        /\ \A i \in 1 .. Len(p) + Len(q) :
              i \in 1 .. Len(p) \/ (i - Len(p) \in 1 .. Len(q) /\ (p \o q)[i] = q[i - Len(p)])
    OBVIOUS
  <1>4. \A i \in 1 .. Len(q) : Len(p) + i \in 1 .. Len(p) + Len(q)
    OBVIOUS
  <1>5. \A i \in 1 .. Len(p) : i \in 1 .. Len(p) + Len(q)
    OBVIOUS
  <1> DEFINE r == p \o q
  <1> HIDE DEF r
  <1>6. ASSUME NEW x \in Range(r) PROVE x \in Range(p) \cup Range(q)
    <2>1. PICK i \in 1 .. Len(p) + Len(q) : x = r[i]
      BY <1>2, <1>6, Zenon DEF Range, r
    <2>2. CASE i \in 1 .. Len(p)
      BY <1>2, <1>3, <2>1, <2>2, Zenon DEF Range, r
    <2>3. CASE i - Len(p) \in 1 .. Len(q) /\ r[i] = q[i - Len(p)]
      BY <1>2, <2>1, <2>3, Zenon DEF Range
    <2> QED BY <1>3, <2>1, <2>2, <2>3 DEF r
  <1>7. ASSUME NEW x \in Range(p) \cup Range(q) PROVE x \in Range(r)
    <2>1. CASE x \in Range(p)
      BY <1>2, <1>3, <1>5, <2>1, Zenon DEF Range, r
    <2>2. CASE x \in Range(q)
      BY <1>2, <1>3, <1>4, <2>2, Zenon DEF Range, r
    <2> QED BY <1>7, <2>1, <2>2, Zenon
  <1>8. Range(r) = Range(p) \cup Range(q)
    BY <1>6, <1>7, Zenon
  <1> QED BY <1>1, <1>8, Zenon DEF r

LEMMA RangeFinite ==
    ASSUME NEW X, NEW q \in Seq(X)
    PROVE  IsFiniteSet(Range(q)) /\ Range(q) \subseteq X
  <1>1. DOMAIN q = 1 .. Len(q) /\ Len(q) \in Nat /\ \A i \in DOMAIN q : q[i] \in X
    OBVIOUS
  <1>2. IsFiniteSet(DOMAIN q)
    BY <1>1, FS_Interval
  <1>3. q \in Surjection(DOMAIN q, Range(q))
    BY DEF Surjection, Range
  <1>4. IsFiniteSet(Range(q))
    BY <1>2, <1>3, FS_Surjection, Zenon
  <1> QED BY <1>1, <1>4, Zenon DEF Range

(***************************************************************************)
(* Counting the commits of a sender                                        *)
(***************************************************************************)

LEMMA OwnedFinite ==
    ASSUME NEW S, IsFiniteSet(S), NEW s
    PROVE  IsFiniteSet(Owned(S, s)) /\ Cardinality(Owned(S, s)) \in Nat
  BY FS_Subset, FS_CardinalityType, Zenon DEF Owned

LEMMA OwnedGrows ==
    ASSUME NEW S, NEW T, IsFiniteSet(T), S \subseteq T, NEW s
    PROVE  Cardinality(Owned(S, s)) <= Cardinality(Owned(T, s))
  <1>1. Owned(S, s) \subseteq Owned(T, s)
    BY Zenon DEF Owned
  <1> QED BY <1>1, OwnedFinite, FS_Subset, Zenon

LEMMA OwnedDrop ==
    ASSUME NEW S, IsFiniteSet(S), NEW D, D \subseteq S, NEW s
    PROVE  Cardinality(Owned(S \ D, s)) = Cardinality(Owned(S, s)) - Cardinality(Owned(D, s))
  <1> DEFINE A == Owned(S, s)
             B == Owned(D, s)
  <1>1. Owned(S \ D, s) = A \ B /\ A \cap B = B
    BY Zenon DEF Owned
  <1>2. IsFiniteSet(A)
    BY OwnedFinite, Zenon
  <1> HIDE DEF A, B
  <1>3. Cardinality(A \ B) = Cardinality(A) - Cardinality(A \cap B)
    BY <1>2, FS_Difference, Zenon
  <1>4. Cardinality(Owned(S \ D, s)) = Cardinality(A) - Cardinality(B)
    BY <1>1, <1>3, Zenon
  <1> QED BY <1>4, Zenon DEF A, B

LEMMA OwnedUnion ==
    ASSUME NEW S, IsFiniteSet(S), NEW T, IsFiniteSet(T), NEW s
    PROVE  Cardinality(Owned(S \cup T, s)) <= Cardinality(Owned(S, s)) + Cardinality(Owned(T, s))
  <1> DEFINE A == Owned(S, s)
             B == Owned(T, s)
  <1>1. Owned(S \cup T, s) = A \cup B
    BY Zenon DEF Owned
  <1>2. /\ IsFiniteSet(A) /\ Cardinality(A) \in Nat
        /\ IsFiniteSet(B) /\ Cardinality(B) \in Nat
    BY OwnedFinite, Zenon
  <1> HIDE DEF A, B
  <1>3. Cardinality(A \cap B) \in Nat
    BY <1>2, FS_Intersection, FS_CardinalityType, Zenon
  <1>4. Cardinality(A \cup B) = Cardinality(A) + Cardinality(B) - Cardinality(A \cap B)
    BY <1>2, FS_Union, Zenon
  <1>5. Cardinality(A \cup B) <= Cardinality(A) + Cardinality(B)
    BY <1>2, <1>3, <1>4
  <1> QED BY <1>1, <1>5, Zenon DEF A, B

LEMMA OwnedOne ==
    ASSUME NEW c, NEW s
    PROVE  Cardinality(Owned({c}, s)) = IF c.sender = s THEN 1 ELSE 0
  <1>1. Owned({c}, s) = IF c.sender = s THEN {c} ELSE {}
    BY Zenon DEF Owned
  <1> QED BY <1>1, FS_Singleton, FS_EmptySet, Zenon

LEMMA OwnedAdd ==
    ASSUME NEW S, IsFiniteSet(S), NEW c, NEW s
    PROVE  Cardinality(Owned(S \cup {c}, s))
               <= Cardinality(Owned(S, s)) + (IF c.sender = s THEN 1 ELSE 0)
  <1>1. IsFiniteSet({c})
    BY FS_Singleton, Zenon
  <1>2. Cardinality(Owned(S \cup {c}, s)) <= Cardinality(Owned(S, s)) + Cardinality(Owned({c}, s))
    BY <1>1, OwnedUnion, Zenon
  <1> QED BY <1>2, OwnedOne, Zenon

(* Dropping the commits of D from the pending ones keeps the counters at   *)
(* or above the number of commits that remain.                             *)
LEMMA CountAfterDrop ==
    ASSUME count \in [Senders -> Nat], IsFiniteSet(pending), NEW D, D \subseteq pending,
           \A s \in Senders : Cardinality(Owned(pending, s)) <= count[s]
    PROVE  /\ CountWithout(D) \in [Senders -> Nat]
           /\ \A s \in Senders : Cardinality(Owned(pending \ D, s)) <= CountWithout(D)[s]
  <1>1. IsFiniteSet(D)
    BY FS_Subset, Zenon
  <1>2. ASSUME NEW s \in Senders
        PROVE  /\ Monus(count[s], Cardinality(Owned(D, s))) \in Nat
               /\ Cardinality(Owned(pending \ D, s)) <= Monus(count[s], Cardinality(Owned(D, s)))
    <2>1. Cardinality(Owned(D, s)) \in Nat /\ Cardinality(Owned(pending, s)) \in Nat
      BY <1>1, OwnedFinite, Zenon
    <2>2. Cardinality(Owned(pending \ D, s)) =
              Cardinality(Owned(pending, s)) - Cardinality(Owned(D, s))
      BY OwnedDrop
    <2>3. count[s] \in Nat /\ Cardinality(Owned(pending, s)) <= count[s]
      BY <1>2, Zenon
    <2> QED BY <2>1, <2>2, <2>3 DEF Monus
  <1> QED BY <1>2, Zenon DEF CountWithout

(* One pass of restore_from_storage counts every commit it restores, and   *)
(* never takes away more than it drops again as revealed.                  *)
LEMMA CountAfterRestore ==
    ASSUME NEW old \in [Senders -> Nat], NEW P, IsFiniteSet(P), NEW live, IsFiniteSet(live),
           \A s \in Senders : Cardinality(Owned(P, s)) <= old[s],
           NEW matched, matched \subseteq P \cup live
    PROVE  /\ RestoredCount(old, live, matched) \in [Senders -> Nat]
           /\ \A s \in Senders : Cardinality(Owned((P \cup live) \ matched, s))
                                     <= RestoredCount(old, live, matched)[s]
  <1>1. IsFiniteSet(P \cup live) /\ IsFiniteSet(matched)
    BY FS_Union, FS_Subset, Zenon
  <1>2. ASSUME NEW s \in Senders
        PROVE  /\ Monus(old[s] + Cardinality(Owned(live, s)), Cardinality(Owned(matched, s))) \in Nat
               /\ Cardinality(Owned((P \cup live) \ matched, s))
                      <= Monus(old[s] + Cardinality(Owned(live, s)), Cardinality(Owned(matched, s)))
    <2>1. /\ Cardinality(Owned(P, s)) \in Nat /\ Cardinality(Owned(live, s)) \in Nat
          /\ Cardinality(Owned(matched, s)) \in Nat
          /\ Cardinality(Owned(P \cup live, s)) \in Nat
      BY <1>1, OwnedFinite, Zenon
    <2>2. Cardinality(Owned((P \cup live) \ matched, s)) =
              Cardinality(Owned(P \cup live, s)) - Cardinality(Owned(matched, s))
      BY <1>1, OwnedDrop
    <2>3. Cardinality(Owned(P \cup live, s))
              <= Cardinality(Owned(P, s)) + Cardinality(Owned(live, s))
      BY OwnedUnion, Zenon
    <2>4. old[s] \in Nat /\ Cardinality(Owned(P, s)) <= old[s]
      BY <1>2, Zenon
    <2> QED BY <2>1, <2>2, <2>3, <2>4 DEF Monus
  <1> QED BY <1>2, Zenon DEF RestoredCount

(***************************************************************************)
(* The initial state and the actions                                       *)
(***************************************************************************)

LEMMA PoolInitially == Init => PoolInv
  <1> SUFFICES ASSUME Init PROVE PoolInv
    OBVIOUS
  <1>1. NodeShape
    <2>1. /\ chain \in Nat /\ chain <= MaxHeight /\ height \in Nat /\ height <= chain
          /\ executed = None /\ candidate = None /\ finalised = {}
          /\ rows \in [Senders -> Nat]
      BY Bounds DEF Init
    <2>2. serviceStarted \in BOOLEAN /\ snapshot \in BOOLEAN
      BY Zenon DEF Init
    <2> QED BY <2>1, <2>2, Zenon DEF NodeShape
  <1>2. TableShape
    BY Zenon DEF Init, TableShape
  <1>3. Finite
    BY FS_EmptySet, Zenon DEF Init, Finite
  <1>4. PendingLive /\ ForgottenIsOld
    BY Zenon DEF Init, PendingLive, ForgottenIsOld
  <1>5. \A s \in Senders : Owned(pending, s) = {} /\ Cardinality(Owned(pending, s)) = 0
    BY FS_EmptySet, Zenon DEF Init, Owned
  <1>6. CountCovers /\ PendingWithinLimit
    BY <1>5, Bounds DEF Init, CountCovers, PendingWithinLimit
  <1>7. DOMAIN reserved = {} /\ revealed = <<>>
    BY DEF Init
  <1>8. QueueShape
    BY <1>7 DEF Init, QueueShape
  <1>9. ReservationsExact /\ PoolIsDurable
    BY <1>7, Zenon DEF Init, ReservationsExact, PoolIsDurable, InPool, Range
  <1> QED BY <1>1, <1>2, <1>3, <1>4, <1>6, <1>8, <1>9, Zenon DEF PoolInv

(* A commit that insert_commit_locally accepts, from a wallet (with its    *)
(* reveal queued) or from a peer.                                          *)
LEMMA InsertStep ==
    ASSUME PoolInv, NEW c \in Commits, InsertCommit(c),
           queued' \subseteq [commit : Commits, at : Nat], IsFiniteSet(queued'),
           UNCHANGED <<height, revealed, reserved, active, nextId, revealRows, node>>
    PROVE  PoolInv'
  <1>0. /\ NodeShape /\ TableShape /\ QueueShape /\ Finite /\ PendingLive /\ ForgottenIsOld
        /\ CountCovers /\ PendingWithinLimit /\ ReservationsExact /\ PoolIsDurable
    BY Zenon DEF PoolInv
  <1>1. /\ c.at \in Nat /\ c.sender \in Senders
        /\ height \in Nat /\ count \in [Senders -> Nat]
    BY <1>0, CommitFields, Zenon DEF NodeShape, TableShape
  <1>2. /\ pending' = pending \cup {c} /\ commitRows' = commitRows \cup {c}
        /\ seen' = seen \cup {c} /\ admitted' = admitted \cup {c}
        /\ count' = [count EXCEPT ![c.sender] = @ + 1]
    BY Zenon DEF InsertCommit
  <1>3. NodeShape' /\ TableShape' /\ QueueShape'
    <2>1. NodeShape'
      BY <1>0, Zenon DEF NodeShape, node
    <2>2. TableShape'
      BY <1>0, <1>1, <1>2 DEF TableShape
    <2>3. QueueShape'
      BY <1>0, Zenon DEF QueueShape
    <2> QED BY <2>1, <2>2, <2>3
  <1>4. Finite'
    <2>1. IsFiniteSet(pending') /\ IsFiniteSet(commitRows')
      BY <1>0, <1>2, FS_AddElement, Zenon DEF Finite
    <2> QED BY <1>0, <2>1, Zenon DEF Finite, node
  <1>5. PendingLive'
    <2>1. c.at + 1 >= height
      BY Zenon DEF InsertCommit, Insertable
    <2>2. ~IsExpired(c, height)
      BY <1>1, <2>1, Bounds DEF IsExpired
    <2> QED BY <1>0, <1>2, <2>2, Zenon DEF PendingLive, IsExpired
  <1>6. ForgottenIsOld'
    BY <1>0, <1>2, Zenon DEF ForgottenIsOld, node
  <1>7. /\ \A s \in Senders : Cardinality(Owned(pending', s)) <= count'[s]
        /\ PendingWithinLimit'
    <2> SUFFICES ASSUME NEW s \in Senders
                 PROVE  /\ Cardinality(Owned(pending', s)) <= count'[s]
                        /\ Cardinality(Owned(pending', s)) <= MaxPerSender
      BY Zenon DEF PendingWithinLimit
    <2>1. IsFiniteSet(pending) /\ IsFiniteSet({c})
      BY <1>0, FS_Singleton, Zenon DEF Finite
    <2>2. Cardinality(Owned(pending', s)) \in Nat /\ Cardinality(Owned(pending, s)) \in Nat
      BY <1>2, <1>4, <2>1, OwnedFinite, Zenon DEF Finite
    <2>3. Cardinality(Owned(pending', s))
              <= Cardinality(Owned(pending, s)) + (IF c.sender = s THEN 1 ELSE 0)
      BY <1>2, <2>1, OwnedAdd, Zenon
    <2>4. /\ Cardinality(Owned(pending, s)) <= count[s]
          /\ Cardinality(Owned(pending, s)) <= MaxPerSender
          /\ count[c.sender] < MaxPerSender
      BY <1>0, Zenon DEF CountCovers, PendingWithinLimit, InsertCommit, Insertable
    <2>5. count'[s] = IF c.sender = s THEN count[s] + 1 ELSE count[s]
      BY <1>1, <1>2, Zenon
    <2> QED BY <1>1, <2>2, <2>3, <2>4, <2>5, Bounds
  <1>8. CountCovers'
    BY <1>0, <1>2, <1>7, Zenon DEF CountCovers
  <1>9. ReservationsExact'
    BY <1>0, Zenon DEF ReservationsExact
  <1>10. PoolIsDurable'
    BY <1>0, <1>2 DEF PoolIsDurable, InPool, node
  <1> QED BY <1>3, <1>4, <1>5, <1>6, <1>7, <1>8, <1>9, <1>10 DEF PoolInv

(* A reveal of a pending commit.                                           *)
LEMMA RevealStep ==
    ASSUME PoolInv, NEW c, NEW at \in Nat, SubmitReveal(c, at)
    PROVE  PoolInv'
  <1>0. /\ NodeShape /\ TableShape /\ QueueShape /\ Finite /\ PendingLive /\ ForgottenIsOld
        /\ CountCovers /\ PendingWithinLimit /\ ReservationsExact /\ PoolIsDurable
    BY Zenon DEF PoolInv
  <1> DEFINE r == Reveal(c, at)
  <1>1. c \in pending /\ c \in Commits /\ c \in Pairs
    BY <1>0, Zenon DEF SubmitReveal, Revealable, TableShape, Pairs
  <1>2. /\ pending' = pending \ {c} /\ commitRows' = commitRows \ {c}
        /\ revealRows' = {q \in revealRows : q.commit # c} \cup {r}
        /\ revealed' = Append(revealed, c) /\ count' = CountWithout({c})
        /\ r \in [commit : Commits, at : Nat] /\ r.commit = c
    BY <1>1, Zenon DEF SubmitReveal, PutReveal, Reveal
  <1>3. /\ UNCHANGED <<height, queued, reserved, active, nextId, seen, admitted>>
        /\ UNCHANGED node
    BY Zenon DEF SubmitReveal
  <1> HIDE DEF r
  <1>4. /\ CountWithout({c}) \in [Senders -> Nat]
        /\ \A s \in Senders : Cardinality(Owned(pending \ {c}, s)) <= CountWithout({c})[s]
    BY <1>0, <1>1, CountAfterDrop, Zenon DEF TableShape, Finite, CountCovers
  <1>5. revealed' \in Seq(Pairs) /\ Range(revealed') = Range(revealed) \cup {c}
    <2>1. revealed \in Seq(Pairs) /\ <<c>> \in Seq(Pairs) /\ Range(<<c>>) = {c}
      BY <1>0, <1>1 DEF QueueShape, Range
    <2>2. Append(revealed, c) = revealed \o <<c>>
      BY <1>1, <2>1
    <2> QED BY <1>2, <2>1, <2>2, ConcatPairs, Zenon
  <1>6. NodeShape' /\ TableShape' /\ QueueShape'
    <2>1. NodeShape'
      BY <1>0, <1>3, Zenon DEF NodeShape, node
    <2>2. TableShape'
      BY <1>0, <1>1, <1>2, <1>3, <1>4, Zenon DEF TableShape
    <2>3. QueueShape'
      BY <1>0, <1>3, <1>5, Zenon DEF QueueShape
    <2> QED BY <2>1, <2>2, <2>3, Zenon
  <1>7. Finite'
    <2>1. IsFiniteSet(pending') /\ IsFiniteSet(commitRows')
      BY <1>0, <1>2, FS_Difference, Zenon DEF Finite
    <2>2. IsFiniteSet({q \in revealRows : q.commit # c})
      BY <1>0, FS_Subset, Zenon DEF Finite
    <2>3. IsFiniteSet(revealRows')
      BY <1>2, <2>2, FS_AddElement, Zenon
    <2> QED BY <1>0, <1>3, <2>1, <2>3, Zenon DEF Finite, node
  <1>8. PendingLive' /\ ForgottenIsOld'
    BY <1>0, <1>2, <1>3, Zenon DEF PendingLive, ForgottenIsOld, IsExpired, node
  <1>9. CountCovers'
    BY <1>0, <1>2, <1>4, Zenon DEF CountCovers
  <1>10. PendingWithinLimit'
    <2> SUFFICES ASSUME NEW s \in Senders
                 PROVE  Cardinality(Owned(pending', s)) <= MaxPerSender
      BY Zenon DEF PendingWithinLimit
    <2>1. Cardinality(Owned(pending', s)) <= Cardinality(Owned(pending, s))
      BY <1>0, <1>2, OwnedGrows, Zenon DEF Finite
    <2>2. /\ Cardinality(Owned(pending, s)) \in Nat /\ Cardinality(Owned(pending', s)) \in Nat
          /\ Cardinality(Owned(pending, s)) <= MaxPerSender
      BY <1>0, <1>7, OwnedFinite, Zenon DEF Finite, PendingWithinLimit
    <2> QED BY <2>1, <2>2, Bounds
  <1>11. ReservationsExact'
    BY <1>0, <1>3, Zenon DEF ReservationsExact
  <1>12. PoolIsDurable'
    <2>1. InPool' = InPool \cup {c}
      BY <1>3, <1>5 DEF InPool
    <2>2. finalised' = finalised
      BY <1>3, Zenon DEF node
    <2> QED BY <1>0, <1>2, <2>1, <2>2 DEF PoolIsDurable
  <1> QED BY <1>6, <1>7, <1>8, <1>9, <1>10, <1>11, <1>12, Zenon DEF PoolInv

(* What build_block_transactions takes for a proposal, and what it leaves. *)
LEMMA ProposalPairs ==
    ASSUME QueueShape, NEW pairs \in Arrangements(Pick(revealed, Chosen))
    PROVE  /\ pairs \in Seq(Pairs) /\ Remaining \in Seq(Pairs)
           /\ Range(pairs) \cup Range(Remaining) = Range(revealed)
           /\ \A c \in Range(pairs) : Tx(c) \notin active
           /\ TxsOf(pairs) \in Seq(Txs)
           /\ Range(TxsOf(pairs)) = {Tx(c) : c \in Range(pairs)}
  <1>1. revealed \in Seq(Pairs) /\ Chosen \in SUBSET DOMAIN revealed
        /\ DOMAIN revealed \ Chosen \in SUBSET DOMAIN revealed
    BY Zenon DEF QueueShape, Chosen, OpenSlots
  <1>2. /\ Pick(revealed, Chosen) \in Seq(Pairs)
        /\ Range(Pick(revealed, Chosen)) = {revealed[i] : i \in Chosen}
    BY <1>1, PickTakes, Zenon
  <1>3. /\ Remaining \in Seq(Pairs)
        /\ Range(Remaining) = {revealed[i] : i \in DOMAIN revealed \ Chosen}
    BY <1>1, PickTakes, Zenon DEF Remaining
  <1>4. pairs \in Seq(Pairs) /\ Range(pairs) = {revealed[i] : i \in Chosen}
    BY <1>2, ArrangementKeeps, Zenon
  <1>5. \A i \in Chosen : Tx(revealed[i]) \notin active
    BY Zenon DEF Chosen, OpenSlots
  <1>6. Range(pairs) \cup Range(Remaining) = Range(revealed)
    BY <1>1, <1>3, <1>4, Zenon DEF Range
  <1> QED BY <1>3, <1>4, <1>5, <1>6, TxsOfRange, Zenon

(* A block that executes leaves nonces and a block behind.                 *)
LEMMA ExecutedTypes ==
    ASSUME rows \in [Senders -> Nat], NEW txs \in Seq(Txs)
    PROVE  /\ Executed(txs) \in [Senders -> Nat]
           /\ Built(txs) \in Blocks /\ Built(txs) # None
  <1>1. \A s \in Senders : SentBefore(txs, s, Len(txs) + 1) \in Nat
    <2>1. IsFiniteSet(DOMAIN txs)
      BY FS_Interval
    <2> QED BY <2>1, FS_Subset, FS_CardinalityType, Zenon DEF SentBefore
  <1>2. Built(txs) \in Blocks
    BY Zenon DEF Built, Blocks
  <1>3. None \notin Blocks
    BY PoolAssumption, Zenon DEF Blocks
  <1>4. Executed(txs) \in [Senders -> Nat]
    BY <1>1 DEF Executed
  <1> QED BY <1>2, <1>3, <1>4, Zenon

(* A reservation, or its release, leaves the same pairs in the pool.       *)
LEMMA ReserveKeeps ==
    ASSUME QueueShape, ReservationsExact, NEW pairs \in Arrangements(Pick(revealed, Chosen)),
           Reserve(pairs) \/ Release(pairs),
           nextId' = IF pairs = <<>> THEN nextId ELSE nextId + 1
    PROVE  /\ revealed' \in Seq(Pairs) /\ nextId' \in Nat \ {0}
           /\ DOMAIN reserved' \subseteq 1 .. nextId' - 1
           /\ \A i \in DOMAIN reserved' : reserved'[i] \in Seq(Pairs)
           /\ active' \subseteq Txs
           /\ InPool' = InPool
           /\ ReservationsExact'
  <1>1. /\ revealed \in Seq(Pairs) /\ nextId \in Nat \ {0}
        /\ DOMAIN reserved \subseteq 1 .. nextId - 1 /\ active \subseteq Txs
        /\ \A i \in DOMAIN reserved : reserved[i] \in Seq(Pairs)
    BY Zenon DEF QueueShape
  <1>2. /\ pairs \in Seq(Pairs) /\ Remaining \in Seq(Pairs)
        /\ Range(pairs) \cup Range(Remaining) = Range(revealed)
        /\ \A c \in Range(pairs) : Tx(c) \notin active
        /\ TxsOf(pairs) \in Seq(Txs)
        /\ Range(TxsOf(pairs)) = {Tx(c) : c \in Range(pairs)}
    BY ProposalPairs, Zenon
  <1>3. CASE Release(pairs)
    <2>1. revealed' = pairs \o Remaining /\ reserved' = reserved /\ active' = active
      BY <1>3, Zenon DEF Release
    <2>2. revealed' \in Seq(Pairs) /\ Range(revealed') = Range(revealed)
      BY <1>2, <2>1, ConcatPairs, Zenon
    <2>3. InPool' = InPool
      BY <2>1, <2>2 DEF InPool
    <2>4. ReservationsExact'
      BY <2>1, Zenon DEF ReservationsExact
    <2>5. nextId' \in Nat \ {0} /\ nextId <= nextId'
      BY <1>1
    <2>6. DOMAIN reserved' \subseteq 1 .. nextId' - 1
      BY <1>1, <2>1, <2>5
    <2> QED BY <1>1, <2>1, <2>2, <2>3, <2>4, <2>5, <2>6, Zenon
  <1>4. CASE Reserve(pairs) /\ pairs = <<>>
    <2>1. Range(pairs) = {} /\ Range(TxsOf(pairs)) = {}
      BY <1>2, <1>4 DEF Range
    <2>2. /\ revealed' = Remaining /\ reserved' = reserved /\ active' = active
          /\ nextId' = nextId
      BY <1>4, <2>1, Zenon DEF Reserve
    <2>3. Range(revealed') = Range(revealed)
      BY <1>2, <2>1, <2>2
    <2> QED BY <1>1, <1>2, <2>2, <2>3 DEF InPool, ReservationsExact
  <1>5. CASE Reserve(pairs) /\ pairs # <<>>
    <2>1. /\ revealed' = Remaining
          /\ reserved' = [i \in DOMAIN reserved \cup {nextId} |->
                             IF i = nextId THEN pairs ELSE reserved[i]]
          /\ active' = active \cup Range(TxsOf(pairs))
          /\ nextId' = nextId + 1
      BY <1>5, Zenon DEF Reserve
    <2>2. /\ DOMAIN reserved' = DOMAIN reserved \cup {nextId} /\ nextId \notin DOMAIN reserved
          /\ reserved'[nextId] = pairs
          /\ \A i \in DOMAIN reserved : reserved'[i] = reserved[i]
      BY <1>1, <2>1
    <2>3. DOMAIN reserved' \subseteq 1 .. nextId' - 1 /\ nextId' \in Nat \ {0}
      BY <1>1, <2>1, <2>2
    <2>4. \A i \in DOMAIN reserved' : reserved'[i] \in Seq(Pairs)
      BY <1>1, <1>2, <2>2, Zenon
    <2>5. active' \subseteq Txs
      BY <1>1, <1>2, <2>1 DEF Range
    <2>6. InPool' = InPool
      <3>1. \A x : x \in InPool <=> x \in Range(revealed) \/ \E i \in DOMAIN reserved : x \in Range(reserved[i])
        BY Zenon DEF InPool
      <3>2. \A x : x \in InPool' <=>
                x \in Range(revealed') \/ \E i \in DOMAIN reserved' : x \in Range(reserved'[i])
        BY Zenon DEF InPool
      <3>3. \A x : x \in Range(revealed) <=> x \in Range(revealed') \/ x \in Range(pairs)
        BY <1>2, <2>1, Zenon
      <3> QED BY <2>2, <3>1, <3>2, <3>3, Zenon
    <2>7. Range(TxsOf(pairs)) \cap active = {}
      BY <1>2, Zenon
    <2>8. active' = UNION {Range(TxsOf(reserved'[i])) : i \in DOMAIN reserved'}
      BY <2>1, <2>2, Zenon DEF ReservationsExact
    <2>9. \A i \in DOMAIN reserved : Range(TxsOf(reserved[i])) \subseteq active
      BY Zenon DEF ReservationsExact
    <2>10. ASSUME NEW i \in DOMAIN reserved', NEW j \in DOMAIN reserved', i # j
           PROVE  Range(TxsOf(reserved'[i])) \cap Range(TxsOf(reserved'[j])) = {}
      BY <2>2, <2>7, <2>9, <2>10, Zenon DEF ReservationsExact
    <2>11. ReservationsExact'
      BY <2>8, <2>10, Zenon DEF ReservationsExact
    <2> QED BY <1>2, <2>1, <2>3, <2>4, <2>5, <2>6, <2>11, Zenon
  <1> QED BY <1>3, <1>4, <1>5, Zenon

(* The leader's node builds a block: it proposes, is refused by its own    *)
(* engine, or fails to execute the batch.                                  *)
LEMMA ProduceStep ==
    ASSUME PoolInv, Produce
    PROVE  PoolInv'
  <1>0. /\ NodeShape /\ TableShape /\ QueueShape /\ Finite /\ PendingLive /\ ForgottenIsOld
        /\ CountCovers /\ PendingWithinLimit /\ ReservationsExact /\ PoolIsDurable
    BY Zenon DEF PoolInv
  <1>1. PICK pairs \in Arrangements(Pick(revealed, Chosen)) :
            /\ Propose(pairs) \/ ProposalRefused(pairs) \/ BatchFails(pairs)
            /\ nextId' = IF pairs = <<>> THEN nextId ELSE nextId + 1
    BY Zenon DEF Produce
  <1>2. /\ UNCHANGED <<height, pending, queued, count, chain, finalised, admitted>>
        /\ UNCHANGED durable /\ UNCHANGED <<serviceStarted, snapshot>>
        /\ chain < MaxHeight
    BY Zenon DEF Produce
  <1>3. Reserve(pairs) \/ Release(pairs)
    BY <1>1, Zenon DEF Propose, ProposalRefused, BatchFails
  <1>4. /\ revealed' \in Seq(Pairs) /\ nextId' \in Nat \ {0}
        /\ DOMAIN reserved' \subseteq 1 .. nextId' - 1
        /\ \A i \in DOMAIN reserved' : reserved'[i] \in Seq(Pairs)
        /\ active' \subseteq Txs /\ InPool' = InPool /\ ReservationsExact'
    BY <1>0, <1>1, <1>3, ReserveKeeps
  <1>5. TxsOf(pairs) \in Seq(Txs)
    BY <1>0, ProposalPairs, Zenon
  <1>6. /\ rows' \in [Senders -> Nat]
        /\ executed' \in Blocks \cup {None} /\ candidate' \in Blocks \cup {None}
        /\ candidate' # None => executed' # None
    <2>1. /\ Executed(TxsOf(pairs)) \in [Senders -> Nat]
          /\ Built(TxsOf(pairs)) \in Blocks /\ Built(TxsOf(pairs)) # None
      BY <1>0, <1>5, ExecutedTypes DEF NodeShape
    <2>2. CASE Propose(pairs)
      BY <2>1, <2>2, Zenon DEF Propose, Execute
    <2>3. CASE ProposalRefused(pairs)
      BY <1>0, <2>1, <2>3, Zenon DEF ProposalRefused, Execute, NodeShape
    <2>4. CASE BatchFails(pairs)
      BY <1>0, <2>4, Zenon DEF BatchFails, NodeShape
    <2> QED BY <1>1, <2>2, <2>3, <2>4
  <1>7. NodeShape' /\ TableShape' /\ QueueShape'
    <2>1. NodeShape'
      BY <1>0, <1>2, <1>6, Zenon DEF NodeShape
    <2>2. TableShape'
      BY <1>0, <1>2, Zenon DEF TableShape, durable
    <2>3. QueueShape'
      BY <1>4, Zenon DEF QueueShape
    <2> QED BY <2>1, <2>2, <2>3, Zenon
  <1>8. Finite' /\ PendingLive' /\ ForgottenIsOld' /\ CountCovers' /\ PendingWithinLimit'
    BY <1>0, <1>2, Zenon DEF Finite, PendingLive, ForgottenIsOld, CountCovers, PendingWithinLimit,
                      IsExpired, durable
  <1>9. PoolIsDurable'
    BY <1>0, <1>2, <1>4, Zenon DEF PoolIsDurable, durable
  <1> QED BY <1>4, <1>7, <1>8, <1>9, Zenon DEF PoolInv

(* A transaction list of another leader.                                   *)
LEMMA ForeignTyped == \A txs \in ForeignBodies : txs \in Seq(Txs)
  <1>1. Foreign \subseteq Txs
    BY PoolAssumption, Zenon
  <1>2. \A t \in Foreign : <<t>> \in Seq(Txs)
    BY <1>1
  <1>3. <<>> \in Seq(Txs)
    OBVIOUS
  <1> QED BY <1>2, <1>3, Zenon DEF ForeignBodies

(* Steps that leave the pool and its rows alone: a block of another leader *)
(* executes, a block is synchronised, or one is stored too late.           *)
LEMMA ChainStep ==
    ASSUME PoolInv, UNCHANGED pool, UNCHANGED durable, UNCHANGED admitted, NodeShape',
           chain <= chain', finalised \subseteq finalised', IsFiniteSet(finalised')
    PROVE  PoolInv'
  <1>0. /\ NodeShape /\ TableShape /\ QueueShape /\ Finite /\ PendingLive /\ ForgottenIsOld
        /\ CountCovers /\ PendingWithinLimit /\ ReservationsExact /\ PoolIsDurable
    BY Zenon DEF PoolInv
  <1>1. UNCHANGED <<height, pending, queued, revealed, reserved, active, nextId, count,
                    commitRows, revealRows, seen>>
    BY Zenon DEF pool, durable
  <1>2. Finite' /\ PendingLive' /\ CountCovers' /\ PendingWithinLimit'
    BY <1>0, <1>1, Zenon DEF Finite, PendingLive, IsExpired, CountCovers, PendingWithinLimit
  <1>6. TableShape' /\ QueueShape'
    BY <1>0, <1>1, Zenon DEF TableShape, QueueShape
  <1>3. ForgottenIsOld'
    <2>1. \A c \in admitted : c.at \in Nat
      BY <1>0, CommitFields, Zenon DEF TableShape
    <2>2. chain \in Nat /\ chain' \in Nat
      BY <1>0, Zenon DEF NodeShape
    <2> QED BY <1>0, <1>1, <2>1, <2>2 DEF ForgottenIsOld
  <1>4. ReservationsExact'
    BY <1>0, <1>1, Zenon DEF ReservationsExact
  <1>5. PoolIsDurable'
    BY <1>0, <1>1 DEF PoolIsDurable, InPool
  <1> QED BY <1>2, <1>3, <1>4, <1>5, <1>6, Zenon DEF PoolInv

LEMMA ReceiveStep ==
    ASSUME PoolInv, NEW txs \in ForeignBodies, ReceiveBlock(txs)
    PROVE  PoolInv'
  <1>0. NodeShape /\ TableShape /\ QueueShape /\ Finite
    BY Zenon DEF PoolInv
  <1>1. /\ Executed(txs) \in [Senders -> Nat]
        /\ Built(txs) \in Blocks /\ Built(txs) # None
    BY <1>0, ForeignTyped, ExecutedTypes, Zenon DEF NodeShape
  <1>2. /\ UNCHANGED pool /\ UNCHANGED durable /\ UNCHANGED admitted
        /\ UNCHANGED <<serviceStarted, chain, snapshot, finalised>>
        /\ chain < MaxHeight /\ rows' = Executed(txs) /\ executed' = Built(txs)
        /\ candidate' \in {executed', None}
    BY Zenon DEF ReceiveBlock, Execute
  <1>3. NodeShape'
    BY <1>0, <1>1, <1>2, Zenon DEF NodeShape, pool
  <1>4. chain <= chain' /\ finalised \subseteq finalised' /\ IsFiniteSet(finalised')
    BY <1>0, <1>2 DEF NodeShape, Finite
  <1> QED BY <1>2, <1>3, <1>4, ChainStep, Zenon

LEMMA SynchronizeStep ==
    ASSUME PoolInv, NEW txs \in ForeignBodies, Synchronize(txs)
    PROVE  PoolInv'
  <1>0. NodeShape /\ TableShape /\ QueueShape /\ Finite
    BY DEF PoolInv
  <1>1. /\ Executed(txs) \in [Senders -> Nat]
        /\ IsFiniteSet(Range(txs)) /\ Range(txs) \subseteq Txs
    BY <1>0, ForeignTyped, ExecutedTypes, RangeFinite, Zenon DEF NodeShape
  <1>2. /\ UNCHANGED pool /\ UNCHANGED durable /\ UNCHANGED admitted
        /\ UNCHANGED <<serviceStarted, executed, candidate>>
        /\ executed = None /\ chain < MaxHeight /\ rows' = Executed(txs)
        /\ chain' = chain + 1 /\ snapshot' = FALSE
        /\ finalised' = finalised \cup Range(txs)
    BY Zenon DEF Synchronize
  <1>3. NodeShape'
    <2>1. /\ chain' \in Nat /\ chain' <= MaxHeight /\ height' \in Nat /\ height' <= chain'
          /\ finalised' \subseteq Txs /\ rows' \in [Senders -> Nat]
      BY <1>0, <1>1, <1>2, Bounds DEF NodeShape, pool
    <2>2. executed' = None /\ candidate' = None
      BY <1>0, <1>2, Zenon DEF NodeShape
    <2>3. serviceStarted' \in BOOLEAN /\ snapshot' \in BOOLEAN
      BY <1>0, <1>2, Zenon DEF NodeShape
    <2> QED BY <2>1, <2>2, <2>3, Zenon DEF NodeShape
  <1>4. chain <= chain' /\ finalised \subseteq finalised' /\ IsFiniteSet(finalised')
    <2>1. IsFiniteSet(finalised \cup Range(txs))
      BY <1>0, <1>1, FS_Union, Zenon DEF Finite
    <2>2. chain \in Nat
      BY <1>0, Zenon DEF NodeShape
    <2> QED BY <1>2, <2>1, <2>2
  <1> QED BY <1>2, <1>3, <1>4, ChainStep, Zenon

(* The block that is stored: its transactions and the new height.          *)
LEMMA StoredBlock ==
    ASSUME PoolInv, StoreBlock
    PROVE  /\ candidate \in Blocks /\ candidate.txs \in Seq(Txs)
           /\ IsFiniteSet(Range(candidate.txs)) /\ Range(candidate.txs) \subseteq Txs
           /\ chain' = chain + 1 /\ chain' \in Nat /\ chain' <= MaxHeight
           /\ candidate' = None
           /\ finalised' = finalised \cup Range(candidate.txs)
           /\ IsFiniteSet(finalised') /\ finalised' \subseteq Txs
  <1>1. candidate \in Blocks /\ chain \in Nat /\ chain < MaxHeight
    BY Zenon DEF PoolInv, NodeShape, StoreBlock
  <1>2. candidate.txs \in Seq(Txs)
    BY <1>1, Zenon DEF Blocks
  <1>3. IsFiniteSet(Range(candidate.txs)) /\ Range(candidate.txs) \subseteq Txs
    BY <1>2, RangeFinite, Zenon
  <1>4. finalised' = finalised \cup Range(candidate.txs) /\ chain' = chain + 1 /\ candidate' = None
    BY Zenon DEF StoreBlock
  <1>5. IsFiniteSet(finalised') /\ finalised' \subseteq Txs
    BY <1>3, <1>4, FS_Union, Zenon DEF PoolInv, NodeShape, Finite
  <1> QED BY <1>1, <1>2, <1>3, <1>4, <1>5, Bounds

LEMMA FinaliseStaleStep ==
    ASSUME PoolInv, FinaliseStale
    PROVE  PoolInv'
  <1>0. NodeShape
    BY Zenon DEF PoolInv
  <1>1. /\ chain' = chain + 1 /\ chain' \in Nat /\ chain' <= MaxHeight /\ candidate' = None
        /\ finalised' = finalised \cup Range(candidate.txs)
        /\ IsFiniteSet(finalised') /\ finalised' \subseteq Txs
    BY StoredBlock, Zenon DEF FinaliseStale
  <1>2. /\ UNCHANGED pool /\ UNCHANGED durable /\ UNCHANGED admitted
        /\ UNCHANGED <<serviceStarted, rows, executed>> /\ snapshot' = FALSE
    BY Zenon DEF FinaliseStale
  <1>3. NodeShape'
    <2>1. /\ chain' \in Nat /\ chain' <= MaxHeight /\ height' \in Nat /\ height' <= chain'
          /\ finalised' \subseteq Txs /\ rows' \in [Senders -> Nat]
      BY <1>0, <1>1, <1>2 DEF NodeShape, pool
    <2>2. executed' \in Blocks \cup {None} /\ candidate' = None
      BY <1>0, <1>1, <1>2, Zenon DEF NodeShape
    <2>3. serviceStarted' \in BOOLEAN /\ snapshot' \in BOOLEAN
      BY <1>0, <1>2, Zenon DEF NodeShape
    <2> QED BY <2>1, <2>2, <2>3, Zenon DEF NodeShape
  <1>4. chain <= chain' /\ finalised \subseteq finalised'
    BY <1>0, <1>1 DEF NodeShape
  <1> QED BY <1>1, <1>2, <1>3, <1>4, ChainStep, Zenon

(* acknowledge_transactions of T leaves the reservations exact and the     *)
(* pairs of the other transactions in the pool.                            *)
LEMMA AcknowledgeKeeps ==
    ASSUME QueueShape, ReservationsExact, NEW T
    PROVE  /\ DOMAIN ReservedWithout(T) \subseteq DOMAIN reserved
           /\ \A i \in DOMAIN ReservedWithout(T) : ReservedWithout(T)[i] \in Seq(Pairs)
           /\ Range(Unacknowledged(revealed, T))
                \cup UNION {Range(ReservedWithout(T)[i]) : i \in DOMAIN ReservedWithout(T)}
                 = {c \in InPool : Tx(c) \notin T}
           /\ active \ T = UNION {Range(TxsOf(ReservedWithout(T)[i])) :
                                     i \in DOMAIN ReservedWithout(T)}
           /\ \A i, j \in DOMAIN ReservedWithout(T) : i # j =>
                 Range(TxsOf(ReservedWithout(T)[i])) \cap Range(TxsOf(ReservedWithout(T)[j])) = {}
  <1> DEFINE W == ReservedWithout(T)
             D == {j \in DOMAIN reserved : Kept(reserved[j], T) # {}}
  <1>1. revealed \in Seq(Pairs) /\ \A i \in DOMAIN reserved : reserved[i] \in Seq(Pairs)
    BY Zenon DEF QueueShape
  <1>2. W = [i \in D |-> Unacknowledged(reserved[i], T)]
    BY Zenon DEF ReservedWithout
  <1>3. DOMAIN W = D /\ \A i \in D : W[i] = Unacknowledged(reserved[i], T)
    BY <1>2, Zenon
  <1>4. \A i \in D : /\ W[i] \in Seq(Pairs)
                     /\ Range(W[i]) = {c \in Range(reserved[i]) : Tx(c) \notin T}
    <2> HIDE DEF W
    <2> SUFFICES ASSUME NEW i \in D
                 PROVE  /\ W[i] \in Seq(Pairs)
                        /\ Range(W[i]) = {c \in Range(reserved[i]) : Tx(c) \notin T}
      BY Zenon
    <2>1. reserved[i] \in Seq(Pairs) /\ W[i] = Unacknowledged(reserved[i], T)
      BY <1>1, <1>3, Zenon
    <2>2. Range(Unacknowledged(reserved[i], T)) = {c \in Range(reserved[i]) : Tx(c) \notin T}
      BY <2>1, UnacknowledgedKeeps, Zenon
    <2>3. Unacknowledged(reserved[i], T) \in Seq(Pairs)
      BY <2>1, UnacknowledgedKeeps, Zenon
    <2> QED BY <2>1, <2>2, <2>3, Zenon
  <1>5. \A i \in DOMAIN reserved \ D : \A c \in Range(reserved[i]) : Tx(c) \in T
    BY <1>1, UnacknowledgedKeeps, Zenon
  <1>6. Range(Unacknowledged(revealed, T)) = {c \in Range(revealed) : Tx(c) \notin T}
    BY <1>1, UnacknowledgedKeeps, Zenon
  <1> HIDE DEF W
  <1>7. Range(Unacknowledged(revealed, T)) \cup UNION {Range(W[i]) : i \in DOMAIN W}
            = {c \in InPool : Tx(c) \notin T}
    <2>1. \A x : x \in InPool <=> x \in Range(revealed) \/ \E i \in DOMAIN reserved : x \in Range(reserved[i])
      BY Zenon DEF InPool
    <2>2. \A x : x \in UNION {Range(W[i]) : i \in DOMAIN W} <=> \E i \in D : x \in Range(W[i])
      BY <1>3, Zenon
    <2>3. \A x : (\E i \in D : x \in Range(W[i])) <=>
                 \E i \in DOMAIN reserved : x \in Range(reserved[i]) /\ Tx(x) \notin T
      BY <1>4, <1>5, Zenon
    <2> QED BY <1>6, <2>1, <2>2, <2>3, Zenon
  <1>8. \A i \in DOMAIN reserved : Range(TxsOf(reserved[i])) = {Tx(c) : c \in Range(reserved[i])}
    BY <1>1, TxsOfRange, Zenon
  <1>9. \A i \in D : Range(TxsOf(W[i])) = {Tx(c) : c \in Range(W[i])}
    BY <1>4, TxsOfRange, Zenon
  <1>10. \A i \in D : Range(TxsOf(W[i])) = Range(TxsOf(reserved[i])) \ T
    BY <1>4, <1>8, <1>9
  <1>11. \A i \in DOMAIN reserved \ D : Range(TxsOf(reserved[i])) \subseteq T
    BY <1>5, <1>8
  <1>12. active \ T = UNION {Range(TxsOf(W[i])) : i \in DOMAIN W}
    <2>1. \A x : x \in active <=> \E i \in DOMAIN reserved : x \in Range(TxsOf(reserved[i]))
      BY Zenon DEF ReservationsExact
    <2>2. \A x : x \in active \ T <=> \E i \in D : x \in Range(TxsOf(W[i]))
      BY <1>10, <1>11, <2>1, Zenon
    <2> QED BY <1>3, <2>2, Zenon
  <1>13. \A i, j \in DOMAIN W : i # j => Range(TxsOf(W[i])) \cap Range(TxsOf(W[j])) = {}
    <2> HIDE DEF D
    <2>1. \A i, j \in DOMAIN reserved : i # j =>
              Range(TxsOf(reserved[i])) \cap Range(TxsOf(reserved[j])) = {}
      BY Zenon DEF ReservationsExact
    <2>2. D \subseteq DOMAIN reserved
      BY Zenon DEF D
    <2> QED BY <1>3, <1>10, <2>1, <2>2
  <1> QED BY <1>3, <1>4, <1>7, <1>12, <1>13, Zenon DEF W

(* handle_finalized_block: the transactions of the block are acknowledged, *)
(* expired commits dropped, ready reveals released, old markers pruned.    *)
LEMMA FinaliseStep ==
    ASSUME PoolInv, Finalise
    PROVE  PoolInv'
  <1>0. /\ NodeShape /\ TableShape /\ QueueShape /\ Finite /\ PendingLive /\ ForgottenIsOld
        /\ CountCovers /\ PendingWithinLimit /\ ReservationsExact /\ PoolIsDurable
    BY DEF PoolInv
  <1> DEFINE h == chain + 1
             T == Range(candidate.txs)
             accepted == Released(h)
             promoted == {q.commit : q \in accepted}
             dropped == Expired(h) \cup promoted
  <1>1. /\ chain' = h /\ h \in Nat /\ h <= MaxHeight /\ candidate' = None
        /\ finalised' = finalised \cup T
        /\ IsFiniteSet(finalised') /\ finalised' \subseteq Txs
    BY StoredBlock, Zenon DEF Finalise
  <1>2. PICK order \in Orders(promoted) : revealed' = Unacknowledged(revealed, T) \o order
    BY Zenon DEF Finalise
  <1>3. /\ height' = h /\ pending' = (pending \ Expired(h)) \ promoted
        /\ queued' = {q \in queued : q.commit \notin Expired(h) /\ q.at > h}
        /\ count' = CountWithout(dropped)
        /\ reserved' = ReservedWithout(T) /\ active' = active \ T
        /\ revealRows' = accepted \cup
              {r \in revealRows : r.commit \notin Acknowledged(T) \cup promoted}
        /\ commitRows' = commitRows \ (Acknowledged(T) \cup Expired(h) \cup promoted)
        /\ seen' = SeenAfter(h) /\ executed' = None /\ snapshot' = TRUE
        /\ UNCHANGED <<nextId, serviceStarted, rows, admitted>>
    BY Zenon DEF Finalise
  <1>4. /\ accepted \subseteq queued
        /\ \A q \in accepted : /\ q.commit \in pending /\ q.commit \notin Expired(h)
                               /\ q.commit.sender = TxSender(q.commit)
    BY Zenon DEF Released, Revealable
  <1>5. Expired(h) \subseteq pending /\ \A c \in pending : c \in Expired(h) <=> IsExpired(c, h)
    BY Zenon DEF Expired
  <1> HIDE DEF T, accepted, h
  <1>6. /\ accepted \subseteq [commit : Commits, at : Nat]
        /\ promoted \subseteq Pairs /\ promoted \subseteq pending
    BY <1>0, <1>4, Zenon DEF TableShape, Pairs
  <1>7. IsFiniteSet(accepted) /\ IsFiniteSet(promoted)
    BY <1>0, <1>4, <1>6, FS_Subset, Zenon DEF Finite
  <1>8. order \in Seq(promoted) /\ order \in Seq(Pairs) /\ Range(order) = promoted
    BY <1>2, <1>6, <1>7, OrderCovers
  <1>9. /\ Unacknowledged(revealed, T) \in Seq(Pairs)
        /\ Range(Unacknowledged(revealed, T)) = {c \in Range(revealed) : Tx(c) \notin T}
    BY <1>0, UnacknowledgedKeeps DEF QueueShape
  <1>10. /\ revealed' \in Seq(Pairs)
         /\ Range(revealed') = Range(Unacknowledged(revealed, T)) \cup promoted
    BY <1>2, <1>8, <1>9, ConcatPairs, Zenon
  <1>11. /\ DOMAIN reserved' \subseteq DOMAIN reserved
         /\ \A i \in DOMAIN reserved' : reserved'[i] \in Seq(Pairs)
         /\ InPool' = {c \in InPool : Tx(c) \notin T} \cup promoted
         /\ ReservationsExact'
    <2>1. reserved' = ReservedWithout(T) /\ active' = active \ T
      BY <1>3, Zenon
    <2>2. /\ DOMAIN reserved' \subseteq DOMAIN reserved
          /\ \A i \in DOMAIN reserved' : reserved'[i] \in Seq(Pairs)
          /\ Range(Unacknowledged(revealed, T)) \cup UNION {Range(reserved'[i]) : i \in DOMAIN reserved'}
                = {c \in InPool : Tx(c) \notin T}
          /\ active' = UNION {Range(TxsOf(reserved'[i])) : i \in DOMAIN reserved'}
          /\ \A i, j \in DOMAIN reserved' : i # j =>
                Range(TxsOf(reserved'[i])) \cap Range(TxsOf(reserved'[j])) = {}
      BY <1>0, <2>1, AcknowledgeKeeps
    <2>3. InPool' = Range(revealed') \cup UNION {Range(reserved'[i]) : i \in DOMAIN reserved'}
      BY Zenon DEF InPool
    <2>4. InPool' = {c \in InPool : Tx(c) \notin T} \cup promoted
      <3> DEFINE U == UNION {Range(reserved'[i]) : i \in DOMAIN reserved'}
                 V == {c \in InPool : Tx(c) \notin T}
      <3> HIDE DEF U, V, promoted
      <3> QED BY <1>10, <2>2, <2>3, Zenon DEF U, V
    <2> QED BY <2>2, <2>4, Zenon DEF ReservationsExact
  <1>12. dropped \subseteq pending /\ pending' = pending \ dropped
    BY <1>3, <1>5, <1>6, Zenon
  <1>13. /\ count' \in [Senders -> Nat]
         /\ \A s \in Senders : Cardinality(Owned(pending', s)) <= count'[s]
    <2> HIDE DEF dropped
    <2> QED BY <1>0, <1>3, <1>12, CountAfterDrop, Zenon DEF TableShape, Finite, CountCovers
  <1>14. seen' \subseteq seen
    BY <1>3, Zenon DEF SeenAfter
  <1>15. NodeShape' /\ TableShape' /\ QueueShape'
    <2>1. NodeShape'
      <3>1. height' = h /\ executed' = None /\ snapshot' = TRUE /\ UNCHANGED <<serviceStarted, rows>>
        BY <1>3, Zenon
      <3>2. chain' \in Nat /\ chain' <= MaxHeight /\ height' \in Nat /\ height' <= chain'
        BY <1>1, <3>1
      <3> QED BY <1>0, <1>1, <3>1, <3>2, Zenon DEF NodeShape
    <2>2. \A r \in revealRows' : r.commit \in Pairs
      BY <1>0, <1>3, <1>6, Zenon DEF TableShape
    <2>3. /\ revealRows' \subseteq [commit : Commits, at : Nat]
          /\ queued' \subseteq [commit : Commits, at : Nat]
          /\ pending' \subseteq Commits /\ commitRows' \subseteq Commits
          /\ seen' \subseteq Commits /\ admitted' \subseteq Commits
      BY <1>0, <1>3, <1>6, <1>14, Zenon DEF TableShape
    <2>4. TableShape'
      BY <1>13, <2>2, <2>3, Zenon DEF TableShape
    <2>5. QueueShape'
      <3>1. nextId' = nextId /\ active' \subseteq active
        BY <1>3, Zenon
      <3> QED BY <1>0, <1>10, <1>11, <3>1, Zenon DEF QueueShape
    <2> QED BY <2>1, <2>4, <2>5, Zenon
  <1>16. Finite'
    <2>1. pending' \subseteq pending /\ commitRows' \subseteq commitRows
      BY <1>3, Zenon
    <2>5. IsFiniteSet(pending') /\ IsFiniteSet(commitRows')
      BY <1>0, <2>1, FS_Subset, Zenon DEF Finite
    <2>2. IsFiniteSet(queued')
      BY <1>0, <1>3, FS_Subset, Zenon DEF Finite
    <2>3. IsFiniteSet({r \in revealRows : r.commit \notin Acknowledged(T) \cup promoted})
      BY <1>0, FS_Subset, Zenon DEF Finite
    <2>4. IsFiniteSet(revealRows')
      BY <1>3, <1>7, <2>3, FS_Union, Zenon
    <2> QED BY <1>1, <2>2, <2>4, <2>5, Zenon DEF Finite
  <1>17. PendingLive'
    BY <1>3, <1>5, Zenon DEF PendingLive, IsExpired
  <1>18. ForgottenIsOld'
    <2> SUFFICES ASSUME NEW c \in admitted, c \notin seen'
                 PROVE  c.at + 1 <= chain' /\ c.at + 1 < height'
      BY <1>3, Zenon DEF ForgottenIsOld
    <2>1. c.at \in Nat /\ chain \in Nat
      BY <1>0, CommitFields, Zenon DEF NodeShape, TableShape
    <2>2. chain' = chain + 1 /\ height' = chain + 1 /\ seen' = SeenAfter(chain + 1)
      BY <1>1, <1>3, Zenon DEF h
    <2>3. CASE c \notin seen
      <3>1. c.at + 1 <= chain
        BY <1>0, <2>3, Zenon DEF ForgottenIsOld
      <3> QED BY <2>1, <2>2, <3>1
    <2>4. CASE c \in seen
      <3>1. ~(c.at >= Monus(chain + 1, Window + Expiry + PruneSlack))
        BY <2>2, <2>4, Zenon DEF SeenAfter
      <3> QED BY <2>1, <2>2, <3>1, Bounds DEF Monus
    <2> QED BY <2>3, <2>4, Zenon
  <1>19. CountCovers'
    <2> SUFFICES ASSUME NEW c \in commitRows'
                 PROVE  c \in pending' \/ \E r \in revealRows' : r.commit = c
      BY <1>13, Zenon DEF CountCovers
    <2>1. c \in commitRows /\ c \notin Acknowledged(T) /\ c \notin Expired(h) /\ c \notin promoted
      BY <1>3, Zenon
    <2> QED BY <1>0, <1>3, <2>1, Zenon DEF CountCovers
  <1>20. PendingWithinLimit'
    <2> SUFFICES ASSUME NEW s \in Senders
                 PROVE  Cardinality(Owned(pending', s)) <= MaxPerSender
      BY Zenon DEF PendingWithinLimit
    <2>1. Cardinality(Owned(pending', s)) <= Cardinality(Owned(pending, s))
      BY <1>0, <1>12, OwnedGrows, Zenon DEF Finite
    <2>2. /\ Cardinality(Owned(pending, s)) \in Nat /\ Cardinality(Owned(pending', s)) \in Nat
          /\ Cardinality(Owned(pending, s)) <= MaxPerSender
      BY <1>0, <1>16, OwnedFinite, Zenon DEF Finite, PendingWithinLimit
    <2> QED BY <2>1, <2>2, Bounds
  <1>21. PoolIsDurable'
    <2>1. ASSUME NEW c \in pending' PROVE c \in commitRows' \/ Tx(c) \in finalised'
      <3>1. c \in pending /\ c \notin Expired(h) /\ c \notin promoted
        BY <1>3, <2>1, Zenon
      <3>2. c \in Acknowledged(T) => Tx(c) \in T
        BY Zenon DEF Acknowledged
      <3>3. c \in commitRows \/ Tx(c) \in finalised
        BY <1>0, <3>1, Zenon DEF PoolIsDurable
      <3> QED BY <1>1, <1>3, <3>1, <3>2, <3>3, Zenon
    <2>2. ASSUME NEW c \in InPool' PROVE \E r \in revealRows' : Tx(r.commit) = Tx(c)
      <3>1. CASE c \in promoted
        BY <1>3, <3>1, Zenon
      <3>2. CASE c \in InPool /\ Tx(c) \notin T
        <4>1. PICK r \in revealRows : Tx(r.commit) = Tx(c)
          BY <1>0, <3>2, Zenon DEF PoolIsDurable
        <4>2. r.commit \notin Acknowledged(T)
          BY <3>2, <4>1, Zenon DEF Acknowledged
        <4>3. CASE r.commit \in promoted
          BY <1>3, <4>1, <4>3, Zenon
        <4>4. CASE r.commit \notin promoted
          BY <1>3, <4>1, <4>2, <4>4, Zenon
        <4> QED BY <4>3, <4>4, Zenon
      <3> QED BY <1>11, <2>2, <3>1, <3>2, Zenon
    <2>3. ASSUME NEW r \in revealRows'
          PROVE  Tx(r.commit) \in finalised' \/ \E c \in InPool' : Tx(c) = Tx(r.commit)
      <3>1. CASE r \in accepted
        BY <1>11, <3>1, Zenon
      <3>2. CASE r \in revealRows
        <4>1. Tx(r.commit) \in finalised \/ \E c \in InPool : Tx(c) = Tx(r.commit)
          BY <1>0, <3>2, Zenon DEF PoolIsDurable
        <4> QED BY <1>1, <1>11, <4>1, Zenon
      <3> QED BY <1>3, <2>3, <3>1, <3>2, Zenon
    <2> QED BY <2>1, <2>2, <2>3, Zenon DEF PoolIsDurable
  <1> QED BY <1>11, <1>15, <1>16, <1>17, <1>18, <1>19, <1>20, <1>21, Zenon DEF PoolInv

(* A restart from the rows C and R, whether they are those in storage or   *)
(* what a crash inside an operation left.                                  *)
LEMMA RecoverStep ==
    ASSUME PoolInv,
           NEW C \in SUBSET Commits, IsFiniteSet(C),
           NEW R \in SUBSET [commit : Commits, at : Nat], IsFiniteSet(R),
           \A r \in R : r.commit \in Pairs,
           \A s \in Senders : Cardinality(Owned(C \ Matched(R, C), s)) <= MaxPerSender,
           Recover(C, R)
    PROVE  PoolInv'
  <1>0. /\ NodeShape /\ TableShape /\ QueueShape /\ Finite /\ ForgottenIsOld
    BY Zenon DEF PoolInv
  <1> DEFINE matched == Matched(R, C)
             zero == [s \in Senders |-> 0]
             once == RestoredCount(zero, C, matched)
  <1>1. PICK pairs \in RestoredPairs(R, C) : revealed' = pairs \o pairs
    BY Zenon DEF Recover
  <1>2. /\ pairs \in Seq(Pairs)
        /\ \A c \in Range(pairs) : \E r \in R : Tx(r.commit) = Tx(c)
        /\ \A r \in R : \E c \in Range(pairs) : Tx(c) = Tx(r.commit)
    BY <1>1, RestoredCovers
  <1>3. revealed' \in Seq(Pairs) /\ Range(revealed') = Range(pairs)
    BY <1>1, <1>2, ConcatPairs, Zenon
  <1>4. /\ height' = 0 /\ pending' = C \ matched /\ count' = RestoredCount(once, C, matched)
        /\ queued' = {} /\ reserved' = <<>> /\ active' = {} /\ nextId' = 1
        /\ commitRows' = C /\ revealRows' = R
        /\ serviceStarted' = FALSE /\ candidate' = None
        /\ executed' = (IF snapshot THEN None ELSE executed)
        /\ rows' = (IF snapshot THEN FinalNonces ELSE rows)
        /\ UNCHANGED <<seen, chain, snapshot, finalised, admitted>>
    BY Zenon DEF Recover
  <1>5. matched \subseteq C /\ \A c \in C : c \in matched <=> \E r \in R : r.commit = c
    BY Zenon DEF Matched
  <1>6. InPool' = Range(pairs)
    <2>1. DOMAIN reserved' = {}
      BY <1>4
    <2> QED BY <1>3, <2>1, Zenon DEF InPool
  <1>7. FinalNonces \in [Senders -> Nat]
    BY <1>0, FS_Subset, FS_CardinalityType, Zenon DEF Finite, FinalNonces
  <1> HIDE DEF matched
  <1>8. /\ RestoredCount(once, C, matched) \in [Senders -> Nat]
        /\ \A s \in Senders : Cardinality(Owned(C \ matched, s)) <= RestoredCount(once, C, matched)[s]
    <2>1. IsFiniteSet({}) /\ zero \in [Senders -> Nat]
      BY FS_EmptySet, Zenon
    <2>2. \A s \in Senders : Owned({}, s) = {}
      BY Zenon DEF Owned
    <2>3. \A s \in Senders : Cardinality(Owned({}, s)) <= zero[s]
      <3>1. Cardinality({}) = 0
        BY FS_EmptySet, Zenon
      <3>2. \A s \in Senders : Cardinality(Owned({}, s)) = 0
        BY <2>2, <3>1, Zenon
      <3> QED BY <3>2
    <2> HIDE DEF zero
    <2>4. /\ once \in [Senders -> Nat]
          /\ \A s \in Senders : Cardinality(Owned(({} \cup C) \ matched, s)) <= once[s]
      BY <1>5, <2>1, <2>3, CountAfterRestore, Zenon
    <2>5. ({} \cup C) \ matched = C \ matched /\ ((C \ matched) \cup C) \ matched = C \ matched
      OBVIOUS
    <2>6. IsFiniteSet(C \ matched) /\ matched \subseteq (C \ matched) \cup C
      BY <1>5, FS_Difference, Zenon
    <2> HIDE DEF once
    <2>7. \A s \in Senders : Cardinality(Owned(C \ matched, s)) <= once[s]
      BY <2>4, <2>5, Zenon
    <2>8. /\ RestoredCount(once, C, matched) \in [Senders -> Nat]
          /\ \A s \in Senders : Cardinality(Owned(((C \ matched) \cup C) \ matched, s))
                                   <= RestoredCount(once, C, matched)[s]
      BY <2>4, <2>6, <2>7, CountAfterRestore, Zenon
    <2> QED BY <2>5, <2>8, Zenon
  <1>9. NodeShape' /\ TableShape' /\ QueueShape'
    <2>1. NodeShape'
      <3>1. /\ chain' \in Nat /\ chain' <= MaxHeight /\ height' \in Nat /\ height' <= chain'
            /\ finalised' \subseteq Txs
        BY <1>0, <1>4 DEF NodeShape
      <3>2. executed' \in Blocks \cup {None} /\ candidate' = None /\ rows' \in [Senders -> Nat]
        BY <1>0, <1>4, <1>7, Zenon DEF NodeShape
      <3>3. serviceStarted' \in BOOLEAN /\ snapshot' \in BOOLEAN
        BY <1>0, <1>4, Zenon DEF NodeShape
      <3> QED BY <3>1, <3>2, <3>3, Zenon DEF NodeShape
    <2>2. TableShape'
      BY <1>0, <1>4, <1>8, Zenon DEF TableShape
    <2>3. QueueShape'
      <3>1. DOMAIN reserved' = {} /\ nextId' = 1 /\ active' = {}
        BY <1>4
      <3> QED BY <1>3, <3>1 DEF QueueShape
    <2> QED BY <2>1, <2>2, <2>3, Zenon
  <1>10. Finite'
    BY <1>0, <1>4, FS_Difference, FS_EmptySet, Zenon DEF Finite
  <1>11. PendingLive' /\ ForgottenIsOld'
    <2>1. \A c \in C : c.at \in Nat
      BY CommitFields, Zenon
    <2> QED BY <1>0, <1>4, <2>1, Bounds DEF PendingLive, IsExpired, ForgottenIsOld
  <1>12. CountCovers'
    BY <1>4, <1>5, <1>8, Zenon DEF CountCovers
  <1>13. PendingWithinLimit'
    BY <1>4, Zenon DEF PendingWithinLimit, matched
  <1>14. ReservationsExact'
    <2>1. DOMAIN reserved' = {} /\ active' = {}
      BY <1>4
    <2> QED BY <2>1, Zenon DEF ReservationsExact
  <1>15. PoolIsDurable'
    BY <1>2, <1>4, <1>6, Zenon DEF PoolIsDurable
  <1> QED BY <1>9, <1>10, <1>11, <1>12, <1>13, <1>14, <1>15, Zenon DEF PoolInv

(* The commits a restart from the rows would put back are pending now.     *)
LEMMA RowsArePending ==
    ASSUME PoolInv, NEW R, \A r \in revealRows : \E q \in R : q.commit = r.commit
    PROVE  commitRows \ Matched(R, commitRows) \subseteq pending
  BY Zenon DEF PoolInv, CountCovers, Matched

LEMMA RestartStep ==
    ASSUME PoolInv, Restart
    PROVE  PoolInv'
  <1>1. /\ commitRows \in SUBSET Commits /\ IsFiniteSet(commitRows)
        /\ revealRows \in SUBSET [commit : Commits, at : Nat] /\ IsFiniteSet(revealRows)
        /\ \A r \in revealRows : r.commit \in Pairs
        /\ IsFiniteSet(pending) /\ PendingWithinLimit
    BY Zenon DEF PoolInv, TableShape, Finite
  <1>2. commitRows \ Matched(revealRows, commitRows) \subseteq pending
    BY RowsArePending, Zenon
  <1>3. ASSUME NEW s \in Senders
        PROVE  Cardinality(Owned(commitRows \ Matched(revealRows, commitRows), s)) <= MaxPerSender
    <2> DEFINE P == commitRows \ Matched(revealRows, commitRows)
    <2>1. IsFiniteSet(P)
      BY <1>1, FS_Difference, Zenon
    <2> HIDE DEF P
    <2>2. /\ Cardinality(Owned(P, s)) \in Nat /\ Cardinality(Owned(pending, s)) \in Nat
          /\ Cardinality(Owned(P, s)) <= Cardinality(Owned(pending, s))
      BY <1>1, <1>2, <2>1, OwnedFinite, OwnedGrows, Zenon DEF P
    <2>3. Cardinality(Owned(P, s)) <= MaxPerSender
      BY <1>1, <2>2, Bounds DEF PendingWithinLimit
    <2> QED BY <2>3, Zenon DEF P
  <1> QED BY <1>1, <1>3, RecoverStep, Zenon DEF Restart

LEMMA CrashInInsertStep ==
    ASSUME PoolInv, NEW c \in Commits, CrashInInsert(c)
    PROVE  PoolInv'
  <1> DEFINE C == commitRows \cup {c}
             P == C \ Matched(revealRows, C)
  <1>1. /\ C \in SUBSET Commits /\ IsFiniteSet(C)
        /\ revealRows \in SUBSET [commit : Commits, at : Nat] /\ IsFiniteSet(revealRows)
        /\ \A r \in revealRows : r.commit \in Pairs
        /\ IsFiniteSet(pending)
    BY FS_AddElement, Zenon DEF PoolInv, TableShape, Finite
  <1>2. P \subseteq pending \cup {c}
    BY Zenon DEF PoolInv, CountCovers, Matched
  <1>3. IsFiniteSet(P) /\ IsFiniteSet(pending \cup {c}) /\ IsFiniteSet({c})
    BY <1>1, FS_Difference, FS_AddElement, FS_Singleton, Zenon
  <1> HIDE DEF C, P
  <1>4. ASSUME NEW s \in Senders
        PROVE  Cardinality(Owned(P, s)) <= MaxPerSender
    <2>1. /\ Cardinality(Owned(P, s)) \in Nat /\ Cardinality(Owned(pending, s)) \in Nat
          /\ Cardinality(Owned(pending \cup {c}, s)) \in Nat
          /\ Cardinality(Owned(P, s)) <= Cardinality(Owned(pending \cup {c}, s))
      BY <1>1, <1>2, <1>3, OwnedFinite, OwnedGrows, Zenon
    <2>2. Cardinality(Owned(pending \cup {c}, s))
              <= Cardinality(Owned(pending, s)) + (IF c.sender = s THEN 1 ELSE 0)
      BY <1>1, OwnedAdd, Zenon
    <2>3. /\ Cardinality(Owned(pending, s)) <= MaxPerSender
          /\ Cardinality(Owned(pending, s)) <= count[s] /\ count[s] \in Nat
      BY Zenon DEF PoolInv, PendingWithinLimit, CountCovers, TableShape
    <2>4. count[c.sender] < MaxPerSender
      BY Zenon DEF CrashInInsert, Insertable
    <2> QED BY <2>1, <2>2, <2>3, <2>4, Bounds
  <1>5. Recover(C, revealRows)
    BY Zenon DEF CrashInInsert, C
  <1>6. \A s \in Senders : Cardinality(Owned(C \ Matched(revealRows, C), s)) <= MaxPerSender
    BY <1>4, Zenon DEF P
  <1> QED BY <1>1, <1>5, <1>6, RecoverStep, Zenon

LEMMA CrashInRevealStep ==
    ASSUME PoolInv, NEW c, NEW at \in Nat, CrashInReveal(c, at)
    PROVE  PoolInv'
  <1> DEFINE r == Reveal(c, at)
             R == PutReveal(revealRows, r)
             P == commitRows \ Matched(R, commitRows)
  <1>1. c \in Commits /\ c \in Pairs
    BY Zenon DEF CrashInReveal, Revealable, PoolInv, TableShape, Pairs
  <1>2. r \in [commit : Commits, at : Nat] /\ r.commit = c
    BY <1>1, Zenon DEF Reveal
  <1>3. /\ commitRows \in SUBSET Commits /\ IsFiniteSet(commitRows)
        /\ revealRows \in SUBSET [commit : Commits, at : Nat] /\ IsFiniteSet(revealRows)
        /\ \A q \in revealRows : q.commit \in Pairs
        /\ IsFiniteSet(pending) /\ PendingWithinLimit
    BY Zenon DEF PoolInv, TableShape, Finite
  <1> HIDE DEF r
  <1>4. R = {q \in revealRows : q.commit # c} \cup {r}
    BY <1>2, Zenon DEF PutReveal
  <1> HIDE DEF R
  <1>5. IsFiniteSet(R)
    <2>1. IsFiniteSet({q \in revealRows : q.commit # c})
      BY <1>3, FS_Subset, Zenon
    <2> QED BY <1>4, <2>1, FS_AddElement, Zenon
  <1>6. R \in SUBSET [commit : Commits, at : Nat] /\ \A q \in R : q.commit \in Pairs
    BY <1>1, <1>2, <1>3, <1>4, Zenon
  <1>7. \A q \in revealRows : \E p \in R : p.commit = q.commit
    BY <1>2, <1>4, Zenon
  <1>8. P \subseteq pending
    BY <1>7, RowsArePending, Zenon
  <1>9. IsFiniteSet(P)
    BY <1>3, FS_Difference, Zenon
  <1>10. ASSUME NEW s \in Senders
         PROVE  Cardinality(Owned(P, s)) <= MaxPerSender
    <2> HIDE DEF P
    <2>1. /\ Cardinality(Owned(P, s)) \in Nat /\ Cardinality(Owned(pending, s)) \in Nat
          /\ Cardinality(Owned(P, s)) <= Cardinality(Owned(pending, s))
      BY <1>3, <1>8, <1>9, OwnedFinite, OwnedGrows, Zenon
    <2> QED BY <1>3, <2>1, Bounds DEF PendingWithinLimit
  <1>11. Recover(commitRows, R)
    BY Zenon DEF CrashInReveal, R, r
  <1> QED BY <1>3, <1>5, <1>6, <1>10, <1>11, RecoverStep, Zenon

(* The third restore, in the task of the mempool service, on a pool that   *)
(* may have been used since the restart.                                   *)
LEMMA ServiceStartStep ==
    ASSUME PoolInv, ServiceStart
    PROVE  PoolInv'
  <1>0. /\ NodeShape /\ TableShape /\ QueueShape /\ Finite /\ PendingLive /\ ForgottenIsOld
        /\ CountCovers /\ PendingWithinLimit /\ ReservationsExact /\ PoolIsDurable
    BY DEF PoolInv
  <1> DEFINE live == {c \in commitRows : ~IsExpired(c, height)}
             P == pending \cup live
             matched == Matched(revealRows, P)
  <1>1. PICK pairs \in RestoredPairs(revealRows, P) : revealed' = revealed \o pairs
    BY Zenon DEF ServiceStart
  <1>2. /\ pending' = P \ matched /\ count' = RestoredCount(count, live, matched)
        /\ commitRows' = live /\ serviceStarted' = TRUE
        /\ UNCHANGED <<height, queued, reserved, active, nextId, revealRows, seen, chain, rows,
                       executed, candidate, snapshot, finalised, admitted>>
    BY Zenon DEF ServiceStart
  <1>3. /\ matched \subseteq P
        /\ \A c \in P : c \in matched <=> \E r \in revealRows : r.commit = c
    BY Zenon DEF Matched
  <1> HIDE DEF matched
  <1>4. live \subseteq commitRows /\ IsFiniteSet(live) /\ IsFiniteSet(P) /\ IsFiniteSet(P \ matched)
    BY <1>0, FS_Subset, FS_Union, FS_Difference, Zenon DEF Finite
  <1>5. P \subseteq Commits
    BY <1>0, <1>4, Zenon DEF TableShape
  <1>6. pending' \subseteq pending
    BY <1>0, <1>2, <1>3, <1>4, Zenon DEF CountCovers
  <1>7. /\ pairs \in Seq(Pairs)
        /\ \A c \in Range(pairs) : \E r \in revealRows : Tx(r.commit) = Tx(c)
    <2> HIDE DEF P
    <2> QED BY <1>0, <1>1, RestoredCovers, Zenon DEF TableShape, Finite
  <1>8. revealed' \in Seq(Pairs) /\ Range(revealed') = Range(revealed) \cup Range(pairs)
    BY <1>0, <1>1, <1>7, ConcatPairs, Zenon DEF QueueShape
  <1>9. InPool' = InPool \cup Range(pairs)
    BY <1>2, <1>8, Zenon DEF InPool
  <1>10. /\ RestoredCount(count, live, matched) \in [Senders -> Nat]
         /\ \A s \in Senders : Cardinality(Owned(P \ matched, s))
                                   <= RestoredCount(count, live, matched)[s]
    <2> HIDE DEF live
    <2> QED BY <1>0, <1>3, <1>4, CountAfterRestore, Zenon DEF TableShape, Finite, CountCovers
  <1>11. NodeShape' /\ TableShape' /\ QueueShape'
    <2>1. NodeShape'
      BY <1>0, <1>2, Zenon DEF NodeShape
    <2>2. pending' \subseteq Commits /\ commitRows' \subseteq Commits /\ count' \in [Senders -> Nat]
      BY <1>2, <1>4, <1>5, <1>10, Zenon
    <2>3. TableShape'
      BY <1>0, <1>2, <2>2, Zenon DEF TableShape
    <2>4. QueueShape'
      BY <1>0, <1>2, <1>8, Zenon DEF QueueShape
    <2> QED BY <2>1, <2>3, <2>4, Zenon
  <1>12. Finite'
    BY <1>0, <1>2, <1>4, Zenon DEF Finite
  <1>13. PendingLive' /\ ForgottenIsOld'
    BY <1>0, <1>2, <1>6, Zenon DEF PendingLive, IsExpired, ForgottenIsOld
  <1>14. CountCovers'
    BY <1>0, <1>2, <1>3, <1>10, Zenon DEF CountCovers
  <1>15. PendingWithinLimit'
    <2> SUFFICES ASSUME NEW s \in Senders
                 PROVE  Cardinality(Owned(pending', s)) <= MaxPerSender
      BY Zenon DEF PendingWithinLimit
    <2>1. Cardinality(Owned(pending', s)) <= Cardinality(Owned(pending, s))
      BY <1>0, <1>6, OwnedGrows, Zenon DEF Finite
    <2>2. /\ Cardinality(Owned(pending, s)) \in Nat /\ Cardinality(Owned(pending', s)) \in Nat
          /\ Cardinality(Owned(pending, s)) <= MaxPerSender
      BY <1>0, <1>12, OwnedFinite, Zenon DEF Finite, PendingWithinLimit
    <2> QED BY <2>1, <2>2, Bounds
  <1>16. ReservationsExact'
    BY <1>0, <1>2, Zenon DEF ReservationsExact
  <1>17. PoolIsDurable'
    <2>1. \A c \in pending' : c \in commitRows' \/ Tx(c) \in finalised'
      BY <1>0, <1>2, <1>6, Zenon DEF PoolIsDurable, PendingLive
    <2> QED BY <1>0, <1>2, <1>7, <1>9, <2>1, Zenon DEF PoolIsDurable
  <1> QED BY <1>11, <1>12, <1>13, <1>14, <1>15, <1>16, <1>17, Zenon DEF PoolInv

(***************************************************************************)
(* Theorems                                                                *)
(***************************************************************************)

LEMMA PoolStep ==
    PoolInv /\ [Next]_vars => PoolInv'
  <1> SUFFICES ASSUME PoolInv, [Next]_vars PROVE PoolInv'
    OBVIOUS
  <1>0. /\ height \in Nat /\ queued \subseteq [commit : Commits, at : Nat] /\ IsFiniteSet(queued)
        /\ Gossip \subseteq Commits
    BY PoolAssumption, Zenon DEF PoolInv, NodeShape, TableShape, Finite, Commits
  <1>1. ASSUME NEW h \in Hashes, SubmitProtected(h) PROVE PoolInv'
    <2> DEFINE c == Commit(h, SenderOf[TxOf[h]], height)
    <2>1. c \in Commits
      BY <1>0, PoolAssumption, Zenon DEF Commit, Commits
    <2>2. /\ InsertCommit(c) /\ queued' = queued \cup {Reveal(c, height + 1)}
          /\ UNCHANGED <<height, revealed, reserved, active, nextId, revealRows, node>>
      BY <1>1, Zenon DEF SubmitProtected
    <2> HIDE DEF c
    <2>3. Reveal(c, height + 1) \in [commit : Commits, at : Nat]
      BY <1>0, <2>1 DEF Reveal
    <2>4. queued' \subseteq [commit : Commits, at : Nat] /\ IsFiniteSet(queued')
      BY <1>0, <2>2, <2>3, FS_AddElement, Zenon
    <2> QED BY <2>1, <2>2, <2>4, InsertStep, Zenon
  <1>2. ASSUME NEW c \in Gossip, SubmitCommit(c) PROVE PoolInv'
    <2>1. /\ InsertCommit(c) /\ queued' = queued
          /\ UNCHANGED <<height, revealed, reserved, active, nextId, revealRows, node>>
      BY <1>2, Zenon DEF SubmitCommit
    <2> QED BY <1>0, <2>1, InsertStep, Zenon
  <1>3. ASSUME NEW c \in Gossip, CrashInInsert(c) PROVE PoolInv'
    BY <1>0, <1>3, CrashInInsertStep, Zenon
  <1>4. ASSUME NEW c \in pending \cap Gossip, NEW at \in {height, height + 1},
               SubmitReveal(c, at) \/ CrashInReveal(c, at)
        PROVE  PoolInv'
    <2>1. at \in Nat
      BY <1>0
    <2> QED BY <1>4, <2>1, RevealStep, CrashInRevealStep, Zenon
  <1>5. ASSUME NEW txs \in ForeignBodies, ReceiveBlock(txs) \/ Synchronize(txs) PROVE PoolInv'
    BY <1>5, ReceiveStep, SynchronizeStep, Zenon
  <1>6. CASE UNCHANGED vars
    <2>1. /\ UNCHANGED pool /\ UNCHANGED durable /\ UNCHANGED admitted /\ UNCHANGED node
      BY <1>6, Zenon DEF vars
    <2>2. NodeShape' /\ chain <= chain' /\ finalised \subseteq finalised' /\ IsFiniteSet(finalised')
      BY <2>1 DEF PoolInv, NodeShape, Finite, pool, durable, node
    <2> QED BY <2>1, <2>2, ChainStep, Zenon
  <1> QED BY <1>1, <1>2, <1>3, <1>4, <1>5, <1>6, ProduceStep, FinaliseStep, FinaliseStaleStep,
             RestartStep, ServiceStartStep, Zenon DEF Next

(* The invariant holds in every state the pool can reach.                  *)
THEOREM PoolInvariant == Spec => []PoolInv
  BY PoolInitially, PoolStep, PTL DEF Spec

(* Types: what is in the queue or in a reservation is always a commit of   *)
(* the transaction's own sender (verify_reveal_validity), whatever was     *)
(* gossiped and however often rows were restored.                          *)
THEOREM PoolTypes == Spec => []TypeOK
  <1>1. PoolInv => TypeOK
    <2> SUFFICES ASSUME PoolInv PROVE TypeOK
      OBVIOUS
    <2>1. NodeShape /\ TableShape /\ QueueShape
      BY Zenon DEF PoolInv
    <2>2. Range(revealed) \subseteq Pairs /\ \A i \in DOMAIN reserved : Range(reserved[i]) \subseteq Pairs
      BY <2>1, TxsOfRange, Zenon DEF QueueShape
    <2>3. InPool \subseteq Pairs
      BY <2>2, Zenon DEF InPool
    <2>4. height \in Heights /\ chain \in Heights
      BY <2>1, Bounds DEF NodeShape, Heights
    <2> QED BY <2>1, <2>3, <2>4, Zenon DEF NodeShape, TableShape, QueueShape, TypeOK, Pairs
  <1> QED BY <1>1, PoolInvariant, PTL

(* The hashes marked as reserved by build_block_transactions are exactly   *)
(* those of the reservations, and no transaction is in two of them.        *)
THEOREM ReservationsExactTheorem == Spec => []ReservationsExact
  <1>1. PoolInv => ReservationsExact
    BY Zenon DEF PoolInv
  <1> QED BY <1>1, PoolInvariant, PTL

(* No crash or restart loses a pending commit or a revealed transaction    *)
(* that is not on the chain.                                               *)
THEOREM PoolIsDurableTheorem == Spec => []PoolIsDurable
  <1>1. PoolInv => PoolIsDurable
    BY Zenon DEF PoolInv
  <1> QED BY <1>1, PoolInvariant, PTL

(* The spam guard of insert_commit_locally holds although the counter it   *)
(* reads drifts: the counter is never below the number of pending commits. *)
THEOREM PendingWithinLimitTheorem == Spec => []PendingWithinLimit
  <1>1. PoolInv => PendingWithinLimit
    BY Zenon DEF PoolInv
  <1> QED BY <1>1, PoolInvariant, PTL

(* A commit that was accepted and is settled or expired is never pending   *)
(* again, although prune_seen_commits forgets it.                          *)
LEMMA NoReplayStep ==
    PoolInv /\ [Next]_vars =>
        [\A c \in admitted : c.at > 1 /\ c \notin pending \cup commitRows => c \notin pending']_vars
  <1> SUFFICES ASSUME PoolInv, Next, NEW c \in admitted, c.at > 1, c \notin pending,
                      c \notin commitRows
               PROVE  c \notin pending'
    OBVIOUS
  <1>0. NodeShape /\ TableShape /\ ForgottenIsOld
    BY Zenon DEF PoolInv
  <1>1. c.at \in Nat /\ height \in Nat
    BY <1>0, CommitFields, Zenon DEF NodeShape, TableShape
  <1>2. ~Insertable(c)
    <2> SUFFICES ASSUME Insertable(c) PROVE FALSE
      OBVIOUS
    <2>1. c \notin seen /\ c.at <= height + 1 /\ c.at + 1 >= height
      BY Zenon DEF Insertable
    <2>2. height = 0 \/ c.at + 1 < height
      BY <1>0, <2>1, Zenon DEF ForgottenIsOld
    <2> QED BY <1>1, <2>1, <2>2
  <1>3. ASSUME NEW d, InsertCommit(d) PROVE c \notin pending'
    BY <1>2, <1>3, Zenon DEF InsertCommit
  <1>4. ASSUME NEW C, NEW R, Recover(C, R), c \notin C PROVE c \notin pending'
    BY <1>4, Zenon DEF Recover
  <1>5. ASSUME NEW h \in Hashes, SubmitProtected(h) PROVE c \notin pending'
    BY <1>3, <1>5, Zenon DEF SubmitProtected
  <1>6. ASSUME NEW d \in Gossip, SubmitCommit(d) \/ CrashInInsert(d) PROVE c \notin pending'
    <2>1. CASE SubmitCommit(d)
      BY <1>3, <2>1, Zenon DEF SubmitCommit
    <2>2. CASE CrashInInsert(d)
      BY <1>2, <1>4, <2>2, Zenon DEF CrashInInsert
    <2> QED BY <1>6, <2>1, <2>2, Zenon
  <1>7. ASSUME NEW d \in pending \cap Gossip, NEW at \in {height, height + 1},
               SubmitReveal(d, at) \/ CrashInReveal(d, at)
        PROVE  c \notin pending'
    BY <1>4, <1>7, Zenon DEF SubmitReveal, CrashInReveal
  <1>8. ASSUME NEW txs \in ForeignBodies, ReceiveBlock(txs) \/ Synchronize(txs)
        PROVE  c \notin pending'
    BY <1>8, Zenon DEF ReceiveBlock, Synchronize, pool
  <1>9. CASE Finalise
    BY <1>9, Zenon DEF Finalise
  <1>10. CASE Produce \/ FinaliseStale
    BY <1>10, Zenon DEF Produce, FinaliseStale, pool
  <1>11. CASE Restart
    BY <1>4, <1>11, Zenon DEF Restart
  <1>12. CASE ServiceStart
    BY <1>12, Zenon DEF ServiceStart
  <1> QED BY <1>5, <1>6, <1>7, <1>8, <1>9, <1>10, <1>11, <1>12, Zenon DEF Next

THEOREM NoReplayTheorem == Spec => NoReplay
  BY PoolInvariant, NoReplayStep, PTL DEF Spec, NoReplay
=============================================================================
