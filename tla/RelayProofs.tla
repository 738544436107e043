---------------------------- MODULE RelayProofs -----------------------------
(***************************************************************************)
(* Proofs about module Relay, for every limit, window and capacity: the    *)
(* token buckets of peers and the gossip tracker's memories.               *)
(***************************************************************************)
EXTENDS Relay, TLAPS

(***************************************************************************)
(* Token buckets                                                           *)
(***************************************************************************)

(* With the units of a bucket that was last refilled then: the tokens      *)
(* since any grant, and what is left, fit a full bucket and the refill.    *)
Paced(g, units, last) ==
    \A a \in 1..Len(g) :
        (Len(g) - a + 1) * PeerWindow + units <= PeerLimit * PeerWindow + PeerLimit * (last - g[a])

(* Any two tokens: what PeerRateHeld says of one peer.                     *)
Even(g) ==
    \A a, b \in 1..Len(g) :
        a <= b => (b - a + 1) * PeerWindow <= PeerLimit * PeerWindow + PeerLimit * (g[b] - g[a])

(* A peer without a bucket has been idle long enough for a full one.       *)
PacedPeer(bs, g, p, clock) ==
    /\ Even(g)
    /\ IF p \in DOMAIN bs THEN Paced(g, bs[p].units, bs[p].last)
                          ELSE Paced(g, PeerLimit * PeerWindow, clock)

(* No bucket was refilled in the future.                                   *)
Bucketed(bs, clock) ==
    \A p \in DOMAIN bs : bs[p] \in [units : Nat, last : Nat] /\ bs[p].last <= clock

(* All peers but those whose bucket was cut.                               *)
PacedPeers(bs, gs, exempt, clock) ==
    /\ Bucketed(bs, clock)
    /\ \A p \in Peers : gs[p] \in Seq(Nat)
    /\ \A p \in Peers \ exempt : PacedPeer(bs, gs[p], p, clock)

(* What time adds to a bound on the tokens.                                *)
LEMMA PacedLater ==
    ASSUME NEW g \in Seq(Nat), NEW last \in Nat, NEW later \in Nat, NEW u \in Nat, NEW v \in Nat,
           Paced(g, u, last), v <= u + PeerLimit * (later - last)
    PROVE  Paced(g, v, later)
  <1> SUFFICES ASSUME NEW a \in 1..Len(g)
               PROVE  (Len(g) - a + 1) * PeerWindow + v
                         <= PeerLimit * PeerWindow + PeerLimit * (later - g[a])
    BY DEF Paced
  <1> DEFINE spent == (Len(g) - a + 1) * PeerWindow
             full == PeerLimit * PeerWindow
  <1>1. spent \in Int /\ full \in Int /\ g[a] \in Nat /\ PeerLimit \in Nat
    BY RelayAssumption
  <1>2. spent + u <= full + PeerLimit * (last - g[a])
    BY DEF Paced
  <1> HIDE DEF spent, full
  <1>3. PeerLimit * (later - g[a]) = PeerLimit * (last - g[a]) + PeerLimit * (later - last)
    BY <1>1
  <1>4. PeerLimit * (last - g[a]) \in Int /\ PeerLimit * (later - last) \in Int
    BY <1>1
  <1>5. spent + v <= full + PeerLimit * (later - g[a])
    <2> DEFINE before == PeerLimit * (last - g[a])
               since == PeerLimit * (later - last)
               all == PeerLimit * (later - g[a])
    <2>1. /\ before \in Int /\ since \in Int /\ all = before + since
          /\ spent + u <= full + before /\ v <= u + since
      BY <1>2, <1>3, <1>4
    <2> HIDE DEF before, since, all
    <2>2. spent + v <= full + all
      BY <1>1, <2>1
    <2> QED
      BY <2>2 DEF all
  <1> QED
    BY <1>5 DEF spent, full

(* try_consume takes a token from a bucket that has one.                   *)
LEMMA RefilledBounds ==
    ASSUME NEW b \in [units : Nat, last : Nat], now \in Nat, b.last <= now
    PROVE  LET r == Refilled(b, PeerLimit, PeerWindow)
           IN  /\ r \in [units : Nat, last : Nat] /\ r.last = now
               /\ r.units <= PeerLimit * PeerWindow
               /\ r.units <= b.units + PeerLimit * (now - b.last)
  <1> DEFINE u == b.units + (now - b.last) * PeerLimit
             full == PeerLimit * PeerWindow
  <1>1. full \in Nat /\ (now - b.last) * PeerLimit \in Nat
    BY RelayAssumption
  <1>2. u \in Nat /\ u = b.units + PeerLimit * (now - b.last)
    BY <1>1, RelayAssumption
  <1>3. Refilled(b, PeerLimit, PeerWindow) = [units |-> IF u > full THEN full ELSE u, last |-> now]
    BY DEF Refilled
  <1> HIDE DEF u, full
  <1>4. /\ (IF u > full THEN full ELSE u) \in Nat
        /\ (IF u > full THEN full ELSE u) <= full /\ (IF u > full THEN full ELSE u) <= u
    BY <1>1, <1>2
  <1> QED
    BY <1>2, <1>3, <1>4 DEF full

(* A token more, a unit of the window less.                                *)
LEMMA GrantPaced ==
    ASSUME NEW g \in Seq(Nat), NEW clock \in Nat, NEW u \in Nat, u >= PeerWindow,
           u <= PeerLimit * PeerWindow, Even(g), Paced(g, u, clock)
    PROVE  Even(Append(g, clock)) /\ Paced(Append(g, clock), u - PeerWindow, clock)
  <1> DEFINE h == Append(g, clock)
             full == PeerLimit * PeerWindow
  <1>1. /\ Len(g) \in Nat /\ Len(h) = Len(g) + 1 /\ h[Len(g) + 1] = clock
        /\ \A a \in 1..Len(g) : h[a] = g[a] /\ g[a] \in Nat
        /\ \A a \in 1..Len(h) : a \in 1..Len(g) \/ a = Len(g) + 1
    OBVIOUS
  <1>2. full \in Nat /\ PeerLimit \in Nat /\ PeerWindow \in Nat
    BY RelayAssumption
  <1> HIDE DEF h
  <1>3. \A a \in 1..Len(h) : (Len(h) - a + 1) * PeerWindow + (u - PeerWindow)
                                <= full + PeerLimit * (clock - h[a])
    <2> SUFFICES ASSUME NEW a \in 1..Len(h)
                 PROVE  (Len(h) - a + 1) * PeerWindow + (u - PeerWindow)
                           <= full + PeerLimit * (clock - h[a])
      OBVIOUS
    <2>1. CASE a \in 1..Len(g)
      <3>1. (Len(g) - a + 1) * PeerWindow + u <= full + PeerLimit * (clock - g[a])
        BY <2>1 DEF Paced
      <3>2. (Len(h) - a + 1) * PeerWindow = (Len(g) - a + 1) * PeerWindow + PeerWindow
        BY <1>1, <1>2, <2>1
      <3>3. (Len(g) - a + 1) * PeerWindow \in Int /\ PeerLimit * (clock - g[a]) \in Int
        BY <1>1, <1>2, <2>1
      <3> HIDE DEF full
      <3>4. (Len(h) - a + 1) * PeerWindow + (u - PeerWindow) <= full + PeerLimit * (clock - g[a])
        BY <1>2, <3>1, <3>2, <3>3
      <3> QED
        BY <1>1, <2>1, <3>4
    <2>2. CASE a = Len(g) + 1
      <3>1. (Len(h) - a + 1) * PeerWindow = PeerWindow /\ PeerLimit * (clock - h[a]) = 0
        BY <1>1, <1>2, <2>2
      <3> HIDE DEF full
      <3> QED
        BY <1>2, <3>1 DEF full
    <2> QED
      BY <1>1, <2>1, <2>2
  <1>4. Paced(h, u - PeerWindow, clock)
    BY <1>3 DEF Paced
  <1>5. Even(h)
    <2> SUFFICES ASSUME NEW a \in 1..Len(h), NEW b \in 1..Len(h), a <= b
                 PROVE  (b - a + 1) * PeerWindow <= full + PeerLimit * (h[b] - h[a])
      BY DEF Even
    <2>1. CASE b \in 1..Len(g)
      <3>1. a \in 1..Len(g)
        BY <1>1, <2>1
      <3> QED
        BY <1>1, <2>1, <3>1 DEF Even
    <2>2. CASE b = Len(g) + 1
      <3>1. h[b] = clock /\ h[a] \in Nat /\ b = Len(h)
        BY <1>1, <2>2
      <3>2. (b - a + 1) * PeerWindow \in Int /\ PeerLimit * (clock - h[a]) \in Int
        BY <1>1, <1>2, <3>1
      <3>3. (b - a + 1) * PeerWindow + (u - PeerWindow) <= full + PeerLimit * (clock - h[a])
        BY <1>3, <3>1
      <3> HIDE DEF full
      <3> QED
        BY <1>2, <3>1, <3>2, <3>3
    <2> QED
      BY <1>1, <2>1, <2>2
  <1> QED
    BY <1>4, <1>5 DEF h

(* Dropping buckets: one that was idle would be full again by now, and     *)
(* whoever lost another is exempt.                                         *)
LEMMA PruneKeepsPace ==
    ASSUME NEW bs, NEW gs, NEW exempt, now \in Nat, PacedPeers(bs, gs, exempt, now),
           NEW S \in SUBSET DOMAIN bs
    PROVE  PacedPeers(Restrict(bs, S), gs, exempt \union Cut(bs, S), now)
  <1> DEFINE rest == Restrict(bs, S)
  <1>1. DOMAIN rest = S /\ \A p \in S : rest[p] = bs[p]
    BY DEF Restrict
  <1>2. Bucketed(rest, now)
    BY <1>1 DEF PacedPeers, Bucketed
  <1> HIDE DEF rest
  <1>3. ASSUME NEW p \in Peers \ (exempt \union Cut(bs, S)) PROVE PacedPeer(rest, gs[p], p, now)
    <2>1. PacedPeer(bs, gs[p], p, now) /\ gs[p] \in Seq(Nat)
      BY DEF PacedPeers
    <2>2. CASE p \in S
      BY <1>1, <2>1, <2>2 DEF PacedPeer
    <2>3. CASE p \notin DOMAIN bs
      BY <1>1, <2>1, <2>3 DEF PacedPeer
    <2>4. CASE p \in DOMAIN bs \ S
      <3>1. bs[p].units \in Nat /\ bs[p].last \in Nat /\ bs[p].last <= now
        BY <2>4 DEF PacedPeers, Bucketed
      <3>2. now - bs[p].last >= PeerWindow
        BY <2>4, <3>1, RelayAssumption DEF Cut
      <3>3. PeerLimit * PeerWindow <= PeerLimit * (now - bs[p].last)
        <4> DEFINE more == now - bs[p].last - PeerWindow
        <4>1. more \in Nat /\ PeerLimit \in Nat /\ PeerWindow \in Nat
          BY <3>1, <3>2, RelayAssumption
        <4>2. PeerLimit * (now - bs[p].last) = PeerLimit * PeerWindow + PeerLimit * more
          BY <3>1, <4>1
        <4> HIDE DEF more
        <4>3. PeerLimit * more \in Nat /\ PeerLimit * PeerWindow \in Nat
          BY <4>1
        <4> QED
          BY <4>2, <4>3
      <3>4. PeerLimit * PeerWindow \in Nat /\ PeerLimit * (now - bs[p].last) \in Nat
        BY <3>1, RelayAssumption
      <3>5. PeerLimit * PeerWindow <= bs[p].units + PeerLimit * (now - bs[p].last)
        BY <3>1, <3>3, <3>4
      <3>6. Paced(gs[p], bs[p].units, bs[p].last)
        BY <2>1, <2>4 DEF PacedPeer
      <3>7. Paced(gs[p], PeerLimit * PeerWindow, now)
        BY <2>1, <3>1, <3>4, <3>5, <3>6, PacedLater
      <3> QED
        BY <1>1, <2>1, <2>4, <3>7 DEF PacedPeer
    <2> QED
      BY <2>2, <2>3, <2>4
  <1> QED
    BY <1>2, <1>3 DEF PacedPeers, rest

BucketOf(bs, p) == IF p \in DOMAIN bs THEN bs[p] ELSE NewBucket(PeerLimit, PeerWindow)
Granted(gs, p, ok) == IF ok THEN [gs EXCEPT ![p] = Append(@, now)] ELSE gs

(* enforce_peer_transaction_rate_limit after the pruning.                  *)
LEMMA ConsumeKeepsPace ==
    ASSUME NEW bs, NEW gs, NEW exempt, NEW p \in Peers, now \in Nat, DOMAIN gs = Peers,
           PacedPeers(bs, gs, exempt, now)
    PROVE  PacedPeers(WithBucket(bs, p, Consumed(BucketOf(bs, p), PeerLimit, PeerWindow)),
                      Granted(gs, p, TryConsume(BucketOf(bs, p), PeerLimit, PeerWindow)), exempt, now)
  <1> DEFINE b == BucketOf(bs, p)
             r == Refilled(b, PeerLimit, PeerWindow)
             ok == r.units >= PeerWindow
             d == Consumed(b, PeerLimit, PeerWindow)
             bt == WithBucket(bs, p, d)
             gt == Granted(gs, p, ok)
  <1>1. /\ b \in [units : Nat, last : Nat] /\ b.last <= now
        /\ p \notin exempt => Paced(gs[p], b.units, b.last)
    <2>1. CASE p \in DOMAIN bs
      BY <2>1 DEF BucketOf, PacedPeers, Bucketed, PacedPeer
    <2>2. CASE p \notin DOMAIN bs
      <3>1. b = [units |-> PeerLimit * PeerWindow, last |-> now] /\ PeerLimit * PeerWindow \in Nat
        BY <2>2, RelayAssumption DEF BucketOf, NewBucket
      <3>2. p \notin exempt => Paced(gs[p], PeerLimit * PeerWindow, now)
        BY <2>2 DEF PacedPeers, PacedPeer
      <3> HIDE DEF b
      <3> QED
        BY <3>1, <3>2
    <2> QED
      BY <2>1, <2>2
  <1> HIDE DEF b
  <1>2. /\ r \in [units : Nat, last : Nat] /\ r.last = now /\ r.units \in Nat
        /\ r.units <= PeerLimit * PeerWindow
        /\ r.units <= b.units + PeerLimit * (now - b.last)
    BY <1>1, RefilledBounds
  <1>3. /\ ok => d = [r EXCEPT !.units = @ - PeerWindow]
        /\ ~ok => d = r
    BY DEF Consumed
  <1>4. TryConsume(b, PeerLimit, PeerWindow) = ok
    BY DEF TryConsume
  <1> HIDE DEF r
  <1>5. /\ d \in [units : Nat, last : Nat] /\ d.last = now
        /\ ok => d.units = r.units - PeerWindow
        /\ ~ok => d.units = r.units
    BY <1>2, <1>3, RelayAssumption
  <1>6. gs[p] \in Seq(Nat) /\ \A q \in Peers : gs[q] \in Seq(Nat)
    BY DEF PacedPeers
  <1>7. p \notin exempt => Paced(gs[p], r.units, now) /\ Even(gs[p])
    <2>1. b.units \in Nat /\ b.last \in Nat
      BY <1>1
    <2> QED
      BY <1>1, <1>2, <1>6, <2>1, PacedLater DEF PacedPeers, PacedPeer
  <1> HIDE DEF d
  <1>8. /\ DOMAIN bt = DOMAIN bs \union {p} /\ bt[p] = d
        /\ \A q \in DOMAIN bs \ {p} : bt[q] = bs[q]
    BY DEF WithBucket
  <1>9. /\ ok => gt[p] = Append(gs[p], now)
        /\ ~ok => gt[p] = gs[p]
        /\ \A q \in Peers \ {p} : gt[q] = gs[q]
    BY DEF Granted
  <1> HIDE DEF bt, gt
  <1>10. Bucketed(bt, now)
    BY <1>5, <1>8 DEF PacedPeers, Bucketed
  <1>11. \A q \in Peers : gt[q] \in Seq(Nat)
    <2> SUFFICES ASSUME NEW q \in Peers PROVE gt[q] \in Seq(Nat)
      OBVIOUS
    <2>1. CASE q # p
      BY <1>6, <1>9, <2>1, Zenon
    <2>2. Append(gs[p], now) \in Seq(Nat)
      BY <1>6
    <2>3. CASE q = p
      BY <1>6, <1>9, <2>2, <2>3, Zenon
    <2> QED
      BY <2>1, <2>3
  <1>12. p \notin exempt => PacedPeer(bt, gt[p], p, now)
    <2> SUFFICES ASSUME p \notin exempt PROVE PacedPeer(bt, gt[p], p, now)
      OBVIOUS
    <2>1. CASE ok
      <3>1. Even(Append(gs[p], now)) /\ Paced(Append(gs[p], now), r.units - PeerWindow, now)
        BY <1>2, <1>6, <1>7, <2>1, GrantPaced
      <3> QED
        BY <1>5, <1>8, <1>9, <2>1, <3>1, Zenon DEF PacedPeer
    <2>2. CASE ~ok
      BY <1>5, <1>7, <1>8, <1>9, <2>2 DEF PacedPeer
    <2> QED
      BY <2>1, <2>2
  <1>13. \A q \in Peers \ {p} : q \notin exempt => PacedPeer(bt, gt[q], q, now)
    BY <1>8, <1>9 DEF PacedPeers, PacedPeer
  <1>14. PacedPeers(bt, gt, exempt, now)
    BY <1>10, <1>11, <1>12, <1>13 DEF PacedPeers
  <1> QED
    BY <1>4, <1>14 DEF bt, gt, d, b

(* prune_idle_buckets keeps some of the buckets there are.                 *)
LEMMA PruneSubset ==
    ASSUME NEW over, NEW ps, NEW ss, NEW c \in PruneIdleBuckets(over, ps, ss)
    PROVE  c[1] \in SUBSET DOMAIN ps
  <1>1. \A m : \A S \in Kept(ps, m) : S \in SUBSET DOMAIN ps
    BY DEF Kept
  <1> QED
    BY <1>1 DEF PruneIdleBuckets

Limits(ok, ps, ss, cut) == [ok |-> ok, peers |-> ps, senders |-> ss, cut |-> cut]

(* The pool's own limit, of senders, may prune the peers' buckets again.   *)
LEMMA PoolKeepsPace ==
    ASSUME NEW i, NEW answer, NEW ok, NEW ps, NEW ss, NEW cut, NEW gs, NEW exempt, now \in Nat,
           PacedPeers(ps, gs, exempt \union cut, now),
           NEW q \in AddTransaction(i, answer, Limits(ok, ps, ss, cut))
    PROVE  PacedPeers(q.peers, gs, exempt \union q.cut, now)
  <1> DEFINE r == Limits(ok, ps, ss, cut)
  <1>1. r.peers = ps /\ r.cut = cut
    BY DEF Limits
  <1>2. CASE ~Valid(i, answer)
    <2>1. q = [r EXCEPT !.ok = FALSE]
      BY <1>2 DEF AddTransaction
    <2>2. q.peers = ps /\ q.cut = cut
      BY <2>1 DEF Limits
    <2> QED
      BY <2>2
  <1>3. CASE Valid(i, answer)
    <2>1. PICK z \in EnforceSenderLimit(i.sender, r.peers, r.senders, r.cut) :
             q = [z EXCEPT !.ok = @ /\ answer = "taken"]
      BY <1>3 DEF AddTransaction
    <2>2. PICK c \in PruneIdleBuckets(Cardinality(DOMAIN r.senders) > PruneSendersAbove,
                                      r.peers, r.senders) :
             \E o, u : z = Limits(o, Restrict(ps, c[1]), u, cut \union Cut(ps, c[1]))
      BY <1>1, <2>1 DEF EnforceSenderLimit, Limits
    <2>3. q.peers = Restrict(ps, c[1]) /\ q.cut = cut \union Cut(ps, c[1])
      BY <2>1, <2>2 DEF Limits
    <2>4. c[1] \in SUBSET DOMAIN ps
      BY <1>1, <2>2, PruneSubset
    <2>5. PacedPeers(Restrict(ps, c[1]), gs, (exempt \union cut) \union Cut(ps, c[1]), now)
      BY <2>4, PruneKeepsPace
    <2>6. (exempt \union cut) \union Cut(ps, c[1]) = exempt \union q.cut
      BY <2>3
    <2> QED
      BY <2>3, <2>5, <2>6, Zenon
  <1> QED
    BY <1>2, <1>3

PaceInv ==
    /\ now \in Nat /\ DOMAIN peerGrants = Peers
    /\ PacedPeers(peerBuckets, peerGrants, unlimited, now)

(* The peers' limit: the answer, and the buckets it leaves.                *)
LEMMA PeerLimitKeepsPace ==
    ASSUME PaceInv, NEW p \in Peers, NEW r \in EnforcePeerLimit(p)
    PROVE  \E ok, ps, ss, cut :
              /\ r = Limits(ok, ps, ss, cut)
              /\ PacedPeers(ps, Granted(peerGrants, p, ok), unlimited \union cut, now)
  <1>1. PICK c \in PruneIdleBuckets(Cardinality(DOMAIN peerBuckets) > PrunePeersAbove,
                                    peerBuckets, senderBuckets) :
           LET kept == Restrict(peerBuckets, c[1])
               b == IF p \in c[1] THEN kept[p] ELSE NewBucket(PeerLimit, PeerWindow)
           IN  r = [ok |-> TryConsume(b, PeerLimit, PeerWindow),
                    peers |-> WithBucket(kept, p, Consumed(b, PeerLimit, PeerWindow)),
                    senders |-> Restrict(senderBuckets, c[2]), cut |-> Cut(peerBuckets, c[1])]
    BY DEF EnforcePeerLimit
  <1> DEFINE kept == Restrict(peerBuckets, c[1])
             b == BucketOf(kept, p)
             ok == TryConsume(b, PeerLimit, PeerWindow)
             ps == WithBucket(kept, p, Consumed(b, PeerLimit, PeerWindow))
             cut == Cut(peerBuckets, c[1])
  <1>2. DOMAIN kept = c[1]
    BY DEF Restrict
  <1>3. b = IF p \in c[1] THEN kept[p] ELSE NewBucket(PeerLimit, PeerWindow)
    BY <1>2 DEF BucketOf
  <1>4. r = Limits(ok, ps, Restrict(senderBuckets, c[2]), cut)
    BY <1>1, <1>3 DEF Limits
  <1>5. c[1] \in SUBSET DOMAIN peerBuckets
    BY PruneSubset
  <1>6. PacedPeers(kept, peerGrants, unlimited \union cut, now)
    BY <1>5, PruneKeepsPace DEF PaceInv
  <1> HIDE DEF kept, cut
  <1>7. PacedPeers(ps, Granted(peerGrants, p, ok), unlimited \union cut, now)
    BY <1>6, ConsumeKeepsPace DEF PaceInv
  <1> QED
    BY <1>4, <1>7, Zenon

(* A token given leaves an account of tokens for every peer.               *)
LEMMA GrantedDomain ==
    ASSUME NEW gs, NEW p, NEW ok, DOMAIN gs = Peers
    PROVE  DOMAIN Granted(gs, p, ok) = Peers
  BY DEF Granted


(* A message from a peer takes a token of the peer, then goes to its pool. *)
LEMMA HeardPace ==
    ASSUME PaceInv, NEW p \in Peers, NEW i, NEW answer, NEW r \in EnforcePeerLimit(p),
           NEW q \in (IF r.ok THEN AddTransaction(i, answer, r) \union SubmitToPool(i, answer, r)
                      ELSE {r}),
           Keep(q), now' = now,
           peerGrants' = IF r.ok THEN [peerGrants EXCEPT ![p] = Append(@, now)] ELSE peerGrants
    PROVE  PaceInv'
  <1>1. PICK ok, ps, ss, cut :
           /\ r = Limits(ok, ps, ss, cut)
           /\ PacedPeers(ps, Granted(peerGrants, p, ok), unlimited \union cut, now)
    BY PeerLimitKeepsPace
  <1>2. r.ok = ok /\ r.peers = ps /\ r.cut = cut
    BY <1>1 DEF Limits
  <1>3. peerGrants' = Granted(peerGrants, p, ok)
    BY <1>2 DEF Granted
  <1>4. PacedPeers(q.peers, Granted(peerGrants, p, ok), unlimited \union q.cut, now)
    <2>1. CASE q \in AddTransaction(i, answer, r)
      BY <1>1, <2>1, PoolKeepsPace, Zenon DEF PaceInv
    <2>2. CASE q \in SubmitToPool(i, answer, r)
      <3>1. q.peers = ps /\ q.cut = cut
        BY <1>1, <2>2 DEF SubmitToPool, Limits
      <3> QED
        BY <1>1, <3>1
    <2>3. CASE q = r
      BY <1>1, <1>2, <2>3, Zenon
    <2> QED
      BY <2>1, <2>2, <2>3
  <1>5. DOMAIN peerGrants' = Peers
    BY <1>3, GrantedDomain DEF PaceInv
  <1> QED
    BY <1>3, <1>4, <1>5, Zenon DEF PaceInv, Keep

(* A submission of a client takes no token of a peer.                      *)
LEMMA SubmittedPace ==
    ASSUME PaceInv, NEW i, NEW answer, NEW c,
           \/ Submit(c, i, AddTransaction(i, answer, Buckets))
           \/ Submit(c, i, SubmitToPool(i, answer, Buckets))
    PROVE  PaceInv'
  <1>1. Buckets = Limits(TRUE, peerBuckets, senderBuckets, {})
    BY DEF Buckets, Limits
  <1>2. PacedPeers(peerBuckets, peerGrants, unlimited \union {}, now) /\ now \in Nat
    BY DEF PaceInv
  <1>3. PICK q \in AddTransaction(i, answer, Buckets) \union SubmitToPool(i, answer, Buckets) :
           Keep(q) /\ peerGrants' = peerGrants /\ now' = now
    BY DEF Submit, Event
  <1>4. PacedPeers(q.peers, peerGrants, unlimited \union q.cut, now)
    <2>1. CASE q \in AddTransaction(i, answer, Buckets)
      BY <1>1, <1>2, <2>1, PoolKeepsPace, Zenon
    <2>2. CASE q \in SubmitToPool(i, answer, Buckets)
      <3>1. q.peers = peerBuckets /\ q.cut = {}
        BY <2>2 DEF SubmitToPool, Buckets
      <3> QED
        BY <1>2, <3>1
    <2> QED
      BY <1>3, <2>1, <2>2
  <1> QED
    BY <1>3, <1>4 DEF PaceInv, Keep

(* Time passes: a peer without a bucket gains.                             *)
LEMMA TickPace == ASSUME PaceInv, RelayTick PROVE PaceInv'
  <1>1. /\ now \in Nat /\ now' = now + 1 /\ now' \in Nat
        /\ UNCHANGED <<peerBuckets, peerGrants, unlimited>>
    BY DEF RelayTick, buckets, PaceInv
  <1>2. Bucketed(peerBuckets, now')
    BY <1>1 DEF PaceInv, PacedPeers, Bucketed
  <1>3. ASSUME NEW p \in Peers \ unlimited, p \notin DOMAIN peerBuckets
        PROVE  Paced(peerGrants[p], PeerLimit * PeerWindow, now')
    <2>1. peerGrants[p] \in Seq(Nat) /\ Paced(peerGrants[p], PeerLimit * PeerWindow, now)
      BY <1>3 DEF PaceInv, PacedPeers, PacedPeer
    <2>2. PeerLimit * PeerWindow \in Nat /\ PeerLimit * (now' - now) \in Nat
      BY <1>1, RelayAssumption
    <2>3. PeerLimit * PeerWindow <= PeerLimit * PeerWindow + PeerLimit * (now' - now)
      BY <2>2
    <2> QED
      BY <1>1, <2>1, <2>2, <2>3, PacedLater
  <1>4. \A p \in Peers \ unlimited : PacedPeer(peerBuckets, peerGrants[p], p, now')
    BY <1>3 DEF PaceInv, PacedPeers, PacedPeer
  <1>5. PacedPeers(peerBuckets, peerGrants, unlimited, now')
    BY <1>2, <1>4 DEF PaceInv, PacedPeers
  <1> QED
    BY <1>1, <1>5 DEF PaceInv

(* Every step of the relay keeps the peers paced.                          *)
LEMMA PaceStep == PaceInv /\ [RelayNext]_relayVars => PaceInv'
  <1> SUFFICES ASSUME PaceInv, [RelayNext]_relayVars PROVE PaceInv'
    OBVIOUS
  <1>1. CASE UNCHANGED <<peerBuckets, peerGrants, unlimited, now>>
    BY <1>1 DEF PaceInv
  <1>2. ASSUME NEW p \in Peers, NEW i \in Items, NEW answer \in Answers,
               \/ ReceiveTransactionFromPeer(p, i, answer)
               \/ ReceiveCommitFromPeer(p, i, answer)
               \/ ReceiveRevealFromPeer(p, i, answer)
        PROVE  PaceInv'
    <2>1. PICK r \in EnforcePeerLimit(p) :
             \E q \in (IF r.ok THEN AddTransaction(i, answer, r) \union SubmitToPool(i, answer, r)
                       ELSE {r}) :
                /\ Keep(q)
                /\ peerGrants' = IF r.ok THEN [peerGrants EXCEPT ![p] = Append(@, now)] ELSE peerGrants
      BY <1>2 DEF ReceiveTransactionFromPeer, ReceiveCommitFromPeer, ReceiveRevealFromPeer, FromPeer
    <2>2. now' = now
      BY <1>2 DEF ReceiveTransactionFromPeer, ReceiveCommitFromPeer, ReceiveRevealFromPeer, FromPeer, Event
    <2> QED
      BY <2>1, <2>2, HeardPace
  <1>3. ASSUME NEW i \in Items, NEW answer \in Answers,
               \/ HandleNewTransaction(i, answer) \/ HandleNewCommit(i, answer)
               \/ SendTransactionInternal(i, answer) \/ SubmitCommitInternal(i, answer)
               \/ SubmitRevealInternal(i, answer)
        PROVE  PaceInv'
    BY <1>3, SubmittedPace DEF HandleNewTransaction, HandleNewCommit, SendTransactionInternal,
       SubmitCommitInternal, SubmitRevealInternal
  <1>4. ASSUME NEW i \in Items, NEW answer \in Answers, HandleNewReveal(i, answer) PROVE PaceInv'
    BY <1>1, <1>4 DEF HandleNewReveal, Event, buckets
  <1>5. ASSUME NEW c \in {"rpc", "loop"},
               BroadcastNewTransaction(c) \/ BroadcastNewCommit(c) \/ BroadcastNewReveal(c)
        PROVE  PaceInv'
    BY <1>1, <1>5 DEF BroadcastNewTransaction, BroadcastNewCommit, BroadcastNewReveal, Announce,
       AnnounceMissing, buckets
  <1>6. ASSUME NEW i \in Items, LeavePool(i) PROVE PaceInv'
    BY <1>1, <1>6 DEF LeavePool, Event, buckets
  <1>7. CASE RelayTick
    BY <1>7, TickPace
  <1>8. CASE UNCHANGED relayVars
    BY <1>1, <1>8 DEF relayVars
  <1> QED
    BY <1>2, <1>3, <1>4, <1>5, <1>6, <1>7, <1>8 DEF RelayNext

(* enforce_peer_transaction_rate_limit: between any two of its tokens a    *)
(* peer gets at most a full bucket and what that time refills, however     *)
(* idle buckets are dropped and made anew, unless its bucket was dropped   *)
(* because there were too many.                                            *)
THEOREM PeerRateTheorem == RelayInit /\ [][RelayNext]_relayVars => []PeerRateHeld
  <1>1. RelayInit => PaceInv
    <2> SUFFICES ASSUME RelayInit PROVE PaceInv
      OBVIOUS
    <2>1. /\ now = 0 /\ DOMAIN peerBuckets = {} /\ DOMAIN peerGrants = Peers
          /\ \A p \in Peers : peerGrants[p] = <<>>
      BY DEF RelayInit
    <2>2. \A u, t : Paced(<<>>, u, t) /\ Even(<<>>)
      BY DEF Paced, Even
    <2>3. now \in Nat /\ <<>> \in Seq(Nat)
      BY <2>1
    <2>4. Bucketed(peerBuckets, now)
      BY <2>1, Zenon DEF Bucketed
    <2>5. \A p \in Peers : PacedPeer(peerBuckets, peerGrants[p], p, now)
      BY <2>1, <2>2, Zenon DEF PacedPeer
    <2> QED
      BY <2>1, <2>3, <2>4, <2>5, Zenon DEF PaceInv, PacedPeers
  <1>2. PaceInv => PeerRateHeld
    <2> SUFFICES ASSUME PaceInv PROVE PeerRateHeld
      OBVIOUS
    <2>1. \A p \in Peers \ unlimited : Even(peerGrants[p]) /\ DOMAIN peerGrants[p] = 1..Len(peerGrants[p])
      BY DEF PaceInv, PacedPeers, PacedPeer
    <2> QED
      BY <2>1, Zenon DEF PeerRateHeld, Even
  <1> QED
    BY <1>1, <1>2, PaceStep, PTL

(***************************************************************************)
(* The gossip tracker                                                      *)
(***************************************************************************)

(* Taking a mark out of an LRU memory leaves the others.                   *)
LEMMA UnmarkedSet ==
    ASSUME NEW s \in Seq(Items), NEW i
    PROVE  /\ Unmarked(s, i) \in Seq(Items)
           /\ ToSet(Unmarked(s, i)) \subseteq ToSet(s)
           /\ \A j \in ToSet(s) : j = i \/ j \in ToSet(Unmarked(s, i))
  <1>1. CASE ~Contains(s, i)
    BY <1>1 DEF Unmarked
  <1>2. CASE Contains(s, i)
    <2> DEFINE k == CHOOSE n \in DOMAIN s : s[n] = i
               u == RemoveAt(s, k)
    <2>1. k \in 1..Len(s) /\ s[k] = i /\ Unmarked(s, i) = u
      BY <1>2 DEF Contains, Unmarked
    <2> HIDE DEF k
    <2>2. /\ SubSeq(s, 1, k - 1) \in Seq(Items) /\ Len(SubSeq(s, 1, k - 1)) = k - 1
          /\ \A n \in 1..(k - 1) : SubSeq(s, 1, k - 1)[n] = s[n]
      BY <2>1
    <2>3. /\ SubSeq(s, k + 1, Len(s)) \in Seq(Items) /\ Len(SubSeq(s, k + 1, Len(s))) = Len(s) - k
          /\ \A n \in 1..(Len(s) - k) : SubSeq(s, k + 1, Len(s))[n] = s[k + n]
      BY <2>1
    <2>4. /\ u \in Seq(Items) /\ Len(u) = Len(s) - 1
          /\ \A n \in 1..(k - 1) : u[n] = s[n]
          /\ \A n \in k..(Len(s) - 1) : u[n] = s[n + 1]
      <3> DEFINE front == SubSeq(s, 1, k - 1)
                 rest == SubSeq(s, k + 1, Len(s))
      <3>1. u = front \o rest /\ Len(s) \in Nat /\ k \in 1..Len(s)
        BY <2>1 DEF RemoveAt
      <3> HIDE DEF front, rest, u
      <3>2. /\ front \in Seq(Items) /\ Len(front) = k - 1 /\ \A n \in 1..(k - 1) : front[n] = s[n]
            /\ rest \in Seq(Items) /\ Len(rest) = Len(s) - k
            /\ \A n \in 1..(Len(s) - k) : rest[n] = s[k + n]
        BY <2>2, <2>3 DEF front, rest
      <3>3. u \in Seq(Items) /\ Len(u) = Len(s) - 1
        <4>1. front \in Seq(Items) /\ rest \in Seq(Items)
          BY <3>2
        <4>2. front \o rest \in Seq(Items) /\ Len(front \o rest) = Len(front) + Len(rest)
          BY <4>1
        <4>3. Len(front) = k - 1 /\ Len(rest) = Len(s) - k
          BY <3>2
        <4>4. Len(front) + Len(rest) = Len(s) - 1
          BY <3>1, <4>3
        <4> QED
          BY <3>1, <4>2, <4>4, Zenon
      <3>4. ASSUME NEW n \in 1..(k - 1) PROVE u[n] = s[n]
        BY <3>1, <3>2
      <3>5. ASSUME NEW n \in k..(Len(s) - 1) PROVE u[n] = s[n + 1]
        <4>1. n - (k - 1) \in 1..(Len(s) - k) /\ k + (n - (k - 1)) = n + 1
          BY <3>1
        <4>2. u[n] = rest[n - (k - 1)]
          BY <3>1, <3>2, <4>1
        <4> QED
          BY <3>2, <4>1, <4>2
      <3> QED
        BY <3>3, <3>4, <3>5
    <2> HIDE DEF u
    <2>5. ToSet(u) \subseteq ToSet(s)
      BY <2>1, <2>4 DEF ToSet
    <2>6. ASSUME NEW n \in 1..Len(s), s[n] # i PROVE s[n] \in ToSet(u)
      <3>1. CASE n < k
        BY <2>1, <2>4, <3>1 DEF ToSet
      <3>2. CASE n > k
        <4>1. n - 1 \in k..(Len(s) - 1) /\ n - 1 \in DOMAIN u /\ u[n - 1] = s[n]
          BY <2>1, <2>4, <3>2
        <4> QED
          BY <4>1 DEF ToSet
      <3> QED
        BY <2>1, <2>6, <3>1, <3>2
    <2>7. \A j \in ToSet(s) : j = i \/ j \in ToSet(u)
      <3>1. ASSUME NEW j \in ToSet(s) PROVE \E n \in 1..Len(s) : s[n] = j
        BY <3>1 DEF ToSet
      <3> QED
        BY <2>6, <3>1, Zenon
    <2> QED
      BY <2>1, <2>4, <2>5, <2>7, Zenon
  <1> QED
    BY <1>1, <1>2

(* A mark just put is there, and nothing else is new.                      *)
LEMMA PutMarkSet ==
    ASSUME NEW s \in Seq(Items), NEW i \in Items
    PROVE  /\ PutMark(s, i) \in Seq(Items) /\ i \in ToSet(PutMark(s, i))
           /\ ToSet(PutMark(s, i)) \subseteq ToSet(s) \union {i}
  <1> DEFINE u == Unmarked(s, i)
             t == Append(u, i)
  <1>1. u \in Seq(Items) /\ ToSet(u) \subseteq ToSet(s)
    BY UnmarkedSet
  <1> HIDE DEF u
  <1>2. /\ t \in Seq(Items) /\ Len(t) = Len(u) + 1 /\ Len(u) \in Nat /\ t[Len(t)] = i
        /\ \A n \in 1..Len(t) : t[n] = i \/ t[n] \in ToSet(u)
    BY <1>1 DEF ToSet
  <1> HIDE DEF t
  <1>3. PutMark(s, i) = IF Len(t) > TrackerSize THEN Tail(t) ELSE t
    BY DEF PutMark, t, u
  <1>4. CASE Len(t) > TrackerSize
    <2>1. Len(t) > 1
      BY <1>2, <1>4, RelayAssumption
    <2>2. /\ Tail(t) \in Seq(Items) /\ Len(Tail(t)) = Len(t) - 1
          /\ \A n \in 1..(Len(t) - 1) : Tail(t)[n] = t[n + 1]
      BY <1>2, <2>1
    <2>3. i \in ToSet(Tail(t))
      <3>1. Len(t) - 1 \in DOMAIN Tail(t) /\ Tail(t)[Len(t) - 1] = i
        BY <1>2, <2>1, <2>2
      <3> QED
        BY <3>1, Zenon DEF ToSet
    <2>4. \A n \in DOMAIN Tail(t) : Tail(t)[n] = i \/ Tail(t)[n] \in ToSet(u)
      BY <1>2, <2>2
    <2> QED
      BY <1>1, <1>3, <1>4, <2>2, <2>3, <2>4, Zenon DEF ToSet
  <1>5. CASE ~(Len(t) > TrackerSize)
    <2>1. i \in ToSet(t) /\ DOMAIN t = 1..Len(t)
      BY <1>2 DEF ToSet
    <2> QED
      BY <1>1, <1>2, <1>3, <1>5, <2>1, Zenon DEF ToSet
  <1> QED
    BY <1>4, <1>5

Tasks == {"rpc", "loop"}

(* What the memories hold of an item they did not drop: it was broadcast   *)
(* once at most, a broadcast left a mark, a mark has its reason, and what  *)
(* a client offered is waiting, was sent or has an excuse.                 *)
Tracked(i, hs, ss, n, o, t, h, e, m) ==
    /\ n <= 1
    /\ n = 1 => i \in hs \/ i \in ss
    /\ i \in hs => i \in h
    /\ i \in ss => n = 1 \/ i \in e
    /\ i \in o => (\E c \in Tasks : t[c] = i) \/ n = 1 \/ i \in h \/ i \in e \/ i \in m

MarkType ==
    /\ heardMarks \in [Kinds -> Seq(Items)] /\ sentMarks \in [Kinds -> Seq(Items)]
    /\ sends \in [Items -> Nat]
    /\ task \in [Tasks -> Items \union {NoTask}]

TrackedItem(i) ==
    Tracked(i, ToSet(heardMarks[i.kind]), ToSet(sentMarks[i.kind]), sends[i],
            offered, task, heard, early, missed)

MarkInv == MarkType /\ \A i \in Items \ forgotten : TrackedItem(i)

(* What is heard from a peer is marked as heard and no longer as sent.     *)
LEMMA HeardStep ==
    ASSUME MarkInv, NEW i \in Items, MarkHeard(i), UNCHANGED <<task, sends, offered, early, missed>>
    PROVE  MarkInv'
  <1>1. i.kind \in Kinds /\ \A j \in Items : j.kind \in Kinds
    BY RelayAssumption
  <1> DEFINE hs == heardMarks[i.kind]
             ss == sentMarks[i.kind]
  <1>2. hs \in Seq(Items) /\ ss \in Seq(Items)
    BY <1>1 DEF MarkInv, MarkType
  <1>3. /\ heardMarks' = [heardMarks EXCEPT ![i.kind] = PutMark(hs, i)]
        /\ sentMarks' = [sentMarks EXCEPT ![i.kind] = Unmarked(ss, i)]
        /\ forgotten' = forgotten \union Dropped(hs, i) /\ heard' = heard \union {i}
    BY DEF MarkHeard
  <1> HIDE DEF hs, ss
  <1>4. /\ PutMark(hs, i) \in Seq(Items) /\ i \in ToSet(PutMark(hs, i))
        /\ ToSet(PutMark(hs, i)) \subseteq ToSet(hs) \union {i}
    BY <1>2, PutMarkSet
  <1>5. /\ Unmarked(ss, i) \in Seq(Items) /\ ToSet(Unmarked(ss, i)) \subseteq ToSet(ss)
        /\ \A j \in ToSet(ss) : j = i \/ j \in ToSet(Unmarked(ss, i))
    BY <1>2, UnmarkedSet
  <1>6. MarkType'
    BY <1>3, <1>4, <1>5, Zenon DEF MarkInv, MarkType
  <1>7. ASSUME NEW j \in Items \ forgotten' PROVE TrackedItem(j)'
    <2>1. TrackedItem(j) /\ j \notin Dropped(hs, i) /\ j.kind \in Kinds
      BY <1>1, <1>3, <1>7 DEF MarkInv
    <2>2. CASE j.kind # i.kind
      <3>1. heardMarks'[j.kind] = heardMarks[j.kind] /\ sentMarks'[j.kind] = sentMarks[j.kind]
        BY <1>3, <2>1, <2>2 DEF MarkInv, MarkType
      <3> QED
        BY <1>3, <2>1, <3>1 DEF TrackedItem, Tracked
    <2>3. CASE j.kind = i.kind
      <3>1. heardMarks'[j.kind] = PutMark(hs, i) /\ sentMarks'[j.kind] = Unmarked(ss, i)
        BY <1>1, <1>3, <2>3 DEF MarkInv, MarkType
      <3>2. heardMarks[j.kind] = hs /\ sentMarks[j.kind] = ss
        BY <2>3 DEF hs, ss
      <3>3. j \in ToSet(hs) => j \in ToSet(PutMark(hs, i))
        BY <2>1 DEF Dropped
      <3> QED
        BY <1>3, <1>4, <1>5, <2>1, <3>1, <3>2, <3>3 DEF TrackedItem, Tracked
    <2> QED
      BY <2>2, <2>3
  <1> QED
    BY <1>6, <1>7 DEF MarkInv

(* Being broadcast, or marked so before a pool refused it.                 *)
Relays(i) ==
    \/ Sent(i) /\ early' = early
    \/ /\ early' = IF Broadcasts(i) THEN early \union {i} ELSE early
       /\ UNCHANGED <<offered, task, sends>>

(* An item is broadcast when neither memory holds it.                      *)
LEMMA UnmarkedBroadcasts ==
    ASSUME MarkType, NEW i \in Items
    PROVE  /\ heardMarks[i.kind] \in Seq(Items) /\ sentMarks[i.kind] \in Seq(Items)
           /\ Broadcasts(i) <=> /\ i \notin ToSet(heardMarks[i.kind])
                                /\ i \notin ToSet(sentMarks[i.kind])
  <1>1. heardMarks[i.kind] \in Seq(Items) /\ sentMarks[i.kind] \in Seq(Items)
    BY RelayAssumption DEF MarkType
  <1>2. \A q \in Seq(Items) : Contains(q, i) <=> i \in ToSet(q)
    BY DEF Contains, ToSet
  <1> QED
    BY <1>1, <1>2 DEF Broadcasts

(* The item itself, unless its mark was dropped before.                    *)
LEMMA SentItself ==
    ASSUME MarkInv, NEW i \in Items \ forgotten', MarkSent(i), Relays(i),
           UNCHANGED <<heardMarks, heard, missed>>
    PROVE  TrackedItem(i)'
  <1> DEFINE hs == heardMarks[i.kind]
             ss == sentMarks[i.kind]
  <1>1. /\ i \in Items \ forgotten /\ i.kind \in Kinds /\ MarkType
        /\ hs \in Seq(Items) /\ ss \in Seq(Items) /\ sends[i] \in Nat
    BY UnmarkedBroadcasts, RelayAssumption DEF MarkSent, MarkInv, MarkType
  <1>2. TrackedItem(i) /\ (Broadcasts(i) <=> i \notin ToSet(hs) /\ i \notin ToSet(ss))
    BY <1>1, UnmarkedBroadcasts DEF MarkInv
  <1>3. CASE Broadcasts(i)
    <2>1. sentMarks'[i.kind] = PutMark(ss, i) /\ i \in ToSet(PutMark(ss, i))
      BY <1>1, <1>3, PutMarkSet DEF MarkSent, MarkType
    <2>2. sends[i] = 0 /\ i \notin ToSet(heardMarks'[i.kind])
      BY <1>1, <1>2, <1>3 DEF TrackedItem, Tracked
    <2>3. CASE Sent(i) /\ early' = early
      <3>1. sends'[i] = 1
        BY <1>1, <1>3, <2>2, <2>3 DEF Sent, MarkType
      <3> QED
        BY <2>1, <2>2, <3>1 DEF TrackedItem, Tracked
    <2>4. CASE /\ early' = early \union {i} /\ UNCHANGED <<offered, task, sends>>
      BY <2>1, <2>2, <2>4 DEF TrackedItem, Tracked
    <2> QED
      BY <1>3, <2>3, <2>4 DEF Relays
  <1>4. CASE ~Broadcasts(i)
    <2>1. sentMarks' = sentMarks /\ sends' = sends /\ early' = early
      BY <1>4 DEF MarkSent, Relays, Sent
    <2>2. i \in heard \/ sends[i] = 1 \/ i \in early
      BY <1>2, <1>4 DEF TrackedItem, Tracked
    <2> QED
      BY <1>2, <2>1, <2>2 DEF TrackedItem, Tracked
  <1> QED
    BY <1>3, <1>4

(* The marks of the others stay or are forgotten.                          *)
LEMMA SentOthers ==
    ASSUME MarkInv, NEW i \in Items, NEW j \in Items \ forgotten', j # i, MarkSent(i), Relays(i),
           UNCHANGED <<heardMarks, heard, missed>>,
           j \in offered' => j \in offered,
           \A c \in Tasks : task[c] = j => task'[c] = j
    PROVE  TrackedItem(j)'
  <1> DEFINE ss == sentMarks[i.kind]
  <1>1. /\ j \in Items \ forgotten /\ i.kind \in Kinds /\ j.kind \in Kinds
        /\ MarkType /\ ss \in Seq(Items)
    BY UnmarkedBroadcasts, RelayAssumption DEF MarkSent, MarkInv, MarkType
  <1>2. TrackedItem(j)
    BY <1>1 DEF MarkInv
  <1>3. sends'[j] = sends[j] /\ (j \in early' <=> j \in early)
    BY <1>1 DEF Relays, Sent, MarkType
  <1>4. j \in ToSet(sentMarks'[j.kind]) <=> j \in ToSet(sentMarks[j.kind])
    <2>1. CASE Broadcasts(i) /\ j.kind = i.kind
      <3>1. sentMarks'[j.kind] = PutMark(ss, i) /\ j \notin Dropped(ss, i)
        BY <1>1, <2>1 DEF MarkSent, MarkType
      <3>2. ToSet(PutMark(ss, i)) \subseteq ToSet(ss) \union {i}
        <4>1. ss \in Seq(Items)
          BY <1>1, Zenon
        <4> HIDE DEF ss
        <4> QED
          BY <4>1, PutMarkSet, Zenon
      <3> QED
        BY <2>1, <3>1, <3>2 DEF Dropped
    <2>2. CASE ~(Broadcasts(i) /\ j.kind = i.kind)
      BY <1>1, <2>2 DEF MarkSent, MarkType
    <2> QED
      BY <2>1, <2>2
  <1> HIDE DEF ss
  <1> QED
    BY <1>2, <1>3, <1>4 DEF TrackedItem, Tracked

(* Marking and sending an item keeps the types.                            *)
LEMMA SentType ==
    ASSUME MarkInv, NEW i \in Items, MarkSent(i), Relays(i), heardMarks' = heardMarks,
           task' \in [Tasks -> Items \union {NoTask}]
    PROVE  MarkType'
  <1>1. MarkType /\ i.kind \in Kinds /\ sentMarks[i.kind] \in Seq(Items)
    BY UnmarkedBroadcasts, RelayAssumption DEF MarkInv
  <1>2. PutMark(sentMarks[i.kind], i) \in Seq(Items)
    BY <1>1, PutMarkSet
  <1>3. sentMarks' \in [Kinds -> Seq(Items)]
    BY <1>1, <1>2, Zenon DEF MarkSent, MarkType
  <1>4. sends' \in [Items -> Nat]
    <2>1. sends \in [Items -> Nat] /\ [sends EXCEPT ![i] = @ + 1] \in [Items -> Nat]
      BY <1>1 DEF MarkType
    <2>2. sends' = sends \/ sends' = [sends EXCEPT ![i] = @ + 1]
      BY Zenon DEF Relays, Sent
    <2> QED
      BY <2>1, <2>2, Zenon
  <1> QED
    BY <1>1, <1>3, <1>4 DEF MarkType

(* A submission has its task to announce it.                               *)
LEMMA SubmitStep ==
    ASSUME MarkInv, NEW c \in Tasks, NEW i \in Items, NEW results, Submit(c, i, results)
    PROVE  MarkInv'
  <1>1. /\ task[c] = NoTask
        /\ UNCHANGED <<heardMarks, sentMarks, heard, early, sends, forgotten, missed>>
        /\ \/ offered' = offered \union {i} /\ task' = [task EXCEPT ![c] = i]
           \/ UNCHANGED <<offered, task>>
    BY DEF Submit, marks
  <1>2. MarkType'
    BY <1>1 DEF MarkInv, MarkType
  <1>3. ASSUME NEW j \in Items \ forgotten PROVE TrackedItem(j)'
    <2>1. TrackedItem(j) /\ j # NoTask
      BY RelayAssumption DEF MarkInv
    <2>2. CASE UNCHANGED <<offered, task>>
      BY <1>1, <2>1, <2>2 DEF TrackedItem
    <2>3. CASE offered' = offered \union {i} /\ task' = [task EXCEPT ![c] = i]
      <3>1. /\ task'[c] = i
            /\ \A d \in Tasks : task[d] = j => task'[d] = j
        BY <1>1, <2>1, <2>3 DEF MarkInv, MarkType
      <3> QED
        BY <1>1, <2>1, <2>3, <3>1 DEF TrackedItem, Tracked
    <2> QED
      BY <1>1, <2>2, <2>3
  <1> QED
    BY <1>1, <1>2, <1>3 DEF MarkInv

(* The task announces it, or finds that it has left the pool.              *)
LEMMA AnnounceStep ==
    ASSUME MarkInv, NEW c \in Tasks, task[c] # NoTask, Announce(c)
    PROVE  MarkInv'
  <1> DEFINE i == task[c]
  <1>1. i \in Items /\ task' = [task EXCEPT ![c] = NoTask] /\ task' \in [Tasks -> Items \union {NoTask}]
    BY DEF Announce, MarkInv, MarkType
  <1>2. MarkSent(i) /\ Relays(i) /\ UNCHANGED <<heardMarks, heard, missed, offered>>
    BY DEF Announce, Relays
  <1>3. \A j \in Items : j # i => \A d \in Tasks : task[d] = j => task'[d] = j
    BY <1>1 DEF MarkInv, MarkType
  <1> HIDE DEF i
  <1>4. \A j \in Items \ forgotten' : TrackedItem(j)'
    BY <1>1, <1>2, <1>3, SentItself, SentOthers
  <1> QED
    BY <1>1, <1>2, <1>4, SentType DEF MarkInv

(* An item that left the pool before its task ran is not announced.        *)
LEMMA MissingStep ==
    ASSUME MarkInv, NEW c \in Tasks, task[c] # NoTask, AnnounceMissing(c)
    PROVE  MarkInv'
  <1>1. /\ task' = [task EXCEPT ![c] = NoTask] /\ missed' = missed \union {task[c]}
        /\ UNCHANGED <<heardMarks, sentMarks, heard, early, sends, forgotten, offered>>
    BY DEF AnnounceMissing, marks
  <1>2. MarkType'
    BY <1>1 DEF MarkInv, MarkType
  <1>3. ASSUME NEW j \in Items \ forgotten PROVE TrackedItem(j)'
    <2>1. TrackedItem(j)
      BY DEF MarkInv
    <2>2. \A d \in Tasks : task[d] = j => task'[d] = j \/ j \in missed'
      BY <1>1 DEF MarkInv, MarkType
    <2> QED
      BY <1>1, <2>1, <2>2 DEF TrackedItem, Tracked
  <1> QED
    BY <1>1, <1>2, <1>3 DEF MarkInv

(* handle_new_reveal: marked first, then refused or taken.                 *)
LEMMA RevealStep ==
    ASSUME MarkInv, NEW i \in Items, NEW answer, HandleNewReveal(i, answer)
    PROVE  MarkInv'
  <1>1. /\ MarkSent(i) /\ Relays(i) /\ UNCHANGED <<heardMarks, heard, missed, task>>
        /\ offered' \subseteq offered \union {i}
    BY DEF HandleNewReveal, Relays
  <1>2. task' \in [Tasks -> Items \union {NoTask}]
    BY <1>1 DEF MarkInv, MarkType
  <1>3. \A j \in Items \ forgotten' : TrackedItem(j)'
    BY <1>1, SentItself, SentOthers
  <1> QED
    BY <1>1, <1>2, <1>3, SentType DEF MarkInv

(* Every step of the relay keeps every item tracked.                       *)
LEMMA MarkStep == MarkInv /\ [RelayNext]_relayVars => MarkInv'
  <1> SUFFICES ASSUME MarkInv, [RelayNext]_relayVars PROVE MarkInv'
    OBVIOUS
  <1>1. CASE UNCHANGED <<heardMarks, sentMarks, sends, task, offered, heard, forgotten, early, missed>>
    BY <1>1 DEF MarkInv, MarkType, TrackedItem
  <1>2. ASSUME NEW p \in Peers, NEW i \in Items, NEW answer \in Answers,
               \/ ReceiveTransactionFromPeer(p, i, answer)
               \/ ReceiveCommitFromPeer(p, i, answer)
               \/ ReceiveRevealFromPeer(p, i, answer)
        PROVE  MarkInv'
    <2>1. /\ MarkHeard(i) \/ UNCHANGED <<heardMarks, sentMarks, heard, forgotten>>
          /\ UNCHANGED <<task, sends, offered, early, missed>>
      BY <1>2 DEF ReceiveTransactionFromPeer, ReceiveCommitFromPeer, ReceiveRevealFromPeer,
         FromPeer, marks
    <2> QED
      BY <1>1, <2>1, HeardStep
  <1>3. ASSUME NEW i \in Items, NEW answer \in Answers,
               \/ HandleNewTransaction(i, answer) \/ HandleNewCommit(i, answer)
               \/ SendTransactionInternal(i, answer) \/ SubmitCommitInternal(i, answer)
               \/ SubmitRevealInternal(i, answer)
        PROVE  MarkInv'
    BY <1>3, SubmitStep DEF HandleNewTransaction, HandleNewCommit, SendTransactionInternal,
       SubmitCommitInternal, SubmitRevealInternal, Tasks
  <1>4. ASSUME NEW i \in Items, NEW answer \in Answers, HandleNewReveal(i, answer) PROVE MarkInv'
    BY <1>4, RevealStep
  <1>5. ASSUME NEW c \in {"rpc", "loop"},
               BroadcastNewTransaction(c) \/ BroadcastNewCommit(c) \/ BroadcastNewReveal(c)
        PROVE  MarkInv'
    BY <1>5, AnnounceStep, MissingStep
       DEF BroadcastNewTransaction, BroadcastNewCommit, BroadcastNewReveal, Tasks
  <1>6. ASSUME NEW i \in Items, LeavePool(i) PROVE MarkInv'
    BY <1>1, <1>6 DEF LeavePool, marks
  <1>7. CASE RelayTick
    BY <1>1, <1>7 DEF RelayTick, marks
  <1>8. CASE UNCHANGED relayVars
    BY <1>1, <1>8 DEF relayVars
  <1> QED
    BY <1>2, <1>3, <1>4, <1>5, <1>6, <1>7, <1>8 DEF RelayNext

(* The gossip tracker "prevents broadcast loops" and loses no submission:  *)
(* whatever the two tasks and the peers do between the steps of another,   *)
(* an item the memories did not drop is broadcast at most once, and one    *)
(* accepted from a client is broadcast once its task is done unless it     *)
(* was heard, had left the pool or was marked too early.                   *)
THEOREM RelayedTheorem == RelayInit /\ [][RelayNext]_relayVars => []RelayedOnce
  <1>1. RelayInit => MarkInv
    <2> SUFFICES ASSUME RelayInit PROVE MarkInv
      OBVIOUS
    <2>1. MarkType
      BY DEF RelayInit, MarkType, Tasks
    <2>2. \A i \in Items : heardMarks[i.kind] = <<>> /\ sentMarks[i.kind] = <<>> /\ sends[i] = 0
      BY RelayAssumption DEF RelayInit
    <2>3. ToSet(<<>>) = {}
      BY DEF ToSet
    <2>4. offered = {}
      BY DEF RelayInit
    <2> QED
      BY <2>1, <2>2, <2>3, <2>4 DEF MarkInv, TrackedItem, Tracked
  <1>2. MarkInv => RelayedOnce
    <2> SUFFICES ASSUME MarkInv, NEW i \in Items \ forgotten
                 PROVE  /\ sends[i] <= 1
                        /\ i \in offered /\ (\A c \in DOMAIN task : task[c] # i) =>
                              sends[i] = 1 \/ i \in heard \union early \union missed
      BY DEF RelayedOnce
    <2>1. TrackedItem(i) /\ DOMAIN task = Tasks
      BY DEF MarkInv, MarkType
    <2> QED
      BY <2>1 DEF TrackedItem, Tracked
  <1> QED
    BY <1>1, <1>2, MarkStep, PTL
=============================================================================
