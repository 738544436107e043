--------------------------- MODULE NetworkProofs ---------------------------
(***************************************************************************)
(* What a node and a light client take from their peers, for every value   *)
(* of the constants: the typed gossip entry points, the headers of a light *)
(* client and the validity proofs of blocks. The parts share no state.     *)
(***************************************************************************)
EXTENDS Gossip, LightClient, StfWitness, FiniteSetTheorems, TLAPS

(***************************************************************************)
(* The typed gossip entry points (module Gossip)                           *)
(***************************************************************************)

(* Of one node, by what it handed over, remembers and pooled and what      *)
(* caches dropped: a block that is pooled has been handed to consensus and *)
(* the other way round; whatever was handed over is still remembered or    *)
(* was dropped by a full cache.                                            *)
Paired(given, seen, pool, dropped) ==
    /\ \A a \in DOMAIN given : given[a].kind = "block" => given[a] \in pool
    /\ \A m \in pool : m.kind = "block" => \E a \in DOMAIN given : given[a] = m
    /\ \A a \in DOMAIN given : given[a] \in ToSet(seen) \cup dropped

(* What IntakeSound says of one node.                                      *)
GivenOnce(given, dropped) ==
    \A a, b \in DOMAIN given :
        a # b /\ given[a] = given[b] => given[a].kind # "block" /\ given[a] \in dropped
GivenInOrder(given) ==
    \A a \in DOMAIN given :
        /\ given[a].genuine
        /\ given[a].kind = "block" /\ given[a].parent # Genesis =>
               \E b \in 1..(a - 1) : given[b].id = given[a].parent

NodeInv(given, seen, pool, dropped) ==
    Paired(given, seen, pool, dropped) /\ GivenOnce(given, dropped) /\ GivenInOrder(given)

FlightInv ==
    \A f \in flight : f.m \in Payloads /\ f.to \in IntakeNodes
                      /\ (f.from # Outside => f.m.genuine /\ f.m.decodes)

IntakeInv ==
    /\ seenHere \in [IntakeNodes -> Seq(Payloads)]
    /\ pooled \in [IntakeNodes -> SUBSET Payloads]
    /\ consensusIn \in [IntakeNodes -> Seq(Payloads)]
    /\ \A n \in IntakeNodes : NodeInv(consensusIn[n], seenHere[n], pooled[n], evicted)
    /\ FlightInv

-----------------------------------------------------------------------------

(* What a payload of any kind may lead to once it has passed the duplicate *)
(* cache.                                                                  *)
Handled(f, insert, forward, relay) ==
    /\ f \in flight
    /\ ~Contains(seenHere[f.to], f.m)
    /\ seenHere' = [seenHere EXCEPT ![f.to] = Remember(f.to, f.m)]
    /\ evicted' = evicted \union (ToSet(seenHere[f.to]) \ ToSet(Remember(f.to, f.m)))
    /\ pooled' = [pooled EXCEPT ![f.to] = IF insert THEN @ \union {f.m} ELSE @]
    /\ consensusIn' = [consensusIn EXCEPT ![f.to] = IF forward THEN Append(@, f.m) ELSE @]
    /\ \A g \in flight' : g \in flight \/ (relay /\ g.m = f.m /\ g.to \in IntakeNodes)
    /\ forward => f.m.genuine
    /\ relay => f.m.genuine /\ f.m.decodes
    /\ f.m.kind = "block" => /\ insert <=> forward
                             /\ insert => f.m \notin pooled[f.to] /\ ParentAvailable(f.to, f.m)

(* A step that hands over nothing: only the flights change.                *)
LEMMA NothingHandled ==
    ASSUME IntakeInv, UNCHANGED <<seenHere, pooled, consensusIn, evicted>>, FlightInv'
    PROVE  IntakeInv'
  BY Zenon DEF IntakeInv

(* What the receiver remembers covers what it remembered and the payload.  *)
LEMMA RememberCovers ==
    ASSUME NEW n \in IntakeNodes, NEW m \in Payloads, seenHere[n] \in Seq(Payloads)
    PROVE  Remember(n, m) \in Seq(Payloads) /\ m \in ToSet(Remember(n, m))
  <1> DEFINE s == seenHere[n]
  <1>1. s \in Seq(Payloads)
    OBVIOUS
  <1> HIDE DEF s
  <1>2. ASSUME NEW t \in Seq(Payloads)
        PROVE  Append(t, m) \in Seq(Payloads) /\ m \in ToSet(Append(t, m))
    <2>1. Len(t) + 1 \in DOMAIN Append(t, m) /\ Append(t, m)[Len(t) + 1] = m
      OBVIOUS
    <2> QED
      BY <2>1 DEF ToSet
  <1>3. CASE Len(s) >= CacheLimit
    <2>1. Tail(s) \in Seq(Payloads)
      BY <1>1, <1>3, IntakeAssumption
    <2> QED
      BY <1>2, <1>3, <2>1, Zenon DEF Remember, s
  <1>4. CASE ~(Len(s) >= CacheLimit)
    BY <1>1, <1>2, <1>4 DEF Remember, s
  <1> QED
    BY <1>3, <1>4, Zenon

(* A payload the cache does not hold, and a longer list of those dropped.  *)
LEMMA GivenNothing ==
    ASSUME NEW given, NEW seen, NEW pool, NEW dropped, NodeInv(given, seen, pool, dropped),
           NEW seen2, NEW pool2, NEW dropped2, NEW m,
           ToSet(seen) \cup dropped \subseteq ToSet(seen2) \cup dropped2, dropped \subseteq dropped2,
           pool2 = pool \/ (pool2 = pool \cup {m} /\ m.kind # "block")
    PROVE  NodeInv(given, seen2, pool2, dropped2)
  <1>1. Paired(given, seen2, pool2, dropped2)
    BY Zenon DEF NodeInv, Paired
  <1>2. GivenOnce(given, dropped2)
    BY Zenon DEF NodeInv, GivenOnce
  <1> QED
    BY <1>1, <1>2, Zenon DEF NodeInv

(* A payload handed over: a block only if it is not pooled and its parent  *)
(* is.                                                                     *)
Passes(m, seen, pool, dropped, seen2, pool2, dropped2) ==
    /\ (ToSet(seen) \cup dropped) \cup {m} \subseteq ToSet(seen2) \cup dropped2
    /\ dropped \subseteq dropped2 /\ m \notin ToSet(seen) /\ m.genuine
    /\ pool2 = pool \/ pool2 = pool \cup {m}
    /\ m.kind = "block" => /\ pool2 = pool \cup {m} /\ m \notin pool
                           /\ m.parent = Genesis \/ m.parent \in Ids(pool)

(* The invariant of a node survives one more delivery.                     *)
LEMMA GivenOneMore ==
    ASSUME NEW given \in Seq(Payloads), NEW seen, NEW pool \in SUBSET Payloads, NEW dropped,
           NodeInv(given, seen, pool, dropped),
           NEW seen2, NEW pool2, NEW dropped2, NEW m \in Payloads,
           Passes(m, seen, pool, dropped, seen2, pool2, dropped2)
    PROVE  NodeInv(Append(given, m), seen2, pool2, dropped2)
  <1> DEFINE last == Len(given) + 1
  <1>1. PICK now : now = Append(given, m)
    BY Zenon
  <1>2. /\ DOMAIN now = DOMAIN given \cup {last}
        /\ DOMAIN given = 1..Len(given) /\ Len(given) \in Nat
        /\ now[last] = m /\ \A a \in DOMAIN given : now[a] = given[a]
    BY <1>1
  <1> HIDE DEF last
  <1>3. Paired(now, seen2, pool2, dropped2)
    <2>1. \A a \in DOMAIN now : now[a].kind = "block" => now[a] \in pool2
      BY <1>2, Zenon DEF NodeInv, Paired, Passes
    <2>2. \A k \in pool2 : k.kind = "block" => \E a \in DOMAIN now : now[a] = k
      <3>1. \A k \in pool : k.kind = "block" => \E a \in DOMAIN now : now[a] = k
        BY <1>2, Zenon DEF NodeInv, Paired
      <3>2. \E a \in DOMAIN now : now[a] = m
        BY <1>2, Zenon
      <3> QED
        BY <3>1, <3>2, Zenon DEF Passes
    <2>3. \A a \in DOMAIN now : now[a] \in ToSet(seen2) \cup dropped2
      BY <1>2, Zenon DEF NodeInv, Paired, Passes
    <2> QED
      BY <2>1, <2>2, <2>3, Zenon DEF Paired
  <1>4. GivenOnce(now, dropped2)
    <2>1. \A c \in DOMAIN given : given[c] = m => m.kind # "block" /\ m \in dropped2
      BY Zenon DEF NodeInv, Paired, Passes
    <2> SUFFICES ASSUME NEW a \in DOMAIN now, NEW b \in DOMAIN now, a # b, now[a] = now[b]
                 PROVE  now[a].kind # "block" /\ now[a] \in dropped2
      BY Zenon DEF GivenOnce
    <2>2. CASE a \in DOMAIN given /\ b \in DOMAIN given
      <3>1. given[a] = given[b] /\ now[a] = given[a]
        BY <1>2, <2>2, Zenon
      <3> QED
        BY <2>2, <3>1, Zenon DEF NodeInv, GivenOnce, Passes
    <2>3. CASE a = last
      BY <1>2, <2>1, <2>3, Zenon
    <2>4. CASE b = last
      BY <1>2, <2>1, <2>4, Zenon
    <2> QED
      BY <1>2, <2>2, <2>3, <2>4, Zenon
  <1>5. GivenInOrder(now)
    <2> SUFFICES ASSUME NEW a \in DOMAIN now
                 PROVE  /\ now[a].genuine
                        /\ now[a].kind = "block" /\ now[a].parent # Genesis =>
                               \E b \in 1..(a - 1) : now[b].id = now[a].parent
      BY Zenon DEF GivenInOrder
    <2>1. CASE a \in DOMAIN given
      <3>1. now[a] = given[a] /\ \A b \in 1..(a - 1) : now[b] = given[b]
        BY <1>2, <2>1
      <3>2. /\ given[a].genuine
            /\ given[a].kind = "block" /\ given[a].parent # Genesis =>
                   \E b \in 1..(a - 1) : given[b].id = given[a].parent
        BY <2>1, Zenon DEF NodeInv, GivenInOrder
      <3> QED
        BY <3>1, <3>2
    <2>2. CASE a = last
      <3>1. now[a] = m /\ 1..(a - 1) = DOMAIN given
        BY <1>2, <2>2 DEF last
      <3>2. ASSUME m.kind = "block", m.parent # Genesis
            PROVE  \E b \in DOMAIN given : given[b].id = m.parent
        <4>1. PICK k \in pool : k.id = m.parent
          BY <3>2, Zenon DEF Ids, Passes
        <4>2. k.kind = "block"
          BY <3>2, <4>1, IntakeAssumption, Zenon
        <4> QED
          BY <4>1, <4>2, Zenon DEF NodeInv, Paired
      <3> QED
        BY <1>2, <3>1, <3>2, Zenon DEF Passes
    <2> QED
      BY <1>2, <2>1, <2>2, Zenon
  <1> QED
    BY <1>1, <1>3, <1>4, <1>5, Zenon DEF NodeInv

(* The receiving node keeps its invariant.                                 *)
LEMMA HandledHere ==
    ASSUME IntakeInv, NEW f, NEW insert \in BOOLEAN, NEW forward \in BOOLEAN, NEW relay \in BOOLEAN,
           Handled(f, insert, forward, relay), NEW n \in IntakeNodes, n = f.to
    PROVE  NodeInv(consensusIn'[n], seenHere'[n], pooled'[n], evicted')
  <1>1. PICK m \in Payloads : m = f.m
    BY Zenon DEF IntakeInv, FlightInv, Handled
  <1>2. /\ consensusIn[n] \in Seq(Payloads) /\ pooled[n] \in SUBSET Payloads
        /\ seenHere[n] \in Seq(Payloads)
        /\ NodeInv(consensusIn[n], seenHere[n], pooled[n], evicted)
    BY Zenon DEF IntakeInv
  <1>3. m \in ToSet(Remember(n, m))
    BY <1>2, RememberCovers, Zenon
  <1>4. seenHere'[n] = Remember(n, m)
    BY <1>1, Zenon DEF IntakeInv, Handled
  <1>5. pooled'[n] = IF insert THEN pooled[n] \cup {m} ELSE pooled[n]
    BY <1>1, Zenon DEF IntakeInv, Handled
  <1>6. consensusIn'[n] = IF forward THEN Append(consensusIn[n], m) ELSE consensusIn[n]
    BY <1>1, Zenon DEF IntakeInv, Handled
  <1>7. m \notin ToSet(seenHere[n])
    <2>1. DOMAIN seenHere[n] = 1..Len(seenHere[n])
      BY <1>2
    <2> QED
      BY <1>1, <2>1, Zenon DEF Handled, Contains, ToSet
  <1>8. /\ forward => m.genuine
        /\ m.kind = "block" =>
              /\ insert <=> forward
              /\ insert => m \notin pooled[n] /\ (m.parent = Genesis \/ m.parent \in Ids(pooled[n]))
        /\ evicted' = evicted \union (ToSet(seenHere[n]) \ ToSet(Remember(n, m)))
    BY <1>1, Zenon DEF Handled, ParentAvailable
  <1>9. /\ evicted \subseteq evicted'
        /\ (ToSet(seenHere[n]) \cup evicted) \cup {m} \subseteq ToSet(seenHere'[n]) \cup evicted'
    BY <1>3, <1>4, <1>8, Zenon
  <1>10. CASE forward
    <2>1. pooled'[n] = pooled[n] \/ pooled'[n] = pooled[n] \cup {m}
      BY <1>5, Zenon
    <2>2. m.kind = "block" => /\ pooled'[n] = pooled[n] \cup {m} /\ m \notin pooled[n]
                              /\ m.parent = Genesis \/ m.parent \in Ids(pooled[n])
      BY <1>5, <1>8, <1>10, Zenon
    <2> m.genuine
      BY <1>8, <1>10, Zenon
    <2>3. Passes(m, seenHere[n], pooled[n], evicted, seenHere'[n], pooled'[n], evicted')
      BY <1>7, <1>9, <2>1, <2>2, Zenon DEF Passes
    <2>4. NodeInv(Append(consensusIn[n], m), seenHere'[n], pooled'[n], evicted')
      BY <1>2, <2>3, GivenOneMore, Zenon
    <2> QED
      BY <1>6, <1>10, <2>4, Zenon
  <1>11. CASE ~forward
    <2>1. pooled'[n] = pooled[n] \/ (pooled'[n] = pooled[n] \cup {m} /\ m.kind # "block")
      BY <1>5, <1>8, <1>11, Zenon
    <2>2. ToSet(seenHere[n]) \cup evicted \subseteq ToSet(seenHere'[n]) \cup evicted'
      BY <1>9, Zenon
    <2>3. NodeInv(consensusIn[n], seenHere'[n], pooled'[n], evicted')
      BY <1>2, <1>9, <2>1, <2>2, GivenNothing
    <2> QED
      BY <1>6, <1>11, <2>3, Zenon
  <1> QED
    BY <1>10, <1>11, Zenon

(* The others have only more that was dropped somewhere.                   *)
LEMMA HandledElsewhere ==
    ASSUME IntakeInv, NEW f, NEW insert \in BOOLEAN, NEW forward \in BOOLEAN, NEW relay \in BOOLEAN,
           Handled(f, insert, forward, relay), NEW n \in IntakeNodes, n # f.to
    PROVE  NodeInv(consensusIn'[n], seenHere'[n], pooled'[n], evicted')
  <1>1. seenHere'[n] = seenHere[n] /\ pooled'[n] = pooled[n] /\ consensusIn'[n] = consensusIn[n]
    BY Zenon DEF IntakeInv, Handled
  <1>2. /\ evicted \subseteq evicted'
        /\ ToSet(seenHere[n]) \cup evicted \subseteq ToSet(seenHere[n]) \cup evicted'
    BY Zenon DEF Handled
  <1>3. NodeInv(consensusIn[n], seenHere[n], pooled[n], evicted)
    BY Zenon DEF IntakeInv
  <1>4. NodeInv(consensusIn[n], seenHere[n], pooled[n], evicted')
    BY <1>2, <1>3, GivenNothing
  <1> QED
    BY <1>1, <1>4, Zenon

(* The receiver and the others together.                                   *)
LEMMA HandledKeeps ==
    ASSUME IntakeInv, NEW f, NEW insert \in BOOLEAN, NEW forward \in BOOLEAN, NEW relay \in BOOLEAN,
           Handled(f, insert, forward, relay)
    PROVE  IntakeInv'
  <1>1. f.to \in IntakeNodes /\ f.m \in Payloads
    BY Zenon DEF IntakeInv, FlightInv, Handled
  <1>2. seenHere' \in [IntakeNodes -> Seq(Payloads)]
    <2>1. Remember(f.to, f.m) \in Seq(Payloads)
      BY <1>1, RememberCovers DEF IntakeInv
    <2> QED
      BY <1>1, <2>1 DEF IntakeInv, Handled
  <1>3. pooled' \in [IntakeNodes -> SUBSET Payloads]
    BY <1>1 DEF IntakeInv, Handled
  <1>4. consensusIn' \in [IntakeNodes -> Seq(Payloads)]
    BY <1>1 DEF IntakeInv, Handled
  <1>5. \A n \in IntakeNodes : NodeInv(consensusIn'[n], seenHere'[n], pooled'[n], evicted')
    BY HandledHere, HandledElsewhere, Zenon
  <1>6. FlightInv'
    BY <1>1, Zenon DEF IntakeInv, FlightInv, Handled
  <1> QED
    BY <1>2, <1>3, <1>4, <1>5, <1>6, Zenon DEF IntakeInv

(* Each entry point handles its payload, or leaves all but the network     *)
(* alone.                                                                  *)
LEMMA ReceiveHandles ==
    ASSUME IntakeInv, NEW f \in flight, NEW s \in BOOLEAN, NEW l \in BOOLEAN, NEW r \in BOOLEAN,
           \/ ReceiveTransactionGossip(f, s, l, r) \/ ReceiveCommitGossip(f, s, l, r)
           \/ ReceiveRevealGossip(f, s, l, r) \/ ReceiveBlockGossip(f, s, l, r)
           \/ ReceiveVoteGossip(f, s, l, r) \/ ReceiveQcGossip(f, s, l, r)
    PROVE  \/ UNCHANGED <<seenHere, pooled, consensusIn, evicted>> /\ flight' \subseteq flight
           \/ \E insert, forward, relay \in BOOLEAN : Handled(f, insert, forward, relay)
  <1> DEFINE gone == IF s THEN flight ELSE flight \ {f}
             Handles(out) ==
                /\ ~Contains(seenHere[f.to], f.m)
                /\ seenHere' = [seenHere EXCEPT ![f.to] = Remember(f.to, f.m)]
                /\ evicted' = evicted \union (ToSet(seenHere[f.to]) \ ToSet(Remember(f.to, f.m)))
                /\ Apply(f.to, f.m, out)
                /\ flight' = gone \union
                       (IF out.relay THEN {[from |-> f.to, to |-> k, m |-> f.m] :
                                              k \in Neighbours(f.to) \ {f.from}}
                                     ELSE {})
             Fits(out) ==
                /\ out.insert \in BOOLEAN /\ out.forward \in BOOLEAN /\ out.relay \in BOOLEAN
                /\ out.forward => f.m.genuine
                /\ out.relay => f.m.genuine /\ f.m.decodes
                /\ f.m.kind = "block" =>
                      /\ out.insert <=> out.forward
                      /\ out.insert => f.m \notin pooled[f.to] /\ ParentAvailable(f.to, f.m)
             Nothing == UNCHANGED <<seenHere, pooled, consensusIn, evicted>> /\ flight' \subseteq flight
  <1>1. ASSUME NEW out, Handles(out), Fits(out)
        PROVE  \E insert, forward, relay \in BOOLEAN : Handled(f, insert, forward, relay)
    <2>1. \A g \in flight' : g \in flight \/ (out.relay /\ g.m = f.m /\ g.to \in IntakeNodes)
      <3>1. Neighbours(f.to) \subseteq IntakeNodes
        BY Zenon DEF Neighbours
      <3>2. ASSUME NEW g \in flight', g \notin flight
            PROVE  out.relay /\ \E k \in Neighbours(f.to) : g = [from |-> f.to, to |-> k, m |-> f.m]
        BY <1>1, <3>2, Zenon
      <3> QED
        BY <3>1, <3>2
    <2>2. Handled(f, out.insert, out.forward, out.relay)
      BY <1>1, <2>1, Zenon DEF Handled, Apply
    <2> QED
      BY <1>1, <2>2, Zenon
  <1>2. CASE ReceiveTransactionGossip(f, s, l, r)
    <2> DEFINE out == ReceiveTransaction(f.to, f.m, r)
    <2>1. f.m.kind = "tx" /\ (Nothing \/ Handles(out))
      BY <1>2, Zenon DEF ReceiveTransactionGossip, Receive
    <2>2. Fits(out)
      BY <2>1 DEF ReceiveTransaction, Refused, KnownBlock, Done
    <2> QED
      BY <1>1, <2>1, <2>2, Zenon
  <1>3. CASE ReceiveCommitGossip(f, s, l, r)
    <2> DEFINE out == ReceiveCommit(f.to, f.m, r)
    <2>1. f.m.kind = "commit" /\ (Nothing \/ Handles(out))
      BY <1>3, Zenon DEF ReceiveCommitGossip, Receive
    <2>2. Fits(out)
      BY <2>1 DEF ReceiveCommit, Refused, Done
    <2> QED
      BY <1>1, <2>1, <2>2, Zenon
  <1>4. CASE ReceiveRevealGossip(f, s, l, r)
    <2> DEFINE out == ReceiveReveal(f.to, f.m, r)
    <2>1. f.m.kind = "reveal" /\ (Nothing \/ Handles(out))
      BY <1>4, Zenon DEF ReceiveRevealGossip, Receive
    <2>2. Fits(out)
      BY <2>1 DEF ReceiveReveal, Refused, Done
    <2> QED
      BY <1>1, <2>1, <2>2, Zenon
  <1>5. CASE ReceiveBlockGossip(f, s, l, r)
    <2> DEFINE out == ReceiveBlock(f.to, f.m, r)
    <2>1. f.m.kind = "block" /\ (Nothing \/ Handles(out))
      BY <1>5, Zenon DEF ReceiveBlockGossip, Receive
    <2>2. Fits(out)
      BY <2>1 DEF ReceiveBlock, Refused, KnownBlock, Done
    <2> QED
      BY <1>1, <2>1, <2>2, Zenon
  <1>6. CASE ReceiveVoteGossip(f, s, l, r)
    <2> DEFINE out == ReceiveVote(f.to, f.m, r)
    <2>1. f.m.kind = "vote" /\ (Nothing \/ Handles(out))
      BY <1>6, Zenon DEF ReceiveVoteGossip, Receive
    <2>2. Fits(out)
      BY <2>1 DEF ReceiveVote, Refused, Done
    <2> QED
      BY <1>1, <2>1, <2>2, Zenon
  <1>7. CASE ReceiveQcGossip(f, s, l, r)
    <2> DEFINE out == ReceiveQuorumCertificate(f.to, f.m, r)
    <2>1. f.m.kind = "qc" /\ (Nothing \/ Handles(out))
      BY <1>7, Zenon DEF ReceiveQcGossip, Receive
    <2>2. Fits(out)
      BY <2>1 DEF ReceiveQuorumCertificate, Refused, Done
    <2> QED
      BY <1>1, <2>1, <2>2, Zenon
  <1> QED
    BY <1>2, <1>3, <1>4, <1>5, <1>6, <1>7, Zenon

(* Every step of the network keeps the invariant.                          *)
LEMMA IntakeStep ==
    ASSUME IntakeInv, [IntakeNext]_intakeVars
    PROVE  IntakeInv'
  <1>1. CASE UNCHANGED <<seenHere, pooled, consensusIn, evicted>> /\ flight' \subseteq flight
    <2>1. FlightInv'
      BY <1>1, Zenon DEF IntakeInv, FlightInv
    <2> QED
      BY <1>1, <2>1, NothingHandled, Zenon
  <1>2. ASSUME NEW n \in IntakeNodes, NEW m \in Payloads, Inject(n, m)
        PROVE  IntakeInv'
    <2>1. UNCHANGED <<seenHere, pooled, consensusIn, evicted>>
      BY <1>2, Zenon DEF Inject
    <2>2. FlightInv'
      BY <1>2 DEF Inject, IntakeInv, FlightInv
    <2> QED
      BY <2>1, <2>2, NothingHandled, Zenon
  <1>3. ASSUME NEW f \in flight, NEW s \in BOOLEAN, NEW l \in BOOLEAN, NEW r \in BOOLEAN,
               \/ ReceiveTransactionGossip(f, s, l, r) \/ ReceiveCommitGossip(f, s, l, r)
               \/ ReceiveRevealGossip(f, s, l, r) \/ ReceiveBlockGossip(f, s, l, r)
               \/ ReceiveVoteGossip(f, s, l, r) \/ ReceiveQcGossip(f, s, l, r)
        PROVE  IntakeInv'
    <2>1. CASE \E insert, forward, relay \in BOOLEAN : Handled(f, insert, forward, relay)
      BY <2>1, HandledKeeps, Zenon
    <2> QED
      BY <1>1, <1>3, <2>1, ReceiveHandles
  <1>4. CASE UNCHANGED intakeVars
    BY <1>1, <1>4, Zenon DEF intakeVars
  <1> QED
    BY <1>2, <1>3, <1>4 DEF IntakeNext

(* receive_*_gossip_message: whatever links lose, repeat and reorder and   *)
(* however small the duplicate cache, consensus is handed every block once *)
(* and after its parent, only what is genuine is handed over or sent on,   *)
(* and a vote or certificate comes again only after the cache dropped it.  *)
THEOREM IntakeTheorem == IntakeInit /\ [][IntakeNext]_intakeVars => []IntakeSound
  <1>1. IntakeInit => IntakeInv
    <2> SUFFICES ASSUME IntakeInit PROVE IntakeInv
      OBVIOUS
    <2>1. /\ seenHere \in [IntakeNodes -> Seq(Payloads)] /\ pooled \in [IntakeNodes -> SUBSET Payloads]
          /\ consensusIn \in [IntakeNodes -> Seq(Payloads)] /\ FlightInv
      BY DEF IntakeInit, FlightInv
    <2>2. \A n \in IntakeNodes : NodeInv(consensusIn[n], seenHere[n], pooled[n], evicted)
      BY DEF IntakeInit, NodeInv, Paired, GivenOnce, GivenInOrder
    <2> QED
      BY <2>1, <2>2 DEF IntakeInv
  <1>2. IntakeInv => IntakeSound
    BY Zenon DEF IntakeInv, IntakeSound, NodeInv, GivenOnce, GivenInOrder, FlightInv
  <1> QED
    BY <1>1, <1>2, IntakeStep, PTL

(***************************************************************************)
(* The light client (module LightClient)                                   *)
(***************************************************************************)

(* The certified headers, of the genesis block too.                        *)
Headers == {Block(h) : h \in Nat}

(* A run of consecutive certified headers; all above its first were        *)
(* certified by the set.                                                   *)
IsRun(s, set) ==
    /\ s \in Seq(Headers) /\ Len(s) >= 1
    /\ \A i \in 1..Len(s) : /\ s[i] = Block(s[1].height + i - 1)
                            /\ i > 1 => ValidatorRoot(s[i]) = set

(* The client holds a run that ends in the header it publishes.            *)
LightInv ==
    /\ IsRun(verifiedHeaders, trustedSet) /\ Len(verifiedHeaders) <= MaxRetainedHeaders
    /\ latestHeader = Last(verifiedHeaders)
    /\ DOMAIN syncLoop = Callers
    /\ \A c \in Callers : \A r \in syncLoop[c] : r.start \in Int /\ r.end \in Int
    /\ DOMAIN query = {"height", "answer"}
    /\ query.answer \subseteq {Block(query.height)}

-----------------------------------------------------------------------------

(* A certified block is named by its height.                               *)
LEMMA HeightOfBlock == \A h : Block(h).height = h
  BY DEF Block

(* A certified header is the block of its height.                          *)
LEMMA HeaderIsBlock ==
    ASSUME NEW x \in Headers
    PROVE  x.height \in Nat /\ x = Block(x.height)
  BY HeightOfBlock, Zenon DEF Headers

(* The last header of a run.                                               *)
LEMMA RunEnds ==
    ASSUME NEW s, NEW set, IsRun(s, set)
    PROVE  /\ Last(s) = Block(s[1].height + Len(s) - 1)
           /\ Last(s).height = s[1].height + Len(s) - 1
           /\ s[1].height \in Nat /\ Last(s).height \in Nat
           /\ \A i \in 1..Len(s) : /\ s[i] = Block(s[i].height) /\ s[i].height \in Nat
                                   /\ s[i].height = s[1].height + i - 1
  <1>1. s \in Seq(Headers) /\ Len(s) \in Nat /\ Len(s) >= 1
    BY DEF IsRun
  <1>2. \A i \in 1..Len(s) : s[i] \in Headers
    BY <1>1
  <1>3. 1 \in 1..Len(s) /\ Len(s) \in 1..Len(s)
    BY <1>1
  <1>4. \A i \in 1..Len(s) : s[i].height = s[1].height + i - 1
    BY HeightOfBlock, Zenon DEF IsRun
  <1>5. \A i \in 1..Len(s) : s[i].height \in Nat /\ s[i] = Block(s[i].height)
    BY <1>2, HeaderIsBlock, Zenon
  <1> QED
    BY <1>3, <1>4, <1>5, Zenon DEF IsRun, Last

(* A run goes on with the headers above its last.                          *)
LEMMA RunExtended ==
    ASSUME NEW s, NEW set, IsRun(s, set), NEW t \in Seq(Headers),
           \A i \in 1..Len(t) : t[i] = Block(Last(s).height + i) /\ ValidatorRoot(t[i]) = set
    PROVE  IsRun(s \o t, set)
  <1>1. /\ s \in Seq(Headers) /\ Len(s) \in Nat /\ Len(s) >= 1 /\ Len(t) \in Nat
        /\ s[1].height \in Nat /\ Last(s).height = s[1].height + Len(s) - 1
    <2>1. s \in Seq(Headers) /\ Len(s) >= 1
      BY Zenon DEF IsRun
    <2>2. s[1].height \in Nat /\ Last(s).height = s[1].height + Len(s) - 1
      BY RunEnds, Zenon
    <2> QED
      BY <2>1, <2>2
  <1>2. /\ s \o t \in Seq(Headers) /\ Len(s \o t) = Len(s) + Len(t)
        /\ \A i \in 1..Len(s \o t) : (s \o t)[i] = IF i <= Len(s) THEN s[i] ELSE t[i - Len(s)]
    BY <1>1
  <1> DEFINE u == s \o t
  <1>3. u[1] = s[1]
    BY <1>1, <1>2
  <1> HIDE DEF u
  <1>4. ASSUME NEW i \in 1..Len(u)
        PROVE  u[i] = Block(u[1].height + i - 1) /\ (i > 1 => ValidatorRoot(u[i]) = set)
    <2>1. CASE i <= Len(s)
      <3>1. i \in 1..Len(s) /\ u[i] = s[i]
        BY <1>1, <1>2, <2>1 DEF u
      <3> QED
        BY <1>3, <3>1, Zenon DEF IsRun
    <2>2. CASE i > Len(s)
      <3> DEFINE j == i - Len(s)
                 n == s[1].height
                 top == Last(s).height
      <3>1. j \in 1..Len(t) /\ u[i] = t[j]
        BY <1>1, <1>2, <2>2 DEF u
      <3>2. n \in Nat /\ top = n + Len(s) - 1 /\ i \in Nat
        BY <1>1, <1>2 DEF u
      <3>3. top + j = n + i - 1
        <4> HIDE DEF n, top
        <4> QED
          BY <1>1, <3>2
      <3> HIDE DEF j
      <3> QED
        BY <1>3, <3>1, <3>3, Zenon
    <2> QED
      BY <1>1, <1>2, <2>1, <2>2 DEF u
  <1> QED
    BY <1>1, <1>2, <1>4 DEF IsRun, u

(* The end of a run is a run.                                              *)
LEMMA RunPruned ==
    ASSUME NEW s, NEW set, IsRun(s, set), NEW k \in 1..Len(s)
    PROVE  /\ IsRun(SubSeq(s, k, Len(s)), set)
           /\ Len(SubSeq(s, k, Len(s))) = Len(s) - k + 1
           /\ Last(SubSeq(s, k, Len(s))) = Last(s)
  <1>1. s \in Seq(Headers) /\ Len(s) \in Nat /\ Len(s) >= 1 /\ s[1].height \in Nat
        /\ \A i \in 1..Len(s) : s[i].height = s[1].height + i - 1
    <2>1. s \in Seq(Headers) /\ Len(s) >= 1
      BY Zenon DEF IsRun
    <2>2. Len(s) \in Nat
      BY <2>1
    <2> QED
      BY <2>1, <2>2, RunEnds, Zenon
  <1> DEFINE u == SubSeq(s, k, Len(s))
  <1>2. /\ u \in Seq(Headers) /\ Len(u) = Len(s) - k + 1
        /\ \A i \in 1..Len(u) : u[i] = s[k + i - 1]
    BY <1>1
  <1> HIDE DEF u
  <1>3. ASSUME NEW i \in 1..Len(u)
        PROVE  u[i] = Block(u[1].height + i - 1) /\ (i > 1 => ValidatorRoot(u[i]) = set)
    <2> DEFINE j == k + i - 1
               n == s[1].height
    <2>1. /\ j \in 1..Len(s) /\ u[i] = s[j] /\ (i > 1 => j > 1)
          /\ u[1] = s[k]
      BY <1>1, <1>2
    <2>2. n \in Nat /\ s[k].height = n + k - 1
      BY <1>1, Zenon
    <2>3. (n + k - 1) + i - 1 = n + j - 1
      <3> HIDE DEF n
      <3> QED
        BY <1>1, <1>2, <2>2
    <2> HIDE DEF j
    <2> QED
      BY <2>1, <2>2, <2>3, Zenon DEF IsRun
  <1>4. Last(u) = Last(s)
    BY <1>1, <1>2 DEF Last
  <1> QED
    BY <1>1, <1>2, <1>3, <1>4 DEF IsRun, u

(* A response is a finite set of headers.                                  *)
LEMMA ResponseFinite ==
    ASSUME NEW start \in Int, NEW end \in Int, NEW S \in Responses(start, end)
    PROVE  IsFiniteSet(S) /\ Cardinality(S) \in Nat
  <1> DEFINE run == {Voted(Block(h)) : h \in start..end}
             f == [h \in start..end |-> Voted(Block(h))]
  <1>1. f \in Surjection(start..end, run)
    BY DEF Surjection
  <1>2. IsFiniteSet(run)
    <2> HIDE DEF run, f
    <2> QED
      BY <1>1, FS_Interval, FS_Surjection
  <1>3. S = run \/ \E x, y : S = (run \ {x}) \cup {y}
    BY DEF Responses
  <1> HIDE DEF run
  <1>4. IsFiniteSet(S)
    <2>1. CASE S = run
      BY <1>2, <2>1, Zenon
    <2>2. ASSUME NEW x, NEW y, S = (run \ {x}) \cup {y}
          PROVE  IsFiniteSet(S)
      <3>1. IsFiniteSet(run \ {x})
        BY <1>2, FS_RemoveElement, Zenon
      <3> QED
        BY <2>2, <3>1, FS_AddElement, Zenon
    <2> QED
      BY <1>3, <2>1, <2>2, Zenon
  <1> QED
    BY <1>4, FS_CardinalityType, Zenon

(* A header with a quorum of votes of the set it commits to is the         *)
(* certified block of its height: its rival gathered too few.              *)
LEMMA VotedIsCertified ==
    ASSUME NEW start, NEW end, NEW S \in Responses(start, end), NEW x \in S,
           VerifyConsensusSignatures(x.signers, ValidatorRoot(x.header))
    PROVE  x.header = Block(x.header.height)
  <1>1. \A h : Voted(Block(h)).header = Block(h) /\ Bare(Block(h)).header = Block(h)
    BY Zenon DEF Voted, Bare
  <1>2. ASSUME NEW h, x.header = Block(h)
        PROVE  x.header = Block(x.header.height)
    BY <1>2, HeightOfBlock, Zenon
  <1>3. ASSUME NEW h \in Heights, x \in {Voted(Rival(h)), Bare(Rival(h))}
        PROVE  FALSE
    <2>1. Rival(h).height = h /\ ~Rival(h).certified
      BY DEF Rival
    <2>2. VotesFor(Rival(h)) = RivalVotes[h] /\ h # 0
      BY <2>1 DEF VotesFor, Heights
    <2>3. x.header = Rival(h) /\ x.signers \in {VotesFor(Rival(h)), {}}
      BY <1>3 DEF Voted, Bare
    <2>4. ValidatorRoot(x.header) = SetAt[h]
      BY <2>1, <2>2, <2>3, Zenon DEF ValidatorRoot
    <2> QED
      BY <2>2, <2>3, <2>4, RivalAssumption, Zenon DEF VerifyConsensusSignatures
  <1>4. CASE x \in {Voted(Block(h)) : h \in start..end}
    <2>1. PICK h \in start..end : x = Voted(Block(h))
      BY <1>4, Zenon
    <2> QED
      BY <1>1, <1>2, <2>1, Zenon
  <1>5. CASE x \in EnvelopesIn(start, end)
    <2>1. PICK y \in Proposed : x \in {Voted(y), Bare(y)}
      BY <1>5, Zenon DEF EnvelopesIn
    <2>2. CASE \E h \in Heights : y = Block(h)
      BY <1>1, <1>2, <2>1, <2>2, Zenon
    <2>3. CASE \E h \in Heights : y = Rival(h)
      BY <1>3, <2>1, <2>3, Zenon
    <2> QED
      BY <2>2, <2>3, Zenon DEF Proposed
  <1> QED
    BY <1>4, <1>5 DEF Responses

(* The newest headers of a run that was extended.                          *)
LEMMA PrunedRun ==
    ASSUME NEW s, NEW set, IsRun(s, set)
    PROVE  /\ IsRun(Prune(s), set) /\ Len(Prune(s)) <= MaxRetainedHeaders
  <1> DEFINE k == Max({1, Len(s) - MaxRetainedHeaders + 1})
  <1>1. Len(s) \in Nat /\ Len(s) >= 1
    BY DEF IsRun
  <1>2. k \in {1, Len(s) - MaxRetainedHeaders + 1} /\ k >= 1 /\ k >= Len(s) - MaxRetainedHeaders + 1
    <2> DEFINE n == Len(s) - MaxRetainedHeaders + 1
    <2>1. n \in Int
      BY <1>1, RetentionAssumption
    <2> HIDE DEF n
    <2>2. \E x \in {1, n} : \A y \in {1, n} : x >= y
      BY <2>1
    <2>3. Max({1, n}) \in {1, n} /\ \A y \in {1, n} : Max({1, n}) >= y
      BY <2>2, Zenon DEF Max
    <2> QED
      BY <2>3, Zenon DEF n
  <1> HIDE DEF k
  <1>3. k \in 1..Len(s) /\ Len(s) - k + 1 <= MaxRetainedHeaders
    BY <1>1, <1>2, RetentionAssumption
  <1> QED
    BY <1>3, RunPruned DEF Prune, k

(* A batch that passes goes on from the tip with certified headers.        *)
LEMMA ReceiveKeeps ==
    ASSUME LightInv, NEW start \in Int, NEW end \in Int, NEW S \in Responses(start, end), NEW clock,
           ReceiveVerifiedHeaders(S, clock), trustedSet' = trustedSet
    PROVE  /\ IsRun(verifiedHeaders, trustedSet)' /\ (Len(verifiedHeaders) <= MaxRetainedHeaders)'
           /\ latestHeader' = Last(verifiedHeaders')
  <1>1. CASE UNCHANGED <<verifiedHeaders, latestHeader>>
    BY <1>1, Zenon DEF LightInv
  <1>2. ASSUME NEW batch \in SortedByHeight(S), ProcessBatch(batch, clock)
        PROVE  IsRun(verifiedHeaders \o [i \in DOMAIN batch |-> batch[i].header], trustedSet)
    <2> DEFINE t == [i \in DOMAIN batch |-> batch[i].header]
               tip == Last(verifiedHeaders)
    <2>1. Cardinality(S) \in Nat
      BY ResponseFinite, Zenon
    <2>2. DOMAIN batch = 1..Cardinality(S) /\ \A i \in 1..Cardinality(S) : batch[i] \in S
      BY <1>2, Zenon DEF SortedByHeight
    <2>3. IsRun(verifiedHeaders, trustedSet) /\ tip.height \in Nat
      BY RunEnds, Zenon DEF LightInv
    <2>4. ASSUME NEW i \in 1..Cardinality(S)
          PROVE  batch[i].header = Block(tip.height + i) /\ ValidatorRoot(batch[i].header) = trustedSet
      <3>1. /\ batch[i].header.height = tip.height + i
            /\ ValidatorRoot(batch[i].header) = trustedSet
            /\ VerifyConsensusSignatures(batch[i].signers, trustedSet)
        BY <1>2, <2>2, Zenon DEF ProcessBatch
      <3>2. batch[i].header = Block(batch[i].header.height)
        BY <2>2, <3>1, VotedIsCertified, Zenon
      <3> QED
        BY <3>1, <3>2, Zenon
    <2> HIDE DEF tip
    <2>5. \A i \in 1..Cardinality(S) : Block(tip.height + i) \in Headers
      BY <2>1, <2>3 DEF Headers
    <2>6. t \in Seq(Headers) /\ Len(t) = Cardinality(S)
          /\ \A i \in 1..Cardinality(S) : t[i] = batch[i].header
      BY <2>1, <2>2, <2>4, <2>5
    <2> HIDE DEF t
    <2> QED
      BY <2>3, <2>4, <2>6, RunExtended, Zenon DEF t, tip
  <1>3. CASE \E batch \in SortedByHeight(S) :
                /\ ProcessBatch(batch, clock)
                /\ verifiedHeaders' =
                       Prune(verifiedHeaders \o [i \in DOMAIN batch |-> batch[i].header])
                /\ latestHeader' = Last(verifiedHeaders')
    BY <1>2, <1>3, PrunedRun, Zenon
  <1> QED
    BY <1>1, <1>3, Zenon DEF ReceiveVerifiedHeaders

(* Every step of the client keeps the invariant.                           *)
LEMMA LightStep ==
    ASSUME LightInv, [LightNext]_lightVars
    PROVE  LightInv'
  <1>1. ASSUME NEW c \in Callers, NEW target \in Heights, BeginSync(c, target)
        PROVE  LightInv'
    <2> DEFINE tip == latestHeader.height
               top == Min({target, tip + MaxHeaderBatchSize})
               r == [peer |-> trackedPeer, start |-> tip + 1, end |-> top]
    <2>1. /\ UNCHANGED <<verifiedHeaders, trustedSet, latestHeader, query>>
          /\ syncLoop' = [syncLoop EXCEPT ![c] = {r}]
      BY <1>1, Zenon DEF BeginSync
    <2>2. tip \in Nat
      BY RunEnds, Zenon DEF LightInv
    <2>3. top \in Int
      <3> DEFINE n == tip + MaxHeaderBatchSize
      <3>1. n \in Int /\ target \in Int
        BY <2>2, RetentionAssumption DEF Heights
      <3> HIDE DEF n
      <3>2. \E x \in {target, n} : \A y \in {target, n} : x =< y
        BY <3>1
      <3>3. Min({target, n}) \in {target, n}
        BY <3>2, Zenon DEF Min
      <3> QED
        BY <3>1, <3>3, Zenon DEF n
    <2> HIDE DEF tip, top
    <2>4. r.start \in Int /\ r.end \in Int
      BY <2>2, <2>3
    <2> HIDE DEF r
    <2>5. \A o \in Callers : syncLoop'[o] = IF o = c THEN {r} ELSE syncLoop[o]
      BY <2>1 DEF LightInv
    <2>6. DOMAIN syncLoop' = Callers
      BY <2>1 DEF LightInv
    <2> QED
      BY <2>1, <2>4, <2>5, <2>6, Zenon DEF LightInv
  <1>2. ASSUME NEW c \in Callers, NEW clock, NEW r \in syncLoop[c],
               NEW S \in Responses(r.start, r.end) \cup {{}}, FinishSync(c, r, S, clock)
        PROVE  LightInv'
    <2>1. /\ UNCHANGED <<trustedSet, query>> /\ syncLoop' = [syncLoop EXCEPT ![c] = {}]
          /\ \/ UNCHANGED <<verifiedHeaders, latestHeader>>
             \/ S \in Responses(r.start, r.end) /\ ReceiveVerifiedHeaders(S, clock)
      BY <1>2, Zenon DEF FinishSync
    <2>2. DOMAIN syncLoop' = Callers /\ \A o \in Callers : \A q \in syncLoop'[o] : q \in syncLoop[o]
      BY <2>1 DEF LightInv
    <2>3. r.start \in Int /\ r.end \in Int
      BY Zenon DEF LightInv
    <2>4. CASE UNCHANGED <<verifiedHeaders, latestHeader>>
      BY <2>1, <2>2, <2>4, Zenon DEF LightInv
    <2>5. CASE S \in Responses(r.start, r.end) /\ ReceiveVerifiedHeaders(S, clock)
      <3>1. /\ IsRun(verifiedHeaders, trustedSet)' /\ (Len(verifiedHeaders) <= MaxRetainedHeaders)'
            /\ latestHeader' = Last(verifiedHeaders')
        BY <2>1, <2>3, <2>5, ReceiveKeeps, Zenon
      <3> QED
        BY <2>1, <2>2, <3>1, Zenon DEF LightInv
    <2> QED
      BY <2>1, <2>4, <2>5, Zenon
  <1>3. ASSUME NEW start \in Heights, NEW end \in Heights, NEW clock, NEW S \in Responses(start, end),
               UpdateVerifiedHeaders(S, clock)
        PROVE  LightInv'
    <2>1. start \in Int /\ end \in Int
      BY DEF Heights
    <2>2. UNCHANGED <<trustedSet, query, syncLoop>> /\ ReceiveVerifiedHeaders(S, clock)
      BY <1>3, Zenon DEF UpdateVerifiedHeaders
    <2>3. /\ IsRun(verifiedHeaders, trustedSet)' /\ (Len(verifiedHeaders) <= MaxRetainedHeaders)'
          /\ latestHeader' = Last(verifiedHeaders')
      BY <2>1, <2>2, ReceiveKeeps, Zenon
    <2> QED
      BY <2>2, <2>3, Zenon DEF LightInv
  <1>4. ASSUME NEW S, TransitionValidatorSet(S)
        PROVE  LightInv'
    <2>1. /\ UNCHANGED <<verifiedHeaders, latestHeader, query, syncLoop>> /\ trustedSet' = S
          /\ ValidatorRoot(Last(verifiedHeaders)) = S
      BY <1>4, Zenon DEF TransitionValidatorSet
    <2>2. Len(verifiedHeaders) > 1 => S = trustedSet
      BY <2>1 DEF LightInv, IsRun, Last
    <2>3. IsRun(verifiedHeaders, S)
      BY <2>2 DEF LightInv, IsRun
    <2> QED
      BY <2>1, <2>3, Zenon DEF LightInv
  <1>5. ASSUME NEW h, RequestStateAtHeight(h)
        PROVE  LightInv'
    <2>1. /\ UNCHANGED <<verifiedHeaders, trustedSet, latestHeader, syncLoop>>
          /\ query' = [height |-> h, answer |-> {}]
      BY <1>5, Zenon DEF RequestStateAtHeight
    <2>2. query'.answer = {} /\ DOMAIN query' = {"height", "answer"}
      BY <2>1
    <2> QED
      BY <2>1, <2>2, Zenon DEF LightInv
  <1>6. ASSUME NEW root, AnswerStateQuery(root)
        PROVE  LightInv'
    <2>1. /\ UNCHANGED <<verifiedHeaders, trustedSet, latestHeader, syncLoop>>
          /\ query' = [query EXCEPT !.answer = {root}]
          /\ root.height = query.height
          /\ root = latestHeader \/ \E i \in DOMAIN verifiedHeaders : root = verifiedHeaders[i]
      BY <1>6, Zenon DEF AnswerStateQuery, VerifiedHeaderAtHeight, Range
    <2>2. DOMAIN verifiedHeaders = 1..Len(verifiedHeaders)
      BY DEF LightInv, IsRun
    <2>3. root = Block(root.height)
      <3>1. IsRun(verifiedHeaders, trustedSet) /\ latestHeader = Last(verifiedHeaders)
        BY Zenon DEF LightInv
      <3>2. CASE root = latestHeader
        BY <3>1, <3>2, RunEnds, Zenon
      <3>3. CASE \E i \in DOMAIN verifiedHeaders : root = verifiedHeaders[i]
        <4>1. PICK i \in 1..Len(verifiedHeaders) : root = verifiedHeaders[i]
          BY <2>2, <3>3, Zenon
        <4>2. verifiedHeaders[i] = Block(verifiedHeaders[i].height)
          BY <3>1, RunEnds, Zenon
        <4> QED
          BY <4>1, <4>2, Zenon
      <3> QED
        BY <2>1, <3>2, <3>3, Zenon
    <2>4. query'.answer = {root} /\ query'.height = query.height /\ DOMAIN query' = {"height", "answer"}
      BY <2>1 DEF LightInv
    <2> QED
      BY <2>1, <2>3, <2>4, Zenon DEF LightInv
  <1>7. ASSUME NEW p, UpdateTrackingPeer(p)
        PROVE  LightInv'
    BY <1>7, Zenon DEF UpdateTrackingPeer, LightInv
  <1>8. CASE UNCHANGED lightVars
    BY <1>8, Zenon DEF lightVars, LightInv
  <1> QED
    BY <1>1, <1>2, <1>3, <1>4, <1>5, <1>6, <1>7, <1>8, Zenon DEF LightNext

(* process_verified_batch and verified_header_at_height: with any number   *)
(* of sync loops on stale requests, any responses and any clock, the       *)
(* client holds a run of certified headers that ends in the one it         *)
(* publishes, and answers a query from the certified block of its height.  *)
THEOREM LightClientTheorem ==
    LightInit /\ [][LightNext]_lightVars => [](HeaderChainCertified /\ AnswersMatchHeight)
  <1>1. LightInit => LightInv
    <2> SUFFICES ASSUME LightInit PROVE LightInv
      OBVIOUS
    <2>1. PICK h \in 0..Len(SetAt) : latestHeader = Block(h)
      BY Zenon DEF LightInit
    <2>2. Block(h) \in Headers
      BY DEF Headers
    <2>3. verifiedHeaders = <<Block(h)>> /\ query = [height |-> 0, answer |-> {}]
          /\ syncLoop = [c \in Callers |-> {}]
      BY <2>1, Zenon DEF LightInit
    <2>4. IsRun(verifiedHeaders, trustedSet) /\ Len(verifiedHeaders) = 1 /\ Last(verifiedHeaders) = Block(h)
      BY <2>2, <2>3, HeightOfBlock DEF IsRun, Last
    <2>5. query.answer = {} /\ DOMAIN query = {"height", "answer"}
          /\ DOMAIN syncLoop = Callers /\ \A c \in Callers : syncLoop[c] = {}
      BY <2>3
    <2>6. Len(verifiedHeaders) <= MaxRetainedHeaders
      BY <2>4, RetentionAssumption
    <2> QED
      BY <2>1, <2>4, <2>5, <2>6, Zenon DEF LightInv
  <1>2. LightInv => HeaderChainCertified /\ AnswersMatchHeight
    BY DEF LightInv, IsRun, HeaderChainCertified, AnswersMatchHeight
  <1> QED
    BY <1>1, <1>2, LightStep, PTL

(***************************************************************************)
(* Validity proofs (module StfWitness)                                     *)
(***************************************************************************)

(* A witness of a block: its public inputs are the block's, its private    *)
(* inputs hold the block's transactions, and the guest's constraints hold. *)
WitnessOf(w, b) ==
    /\ \E root : w.public = PublicInputs(b, root)
    /\ \A i \in DOMAIN b.txs : w.stf.private.txs[i].id = b.txs[i].id
    /\ GuestConstraints(w.public, w.stf)

(* A block was accepted for the proof of a block with the same inputs.     *)
ProvedFrom(b, proof) ==
    /\ proof # NoProof
    /\ proof.public = PublicInputs(b, proof.public.witnessRoot)
    /\ TxRoot(b) # Zero

(* Witnesses are of their blocks, proofs of their witnesses, and headers   *)
(* carry proofs that were made.                                            *)
StfInv ==
    /\ DOMAIN witness = ZkBlocks /\ DOMAIN zkProof = ZkBlocks /\ DOMAIN headerProof = ZkBlocks
    /\ \A b \in ZkBlocks : witness[b] # NoProof => WitnessOf(witness[b], b)
    /\ \A b \in ZkBlocks : zkProof[b] # NoProof =>
          witness[b] # NoProof /\ zkProof[b].public = witness[b].public
    /\ \A b \in ZkBlocks : headerProof[b] # NoProof => \E c \in ZkBlocks : headerProof[b] = zkProof[c]
    /\ \A b \in proven : b \in ZkBlocks /\ \E c \in ZkBlocks : ProvedFrom(b, zkProof[c])

-----------------------------------------------------------------------------

(* from_block takes the transactions of the block over.                    *)
LEMMA EmittedWitness ==
    ASSUME StfInv, NEW b \in ZkBlocks, witness[b] = NoProof,
           BuildBlockWitness(b) \/ AttachPrivateToWitness(b)
    PROVE  \E w : witness' = [witness EXCEPT ![b] = w] /\ WitnessOf(w, b)
  <1>1. ASSUME NEW root, NEW gas, NEW reads, NEW writes, NEW proofs, NEW nonces, NEW made,
               made = FromBlock(b, gas, reads, writes, proofs, nonces, PublicInputs(b, root)),
               Emit(b, PublicInputs(b, root), made)
        PROVE  \E w : witness' = [witness EXCEPT ![b] = w] /\ WitnessOf(w, b)
    <2> DEFINE public == PublicInputs(b, root)
               txs == [i \in DOMAIN b.txs |->
                              [id |-> b.txs[i].id, kind |-> b.txs[i].kind, own |-> b.txs[i].own,
                               limit |-> b.txs[i].limit, used |-> gas[i], nonce |-> nonces[i]]]
               p == [maxGas |-> MaxBlockGas, digests |-> << >>, reads |-> reads,
                     writes |-> writes, proofs |-> proofs, txs |-> txs]
               stf == [private |-> p, binding |-> Binding(public, p)]
               w == [public |-> public, stf |-> stf]
    <2>1. made = <<stf>>
      BY <1>1, Zenon DEF FromBlock, Emit
    <2>2. made[1] = stf
      <3> HIDE DEF stf
      <3> QED
        BY <2>1
    <2>3. witness' = [witness EXCEPT ![b] = w] /\ GuestConstraints(public, stf)
      BY <1>1, <2>2, Zenon DEF Emit, HostConstraints
    <2>4. stf.private.txs = txs
      <3> HIDE DEF txs
      <3> QED
        OBVIOUS
    <2>5. \A i \in DOMAIN b.txs : txs[i].id = b.txs[i].id
      OBVIOUS
    <2>6. w.public = public /\ w.stf = stf
      <3> HIDE DEF public, stf
      <3> QED
        OBVIOUS
    <2>7. WitnessOf(w, b)
      <3> HIDE DEF stf, txs, w
      <3> QED
        BY <2>3, <2>4, <2>5, <2>6, Zenon DEF WitnessOf
    <2> HIDE DEF w
    <2> QED
      BY <2>3, <2>7, Zenon
  <1>2. CASE BuildBlockWitness(b)
    BY <1>1, <1>2, Zenon DEF BuildBlockWitness
  <1>3. CASE AttachPrivateToWitness(b)
    BY <1>1, <1>3, Zenon DEF AttachPrivateToWitness
  <1> QED
    BY <1>2, <1>3, Zenon

(* A proof that is made is of the witness, and one that was made stays.    *)
LEMMA StfStep ==
    ASSUME StfInv, [StfNext]_stfVars
    PROVE  StfInv'
  <1>1. CASE UNCHANGED <<witness, zkProof, headerProof, proven>>
    BY <1>1, Zenon DEF StfInv
  <1>2. ASSUME NEW b \in ZkBlocks, BuildBlockWitness(b) \/ AttachPrivateToWitness(b)
        PROVE  StfInv'
    <2>1. witness[b] = NoProof /\ UNCHANGED <<zkProof, headerProof, proven>>
      BY <1>2, Zenon DEF BuildBlockWitness, AttachPrivateToWitness, Emit
    <2>2. PICK w : witness' = [witness EXCEPT ![b] = w] /\ WitnessOf(w, b)
      BY <1>2, <2>1, EmittedWitness, Zenon
    <2>3. DOMAIN witness' = ZkBlocks
          /\ \A c \in ZkBlocks : witness'[c] = IF c = b THEN w ELSE witness[c]
      BY <2>2 DEF StfInv
    <2>4. \A c \in ZkBlocks : witness'[c] # NoProof => WitnessOf(witness'[c], c)
      BY <2>2, <2>3, Zenon DEF StfInv
    <2>5. \A c \in ZkBlocks : zkProof[c] # NoProof => witness'[c] = witness[c]
      BY <2>1, <2>3, Zenon DEF StfInv
    <2> QED
      BY <2>1, <2>3, <2>4, <2>5, Zenon DEF StfInv
  <1>3. ASSUME NEW b \in ZkBlocks, ProveBlock(b)
        PROVE  StfInv'
    <2> DEFINE proof == IF engine.sdk THEN SdkProof(b) ELSE SimulatedProof(b)
    <2>1. /\ witness[b] # NoProof /\ zkProof[b] = NoProof
          /\ zkProof' = [zkProof EXCEPT ![b] = proof]
          /\ UNCHANGED <<witness, headerProof, proven>>
      BY <1>3, Zenon DEF ProveBlock
    <2>2. proof.public = witness[b].public
      BY DEF SdkProof, SimulatedProof
    <2> HIDE DEF proof
    <2>3. DOMAIN zkProof' = ZkBlocks
          /\ \A c \in ZkBlocks : zkProof'[c] = IF c = b THEN proof ELSE zkProof[c]
      BY <2>1 DEF StfInv
    <2>4. \A c \in ZkBlocks : zkProof'[c] # NoProof => witness[c] # NoProof /\ zkProof'[c].public = witness[c].public
      BY <2>1, <2>2, <2>3, Zenon DEF StfInv
    <2>5. ASSUME NEW c \in ZkBlocks, zkProof[c] # NoProof
          PROVE  zkProof'[c] = zkProof[c]
      BY <2>1, <2>3, <2>5, Zenon
    <2>6. ASSUME NEW c \in ZkBlocks, headerProof[c] # NoProof
          PROVE  \E d \in ZkBlocks : headerProof[c] = zkProof'[d]
      <3>1. PICK d \in ZkBlocks : headerProof[c] = zkProof[d]
        BY <2>6, Zenon DEF StfInv
      <3>2. zkProof'[d] = zkProof[d]
        BY <2>5, <2>6, <3>1, Zenon
      <3> QED
        BY <3>1, <3>2, Zenon
    <2>7. ASSUME NEW c \in proven
          PROVE  c \in ZkBlocks /\ \E d \in ZkBlocks : ProvedFrom(c, zkProof'[d])
      <3>1. c \in ZkBlocks /\ \E d \in ZkBlocks : ProvedFrom(c, zkProof[d])
        BY <2>7, Zenon DEF StfInv
      <3>2. PICK d \in ZkBlocks : ProvedFrom(c, zkProof[d])
        BY <3>1, Zenon
      <3>3. zkProof'[d] = zkProof[d]
        BY <2>5, <3>2, Zenon DEF ProvedFrom
      <3>4. ProvedFrom(c, zkProof'[d])
        BY <3>2, <3>3, Zenon
      <3> QED
        BY <3>1, <3>4, Zenon
    <2> QED
      BY <2>1, <2>3, <2>4, <2>6, <2>7, Zenon DEF StfInv
  <1>4. ASSUME NEW b \in ZkBlocks, NEW from \in ZkBlocks, AttachProof(b, from)
        PROVE  StfInv'
    <2>1. /\ headerProof' = [headerProof EXCEPT ![b] = zkProof[from]]
          /\ UNCHANGED <<witness, zkProof, proven>>
      BY <1>4, Zenon DEF AttachProof
    <2>2. DOMAIN headerProof' = ZkBlocks
          /\ \A c \in ZkBlocks : headerProof'[c] = IF c = b THEN zkProof[from] ELSE headerProof[c]
      BY <2>1 DEF StfInv
    <2>3. ASSUME NEW c \in ZkBlocks, headerProof'[c] # NoProof
          PROVE  \E d \in ZkBlocks : headerProof'[c] = zkProof[d]
      <3>1. CASE c = b
        BY <2>2, <3>1, Zenon
      <3>2. CASE c # b
        <4>1. headerProof'[c] = headerProof[c]
          BY <2>2, <3>2, Zenon
        <4>2. headerProof[c] # NoProof => \E d \in ZkBlocks : headerProof[c] = zkProof[d]
          BY Zenon DEF StfInv
        <4> QED
          BY <2>3, <4>1, <4>2, Zenon
      <3> QED
        BY <3>1, <3>2, Zenon
    <2> QED
      BY <2>1, <2>2, <2>3, Zenon DEF StfInv
  <1>5. ASSUME NEW b \in ZkBlocks, ValidateBlockProof(b)
        PROVE  StfInv'
    <2>1. /\ headerProof[b] # NoProof
          /\ headerProof[b].public = PublicInputs(b, headerProof[b].public.witnessRoot)
          /\ PublicInputs(b, headerProof[b].public.witnessRoot).txRoot # Zero
      BY <1>5, Zenon DEF ValidateBlockProof, ProofValid, VerifyBlockProof
    <2>2. TxRoot(b) # Zero
      BY <2>1 DEF PublicInputs
    <2>3. \E c \in ZkBlocks : ProvedFrom(b, zkProof[c])
      BY <2>1, <2>2, Zenon DEF StfInv, ProvedFrom
    <2>4. proven' = proven \cup {b} /\ UNCHANGED <<witness, zkProof, headerProof>>
      BY <1>5, Zenon DEF ValidateBlockProof
    <2> QED
      BY <2>3, <2>4, Zenon DEF StfInv
  <1>6. CASE UNCHANGED stfVars
    BY <1>1, <1>6, Zenon DEF stfVars
  <1>7. ASSUME NEW b \in ZkBlocks, CaptureTrace(b)
        PROVE  StfInv'
    BY <1>1, <1>7, Zenon DEF CaptureTrace
  <1> QED
    BY <1>2, <1>3, <1>4, <1>5, <1>6, <1>7, Zenon DEF StfNext

(* Equal public inputs are those of equal transactions.                    *)
LEMMA SameTransactions ==
    ASSUME NEW b, NEW c, NEW root, NEW other, PublicInputs(b, root) = PublicInputs(c, other),
           TxRoot(b) # Zero
    PROVE  b.txs = c.txs
  <1>1. TxRoot(b) = TxRoot(c)
    BY DEF PublicInputs
  <1>2. TxRoot(b) = <<"txs", b.txs>> /\ TxRoot(c) = <<"txs", c.txs>>
    BY <1>1, Zenon DEF TxRoot
  <1> QED
    <2> DEFINE x == b.txs
               y == c.txs
    <2>1. <<"txs", x>> = <<"txs", y>>
      BY <1>1, <1>2, ZenonT(30)
    <2> HIDE DEF x, y
    <2>2. <<"txs", x>>[2] = x /\ <<"txs", y>>[2] = y
      OBVIOUS
    <2>3. x = y
      BY <2>1, <2>2, ZenonT(30)
    <2> QED
      BY <2>3, Zenon DEF x, y

(* validate_block_proof: a node only accepts a header's proof if one was   *)
(* made, under the guest's constraints, of a block with that height,       *)
(* parent, roots, beacon and transactions.                                 *)
THEOREM ProvenTheorem == StfInit /\ [][StfNext]_stfVars => []ProvenBlocksWereProved
  <1>1. StfInit => StfInv
    BY DEF StfInit, StfInv
  <1>2. StfInv => ProvenBlocksWereProved
    <2> SUFFICES ASSUME StfInv, NEW b \in proven
                 PROVE  \E c \in ZkBlocks :
                          /\ zkProof[c] # NoProof
                          /\ GuestConstraints(PublicInputs(b, zkProof[c].public.witnessRoot), witness[c].stf)
                          /\ [i \in DOMAIN b.txs |-> b.txs[i].id] =
                                [i \in DOMAIN b.txs |-> witness[c].stf.private.txs[i].id]
      BY Zenon DEF ProvenBlocksWereProved
    <2>1. PICK c \in ZkBlocks : ProvedFrom(b, zkProof[c])
      BY Zenon DEF StfInv
    <2>2. /\ WitnessOf(witness[c], c)
          /\ witness[c].public = PublicInputs(b, zkProof[c].public.witnessRoot)
          /\ TxRoot(b) # Zero
      BY <2>1, Zenon DEF StfInv, ProvedFrom
    <2>3. PICK root : witness[c].public = PublicInputs(c, root)
      BY <2>2, Zenon DEF WitnessOf
    <2>4. b.txs = c.txs
      BY <2>2, <2>3, SameTransactions, Zenon
    <2> QED
      BY <2>1, <2>2, <2>4, Zenon DEF WitnessOf, ProvedFrom
  <1> QED
    BY <1>1, <1>2, StfStep, PTL
============================================================================
