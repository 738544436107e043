----------------------------- MODULE SyncProofs ------------------------------
(***************************************************************************)
(* Proofs about module ChainSync, for every gap, batch size, limit and     *)
(* window: the ranges of a download round, the answers a node awaits and   *)
(* the requests it serves.                                                 *)
(***************************************************************************)
EXTENDS ChainSync, FiniteSetTheorems, WellFoundedInduction, TLAPS

(***************************************************************************)
(* Download rounds                                                         *)
(***************************************************************************)

(* The smaller of two integers is one of them and above neither.           *)
LEMMA MinPair ==
    ASSUME NEW a \in Int, NEW b \in Int
    PROVE  Min({a, b}) \in {a, b} /\ Min({a, b}) <= a /\ Min({a, b}) <= b
  <1>1. \E x \in {a, b} : \A y \in {a, b} : x <= y
    OBVIOUS
  <1>2. Min({a, b}) \in {a, b} /\ \A y \in {a, b} : Min({a, b}) <= y
    BY <1>1 DEF Min
  <1> QED
    BY <1>2

(* The larger of two integers is one of them and below neither.            *)
LEMMA MaxPair ==
    ASSUME NEW a \in Int, NEW b \in Int
    PROVE  Max({a, b}) \in {a, b} /\ Max({a, b}) >= a /\ Max({a, b}) >= b
  <1>1. \E x \in {a, b} : \A y \in {a, b} : x >= y
    OBVIOUS
  <1>2. Max({a, b}) \in {a, b} /\ \A y \in {a, b} : Max({a, b}) >= y
    BY <1>1 DEF Max
  <1> QED
    BY <1>2

(* Integer division is the quotient rounded down.                          *)
LEMMA DivBounds ==
    ASSUME NEW a \in Nat, NEW b \in Nat \ {0}
    PROVE  a \div b \in Nat /\ (a \div b) * b <= a /\ a < (a \div b) * b + b
  OBVIOUS

(* Multiplying by a natural keeps the order.                               *)
LEMMA TimesMonotone ==
    ASSUME NEW x \in Int, NEW y \in Int, NEW c \in Nat, x <= y
    PROVE  x * c \in Int /\ y * c \in Int /\ x * c <= y * c
  <1>1. (y - x) * c \in Nat
    OBVIOUS
  <1>2. y * c = x * c + (y - x) * c
    OBVIOUS
  <1>3. x * c \in Int
    OBVIOUS
  <1> QED
    BY <1>1, <1>2, <1>3

(* So many chunks of b cover a, and one less does not.                     *)
LEMMA CeilBounds ==
    ASSUME NEW a \in Nat \ {0}, NEW b \in Nat \ {0}
    PROVE  /\ Ceil(a, b) \in Nat \ {0}
           /\ Ceil(a, b) * b \in Nat /\ (Ceil(a, b) - 1) * b \in Int
           /\ (Ceil(a, b) - 1) * b < a /\ a <= Ceil(a, b) * b
  <1> DEFINE n == (a + b - 1) \div b
  <1>1. a + b - 1 \in Nat /\ Ceil(a, b) = n
    BY DEF Ceil
  <1>2. n \in Nat /\ n * b <= a + b - 1 /\ a + b - 1 < n * b + b
    BY <1>1, DivBounds
  <1> HIDE DEF n
  <1>3. n * b \in Nat /\ (n - 1) * b = n * b - b
    BY <1>2
  <1>4. (n - 1) * b < a /\ a <= n * b
    BY <1>2, <1>3
  <1>5. n # 0
    BY <1>4
  <1> QED
    BY <1>1, <1>2, <1>3, <1>4, <1>5

(* What the ranges of a round promise of a gap.                            *)
Split(ranges, from, to) ==
    /\ \A i \in DOMAIN ranges : ranges[i].end - ranges[i].start < SyncBatchSize
    /\ UNION {ranges[i].start..ranges[i].end : i \in DOMAIN ranges} = from..to
    /\ \A i, j \in DOMAIN ranges : i < j => ranges[i].end < ranges[j].start

(* The chunks of fetch_all_parallel, whatever the gap.                     *)
LEMMA RangesSplit ==
    ASSUME NEW from \in Nat, NEW to \in Nat, from <= to
    PROVE  Split(Ranges(from, to), from, to)
  <1> DEFINE total == to - from + 1
             c == Min({Max({SyncBatchSize, 1}), Ceil(total, ParallelDownloads)})
             n == Ceil(total, c)
             ranges == Ranges(from, to)
             start(i) == from + (i - 1) * c
             limit(i) == from + i * c - 1
  <1>1. total \in Nat \ {0} /\ Ceil(total, ParallelDownloads) \in Nat \ {0}
    BY CeilBounds, SyncAssumption
  <1>2. Max({SyncBatchSize, 1}) = SyncBatchSize
    <2>1. SyncBatchSize \in Int /\ 1 \in Int /\ SyncBatchSize >= 1
      BY SyncAssumption
    <2>2. /\ Max({SyncBatchSize, 1}) = SyncBatchSize \/ Max({SyncBatchSize, 1}) = 1
          /\ Max({SyncBatchSize, 1}) >= SyncBatchSize
      BY <2>1, MaxPair, Zenon
    <2> QED
      BY <2>1, <2>2
  <1>3. c \in Nat \ {0} /\ c <= SyncBatchSize
    <2> DEFINE d == Ceil(total, ParallelDownloads)
    <2>1. c = Min({SyncBatchSize, d})
      BY <1>2, Zenon
    <2>2. d \in Nat \ {0}
      BY <1>1
    <2> HIDE DEF c, d
    <2>3. SyncBatchSize \in Int /\ d \in Int
      BY <2>2, SyncAssumption
    <2>4. (c = SyncBatchSize \/ c = d) /\ c <= SyncBatchSize
      BY <2>1, <2>3, MinPair, Zenon
    <2> QED
      BY <2>2, <2>4, SyncAssumption
  <1>4. ranges = [i \in 1..n |-> [start |-> start(i), end |-> Min({limit(i), to})]]
    BY DEF Ranges
  <1> HIDE DEF c
  <1>5. n \in Nat \ {0} /\ n * c \in Nat /\ total <= n * c /\ (n - 1) * c < total /\ (n - 1) * c \in Int
    BY <1>1, <1>3, CeilBounds
  <1> HIDE DEF n, ranges
  <1>6. \A i \in 1..n : /\ (i - 1) * c \in Nat /\ i * c = (i - 1) * c + c
                        /\ (i - 1) * c <= (n - 1) * c
    <2> SUFFICES ASSUME NEW i \in 1..n
                 PROVE  /\ (i - 1) * c \in Nat /\ i * c = (i - 1) * c + c
                        /\ (i - 1) * c <= (n - 1) * c
      OBVIOUS
    <2>1. (i - 1) * c \in Nat /\ i * c = (i - 1) * c + c
      BY <1>3, <1>5
    <2>2. (i - 1) * c <= (n - 1) * c
      BY <1>3, <1>5, TimesMonotone
    <2> QED
      BY <2>1, <2>2
  <1>7. \A i \in 1..n : /\ start(i) \in Nat /\ limit(i) \in Int
                        /\ limit(i) = start(i) + c - 1
                        /\ from <= start(i) /\ start(i) <= to
    BY <1>3, <1>5, <1>6
  <1> HIDE DEF start, limit
  <1>8. DOMAIN ranges = 1..n
    BY <1>4
  <1>9. \A i \in 1..n : /\ ranges[i].start = start(i) /\ ranges[i].end \in {limit(i), to}
                        /\ ranges[i].end <= limit(i) /\ ranges[i].end <= to
    <2> SUFFICES ASSUME NEW i \in 1..n
                 PROVE  /\ ranges[i].start = start(i) /\ ranges[i].end \in {limit(i), to}
                        /\ ranges[i].end <= limit(i) /\ ranges[i].end <= to
      OBVIOUS
    <2>1. ranges[i].start = start(i) /\ ranges[i].end = Min({limit(i), to})
      BY <1>4
    <2>2. limit(i) \in Int /\ to \in Int
      BY <1>7
    <2>3. /\ Min({limit(i), to}) \in {limit(i), to}
          /\ Min({limit(i), to}) <= limit(i) /\ Min({limit(i), to}) <= to
      BY <2>2, MinPair, Zenon
    <2> QED
      BY <2>1, <2>3
  <1>10. \A i \in 1..n : ranges[i].end \in Int /\ ranges[i].end - ranges[i].start < SyncBatchSize
    BY <1>3, <1>7, <1>9, SyncAssumption
  <1>11. \A i, j \in 1..n : i < j => ranges[i].end < ranges[j].start
    <2> SUFFICES ASSUME NEW i \in 1..n, NEW j \in 1..n, i < j PROVE ranges[i].end < ranges[j].start
      OBVIOUS
    <2>1. i <= j - 1 /\ i \in Int /\ j - 1 \in Int
      OBVIOUS
    <2>2. i * c <= (j - 1) * c /\ i * c \in Int /\ (j - 1) * c \in Int
      BY <1>3, <2>1, TimesMonotone
    <2>3. limit(i) < start(j)
      BY <2>2 DEF limit, start
    <2> QED
      BY <1>7, <1>9, <1>10, <2>3
  <1>12. ASSUME NEW h \in from..to PROVE \E i \in 1..n : h \in ranges[i].start..ranges[i].end
    <2> DEFINE k == (h - from) \div c
    <2>1. h - from \in Nat /\ h - from < total
      OBVIOUS
    <2>2. k \in Nat /\ k * c <= h - from /\ h - from < k * c + c
      BY <1>3, <2>1, DivBounds
    <2> HIDE DEF k
    <2>3. k < n
      <3> SUFFICES ASSUME n <= k PROVE FALSE
        BY <1>5, <2>2
      <3>1. n * c <= k * c /\ k * c \in Int
        BY <1>3, <1>5, <2>2, TimesMonotone
      <3> QED
        BY <1>1, <1>5, <2>1, <2>2, <3>1
    <2>4. k + 1 \in 1..n /\ k * c \in Nat
      BY <1>3, <1>5, <2>2, <2>3
    <2>5. start(k + 1) = from + k * c
      BY <2>2 DEF start
    <2>6. start(k + 1) <= h /\ h <= limit(k + 1) /\ h <= to
      BY <1>3, <1>7, <2>1, <2>2, <2>4, <2>5
    <2>7. h \in ranges[k + 1].start..ranges[k + 1].end
      BY <1>7, <1>9, <2>4, <2>6
    <2> QED
      BY <2>4, <2>7
  <1>13. \A i \in 1..n : ranges[i].start..ranges[i].end \subseteq from..to
    BY <1>7, <1>9, <1>10
  <1>14. UNION {ranges[i].start..ranges[i].end : i \in DOMAIN ranges} = from..to
    BY <1>8, <1>12, <1>13
  <1> QED
    BY <1>8, <1>10, <1>11, <1>14 DEF Split, ranges

(* The stored blocks are numbered, so the tip is their number.             *)
Numbered == (\E S : chain \in Seq(S)) /\ \A i \in 1..Len(chain) : chain[i].height = i

(* The chain is numbered from one, and a round has its ranges.             *)
RoundInv ==
    /\ Numbered /\ "phase" \in DOMAIN sync
    /\ sync.phase = "fetch" =>
          /\ DOMAIN sync = {"phase", "peer", "from", "ranges", "next", "slots", "busy", "failed"}
          /\ Split(sync.ranges, sync.from, Reported[sync.peer])
          /\ sync.next \in Nat \ {0} /\ sync.busy \subseteq 1..(sync.next - 1)

(* The tip of a chain numbered from one is its length.                     *)
LEMMA TipIsLength == ASSUME Numbered PROVE Tip = Len(chain) /\ Tip \in Nat
  <1>1. PICK S : chain \in Seq(S)
    BY DEF Numbered
  <1>2. CASE chain = <<>>
    BY <1>2 DEF Tip
  <1>3. CASE chain # <<>>
    <2>1. Len(chain) \in Nat /\ Len(chain) >= 1
      BY <1>1, <1>3
    <2>2. Last(chain) = chain[Len(chain)]
      BY DEF Last
    <2> QED
      BY <1>3, <2>1, <2>2 DEF Tip, Numbered
  <1> QED
    BY <1>2, <1>3

(* A block stored right above the tip keeps the chain numbered.            *)
LEMMA AppendNumbered ==
    ASSUME Numbered, NEW b, b.height = Tip + 1, chain' = Append(chain, b)
    PROVE  Numbered'
  <1>1. PICK S : chain \in Seq(S)
    BY DEF Numbered
  <1>2. chain \in Seq(S \union {b})
    BY <1>1
  <1>3. /\ chain' \in Seq(S \union {b}) /\ Len(chain) \in Nat /\ Len(chain') = Len(chain) + 1
        /\ chain'[Len(chain) + 1] = b /\ \A i \in 1..Len(chain) : chain'[i] = chain[i]
    BY <1>2
  <1>4. \A i \in 1..Len(chain') : chain'[i].height = i
    BY <1>3, TipIsLength DEF Numbered
  <1> QED
    BY <1>3, <1>4 DEF Numbered

(* Every step of a synchronisation keeps the ranges of its round split.    *)
LEMMA RoundStep == RoundInv /\ [SyncNext]_syncVars => RoundInv'
  <1> SUFFICES ASSUME RoundInv, [SyncNext]_syncVars PROVE RoundInv'
    OBVIOUS
  <1>0. chain' = chain => Numbered'
    BY DEF RoundInv, Numbered
  <1>1. ASSUME NEW answering \in SUBSET ServingPeers, NEW p \in answering, BeginRound(p, answering)
        PROVE  RoundInv'
    <2> DEFINE ranges == Ranges(Tip + 1, Reported[p])
    <2>1. /\ Reported[p] > Tip /\ chain' = chain
          /\ sync' = [phase |-> "fetch", peer |-> p, from |-> Tip + 1, ranges |-> ranges,
                      next |-> 1, slots |-> [i \in DOMAIN ranges |-> <<>>],
                      busy |-> {}, failed |-> FALSE]
      BY <1>1 DEF BeginRound
    <2>2. Tip \in Nat /\ Reported[p] \in Nat
      BY TipIsLength, SyncAssumption DEF RoundInv
    <2>3. Split(ranges, Tip + 1, Reported[p])
      BY <2>1, <2>2, RangesSplit
    <2> HIDE DEF ranges
    <2>4. /\ DOMAIN sync' = {"phase", "peer", "from", "ranges", "next", "slots", "busy", "failed"}
          /\ sync'.ranges = ranges /\ sync'.from = Tip + 1 /\ sync'.peer = p
          /\ sync'.next = 1 /\ sync'.busy = {}
      BY <2>1
    <2> QED
      BY <1>0, <2>1, <2>3, <2>4 DEF RoundInv
  <1>2. CASE TakeRange
    <2>1. /\ sync.phase = "fetch" /\ chain' = chain
          /\ sync' = [sync EXCEPT !.next = @ + 1, !.busy = @ \cup {sync.next}]
      BY <1>2 DEF TakeRange
    <2>2. /\ DOMAIN sync' = DOMAIN sync /\ sync'.phase = "fetch" /\ sync'.ranges = sync.ranges
          /\ sync'.from = sync.from /\ sync'.peer = sync.peer
          /\ sync'.next = sync.next + 1 /\ sync'.busy = sync.busy \cup {sync.next}
      BY <2>1 DEF RoundInv
    <2> QED
      BY <1>0, <2>1, <2>2 DEF RoundInv
  <1>3. ASSUME NEW i \in sync.busy, sync.phase = "fetch",
               FailRange(i) \/ \E n \in 0..SyncBatchSize : FinishRange(i, n)
        PROVE  RoundInv'
    <2>1. /\ chain' = chain
          /\ \/ sync' = [sync EXCEPT !.busy = @ \ {i}, !.failed = TRUE]
             \/ \E answer : sync' = [sync EXCEPT !.busy = @ \ {i}, !.slots[i] = answer]
      BY <1>3, Zenon DEF FailRange, FinishRange
    <2>2. /\ DOMAIN sync' = DOMAIN sync /\ sync'.phase = "fetch" /\ sync'.ranges = sync.ranges
          /\ sync'.from = sync.from /\ sync'.peer = sync.peer
          /\ sync'.next = sync.next /\ sync'.busy = sync.busy \ {i}
      BY <1>3, <2>1, Zenon DEF RoundInv
    <2> QED
      BY <1>0, <1>3, <2>1, <2>2, Zenon DEF RoundInv
  <1>4. CASE JoinRound \/ EndRound
    <2>1. chain' = chain /\ "phase" \in DOMAIN sync' /\ sync'.phase # "fetch"
      BY <1>4 DEF JoinRound, EndRound, Idle
    <2> QED
      BY <1>0, <2>1 DEF RoundInv
  <1>5. ASSUME NEW ok \in BOOLEAN, ApplyBlock(ok) PROVE RoundInv'
    <2>1. sync.phase = "apply" /\ "phase" \in DOMAIN sync
      BY <1>5 DEF ApplyBlock, RoundInv
    <2>2. sync' = Idle \/ \E rest : sync' = [sync EXCEPT !.blocks = rest]
      BY <1>5 DEF ApplyBlock
    <2>3. "phase" \in DOMAIN sync' /\ sync'.phase # "fetch"
      BY <2>1, <2>2 DEF Idle
    <2>4. \/ chain' = chain
          \/ \E b : b.height = Tip + 1 /\ chain' = Append(chain, b)
      BY <1>5 DEF ApplyBlock, AppliesCleanly, Links
    <2>5. Numbered'
      BY <1>0, <2>4, AppendNumbered DEF RoundInv
    <2> QED
      BY <2>3, <2>5 DEF RoundInv
  <1>6. ASSUME NEW answering \in SUBSET ServingPeers, NEW p \in answering, BeginNodeSync(p, answering)
        PROVE  RoundInv'
    <2>1. chain' = chain /\ "phase" \in DOMAIN sync' /\ sync'.phase # "fetch"
      BY <1>6 DEF BeginNodeSync
    <2> QED
      BY <1>0, <2>1 DEF RoundInv
  <1>7. ASSUME NEW ok \in BOOLEAN, NodeSyncBlock(ok) PROVE RoundInv'
    <2>1. sync.phase = "node" /\ "phase" \in DOMAIN sync
      BY <1>7 DEF NodeSyncBlock, RoundInv
    <2>2. sync' = Idle \/ sync' = [sync EXCEPT !.height = @ + 1]
      BY <1>7 DEF NodeSyncBlock
    <2>3. "phase" \in DOMAIN sync' /\ sync'.phase # "fetch"
      BY <2>1, <2>2 DEF Idle
    <2>4. \/ chain' = chain
          \/ \E b : b.height = Tip + 1 /\ chain' = Append(chain, b)
      BY <1>7 DEF NodeSyncBlock, Authentic, Links
    <2>5. Numbered'
      BY <1>0, <2>4, AppendNumbered DEF RoundInv
    <2> QED
      BY <2>3, <2>5 DEF RoundInv
  <1>8. CASE UNCHANGED syncVars
    BY <1>8 DEF syncVars, RoundInv, Numbered
  <1> QED
    BY <1>1, <1>2, <1>3, <1>4, <1>5, <1>6, <1>7, <1>8 DEF SyncNext

(* fetch_all_parallel, "Chunking now always yields legal ranges regardless *)
(* of gap size": for every gap, batch size and number of workers, the      *)
(* ranges of a round split the gap, none exceeds the batch size, and the   *)
(* workers take each once.                                                 *)
THEOREM RoundsTheorem == SyncInit /\ [][SyncNext]_syncVars => []RoundsSplitTheGap
  <1>1. SyncInit => RoundInv
    <2> SUFFICES ASSUME SyncInit PROVE RoundInv
      OBVIOUS
    <2>1. chain = <<>> /\ chain \in Seq({}) /\ Len(chain) = 0
      BY DEF SyncInit
    <2>2. "phase" \in DOMAIN sync /\ sync.phase # "fetch"
      BY DEF SyncInit, Idle
    <2> QED
      BY <2>1, <2>2 DEF RoundInv, Numbered
  <1>2. RoundInv => RoundsSplitTheGap
    BY DEF RoundInv, RoundsSplitTheGap, Split
  <1> QED
    BY <1>1, <1>2, RoundStep, PTL

(***************************************************************************)
(* Answers to requests                                                     *)
(***************************************************************************)

(* An answer takes a place in pending_rpc_responses, which never holds     *)
(* more than it may.                                                       *)
LEMMA StoredBounded ==
    ASSUME NEW id, IsFiniteSet(DOMAIN pendingResponses),
           Cardinality(DOMAIN pendingResponses) <= MaxPendingResponses,
           NEW r \in Stored(id)
    PROVE  /\ IsFiniteSet(DOMAIN r) /\ Cardinality(DOMAIN r) <= MaxPendingResponses
           /\ id \in DOMAIN r
  <1> DEFINE kept == Fresh(pendingResponses)
             D == DOMAIN kept
  <1>1. D \in SUBSET DOMAIN pendingResponses
    BY DEF Fresh, Drop
  <1>2. /\ IsFiniteSet(D) /\ Cardinality(D) \in Nat
        /\ Cardinality(D) <= Cardinality(DOMAIN pendingResponses)
    BY <1>1, FS_Subset, FS_CardinalityType
  <1>3. Cardinality(DOMAIN pendingResponses) \in Nat
    BY FS_CardinalityType
  <1>4. Cardinality(D) <= MaxPendingResponses
    BY <1>2, <1>3, TrafficAssumption
  <1>5. CASE Cardinality(D) >= MaxPendingResponses
    <2>1. PICK victim \in D : r = Set(Drop(kept, {victim}), id, tick)
      BY <1>5 DEF Stored
    <2>2. DOMAIN r = (D \ {victim}) \cup {id}
      BY <2>1 DEF Set, Drop
    <2>3. IsFiniteSet(D \ {victim}) /\ Cardinality(D \ {victim}) = Cardinality(D) - 1
      BY <1>2, <2>1, FS_RemoveElement
    <2>4. /\ IsFiniteSet((D \ {victim}) \cup {id})
          /\ \/ Cardinality((D \ {victim}) \cup {id}) = Cardinality(D \ {victim})
             \/ Cardinality((D \ {victim}) \cup {id}) = Cardinality(D \ {victim}) + 1
      BY <2>3, FS_AddElement
    <2> HIDE DEF D
    <2>5. Cardinality((D \ {victim}) \cup {id}) <= MaxPendingResponses
      BY <1>2, <1>4, <2>3, <2>4, TrafficAssumption
    <2> QED
      BY <2>2, <2>4, <2>5
  <1>6. CASE ~(Cardinality(D) >= MaxPendingResponses)
    <2>1. r = Set(kept, id, tick)
      BY <1>6 DEF Stored
    <2>2. DOMAIN r = D \cup {id}
      BY <2>1 DEF Set
    <2>3. /\ IsFiniteSet(D \cup {id})
          /\ \/ Cardinality(D \cup {id}) = Cardinality(D)
             \/ Cardinality(D \cup {id}) = Cardinality(D) + 1
      BY <1>2, FS_AddElement
    <2> HIDE DEF D
    <2>4. Cardinality(D \cup {id}) <= MaxPendingResponses
      BY <1>2, <1>6, <2>3, TrafficAssumption
    <2> QED
      BY <2>2, <2>3, <2>4
  <1> QED
    BY <1>5, <1>6

AwaitInv == IsFiniteSet(DOMAIN pendingResponses) /\ AwaitedAnswerKept

(* No step of the request service loses an awaited answer: while a request *)
(* is awaited and unanswered, only its own answer can end that.            *)
LEMMA AwaitStep == AwaitInv /\ [RpcNext]_rpcVars => AwaitInv'
  <1> SUFFICES ASSUME AwaitInv, [RpcNext]_rpcVars PROVE AwaitInv'
    OBVIOUS
  <1> USE DEF AwaitInv, AwaitedAnswerKept
  <1>1. CASE UNCHANGED <<unanswered, awaiting, pendingResponses>>
    BY <1>1
  <1>2. ASSUME NEW await \in BOOLEAN, SendRequest(await) PROVE AwaitInv'
    BY <1>2 DEF SendRequest
  <1>3. ASSUME NEW id \in unanswered, ResponseArrives(id) PROVE AwaitInv'
    <2>1. pendingResponses' \in Stored(id) /\ awaiting' = awaiting
          /\ unanswered' = unanswered \ {id} /\ awaiting \cap DOMAIN pendingResponses = {}
      BY <1>3 DEF ResponseArrives
    <2>2. /\ IsFiniteSet(DOMAIN pendingResponses')
          /\ Cardinality(DOMAIN pendingResponses') <= MaxPendingResponses
          /\ id \in DOMAIN pendingResponses'
      BY <2>1, StoredBounded
    <2>3. awaiting \subseteq unanswered
      BY <2>1
    <2> QED
      BY <2>1, <2>2, <2>3
  <1>4. CASE AwaitReturns
    <2>1. DOMAIN pendingResponses' \in SUBSET DOMAIN pendingResponses /\ awaiting' = {}
      BY <1>4 DEF AwaitReturns, Drop
    <2>2. /\ IsFiniteSet(DOMAIN pendingResponses')
          /\ Cardinality(DOMAIN pendingResponses') <= Cardinality(DOMAIN pendingResponses)
          /\ Cardinality(DOMAIN pendingResponses') \in Nat
          /\ Cardinality(DOMAIN pendingResponses) \in Nat
      BY <2>1, FS_Subset, FS_CardinalityType
    <2> QED
      BY <2>1, <2>2, TrafficAssumption
  <1>5. CASE AwaitTimesOut
    BY <1>5 DEF AwaitTimesOut
  <1>6. CASE RpcShutdown
    <2>1. DOMAIN pendingResponses' = {} /\ awaiting' = {}
      BY <1>6 DEF RpcShutdown, Nothing
    <2> QED
      BY <2>1, FS_EmptySet, TrafficAssumption
  <1> QED
    BY <1>1, <1>2, <1>3, <1>4, <1>5, <1>6, Zenon
       DEF RpcNext, ServeRequest, ClientLeaves, RpcTick, rpcVars

(* pending_rpc_responses: the map stays within its limit, and an answer    *)
(* that arrived while await_rpc_response waits for it is there when it     *)
(* looks, however many unclaimed answers arrive and whichever are evicted. *)
THEOREM AwaitedTheorem == RpcInit /\ [][RpcNext]_rpcVars => []AwaitedAnswerKept
  <1>1. RpcInit => AwaitInv
    BY FS_EmptySet, TrafficAssumption DEF RpcInit, AwaitInv, AwaitedAnswerKept, Nothing
  <1>2. AwaitInv => AwaitedAnswerKept
    BY DEF AwaitInv
  <1> QED
    BY <1>1, <1>2, AwaitStep, PTL

(***************************************************************************)
(* Requests served in a window                                             *)
(***************************************************************************)

(* A set of naturals that is not empty has a smallest element.             *)
LEMMA SmallestNat ==
    ASSUME NEW S \in SUBSET Nat, S # {}
    PROVE  \E m \in S : \A i \in S : m <= i
  <1> DEFINE R == OpToRel(<, Nat)
  <1>1. IsWellFoundedOn(R, Nat)
    BY NatLessThanWellFounded, Zenon
  <1>2. \A x, y \in Nat : x < y => <<x, y>> \in R
    BY DEF OpToRel
  <1> HIDE DEF R
  <1>3. PICK m \in S : \A i \in S : ~(<<i, m>> \in R)
    BY <1>1, WFMin, Zenon
  <1>4. \A i \in S : ~(i < m)
    BY <1>2, <1>3, Zenon
  <1> QED
    BY <1>3, <1>4

(* Times at which a client was served, in order and not after now.         *)
Timed(g, clock) ==
    /\ g \in Seq(Nat)
    /\ \A i \in 1..Len(g) : g[i] <= clock
    /\ \A i, j \in 1..Len(g) : i <= j => g[i] <= g[j]

(* Twice the limit apart, a window length apart.                           *)
Spread(g, limit) ==
    \A i, j \in 1..Len(g) : j >= i + 2 * limit => g[j] >= g[i] + WindowLength

(* What the window entry n says of them: those not counted in it are not   *)
(* after its start, and those before another limit are a window before it. *)
Windowed(g, n, limit, clock) ==
    /\ n \in [start : Nat, count : Nat] /\ n.start <= clock /\ n.count <= limit
    /\ \A i \in 1..Len(g) : i + n.count <= Len(g) => g[i] <= n.start
    /\ \A i \in 1..Len(g) : i + n.count + limit <= Len(g) => g[i] + WindowLength <= n.start

(* A client without a window entry has not been served since.              *)
Rated(g, w, p, limit, clock) ==
    /\ Timed(g, clock) /\ Spread(g, limit)
    /\ IF p \in DOMAIN w THEN Windowed(g, w[p], limit, clock) ELSE g = <<>>

(* Every client at every endpoint.                                         *)
RateInv ==
    /\ tick \in Nat
    /\ DOMAIN windows = Endpoints
    /\ DOMAIN grants = Endpoints
    /\ \A e \in Endpoints : DOMAIN grants[e] = Clients
    /\ \A e \in Endpoints, p \in Clients : Rated(grants[e][p], windows[e], p, Limit[e], tick)

(* A client served at most twice the limit in every stretch of a window.   *)
LEMMA SpreadBounds ==
    ASSUME NEW limit \in Nat, NEW clock, NEW g, Timed(g, clock), Spread(g, limit), NEW t \in Nat
    PROVE  Cardinality({i \in DOMAIN g : g[i] \in t..(t + WindowLength - 1)}) <= 2 * limit
  <1> DEFINE S == {i \in DOMAIN g : g[i] \in t..(t + WindowLength - 1)}
  <1>0. Len(g) \in Nat /\ DOMAIN g = 1..Len(g) /\ \A i \in 1..Len(g) : g[i] \in Nat
    BY DEF Timed
  <1>1. S \in SUBSET Nat /\ \A i \in S : /\ i \in 1..Len(g)
                                         /\ g[i] \in Nat /\ t <= g[i] /\ g[i] < t + WindowLength
    <2>1. ASSUME NEW i \in S
          PROVE  /\ i \in Nat /\ i \in 1..Len(g)
                 /\ g[i] \in Nat /\ t <= g[i] /\ g[i] < t + WindowLength
      <3>1. i \in 1..Len(g) /\ g[i] \in t..(t + WindowLength - 1)
        BY <1>0, <2>1
      <3>2. g[i] \in Nat
        BY <1>0, <3>1
      <3> QED
        BY <1>0, <3>1, <3>2, TrafficAssumption
    <2> HIDE DEF S
    <2> QED
      BY <2>1
  <1> HIDE DEF S
  <1>2. CASE S = {}
    BY <1>2, FS_EmptySet DEF S
  <1>3. CASE S # {}
    <2>1. PICK m \in S : \A i \in S : m <= i
      BY <1>1, <1>3, SmallestNat
    <2>2. \A i \in S : i < m + 2 * limit
      <3> SUFFICES ASSUME NEW i \in S, ~(i < m + 2 * limit) PROVE FALSE
        OBVIOUS
      <3>1. /\ i \in 1..Len(g) /\ m \in 1..Len(g) /\ g[i] \in Nat /\ g[m] \in Nat
            /\ t <= g[m] /\ g[i] < t + WindowLength
        BY <1>1, <2>1
      <3>2. i >= m + 2 * limit
        BY <1>0, <3>1
      <3>3. g[i] >= g[m] + WindowLength
        BY <3>1, <3>2 DEF Spread
      <3>4. WindowLength \in Nat
        BY TrafficAssumption
      <3> DEFINE a == g[i]
                 b == g[m]
      <3>5. a \in Nat /\ b \in Nat /\ t <= b /\ a < t + WindowLength /\ a >= b + WindowLength
        BY <3>1, <3>3
      <3> HIDE DEF a, b
      <3> QED
        BY <3>4, <3>5
    <2>3. m \in Nat /\ S \in SUBSET (m..(m + 2 * limit - 1))
      BY <1>1, <2>1, <2>2
    <2>4. /\ IsFiniteSet(m..(m + 2 * limit - 1))
          /\ Cardinality(m..(m + 2 * limit - 1)) <= 2 * limit
      BY <2>3, FS_Interval
    <2>5. /\ IsFiniteSet(S) /\ Cardinality(S) <= Cardinality(m..(m + 2 * limit - 1))
      BY <2>3, <2>4, FS_Subset, Zenon
    <2>6. Cardinality(S) \in Nat /\ Cardinality(m..(m + 2 * limit - 1)) \in Nat
      BY <2>4, <2>5, FS_CardinalityType
    <2> QED
      BY <2>4, <2>5, <2>6 DEF S
  <1> QED
    BY <1>2, <1>3

(* The entries that pruning leaves are as they were.                       *)
LEMMA PrunedKeeps ==
    ASSUME NEW w0, NEW p, NEW w \in Pruned(w0, p)
    PROVE  DOMAIN w \subseteq DOMAIN w0 /\ \A q \in DOMAIN w : w[q] = w0[q]
  <1> DEFINE kept == Drop(w0, {q \in DOMAIN w0 : tick - w0[q].start >= 10 * WindowLength})
  <1>1. DOMAIN kept \subseteq DOMAIN w0 /\ \A q \in DOMAIN kept : kept[q] = w0[q]
    BY DEF Drop
  <1>2. w = w0 \/ w = kept \/ \E q \in DOMAIN kept : w = Drop(kept, {q})
    BY Zenon DEF Pruned
  <1> HIDE DEF kept
  <1> QED
    BY <1>1, <1>2, Zenon DEF Drop

(* A window that has lasted is renewed: what was counted is behind.        *)
LEMMA RenewedRated ==
    ASSUME NEW limit \in Nat, NEW g, NEW w, NEW p, tick \in Nat,
           Rated(g, w, p, limit, tick)
    PROVE  Windowed(g, Renewed(w, p), limit, tick)
  <1> DEFINE new == [start |-> tick, count |-> 0]
  <1>1. CASE p \notin DOMAIN w
    <2>1. Len(g) = 0 /\ Renewed(w, p) = new
      BY <1>1 DEF Rated, Renewed
    <2> QED
      BY <2>1 DEF Windowed
  <1>2. CASE p \in DOMAIN w /\ tick - w[p].start >= WindowLength
    <2>1. Renewed(w, p) = new /\ new.start = tick /\ new.count = 0
      BY <1>2 DEF Renewed
    <2>2. Windowed(g, w[p], limit, tick) /\ Timed(g, tick)
      BY <1>2 DEF Rated
    <2> HIDE DEF new
    <2>3. Len(g) \in Nat /\ \A i \in 1..Len(g) : g[i] \in Nat /\ g[i] <= tick
      BY <2>2 DEF Timed
    <2>4. \A i \in 1..Len(g) : i + limit <= Len(g) => g[i] + WindowLength <= tick
      BY <1>2, <2>2, <2>3, TrafficAssumption DEF Windowed
    <2>5. new \in [start : Nat, count : Nat] /\ new.start <= tick /\ new.count <= limit
      BY DEF new
    <2>6. \A i \in 1..Len(g) : i + new.count + limit <= Len(g) => i + limit <= Len(g)
      BY <2>1, <2>3
    <2>7. Windowed(g, new, limit, tick)
      BY <2>1, <2>3, <2>4, <2>5, <2>6 DEF Windowed
    <2> QED
      BY <2>1, <2>7, Zenon
  <1>3. CASE p \in DOMAIN w /\ ~(tick - w[p].start >= WindowLength)
    BY <1>3 DEF Renewed, Rated
  <1> QED
    BY <1>1, <1>2, <1>3

(* A request within the limit is served and counted: the one that many     *)
(* before it is a window back.                                             *)
LEMMA GrantedRated ==
    ASSUME NEW limit \in Nat, NEW g, NEW n, NEW clock \in Nat, Timed(g, clock), Spread(g, limit),
           Windowed(g, n, limit, clock), n.count < limit
    PROVE  /\ Timed(Append(g, clock), clock) /\ Spread(Append(g, clock), limit)
           /\ Windowed(Append(g, clock), [n EXCEPT !.count = @ + 1], limit, clock)
  <1> DEFINE h == Append(g, clock)
             m == [n EXCEPT !.count = @ + 1]
  <1>1. /\ Len(g) \in Nat /\ h \in Seq(Nat) /\ Len(h) = Len(g) + 1 /\ h[Len(g) + 1] = clock
        /\ \A i \in 1..Len(g) : h[i] = g[i] /\ g[i] \in Nat /\ g[i] <= clock
    BY DEF Timed
  <1>2. /\ m \in [start : Nat, count : Nat] /\ m.start = n.start /\ m.count = n.count + 1
        /\ n.start \in Nat /\ n.count \in Nat
    BY DEF Windowed
  <1> HIDE DEF h, m
  <1>3. \A i \in 1..Len(h) : i \in 1..Len(g) \/ i = Len(g) + 1
    BY <1>1
  <1>4. Timed(h, clock)
    <2>1. ASSUME NEW i \in 1..Len(h) PROVE h[i] <= clock
      <3>1. CASE i = Len(g) + 1
        BY <1>1, <3>1
      <3>2. CASE i \in 1..Len(g)
        BY <1>1, <3>2
      <3> QED
        BY <1>3, <3>1, <3>2
    <2>2. \A i, j \in 1..Len(h) : i <= j => h[i] <= h[j]
      <3> SUFFICES ASSUME NEW i \in 1..Len(h), NEW j \in 1..Len(h), i <= j PROVE h[i] <= h[j]
        OBVIOUS
      <3>1. CASE j = Len(g) + 1
        BY <1>1, <2>1, <3>1
      <3>2. CASE j \in 1..Len(g)
        <4>1. i \in 1..Len(g)
          BY <1>1, <3>2
        <4> QED
          BY <1>1, <3>2, <4>1 DEF Timed
      <3> QED
        BY <1>3, <3>1, <3>2
    <2> QED
      BY <1>1, <2>1, <2>2 DEF Timed
  <1>5. Spread(h, limit)
    <2> SUFFICES ASSUME NEW i \in 1..Len(h), NEW j \in 1..Len(h), j >= i + 2 * limit
                 PROVE  h[j] >= h[i] + WindowLength
      BY DEF Spread
    <2>1. i \in 1..Len(g)
      BY <1>1, <1>2, <1>3
    <2>2. CASE j = Len(g) + 1
      <3>1. i + n.count + limit <= Len(g)
        <4>1. i \in Nat /\ Len(g) \in Nat /\ n.count \in Nat /\ j = Len(g) + 1
          BY <1>1, <1>2, <2>1, <2>2
        <4> QED
          BY <4>1
      <3>2. g[i] + WindowLength <= n.start /\ n.start <= clock
        BY <2>1, <3>1 DEF Windowed
      <3>3. h[i] = g[i] /\ g[i] \in Nat /\ h[j] = clock
        BY <1>1, <2>1, <2>2
      <3>4. WindowLength \in Nat
        BY TrafficAssumption
      <3> DEFINE a == g[i]
                 b == n.start
      <3>5. a \in Nat /\ b \in Nat /\ a + WindowLength <= b /\ b <= clock
        BY <1>2, <3>2, <3>3
      <3> HIDE DEF a, b
      <3>6. clock >= a + WindowLength
        BY <3>4, <3>5
      <3> QED
        BY <3>3, <3>6, Zenon DEF a
    <2>3. CASE j \in 1..Len(g)
      BY <1>1, <2>1, <2>3, Zenon DEF Spread
    <2> QED
      BY <1>3, <2>2, <2>3
  <1>6. Windowed(h, m, limit, clock)
    <2>1. Len(g) \in Nat /\ Len(h) = Len(g) + 1 /\ m.count = n.count + 1 /\ n.count \in Nat
      BY <1>1, <1>2
    <2>2. ASSUME NEW i \in 1..Len(h), i + m.count <= Len(h)
          PROVE  h[i] <= m.start
      <3>1. i \in 1..Len(g) /\ i + n.count <= Len(g)
        BY <2>1, <2>2
      <3>2. g[i] <= n.start
        BY <3>1 DEF Windowed
      <3> QED
        BY <1>1, <1>2, <3>1, <3>2
    <2>3. ASSUME NEW i \in 1..Len(h), i + m.count + limit <= Len(h)
          PROVE  h[i] + WindowLength <= m.start
      <3>1. i \in 1..Len(g) /\ i + n.count + limit <= Len(g)
        BY <2>1, <2>3
      <3>2. g[i] + WindowLength <= n.start
        BY <3>1 DEF Windowed
      <3> QED
        BY <1>1, <1>2, <3>1, <3>2
    <2>4. m.start <= clock /\ m.count <= limit
      BY <1>2 DEF Windowed
    <2> QED
      BY <1>2, <2>2, <2>3, <2>4 DEF Windowed
  <1> QED
    BY <1>4, <1>5, <1>6 DEF h, m

(* A client without an entry starts afresh.                                *)
LEMMA NoneRated ==
    ASSUME NEW limit \in Nat, NEW clock \in Nat
    PROVE  Timed(<<>>, clock) /\ Spread(<<>>, limit)
  BY DEF Timed, Spread

(* Of the clients, those whose entry pruning dropped start afresh.         *)
LEMMA PrunedRated ==
    ASSUME NEW limit \in Nat, NEW clock \in Nat, NEW g, NEW w0, NEW q, NEW w,
           Rated(g, w0, q, limit, clock),
           DOMAIN w \subseteq DOMAIN w0, \A x \in DOMAIN w : w[x] = w0[x]
    PROVE  Rated(IF q \in DOMAIN w THEN g ELSE <<>>, w, q, limit, clock)
  <1>1. CASE q \in DOMAIN w
    BY <1>1 DEF Rated
  <1>2. CASE q \notin DOMAIN w
    BY <1>2, NoneRated DEF Rated
  <1> QED
    BY <1>1, <1>2

(* handle_rpc_sync_request keeps every client within its limit.            *)
LEMMA ServeStep ==
    ASSUME RateInv, NEW e \in Endpoints, NEW p \in Clients, ServeRequest(e, p)
    PROVE  RateInv'
  <1>1. PICK w \in Pruned(windows[e], p) :
          LET entry == Renewed(w, p)
          IN /\ windows' = [windows EXCEPT ![e] = Set(w, p, Counted(e, entry))]
             /\ grants' = [grants EXCEPT ![e] =
                   [q \in Clients |->
                       LET old == IF q \in DOMAIN w THEN grants[e][q] ELSE <<>>
                       IN IF q = p /\ ServedRequest(e, entry) THEN Append(old, tick) ELSE old]]
    BY Zenon DEF ServeRequest
  <1> DEFINE entry == Renewed(w, p)
             old(q) == IF q \in DOMAIN w THEN grants[e][q] ELSE <<>>
             new(q) == IF q = p /\ ServedRequest(e, entry) THEN Append(old(q), tick) ELSE old(q)
  <1>2. DOMAIN w \subseteq DOMAIN windows[e] /\ \A q \in DOMAIN w : w[q] = windows[e][q]
    BY PrunedKeeps
  <1>3. tick \in Nat /\ Limit[e] \in Nat /\ tick' = tick
    BY TrafficAssumption DEF RateInv, ServeRequest, Endpoints
  <1>4. \A q \in Clients : Rated(old(q), w, q, Limit[e], tick)
    BY <1>2, <1>3, PrunedRated DEF RateInv
  <1>5. Windowed(old(p), entry, Limit[e], tick)
    BY <1>3, <1>4, RenewedRated
  <1>6. /\ windows'[e] = Set(w, p, Counted(e, entry))
        /\ \A q \in Clients : grants'[e][q] = new(q)
        /\ DOMAIN windows' = Endpoints /\ DOMAIN grants' = Endpoints
        /\ \A f \in Endpoints : DOMAIN grants'[f] = Clients
        /\ \A f \in Endpoints \ {e} : windows'[f] = windows[f] /\ grants'[f] = grants[f]
    BY <1>1 DEF RateInv
  <1> HIDE DEF entry, old
  <1>7. Rated(new(p), Set(w, p, Counted(e, entry)), p, Limit[e], tick)
    <2>1. p \in DOMAIN Set(w, p, Counted(e, entry)) /\ Set(w, p, Counted(e, entry))[p] = Counted(e, entry)
      BY DEF Set
    <2>2. Timed(old(p), tick) /\ Spread(old(p), Limit[e])
      BY <1>4 DEF Rated
    <2>3. CASE ServedRequest(e, entry)
      <3>1. entry.count < Limit[e]
        BY <2>3 DEF ServedRequest
      <3>2. new(p) = Append(old(p), tick) /\ Counted(e, entry) = [entry EXCEPT !.count = @ + 1]
        BY <2>3 DEF Counted
      <3> QED
        BY <1>3, <1>5, <2>1, <2>2, <3>1, <3>2, GrantedRated DEF Rated
    <2>4. CASE ~ServedRequest(e, entry)
      <3>1. new(p) = old(p) /\ Counted(e, entry) = entry
        BY <2>4 DEF Counted
      <3> QED
        BY <1>5, <2>1, <2>2, <3>1, Zenon DEF Rated
    <2> QED
      BY <2>3, <2>4
  <1>8. \A q \in Clients \ {p} : Rated(new(q), Set(w, p, Counted(e, entry)), q, Limit[e], tick)
    <2> SUFFICES ASSUME NEW q \in Clients \ {p}
                 PROVE  Rated(new(q), Set(w, p, Counted(e, entry)), q, Limit[e], tick)
      OBVIOUS
    <2>1. new(q) = old(q) /\ Rated(old(q), w, q, Limit[e], tick)
      BY <1>4
    <2>2. /\ q \in DOMAIN Set(w, p, Counted(e, entry)) <=> q \in DOMAIN w
          /\ q \in DOMAIN w => Set(w, p, Counted(e, entry))[q] = w[q]
      BY DEF Set
    <2> QED
      BY <2>1, <2>2 DEF Rated
  <1> HIDE DEF new
  <1>9. \A q \in Clients : Rated(grants'[e][q], windows'[e], q, Limit[e], tick')
    BY <1>3, <1>6, <1>7, <1>8
  <1>10. \A f \in Endpoints \ {e}, q \in Clients : Rated(grants'[f][q], windows'[f], q, Limit[f], tick')
    BY <1>3, <1>6 DEF RateInv
  <1> QED
    BY <1>3, <1>6, <1>9, <1>10 DEF RateInv

(* Time passes.                                                            *)
LEMMA LaterRated ==
    ASSUME NEW g, NEW w, NEW p, NEW limit \in Nat, NEW clock \in Nat, Rated(g, w, p, limit, clock)
    PROVE  Rated(g, w, p, limit, clock + 1)
  <1>1. Timed(g, clock + 1)
    BY DEF Rated, Timed
  <1>2. p \in DOMAIN w => Windowed(g, w[p], limit, clock + 1)
    <2>1. p \in DOMAIN w => w[p].start \in Nat
      BY DEF Rated, Windowed
    <2> QED
      BY <2>1 DEF Rated, Windowed
  <1> QED
    BY <1>1, <1>2 DEF Rated

(* Every step of the request traffic keeps every client rated.             *)
LEMMA RateStep == RateInv /\ [RpcNext]_rpcVars => RateInv'
  <1> SUFFICES ASSUME RateInv, [RpcNext]_rpcVars PROVE RateInv'
    OBVIOUS
  <1>0. \A e \in Endpoints : Limit[e] \in Nat
    BY TrafficAssumption DEF Endpoints
  <1>1. CASE UNCHANGED <<tick, windows, grants>>
    BY <1>1 DEF RateInv
  <1>2. ASSUME NEW e \in Endpoints, NEW p \in Clients, ServeRequest(e, p) PROVE RateInv'
    BY <1>2, ServeStep
  <1>3. ASSUME NEW p \in Clients, ClientLeaves(p) PROVE RateInv'
    <2>1. /\ tick' = tick /\ DOMAIN windows' = Endpoints /\ DOMAIN grants' = Endpoints
          /\ \A e \in Endpoints : /\ windows'[e] = Drop(windows[e], {p})
                                  /\ grants'[e] = [grants[e] EXCEPT ![p] = <<>>]
      BY <1>3 DEF ClientLeaves
    <2>2. \A e \in Endpoints : /\ DOMAIN grants'[e] = Clients
                               /\ grants'[e][p] = <<>>
                               /\ \A q \in Clients \ {p} : grants'[e][q] = grants[e][q]
      BY <2>1 DEF RateInv
    <2>3. \A e \in Endpoints : /\ p \notin DOMAIN windows'[e]
                               /\ \A q \in Clients \ {p} :
                                     /\ q \in DOMAIN windows'[e] <=> q \in DOMAIN windows[e]
                                     /\ q \in DOMAIN windows[e] => windows'[e][q] = windows[e][q]
      <3> SUFFICES ASSUME NEW e \in Endpoints
                   PROVE  /\ p \notin DOMAIN windows'[e]
                          /\ \A q \in Clients \ {p} :
                                /\ q \in DOMAIN windows'[e] <=> q \in DOMAIN windows[e]
                                /\ q \in DOMAIN windows[e] => windows'[e][q] = windows[e][q]
        OBVIOUS
      <3>1. windows'[e] = Drop(windows[e], {p})
        BY <2>1, Zenon
      <3> QED
        BY <3>1, Zenon DEF Drop
    <2>4. \A e \in Endpoints : Rated(grants'[e][p], windows'[e], p, Limit[e], tick)
      BY <1>0, <2>2, <2>3, NoneRated DEF Rated, RateInv
    <2>5. \A e \in Endpoints, q \in Clients \ {p} : Rated(grants'[e][q], windows'[e], q, Limit[e], tick)
      BY <2>2, <2>3 DEF Rated, RateInv
    <2> QED
      BY <2>1, <2>2, <2>4, <2>5 DEF RateInv
  <1>4. CASE RpcTick
    BY <1>0, <1>4, LaterRated DEF RpcTick, RateInv
  <1>5. CASE RpcShutdown
    <2>1. /\ tick' = tick /\ DOMAIN windows' = Endpoints /\ DOMAIN grants' = Endpoints
          /\ \A e \in Endpoints : /\ DOMAIN windows'[e] = {} /\ DOMAIN grants'[e] = Clients
                                  /\ \A p \in Clients : grants'[e][p] = <<>>
      BY <1>5 DEF RpcShutdown, Nothing
    <2> QED
      BY <1>0, <2>1, NoneRated DEF RateInv, Rated
  <1> QED
    BY <1>1, <1>2, <1>3, <1>4, <1>5
       DEF RpcNext, SendRequest, ResponseArrives, AwaitReturns, AwaitTimesOut, rpcVars

(* enforce_get_*_rate_limit: windows start at a client's first request and *)
(* are pruned, forgotten and renewed, and in no stretch of a window length *)
(* is a client served more than twice the limit since its entry exists.    *)
THEOREM ServedTheorem == RpcInit /\ [][RpcNext]_rpcVars => []ServedWithinTwiceLimit
  <1>1. RpcInit => RateInv
    <2>1. \A e \in Endpoints : Limit[e] \in Nat
      BY TrafficAssumption DEF Endpoints
    <2> QED
      BY <2>1, NoneRated DEF RpcInit, RateInv, Rated, Nothing
  <1>2. RateInv => ServedWithinTwiceLimit
    <2>1. \A e \in Endpoints : Limit[e] \in Nat
      BY TrafficAssumption DEF Endpoints
    <2> QED
      BY <2>1, SpreadBounds, TrafficAssumption DEF RateInv, Rated, ServedWithinTwiceLimit
  <1> QED
    BY <1>1, <1>2, RateStep, PTL
=============================================================================
