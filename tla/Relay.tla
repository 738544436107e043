------------------------------- MODULE Relay --------------------------------
(* How one node passes transactions, commits and reveals on: the handlers of *)
(* node.rs for what a client submits and for what a peer gossips, and the    *)
(* gossip tracker of mempool.rs between them: bounded memories of what was   *)
(* heard and what was broadcast, and a token bucket per peer and per sender. *)
(* The pools behind are modules TransactionPool and CommitReveal; here they  *)
(* hold an item or do not, and may refuse one for a reason of their own.     *)
EXTENDS Integers, Sequences, SequencesExt, FiniteSets, Functions

CONSTANTS
    Items,          \* records kind, id, sender, funded, commit (of a reveal)
    Peers,
    TrackerSize,    \* capacity of each LRU memory
    PeerLimit, PeerWindow,      \* tokens of a peer, seconds to refill them all
    SenderLimit, SenderWindow,
    IdleSeconds,    \* a bucket untouched this long may be dropped
    PrunePeersAbove, MaxPeerBuckets,
    PruneSendersAbove, MaxSenderBuckets,
    RelayBudgets    \* bound: submissions and arrivals, and seconds, of a behaviour

NoTask == <<>>
Kinds == {"tx", "commit", "reveal"}

(* An LRU memory has room for one mark at least, a window lasts a second at  *)
(* least, and the configured window of a peer is no longer than the time     *)
(* after which an idle bucket is dropped: 1 and 300 seconds in production.   *)
ASSUME RelayAssumption ==
    /\ TrackerSize \in Nat \ {0}
    /\ PeerLimit \in Nat /\ PeerWindow \in Nat \ {0}
    /\ IdleSeconds \in Nat /\ PeerWindow <= IdleSeconds
    /\ \A i \in Items : i # NoTask /\ i.kind \in Kinds

VARIABLES
    held,           \* items in the pools
    heardMarks,     \* received_from_peers, received_commits, received_reveals
    sentMarks,      \* broadcasted, broadcasted_commits, broadcasted_reveals
    peerBuckets,    \* peer to bucket
    senderBuckets,  \* sender to bucket
    now,
    task,           \* what the RPC task and the event loop have still to announce
    left,           \* what remains of the budget
    sends,          \* ghost: broadcasts of each item
    offered,        \* ghost: items accepted from a client
    heard,          \* ghost: items accepted from a peer
    forgotten,      \* ghost: items a full memory dropped
    early,          \* ghost: reveals marked by a submission that was refused
    missed,         \* ghost: items that left the pool before they were announced
    peerGrants,         \* ghost: times at which each peer was given a token
    unlimited       \* ghost: peers whose bucket was dropped at the cap

marks == <<heardMarks, sentMarks>>
buckets == <<peerBuckets, senderBuckets, peerGrants, unlimited>>
relayVars == <<held, heardMarks, sentMarks, peerBuckets, senderBuckets, now, task,
               left, sends, offered, heard, forgotten, early, missed, peerGrants, unlimited>>

RelayInit ==
    /\ held = {} /\ now = 0 /\ left \in RelayBudgets
    /\ heardMarks = [k \in Kinds |-> <<>>] /\ sentMarks = [k \in Kinds |-> <<>>]
    /\ peerBuckets = <<>> /\ senderBuckets = <<>>
    /\ sends = [i \in Items |-> 0]
    /\ offered = {} /\ heard = {} /\ forgotten = {} /\ early = {} /\ missed = {}
    /\ task = [c \in {"rpc", "loop"} |-> NoTask]
    /\ peerGrants = [p \in Peers |-> <<>>] /\ unlimited = {}

-----------------------------------------------------------------------------
(* Bounded memories: the item put last is the last to be dropped.            *)

Unmarked(s, i) ==
    IF Contains(s, i) THEN RemoveAt(s, CHOOSE k \in DOMAIN s : s[k] = i) ELSE s
PutMark(s, i) ==
    LET t == Append(Unmarked(s, i), i) IN IF Len(t) > TrackerSize THEN Tail(t) ELSE t
Dropped(s, i) == ToSet(s) \ ToSet(PutMark(s, i))

(* Token buckets, in units of 1/window token.                                *)
NewBucket(limit, w) == [units |-> limit * w, last |-> now]
Refilled(b, limit, w) ==
    LET u == b.units + (now - b.last) * limit
    IN  [units |-> IF u > limit * w THEN limit * w ELSE u, last |-> now]
TryConsume(b, limit, w) == Refilled(b, limit, w).units >= w
Consumed(b, limit, w) ==
    LET r == Refilled(b, limit, w) IN IF r.units >= w THEN [r EXCEPT !.units = @ - w] ELSE r

WithBucket(f, k, b) == [x \in DOMAIN f \union {k} |-> IF x = k THEN b ELSE f[x]]

Kept(f, maximum) ==
    LET fresh == {k \in DOMAIN f : now - f[k].last < IdleSeconds} IN
    IF Cardinality(fresh) <= maximum THEN {fresh}
    ELSE {S \in SUBSET fresh : Cardinality(S) = maximum}

\* prune_idle_buckets prunes both maps, whichever was found too large.
PruneIdleBuckets(over, peers, senders) ==
    IF over THEN Kept(peers, MaxPeerBuckets) \X Kept(senders, MaxSenderBuckets)
            ELSE {<<DOMAIN peers, DOMAIN senders>>}

(* What the two limits can answer, with the buckets they leave; cut are the  *)
(* peers whose bucket was dropped before it was idle.                        *)
Cut(peers, kept) == {p \in DOMAIN peers \ kept : now - peers[p].last < IdleSeconds}

EnforcePeerLimit(p) ==
    { LET kept == Restrict(peerBuckets, c[1])
          b == IF p \in c[1] THEN kept[p] ELSE NewBucket(PeerLimit, PeerWindow)
      IN  [ok |-> TryConsume(b, PeerLimit, PeerWindow),
           peers |-> WithBucket(kept, p, Consumed(b, PeerLimit, PeerWindow)),
           senders |-> Restrict(senderBuckets, c[2]), cut |-> Cut(peerBuckets, c[1])] :
      c \in PruneIdleBuckets(Cardinality(DOMAIN peerBuckets) > PrunePeersAbove,
                             peerBuckets, senderBuckets) }

EnforceSenderLimit(a, peers, senders, cut) ==
    { LET kept == Restrict(senders, c[2])
          b == IF a \in c[2] THEN kept[a] ELSE NewBucket(SenderLimit, SenderWindow)
      IN  [ok |-> TryConsume(b, SenderLimit, SenderWindow),
           peers |-> Restrict(peers, c[1]),
           senders |-> WithBucket(kept, a, Consumed(b, SenderLimit, SenderWindow)),
           cut |-> cut \union Cut(peers, c[1])] :
      c \in PruneIdleBuckets(Cardinality(DOMAIN senders) > PruneSendersAbove, peers, senders) }

(* The pools' answer to item i: it may be invalid, or valid and refused for  *)
(* lack of room; a transaction takes a token of its sender once it is valid. *)
Answers == {"invalid", "full", "taken"}
Valid(i, answer) ==
    answer # "invalid" /\ i \notin held /\ (i.kind = "reveal" => i.commit \in {j.id : j \in held})

AddTransaction(i, answer, r) ==
    IF ~Valid(i, answer) THEN {[r EXCEPT !.ok = FALSE]}
    ELSE {[q EXCEPT !.ok = @ /\ answer = "taken"] :
             q \in EnforceSenderLimit(i.sender, r.peers, r.senders, r.cut)}
SubmitToPool(i, answer, r) == {[r EXCEPT !.ok = Valid(i, answer) /\ answer = "taken"]}

Keep(r) ==
    /\ peerBuckets' = r.peers /\ senderBuckets' = r.senders
    /\ unlimited' = unlimited \union r.cut

Event == left.events > 0 /\ left' = [left EXCEPT !.events = @ - 1] /\ UNCHANGED now

-----------------------------------------------------------------------------
(* What a peer gossips.                                                      *)

MarkHeard(i) ==
    /\ held' = held \union {i} /\ heard' = heard \union {i}
    /\ heardMarks' = [heardMarks EXCEPT ![i.kind] = PutMark(@, i)]
    /\ sentMarks' = [sentMarks EXCEPT ![i.kind] = Unmarked(@, i)]
    /\ forgotten' = forgotten \union Dropped(heardMarks[i.kind], i)

FromPeer(p, i, Pool(_, _, _), answer) ==
    /\ Event /\ task["loop"] = NoTask
    /\ \E r \in EnforcePeerLimit(p) :
          \E q \in (IF r.ok THEN Pool(i, answer, r) ELSE {r}) :
             /\ Keep(q)
             /\ peerGrants' = IF r.ok THEN [peerGrants EXCEPT ![p] = Append(@, now)] ELSE peerGrants
             /\ IF q.ok THEN MarkHeard(i) ELSE UNCHANGED <<held, heard, marks, forgotten>>
    /\ UNCHANGED <<task, sends, offered, early, missed>>

ReceiveTransactionFromPeer(p, i, answer) ==
    i.kind = "tx" /\ FromPeer(p, i, AddTransaction, answer)
ReceiveCommitFromPeer(p, i, answer) ==
    i.kind = "commit" /\ FromPeer(p, i, SubmitToPool, answer)
ReceiveRevealFromPeer(p, i, answer) ==
    i.kind = "reveal" /\ FromPeer(p, i, SubmitToPool, answer)

-----------------------------------------------------------------------------
(* What is submitted here, by an RPC task or to the event loop: the pool is  *)
(* asked first, then the item is announced, and the other task runs between  *)
(* the two.  Whether the swarm had a peer to send to is not asked again.     *)

Submit(c, i, results) ==
    /\ Event /\ task[c] = NoTask
    /\ \E r \in results :
          /\ Keep(r)
          /\ IF r.ok THEN /\ held' = held \union {i} /\ offered' = offered \union {i}
                          /\ task' = [task EXCEPT ![c] = i]
                     ELSE UNCHANGED <<held, offered, task>>
    /\ UNCHANGED <<marks, heard, early, peerGrants, sends, forgotten, missed>>

Buckets == [ok |-> TRUE, peers |-> peerBuckets, senders |-> senderBuckets, cut |-> {}]

SendTransactionInternal(i, answer) ==
    i.kind = "tx" /\ Submit("rpc", i, AddTransaction(i, answer, Buckets))
SubmitCommitInternal(i, answer) ==
    i.kind = "commit" /\ Submit("rpc", i, SubmitToPool(i, answer, Buckets))
SubmitRevealInternal(i, answer) ==
    i.kind = "reveal" /\ Submit("rpc", i, SubmitToPool(i, answer, Buckets))

HandleNewTransaction(i, answer) ==
    i.kind = "tx" /\ Submit("loop", i, AddTransaction(i, answer, Buckets))
\* Only here is a commit checked against its sender's balance.
HandleNewCommit(i, answer) ==
    i.kind = "commit" /\ i.funded /\ Submit("loop", i, SubmitToPool(i, answer, Buckets))

Broadcasts(i) == ~Contains(heardMarks[i.kind], i) /\ ~Contains(sentMarks[i.kind], i)

MarkSent(i) ==
    IF Broadcasts(i)
    THEN /\ sentMarks' = [sentMarks EXCEPT ![i.kind] = PutMark(@, i)]
         /\ forgotten' = forgotten \union Dropped(sentMarks[i.kind], i)
    ELSE UNCHANGED <<sentMarks, forgotten>>
Sent(i) == sends' = IF Broadcasts(i) THEN [sends EXCEPT ![i] = @ + 1] ELSE sends

Announce(c) ==
    /\ MarkSent(task[c]) /\ Sent(task[c])
    /\ task' = [task EXCEPT ![c] = NoTask]
    /\ UNCHANGED <<held, heardMarks, buckets, now, left, offered, heard, early, missed>>

\* A transaction or commit that has left the pool since is not found again.
AnnounceMissing(c) ==
    /\ task[c] \notin held
    /\ missed' = missed \union {task[c]} /\ task' = [task EXCEPT ![c] = NoTask]
    /\ UNCHANGED <<held, marks, buckets, now, left, offered, heard, early, sends, forgotten>>

BroadcastNewTransaction(c) ==
    /\ task[c] # NoTask /\ task[c].kind = "tx"
    /\ AnnounceMissing(c) \/ (task[c] \in held /\ Announce(c))
BroadcastNewCommit(c) ==
    /\ task[c] # NoTask /\ task[c].kind = "commit"
    /\ AnnounceMissing(c) \/ (task[c] \in held /\ Announce(c))
BroadcastNewReveal(c) == task[c] # NoTask /\ task[c].kind = "reveal" /\ Announce(c)

\* The event loop marks a reveal as broadcast before it asks the pool.
HandleNewReveal(i, answer) ==
    /\ i.kind = "reveal" /\ Event /\ task["loop"] = NoTask
    /\ MarkSent(i)
    /\ IF Valid(i, answer) /\ answer = "taken"
       THEN held' = held \union {i} /\ offered' = offered \union {i} /\ Sent(i) /\ UNCHANGED early
       ELSE /\ early' = IF Broadcasts(i) THEN early \union {i} ELSE early
            /\ UNCHANGED <<held, offered, sends>>
    /\ UNCHANGED <<heardMarks, heard, buckets, task, missed>>

\* An item is mined, expires or is evicted.
LeavePool(i) ==
    /\ i \in held /\ Event /\ held' = held \ {i}
    /\ UNCHANGED <<marks, buckets, task, sends, offered, heard, forgotten, early, missed>>

RelayTick ==
    /\ left.seconds > 0 /\ left' = [left EXCEPT !.seconds = @ - 1] /\ now' = now + 1
    /\ UNCHANGED <<held, marks, buckets, task, sends, offered, heard, forgotten, early, missed>>

RelayNext ==
    \/ \E i \in Items, answer \in Answers :
          \/ \E p \in Peers : \/ ReceiveTransactionFromPeer(p, i, answer)
                              \/ ReceiveCommitFromPeer(p, i, answer)
                              \/ ReceiveRevealFromPeer(p, i, answer)
          \/ HandleNewTransaction(i, answer) \/ HandleNewCommit(i, answer)
          \/ HandleNewReveal(i, answer) \/ SendTransactionInternal(i, answer)
          \/ SubmitCommitInternal(i, answer) \/ SubmitRevealInternal(i, answer)
    \/ \E c \in {"rpc", "loop"} :
          BroadcastNewTransaction(c) \/ BroadcastNewCommit(c) \/ BroadcastNewReveal(c)
    \/ \E i \in Items : LeavePool(i)
    \/ RelayTick

-----------------------------------------------------------------------------
(* The tracker "prevents broadcast loops" without losing a submission: as    *)
(* long as the bounded memories hold it, an item is broadcast at most once,  *)
(* and an item accepted from a client is broadcast once its task is done,    *)
(* unless it came from a peer too, had left the pool by then, or is a reveal *)
(* that an earlier submission marked which was then refused.                 *)
RelayedOnce ==
    \A i \in Items \ forgotten :
        /\ sends[i] <= 1
        /\ i \in offered /\ (\A c \in DOMAIN task : task[c] # i) =>
               sends[i] = 1 \/ i \in heard \union early \union missed

(* Between any two of its tokens a peer gets at most a full bucket and what  *)
(* that time refills, however buckets are dropped when idle and recreated,   *)
(* unless its bucket was dropped because there were too many.                *)
PeerRateHeld ==
    \A p \in Peers \ unlimited : \A a, b \in DOMAIN peerGrants[p] :
        a <= b => (b - a + 1) * PeerWindow
                      <= PeerLimit * PeerWindow + PeerLimit * (peerGrants[p][b] - peerGrants[p][a])
=============================================================================
