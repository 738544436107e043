-------------------------- MODULE AccountingProofs --------------------------
(***************************************************************************)
(* Safety of what is counted, for every value of the constants: the gas of *)
(* a transaction, and stake, its lockup and its slashing. The parts share  *)
(* no state; each section gives a part's inductive invariant and what      *)
(* follows from it.                                                        *)
(***************************************************************************)
EXTENDS GasMeter, ProofOfStake, FiniteSetTheorems, TLAPS

(***************************************************************************)
(* The gas meter.                                                          *)
(***************************************************************************)

(* The slots the transaction has cleared so far.                           *)
Cleared == {k \in SlotKeys : original[k] # 0 /\ current[k] = 0}

(* The accounts are exact, and what they are computed from has its type.   *)
GasInv ==
    /\ current \in [SlotKeys -> Words]
    /\ memoryWords \in Nat
    /\ GasAccounted

(* The cost of memory is a number.                                         *)
LEMMA MemoryCostInt == \A words \in Nat : MemoryCost(words) \in Int
  BY DEF MemoryCost, MemoryGas, MemoryQuotient

(* A transaction starts with no memory and owes nothing for it.            *)
LEMMA NoMemoryIsFree == MemoryCost(0) = 0
  BY DEF MemoryCost, MemoryGas, MemoryQuotient

(* The cleared slots can be counted.                                       *)
LEMMA ClearedFinite == IsFiniteSet(Cleared) /\ Cardinality(Cleared) \in Nat
  BY GasAssumption, FS_Subset, FS_CardinalityType DEF Cleared

(* The refund of one write is what the number of cleared slots changes by. *)
LEMMA RefundIsDifference ==
    ASSUME GasInv, NEW k \in SlotKeys, NEW new \in Words,
           original' = original, current' = [current EXCEPT ![k] = new]
    PROVE  /\ SstoreRefund(original[k], current[k], new) \in Int
           /\ gasRefund + SstoreRefund(original[k], current[k], new) = SstoreClears * Cardinality(Cleared')
           /\ Cardinality(Cleared') \in Nat
  <1> DEFINE refund == SstoreRefund(original[k], current[k], new)
  <1>1. \A j \in SlotKeys : current'[j] = IF j = k THEN new ELSE current[j]
    BY DEF GasInv
  <1>2. gasRefund = SstoreClears * Cardinality(Cleared)
    BY Zenon DEF GasInv, GasAccounted, RefundsMatchClears, Cleared
  <1>3. IsFiniteSet(Cleared) /\ Cardinality(Cleared) \in Nat
    BY ClearedFinite, Zenon
  <1>4. CASE k \in Cleared /\ new # 0
    <2>1. Cleared' = Cleared \ {k}
      BY <1>1, <1>4 DEF Cleared
    <2>2. Cardinality(Cleared') = Cardinality(Cleared) - 1
      BY <1>3, <1>4, <2>1, FS_RemoveElement, Zenon
    <2>3. Cardinality(Cleared) # 0
      BY <1>3, <1>4, FS_EmptySet
    <2>4. refund = 0 - SstoreClears
      BY <1>4 DEF Cleared, SstoreRefund
    <2> QED
      BY <1>2, <1>3, <2>2, <2>3, <2>4 DEF SstoreClears
  <1>5. CASE k \notin Cleared /\ original[k] # 0 /\ new = 0
    <2>1. Cleared' = Cleared \cup {k}
      BY <1>1, <1>5 DEF Cleared
    <2>2. Cardinality(Cleared') = Cardinality(Cleared) + 1
      BY <1>3, <1>5, <2>1, FS_AddElement, Zenon
    <2>3. refund = SstoreClears
      BY <1>5 DEF Cleared, SstoreRefund
    <2> QED
      BY <1>2, <1>3, <2>2, <2>3 DEF SstoreClears
  <1>6. CASE ~(k \in Cleared /\ new # 0) /\ ~(k \notin Cleared /\ original[k] # 0 /\ new = 0)
    <2>1. Cleared' = Cleared
      BY <1>1, <1>6 DEF Cleared
    <2>2. refund = 0
      BY <1>6 DEF Cleared, SstoreRefund
    <2> QED
      BY <1>2, <1>3, <2>1, <2>2 DEF SstoreClears
  <1> QED
    BY <1>4, <1>5, <1>6, Zenon

(* Every instruction keeps the accounts.                                   *)
LEMMA GasStep ==
    ASSUME GasInv, [GasNext]_gasVars
    PROVE  GasInv'
  <1> USE DEF GasInv
  <1>1. CASE UNCHANGED <<gasRefund, memoryWords, original, current, memoryGas>>
    BY <1>1, Zenon DEF GasAccounted, RefundsMatchClears, MemoryPaidOnce
  <1>2. ASSUME NEW end \in MemoryEnds, ChargeMemory(end)
        PROVE  GasInv'
    <2> DEFINE cost == MemoryExpansionCost(memoryWords, end)
    <2>1. /\ UNCHANGED <<gasRefund, original, current>>
          /\ memoryWords' = IF Affordable(cost) /\ end > memoryWords THEN end ELSE memoryWords
          /\ memoryGas' = IF Affordable(cost) THEN memoryGas + cost ELSE memoryGas
      BY <1>2, Zenon DEF ChargeMemory
    <2>2. end \in Nat /\ memoryWords \in Nat
      BY GasAssumption, Zenon
    <2>3. MemoryCost(end) \in Int /\ MemoryCost(memoryWords) \in Int
      BY <2>2, MemoryCostInt, Zenon
    <2>4. cost = IF end > memoryWords THEN MemoryCost(end) - MemoryCost(memoryWords) ELSE 0
      BY <2>2 DEF MemoryExpansionCost
    <2> HIDE DEF cost
    <2>5. memoryGas = MemoryCost(memoryWords)
      BY Zenon DEF GasAccounted, MemoryPaidOnce
    <2>6. memoryGas' = MemoryCost(memoryWords') /\ memoryWords' \in Nat
      BY <2>1, <2>2, <2>3, <2>4, <2>5
    <2> QED
      BY <2>1, <2>6, Zenon DEF GasAccounted, RefundsMatchClears, MemoryPaidOnce
  <1>3. ASSUME NEW k \in SlotKeys, NEW new \in Words, ChargeSstore(k, new)
        PROVE  GasInv'
    <2> DEFINE refund == gasRefund + SstoreRefund(original[k], current[k], new)
    <2>1. UNCHANGED <<memoryWords, original, memoryGas>>
      BY <1>3, Zenon DEF ChargeSstore
    <2>2. CASE UNCHANGED <<gasRefund, current>>
      BY <1>1, <2>1, <2>2, Zenon
    <2>3. CASE gasRefund' = (IF refund < 0 THEN 0 ELSE refund) /\ current' = [current EXCEPT ![k] = new]
      <3>1. refund = SstoreClears * Cardinality(Cleared') /\ Cardinality(Cleared') \in Nat
        BY <2>1, <2>3, RefundIsDifference, Zenon
      <3> HIDE DEF refund
      <3>2. gasRefund' = SstoreClears * Cardinality(Cleared')
        BY <2>3, <3>1 DEF SstoreClears
      <3>3. current' \in [SlotKeys -> Words]
        BY <2>3
      <3> QED
        BY <2>1, <3>2, <3>3, Zenon DEF GasAccounted, RefundsMatchClears, MemoryPaidOnce, Cleared
    <2> QED
      BY <1>3, <2>2, <2>3, Zenon DEF ChargeSstore
  <1>4. CASE EndTransaction
    <2>1. /\ gasRefund' = 0 /\ memoryWords' = 0 /\ memoryGas' = 0
          /\ original' = current /\ current' = current
      BY <1>4, Zenon DEF EndTransaction
    <2>2. Cleared' = {}
      BY <2>1 DEF Cleared
    <2>3. gasRefund' = SstoreClears * Cardinality(Cleared')
      BY <2>1, <2>2, FS_EmptySet DEF SstoreClears
    <2> QED
      BY <2>1, <2>3, NoMemoryIsFree DEF GasAccounted, RefundsMatchClears, MemoryPaidOnce, Cleared
  <1> QED
    BY <1>1, <1>2, <1>3, <1>4, Zenon
       DEF GasNext, gasVars, ChargeSload, ChargeAccountAccess, ChargePrecompile

(* GasMeter: after any sequence of charges, those that ran out of gas      *)
(* included, the refund counter and the memory account are exact.          *)
THEOREM GasTheorem == GasInit /\ [][GasNext]_gasVars => []GasAccounted
  <1>1. GasInit => GasInv
    <2>1. SUFFICES ASSUME GasInit PROVE GasInv
      OBVIOUS
    <2>2. Cleared = {}
      BY <2>1 DEF GasInit, Cleared
    <2>3. gasRefund = SstoreClears * Cardinality(Cleared)
      BY <2>1, <2>2, FS_EmptySet DEF SstoreClears, GasInit
    <2> QED
      BY <2>1, <2>3, NoMemoryIsFree DEF GasInit, GasInv, GasAccounted, RefundsMatchClears, MemoryPaidOnce, Cleared
  <1>2. GasInv => GasAccounted
    BY Zenon DEF GasInv
  <1> QED
    BY <1>1, <1>2, GasStep, PTL

(***************************************************************************)
(* Slashing.                                                               *)
(***************************************************************************)

SlashStages == {"mark", "stake", "jail", "record"}

(* Evidence that took stake is marked as executed; one that is about to be *)
(* marked is not, and one that is about to take stake has taken none.      *)
SlashInv ==
    /\ penalties \in [EvidenceIds -> 0 .. 1]
    /\ \A id \in EvidenceIds : penalties[id] # 0 => id \in executed
    /\ slashing = Idle \/ slashing \in SlashStages \X EvidenceIds \X Nat
    /\ slashing[1] = "mark" => slashing[2] \notin executed
    /\ slashing[1] = "stake" => slashing[2] \in executed /\ penalties[slashing[2]] = 0
    /\ "ids" \in DOMAIN budget /\ budget.ids \subseteq EvidenceIds

(* A call that leaves the slashing manager alone.                          *)
LEMMA SlashFrame ==
    ASSUME SlashInv, UNCHANGED <<penalties, executed>>,
           slashing' = slashing \/ slashing' = Idle,
           "ids" \in DOMAIN budget', budget'.ids = budget.ids
    PROVE  SlashInv'
  BY DEF SlashInv, Idle

(* Only the counters of a budget are spent.                                *)
LEMMA SpendKeepsIds ==
    ASSUME SlashInv, NEW class \in {"stake", "evidence", "crash", "lossy", "submit", "vote", "tally", "upgrade"}, Spend(class)
    PROVE  "ids" \in DOMAIN budget' /\ budget'.ids = budget.ids
  BY DEF SlashInv, Spend

(***************************************************************************)
(* Positions and their timers.                                             *)
(***************************************************************************)

Banks == [epoch : Nat, stakes : [Validators -> Nat], depositEpochs : [Validators -> Int],
          delegations : [Delegations -> Nat], delegationEpochs : [Delegations -> Int]]

(* A position with a timer has that of its last deposit.                   *)
Timed(b, last) == \A v \in Validators : b.depositEpochs[v] \in {NoEpoch, last[v]}

LockupInv ==
    /\ bank \in Banks /\ bankDisk \in Banks
    /\ lastDeposit \in [Validators -> Int]
    /\ Timed(bank, lastDeposit) /\ Timed(bankDisk, lastDeposit)

(* An emptied position loses its timer and nothing else.                   *)
LEMMA EmptiedTimed ==
    ASSUME NEW b \in Banks, NEW v \in Validators, NEW last, Timed(b, last)
    PROVE  WithoutEmpty(b, v) \in Banks /\ Timed(WithoutEmpty(b, v), last)
  BY DEF Banks, Timed, WithoutEmpty, NoEpoch

(* What is saved of a bank: the timers in memory where there are any.      *)
LEMMA SavedTimed ==
    ASSUME NEW b \in Banks, NEW disk \in Banks, NEW full, NEW last, Timed(b, last),
           \A v \in Validators : \/ disk.depositEpochs[v] \in {NoEpoch, last[v]}
                                 \/ b.stakes[v] > 0 /\ b.depositEpochs[v] # NoEpoch
    PROVE  Persisted(b, disk, full) \in Banks /\ Timed(Persisted(b, disk, full), last)
  BY DEF Banks, Timed, Persisted, Saved, NoEpoch

(* A deposit starts the timer of its position again.                       *)
LEMMA StakeTimed ==
    ASSUME NEW b \in Banks, NEW v \in Validators, NEW amount \in Nat, NEW last \in [Validators -> Int],
           Timed(b, last), CanStake(amount)
    PROVE  /\ StakeTokens(b, v, amount) \in Banks
           /\ Timed(StakeTokens(b, v, amount), [last EXCEPT ![v] = b.epoch])
           /\ StakeTokens(b, v, amount).stakes[v] > 0
           /\ StakeTokens(b, v, amount).depositEpochs[v] # NoEpoch
  <1> DEFINE c == [b EXCEPT !.stakes[v] = @ + amount]
             d == [c EXCEPT !.depositEpochs[v] = b.epoch]
  <1>1. c \in Banks /\ c.stakes[v] > 0 /\ c.depositEpochs = b.depositEpochs /\ b.epoch \in Nat
    BY StakingAssumption DEF Banks, CanStake
  <1>2. StakeTokens(b, v, amount) = d
    BY DEF StakeTokens
  <1> HIDE DEF c
  <1>3. d \in Banks /\ d.stakes[v] > 0 /\ d.depositEpochs = [b.depositEpochs EXCEPT ![v] = b.epoch]
    BY <1>1 DEF Banks
  <1> HIDE DEF d
  <1>4. Timed(d, [last EXCEPT ![v] = b.epoch]) /\ d.depositEpochs[v] # NoEpoch
    BY <1>1, <1>3 DEF Banks, Timed, NoEpoch
  <1> QED
    BY <1>2, <1>3, <1>4, Zenon

(* A withdrawal restarts no timer; an emptied position loses its own.      *)
LEMMA UnstakeTimed ==
    ASSUME NEW b \in Banks, NEW v \in Validators, NEW amount \in Nat, NEW last,
           Timed(b, last), CanUnstake(b, v, amount)
    PROVE  UnstakeTokens(b, v, amount) \in Banks /\ Timed(UnstakeTokens(b, v, amount), last)
  <1> DEFINE c == [b EXCEPT !.stakes[v] = @ - amount]
  <1>1. c \in Banks /\ Timed(c, last)
    BY DEF Banks, Timed, CanUnstake
  <1> QED
    BY <1>1, EmptiedTimed, Zenon DEF UnstakeTokens

(* The sum of a delegation says nothing of the position's timer.           *)
LEMMA DelegatedSum ==
    ASSUME NEW b \in Banks, NEW p \in Delegations, NEW n \in Nat
    PROVE  /\ [b EXCEPT !.delegations[p] = n] \in Banks
           /\ [b EXCEPT !.delegations[p] = n].depositEpochs = b.depositEpochs
           /\ [b EXCEPT !.delegations[p] = n].stakes = b.stakes
  BY DEF Banks

(* The same of its epoch.                                                  *)
LEMMA DelegatedEpoch ==
    ASSUME NEW b \in Banks, NEW p \in Delegations, NEW e \in Int
    PROVE  /\ [b EXCEPT !.delegationEpochs[p] = e] \in Banks
           /\ [b EXCEPT !.delegationEpochs[p] = e].depositEpochs = b.depositEpochs
           /\ [b EXCEPT !.delegationEpochs[p] = e].stakes = b.stakes
  BY DEF Banks

(* Delegating leaves the validators' own timers alone.                     *)
LEMMA DelegateTimed ==
    ASSUME NEW b \in Banks, NEW d \in Delegators, NEW v \in Validators, NEW amount \in Nat, NEW last,
           Timed(b, last)
    PROVE  DelegateStake(b, d, v, amount) \in Banks /\ Timed(DelegateStake(b, d, v, amount), last)
  <1> DEFINE p == <<d, v>>
             c1 == [b EXCEPT !.delegationEpochs[p] = b.epoch]
             c2 == [c1 EXCEPT !.stakes[v] = @ + amount]
             c3 == [c2 EXCEPT !.delegations[p] = @ + amount]
  <1>1. p \in Delegations /\ b.epoch \in Int
    BY DEF Delegations, Banks
  <1>2. DelegateStake(b, d, v, amount) = c3
    BY DEF DelegateStake
  <1> HIDE DEF p
  <1>3. c1 \in Banks /\ c1.depositEpochs = b.depositEpochs
    BY <1>1, DelegatedEpoch
  <1> HIDE DEF c1
  <1>4. c2 \in Banks /\ c2.depositEpochs = b.depositEpochs
    BY <1>3 DEF Banks
  <1> HIDE DEF c2
  <1>5. c2.delegations[p] + amount \in Nat
    BY <1>1, <1>4 DEF Banks
  <1>6. c3 \in Banks /\ c3.depositEpochs = b.depositEpochs
    BY <1>1, <1>4, <1>5, DelegatedSum
  <1> QED
    BY <1>2, <1>6, Zenon DEF Timed

(* So does taking a delegation back.                                       *)
LEMMA UndelegateTimed ==
    ASSUME NEW b \in Banks, NEW d \in Delegators, NEW v \in Validators, NEW amount \in Nat, NEW last,
           Timed(b, last), CanUndelegate(b, d, v, amount)
    PROVE  UndelegateStake(b, d, v, amount) \in Banks /\ Timed(UndelegateStake(b, d, v, amount), last)
  <1> DEFINE p == <<d, v>>
             left == b.delegations[p] - amount
             c1 == [b EXCEPT !.delegations[p] = left]
             c2 == [c1 EXCEPT !.delegationEpochs[p] = IF left = 0 THEN NoEpoch ELSE @]
             c3 == [c2 EXCEPT !.stakes[v] = @ - amount]
  <1>1. p \in Delegations /\ left \in Nat /\ b.stakes[v] - amount \in Nat
    BY DEF Banks, CanUndelegate, Delegations
  <1>2. UndelegateStake(b, d, v, amount) = WithoutEmpty(c3, v)
    BY DEF UndelegateStake
  <1> HIDE DEF p, left
  <1>3. c1 \in Banks /\ c1.depositEpochs = b.depositEpochs /\ c1.stakes = b.stakes
    BY <1>1, DelegatedSum
  <1> HIDE DEF c1
  <1>4. (IF left = 0 THEN NoEpoch ELSE c1.delegationEpochs[p]) \in Int
    BY <1>1, <1>3 DEF Banks, NoEpoch
  <1>5. c2 \in Banks /\ c2.depositEpochs = b.depositEpochs /\ c2.stakes = b.stakes
    BY <1>1, <1>3, <1>4, DelegatedEpoch
  <1> HIDE DEF c2
  <1>6. c3 \in Banks /\ c3.depositEpochs = b.depositEpochs
    BY <1>1, <1>5 DEF Banks
  <1> HIDE DEF c3
  <1>7. Timed(c3, last)
    BY <1>6, Zenon DEF Timed
  <1> QED
    BY <1>2, <1>6, <1>7, EmptiedTimed, Zenon

(* A slash lowers positions and keeps the timers of those that remain.     *)
LEMMA SlashTimed ==
    ASSUME NEW b \in Banks, NEW v \in Validators, NEW amount \in Nat, NEW last, Timed(b, last)
    PROVE  SlashStake(b, v, amount) \in Banks /\ Timed(SlashStake(b, v, amount), last)
  <1> DEFINE c == [b EXCEPT !.stakes[v] = IF @ > amount THEN @ - amount ELSE 0]
  <1>1. c \in Banks /\ Timed(c, last)
    BY DEF Banks, Timed
  <1> QED
    BY <1>1, EmptiedTimed, Zenon DEF SlashStake

(* A call that leaves the positions alone.                                 *)
LEMMA LockupFrame ==
    ASSUME LockupInv, UNCHANGED <<bank, bankDisk, lastDeposit>>
    PROVE  LockupInv'
  BY Zenon DEF LockupInv, Timed

(* A changed bank is saved with the timers of the last deposits.           *)
LEMMA LockupSaved ==
    ASSUME LockupInv, NEW b \in Banks, Timed(b, lastDeposit), SaveBank(b), lastDeposit' = lastDeposit
    PROVE  LockupInv'
  <1>1. Persisted(b, bankDisk, fullyRestored) \in Banks /\ Timed(Persisted(b, bankDisk, fullyRestored), lastDeposit)
    BY SavedTimed, Zenon DEF LockupInv, Timed
  <1> QED
    BY <1>1, Zenon DEF LockupInv, SaveBank, Timed

(* The staking calls.                                                      *)
LEMMA StakingStep ==
    ASSUME SlashInv, LockupInv,
           NEW v \in Validators, NEW d, NEW amount \in Amounts,
           \/ Stake(v, amount) \/ Unstake(v, amount)
           \/ d \in Delegators /\ (Delegate(d, v, amount) \/ Undelegate(d, v, amount))
    PROVE  SlashInv' /\ LockupInv'
  <1>1. StakingCall
    BY Zenon DEF Stake, Unstake, Delegate, Undelegate
  <1>2. SlashInv'
    <2>1. Spend("stake") /\ UNCHANGED <<penalties, executed, slashing>>
      BY <1>1, Zenon DEF StakingCall, slashRows
    <2> QED
      BY <2>1, SlashFrame, SpendKeepsIds, Zenon
  <1>3. amount \in Nat /\ bank \in Banks /\ Timed(bank, lastDeposit)
    BY StakeAssumption, Zenon DEF LockupInv
  <1>4. CASE Stake(v, amount)
    <2> DEFINE b == StakeTokens(bank, v, amount)
               last == [lastDeposit EXCEPT ![v] = bank.epoch]
    <2>1. /\ b \in Banks /\ Timed(b, last)
          /\ b.stakes[v] > 0 /\ b.depositEpochs[v] # NoEpoch
      BY <1>3, <1>4, StakeTimed, Zenon DEF Stake, LockupInv
    <2>2. last \in [Validators -> Int]
      BY DEF LockupInv, Banks
    <2>3. \A w \in Validators : \/ bankDisk.depositEpochs[w] \in {NoEpoch, last[w]}
                                \/ b.stakes[w] > 0 /\ b.depositEpochs[w] # NoEpoch
      BY <2>1 DEF LockupInv, Timed
    <2>4. bank' = b /\ bankDisk' = Persisted(b, bankDisk, fullyRestored) /\ lastDeposit' = last
      BY <1>4, Zenon DEF Stake, SaveBank
    <2> HIDE DEF b, last
    <2>5. Persisted(b, bankDisk, fullyRestored) \in Banks /\ Timed(Persisted(b, bankDisk, fullyRestored), last)
      BY <2>1, <2>3, SavedTimed, Zenon DEF LockupInv
    <2>6. LockupInv'
      BY <2>1, <2>2, <2>4, <2>5, Zenon DEF LockupInv, Timed
    <2> QED
      BY <1>2, <2>6, Zenon
  <1>5. CASE Unstake(v, amount)
    BY <1>2, <1>3, <1>5, UnstakeTimed, LockupSaved, Zenon DEF Unstake
  <1>6. CASE d \in Delegators /\ Delegate(d, v, amount)
    BY <1>2, <1>3, <1>6, DelegateTimed, LockupSaved, Zenon DEF Delegate
  <1>7. CASE d \in Delegators /\ Undelegate(d, v, amount)
    BY <1>2, <1>3, <1>7, UndelegateTimed, LockupSaved, Zenon DEF Undelegate
  <1> QED
    BY <1>4, <1>5, <1>6, <1>7, Zenon

(* execute_slash, one write at a time.                                     *)
LEMMA SlashStepKeeps ==
    ASSUME SlashInv, LockupInv,
           SlashMark \/ SlashPosition \/ SlashPositionFails \/ SlashJail \/ SlashRecord
    PROVE  SlashInv' /\ LockupInv'
  <1>1. /\ UNCHANGED <<budget, fullyRestored, lastDeposit>>
        /\ slashing \in SlashStages \X EvidenceIds \X Nat
    <2>1. \E at \in SlashStages : SlashStep(at)
      <3>1. SlashRecord => SlashStep("record")
        BY DEF SlashRecord
      <3> QED
        BY <3>1, Zenon DEF SlashMark, SlashPosition, SlashPositionFails, SlashJail, SlashStages
    <2>2. PICK at \in SlashStages : SlashStep(at)
      BY <2>1, Zenon
    <2>3. UNCHANGED <<budget, fullyRestored, lastDeposit>> /\ slashing[1] = at
      BY <2>2, Zenon DEF SlashStep
    <2>4. slashing # Idle
      BY <2>3 DEF SlashStages, Idle
    <2> QED
      BY <2>3, <2>4, Zenon DEF SlashInv
  <1> DEFINE id == slashing[2]
             v == AccusedOf[id[2]]
             b == SlashStake(bank, v, slashing[3])
  <1>2. id \in EvidenceIds /\ slashing[3] \in Nat /\ v \in Validators
    BY <1>1, StakeAssumption DEF EvidenceIds
  <1>3. b \in Banks /\ Timed(b, lastDeposit)
    BY <1>2, SlashTimed, Zenon DEF LockupInv
  <1>4. CASE SlashMark
    <2>1. /\ executed' = executed \cup {id} /\ penalties' = penalties
          /\ slashing[1] = "mark" /\ slashing' = [slashing EXCEPT ![1] = "stake"]
          /\ UNCHANGED <<bank, bankDisk>>
      BY <1>4, Zenon DEF SlashMark, SlashStep
    <2>2. SlashInv'
      BY <1>1, <1>2, <2>1 DEF SlashInv, SlashStages, Idle
    <2> QED
      BY <1>1, <2>1, <2>2, LockupFrame, Zenon
  <1>5. CASE SlashPosition
    <2>1. /\ executed' = executed /\ penalties' = [penalties EXCEPT ![id] = @ + 1]
          /\ slashing[1] = "stake" /\ slashing' = [slashing EXCEPT ![1] = "jail"]
          /\ SaveBank(b)
      BY <1>1, <1>5, Zenon DEF SlashPosition, SlashStep, SaveBank
    <2>2. SlashInv'
      BY <1>1, <1>2, <2>1 DEF SlashInv, SlashStages, Idle
    <2> QED
      BY <1>1, <1>3, <2>1, <2>2, LockupSaved, Zenon
  <1>6. CASE SlashPositionFails
    <2>1. /\ executed' = executed /\ slashing[1] = "stake" /\ slashing' = Idle
          /\ penalties' = penalties \/ penalties' = [penalties EXCEPT ![id] = @ + 1]
          /\ bankDisk' = bankDisk /\ (bank' = bank \/ bank' = b)
      BY <1>6, Zenon DEF SlashPositionFails, SlashStep
    <2>2. SlashInv'
      BY <1>1, <1>2, <2>1 DEF SlashInv, SlashStages, Idle
    <2>3. LockupInv'
      BY <1>1, <1>3, <2>1, Zenon DEF LockupInv, Timed
    <2> QED
      BY <2>2, <2>3, Zenon
  <1>7. CASE SlashJail
    <2>1. /\ executed' = executed /\ penalties' = penalties
          /\ slashing' = [slashing EXCEPT ![1] = "record"]
          /\ UNCHANGED <<bank, bankDisk>>
      BY <1>7, Zenon DEF SlashJail, SlashStep
    <2>2. SlashInv'
      BY <1>1, <1>2, <2>1 DEF SlashInv, SlashStages, Idle
    <2> QED
      BY <1>1, <2>1, <2>2, LockupFrame, Zenon
  <1>8. CASE SlashRecord
    <2>1. /\ UNCHANGED <<penalties, executed>> /\ slashing' = Idle
          /\ UNCHANGED <<bank, bankDisk>>
      BY <1>8 DEF SlashRecord
    <2>2. SlashInv'
      BY <1>1, <2>1, SlashFrame, Zenon DEF SlashInv
    <2> QED
      BY <1>1, <2>1, <2>2, LockupFrame, Zenon
  <1> QED
    BY <1>4, <1>5, <1>6, <1>7, <1>8, Zenon

(* The calls that touch no position: evidence, governance, upgrades.       *)
LEMMA OtherCallsKeep ==
    ASSUME SlashInv, LockupInv,
           \/ \E id \in budget.ids : RecordEvidence(id) \/ ConfirmEvidence(id) \/ SlashBegin(id)
           \/ \E class \in {"submit", "vote", "tally"} : GovernanceCall(class)
           \/ UpgradeCall
           \/ StopNode \/ CrashNode
    PROVE  SlashInv' /\ LockupInv'
  <1>1. CASE \E id \in budget.ids : RecordEvidence(id) \/ ConfirmEvidence(id)
    <2>1. Spend("evidence") /\ UNCHANGED <<penalties, executed, slashing, bank, bankDisk, lastDeposit>>
      BY <1>1, Zenon DEF RecordEvidence, ConfirmEvidence, EvidenceCall, staking, ghosts
    <2> QED
      BY <2>1, SlashFrame, SpendKeepsIds, LockupFrame, Zenon
  <1>2. ASSUME NEW id \in budget.ids, SlashBegin(id)
        PROVE  SlashInv' /\ LockupInv'
    <2> DEFINE amount == (bank.stakes[AccusedOf[id[2]]] * SlashBps[id[2]]) \div 10000
    <2>1. /\ Spend("evidence") /\ UNCHANGED <<penalties, executed, bank, bankDisk, lastDeposit>>
          /\ id \notin executed /\ slashing' = <<"mark", id, amount>>
      <3>1. EvidenceCall /\ id \notin executed /\ slashing' = <<"mark", id, amount>>
        BY <1>2 DEF SlashBegin
      <3> HIDE DEF amount
      <3>2. Spend("evidence") /\ UNCHANGED <<penalties, executed, bank, bankDisk, lastDeposit>>
        BY <3>1, Zenon DEF EvidenceCall, staking, ghosts
      <3> QED
        BY <3>1, <3>2, Zenon
    <2>2. id \in EvidenceIds
      BY Zenon DEF SlashInv
    <2>3. bank.stakes[AccusedOf[id[2]]] \in Nat /\ SlashBps[id[2]] \in Nat
      BY <2>2, StakeAssumption DEF EvidenceIds, LockupInv, Banks
    <2>4. amount \in Nat
      BY <2>3
    <2> HIDE DEF amount
    <2>5. "ids" \in DOMAIN budget' /\ budget'.ids = budget.ids
      BY <2>1, SpendKeepsIds, Zenon
    <2>6. SlashInv'
      BY <2>1, <2>2, <2>4, <2>5 DEF SlashInv, SlashStages, Idle
    <2> QED
      BY <2>1, <2>6, LockupFrame, Zenon
  <1>3. CASE \E class \in {"submit", "vote", "tally"} : GovernanceCall(class)
    <2>1. PICK class \in {"submit", "vote", "tally"} : GovernanceCall(class)
      BY <1>3, Zenon
    <2>2. Spend(class) /\ UNCHANGED <<penalties, executed, slashing, bank, bankDisk, lastDeposit>>
      BY <2>1, Zenon DEF GovernanceCall, staking, slashRows, ghosts
    <2> QED
      BY <2>2, SlashFrame, SpendKeepsIds, LockupFrame, Zenon
  <1>4. CASE UpgradeCall
    <2>1. Spend("upgrade") /\ UNCHANGED <<penalties, executed, slashing, bank, bankDisk, lastDeposit>>
      BY <1>4, Zenon DEF UpgradeCall, staking, slashRows, ghosts
    <2> QED
      BY <2>1, SlashFrame, SpendKeepsIds, LockupFrame, Zenon
  <1>5. CASE StopNode \/ CrashNode
    <2>1. /\ Spend("crash") /\ UNCHANGED <<penalties, executed, bank, bankDisk, lastDeposit>>
          /\ slashing' = slashing \/ slashing' = Idle
      BY <1>5, Zenon DEF StopNode, CrashNode, staking, Untouched
    <2> QED
      BY <2>1, SlashFrame, SpendKeepsIds, LockupFrame, Zenon
  <1> QED
    BY <1>1, <1>2, <1>3, <1>4, <1>5, Zenon

(* A finalized block pays its proposer and may begin an epoch.             *)
LEMMA FinalizeKeeps ==
    ASSUME SlashInv, LockupInv, NEW p \in Validators, NEW leaders, NEW a, NEW m,
           FinalizeEpochBlock(p, leaders, a, m)
    PROVE  SlashInv' /\ LockupInv'
  <1> DEFINE rewarded == RewardValidator(bank, p, Reward)
             entered == IF (chain + 1) % EpochLength = 0 THEN StakingEpochUpdate(rewarded) ELSE rewarded
  <1>1. /\ UNCHANGED <<penalties, executed, slashing, lastDeposit>>
        /\ budget' = [budget EXCEPT !.block = @ - 1, !.missed = @ - Len(leaders)]
        /\ SaveBank(entered)
    BY Zenon DEF FinalizeEpochBlock, SaveBank
  <1>2. "ids" \in DOMAIN budget' /\ budget'.ids = budget.ids
    BY <1>1 DEF SlashInv
  <1>3. rewarded \in Banks /\ Timed(rewarded, lastDeposit)
    BY StakeAssumption DEF LockupInv, RewardValidator, Banks, Timed
  <1> HIDE DEF rewarded
  <1>4. entered \in Banks /\ Timed(entered, lastDeposit)
    BY <1>3 DEF StakingEpochUpdate, Banks, Timed
  <1> QED
    BY <1>1, <1>2, <1>4, SlashFrame, LockupSaved, Zenon

(* What a start may read: all rows, none, or some of them.                 *)
LEMMA RestoredTimed ==
    ASSUME LockupInv, NEW k
    PROVE  /\ EmptyBank \in Banks /\ Timed(EmptyBank, lastDeposit)
           /\ PartlyRestored(bankDisk, k) \in Banks /\ Timed(PartlyRestored(bankDisk, k), lastDeposit)
  <1>1. EmptyBank \in Banks /\ Timed(EmptyBank, lastDeposit)
    BY DEF EmptyBank, Banks, Timed, NoEpoch
  <1> DEFINE stakes == [v \in Validators |-> IF v \in k THEN bankDisk.stakes[v] ELSE 0]
             c1 == [EmptyBank EXCEPT !.epoch = bankDisk.epoch]
             c2 == [c1 EXCEPT !.stakes = stakes]
             c3 == [c2 EXCEPT !.depositEpochs = IF k = Validators THEN bankDisk.depositEpochs ELSE @]
  <1>2. PartlyRestored(bankDisk, k) = c3
    BY Zenon DEF PartlyRestored
  <1>3. stakes \in [Validators -> Nat] /\ bankDisk.epoch \in Nat
    BY DEF LockupInv, Banks
  <1>4. c1 \in Banks /\ c1.depositEpochs = EmptyBank.depositEpochs
    BY <1>1, <1>3 DEF Banks
  <1> HIDE DEF stakes, c1
  <1>5. c2 \in Banks /\ c2.depositEpochs = EmptyBank.depositEpochs
    BY <1>3, <1>4 DEF Banks
  <1> HIDE DEF c2
  <1>6. bankDisk.depositEpochs \in [Validators -> Int]
    BY DEF LockupInv, Banks
  <1>7. c3 \in Banks /\ c3.depositEpochs \in {EmptyBank.depositEpochs, bankDisk.depositEpochs}
    BY <1>5, <1>6 DEF Banks
  <1> HIDE DEF c3
  <1>8. Timed(c3, lastDeposit)
    BY <1>1, <1>7, Zenon DEF LockupInv, Timed
  <1> QED
    BY <1>1, <1>2, <1>7, <1>8, Zenon

(* A start, with the genesis validators staked again if none is active.    *)
LEMMA RestartKeeps ==
    ASSUME SlashInv, LockupInv, NEW b \in Banks, Timed(b, lastDeposit), NEW full, Restart(b, full),
           "ids" \in DOMAIN budget', budget'.ids = budget.ids
    PROVE  SlashInv' /\ LockupInv'
  <1> DEFINE fallback == ActiveValidators(ReplaceValidators(setDisk)) = {}
             again == [v \in Validators |-> v \in GenesisValidators /\ b.stakes[v] = 0]
             staked == [b EXCEPT !.stakes = [v \in Validators |-> IF again[v] THEN GenesisStake ELSE @[v]],
                                 !.depositEpochs = [v \in Validators |-> IF again[v] THEN b.epoch ELSE @[v]]]
             last == [v \in Validators |-> IF again[v] THEN b.epoch ELSE lastDeposit[v]]
  <1>1. /\ UNCHANGED <<penalties, executed, slashing>>
        /\ bank' = IF fallback THEN staked ELSE b
        /\ bankDisk' = IF fallback THEN Persisted(staked, bankDisk, full) ELSE bankDisk
        /\ lastDeposit' = [v \in Validators |-> IF fallback /\ again[v] THEN b.epoch ELSE lastDeposit[v]]
    BY Zenon DEF Restart
  <1>2. SlashInv'
    BY <1>1, SlashFrame, Zenon
  <1> HIDE DEF fallback
  <1>3. CASE ~fallback
    <2>1. lastDeposit' = lastDeposit
      BY <1>1, <1>3 DEF LockupInv
    <2> QED
      BY <1>1, <1>2, <1>3, <2>1, Zenon DEF LockupInv, Timed
  <1>4. CASE fallback
    <2>1. lastDeposit' = last
      BY <1>1, <1>4, Zenon
    <2>2. b.epoch \in Nat
      BY DEF Banks
    <2>3. last \in [Validators -> Int]
      BY <2>2 DEF LockupInv
    <2> DEFINE stakes == [v \in Validators |-> IF again[v] THEN GenesisStake ELSE b.stakes[v]]
               epochs == [v \in Validators |-> IF again[v] THEN b.epoch ELSE b.depositEpochs[v]]
               c == [b EXCEPT !.stakes = stakes]
    <2>4. stakes \in [Validators -> Nat] /\ epochs \in [Validators -> Int]
      BY <2>2, StakeAssumption DEF Banks
    <2>5. c \in Banks /\ c.depositEpochs = b.depositEpochs /\ c.stakes = stakes
      <3> HIDE DEF stakes, epochs
      <3> QED
        BY <2>4 DEF Banks
    <2>6. staked = [c EXCEPT !.depositEpochs = epochs]
      BY <2>5, Zenon
    <2>7. staked \in Banks /\ staked.depositEpochs = epochs /\ staked.stakes = stakes
      <3> HIDE DEF stakes, epochs, c, staked
      <3> QED
        BY <2>4, <2>5, <2>6 DEF Banks
    <2>8. staked \in Banks
      BY <2>7, Zenon
    <2>9. /\ staked.depositEpochs = [v \in Validators |-> IF again[v] THEN b.epoch ELSE b.depositEpochs[v]]
          /\ staked.stakes = [v \in Validators |-> IF again[v] THEN GenesisStake ELSE b.stakes[v]]
      BY <2>7, Zenon
    <2> HIDE DEF staked
    <2>10. Timed(staked, last)
      BY <2>9 DEF Timed
    <2>11. \A v \in Validators : \/ bankDisk.depositEpochs[v] \in {NoEpoch, last[v]}
                                 \/ staked.stakes[v] > 0 /\ staked.depositEpochs[v] # NoEpoch
      BY <2>2, <2>9, StakeAssumption DEF LockupInv, Timed, NoEpoch
    <2> HIDE DEF last
    <2>12. Persisted(staked, bankDisk, full) \in Banks /\ Timed(Persisted(staked, bankDisk, full), last)
      BY <2>8, <2>10, <2>11, SavedTimed, Zenon DEF LockupInv
    <2> QED
      BY <1>1, <1>2, <1>4, <2>1, <2>3, <2>8, <2>10, <2>12, Zenon DEF LockupInv, Timed
  <1> QED
    BY <1>3, <1>4, Zenon

(***************************************************************************)
(* The invariant.                                                          *)
(***************************************************************************)

(* At genesis every founder has its stake and a timer at epoch 0.          *)
LEMMA StakeInitInv ==
    ASSUME StakeInit
    PROVE  SlashInv /\ LockupInv
  <1>1. SlashInv
    BY StakeAssumption DEF StakeInit, SlashInv, Idle
  <1> DEFINE stakes == [v \in Validators |-> IF v \in GenesisValidators THEN GenesisStake ELSE 0]
             epochs == [v \in Validators |-> IF v \in GenesisValidators THEN 0 ELSE NoEpoch]
             b == [epoch |-> 0, stakes |-> stakes, depositEpochs |-> epochs,
                   delegations |-> EmptyBank.delegations, delegationEpochs |-> EmptyBank.delegationEpochs]
  <1>2. bank = b /\ bankDisk = b /\ lastDeposit = epochs
    BY Zenon DEF StakeInit, EmptyBank
  <1>3. /\ stakes \in [Validators -> Nat] /\ epochs \in [Validators -> Int]
        /\ EmptyBank.delegations \in [Delegations -> Nat]
        /\ EmptyBank.delegationEpochs \in [Delegations -> Int]
    BY StakeAssumption DEF EmptyBank, NoEpoch
  <1> HIDE DEF stakes, epochs
  <1>4. b \in Banks /\ b.depositEpochs = epochs
    BY <1>3 DEF Banks
  <1> HIDE DEF b
  <1> QED
    BY <1>1, <1>2, <1>3, <1>4 DEF LockupInv, Timed

(* Every operation keeps both invariants.                                  *)
LEMMA StakeStepInv ==
    ASSUME SlashInv, LockupInv, [StakeNext]_stakeVars
    PROVE  SlashInv' /\ LockupInv'
  <1>1. CASE UNCHANGED stakeVars
    <2>1. UNCHANGED <<penalties, executed, slashing, budget, bank, bankDisk, lastDeposit>>
      BY <1>1, Zenon DEF stakeVars, staking, slashRows, ghosts
    <2> QED
      BY <2>1, SlashFrame, LockupFrame, Zenon DEF SlashInv
  <1>2. CASE \E v \in Validators, a \in Amounts : Stake(v, a) \/ Unstake(v, a)
    BY <1>2, StakingStep, Zenon
  <1>3. CASE \E d \in Delegators, v \in Validators, a \in Amounts : Delegate(d, v, a) \/ Undelegate(d, v, a)
    BY <1>3, StakingStep, Zenon
  <1>4. CASE \E id \in budget.ids : RecordEvidence(id) \/ ConfirmEvidence(id) \/ SlashBegin(id)
    BY <1>4, OtherCallsKeep, Zenon
  <1>5. CASE SlashMark \/ SlashPosition \/ SlashPositionFails \/ SlashJail \/ SlashRecord
    BY <1>5, SlashStepKeeps, Zenon
  <1>6. CASE \/ \E body \in budget.bodies : Submit(body, chain + 1)
             \/ \E id \in DOMAIN gov : Tally(id)
             \/ \E id \in DOMAIN gov, w \in Voters, o \in VoteOptions, q \in Powers : Vote(id, w, o, q)
    <2>1. \E class \in {"submit", "vote", "tally"} : GovernanceCall(class)
      BY <1>6, Zenon DEF Submit, Tally, Vote
    <2> QED
      BY <2>1, OtherCallsKeep, Zenon
  <1>7. CASE \/ \E u \in Upgrades, n \in Versions, k \in 1 .. 2 : SubmitUpgrade(u, n, chain + k)
             \/ \E u \in Upgrades, w \in Voters, q \in Powers : VoteUpgrade(u, w, q)
             \/ \E u \in Upgrades, k \in 1 .. 2 : Schedule(u, chain + k)
             \/ Prune
    <2>1. UpgradeCall
      BY <1>7, Zenon DEF SubmitUpgrade, VoteUpgrade, Schedule, Prune
    <2> QED
      BY <2>1, OtherCallsKeep, Zenon
  <1>8. ASSUME NEW p \in Validators, NEW leaders, NEW a, NEW m, FinalizeEpochBlock(p, leaders, a, m)
        PROVE  SlashInv' /\ LockupInv'
    BY <1>8, FinalizeKeeps, Zenon
  <1>9. CASE StopNode \/ CrashNode
    BY <1>9, OtherCallsKeep, Zenon
  <1>10. CASE RestartFull
    <2>1. Restart(bankDisk, TRUE) /\ budget' = budget
      BY <1>10, Zenon DEF RestartFull
    <2>2. "ids" \in DOMAIN budget' /\ budget'.ids = budget.ids
      BY <2>1, Zenon DEF SlashInv
    <2> QED
      BY <2>1, <2>2, RestartKeeps, Zenon DEF LockupInv
  <1>11. CASE RestartLossy
    <2>1. "ids" \in DOMAIN budget' /\ budget'.ids = budget.ids
      BY <1>11, SpendKeepsIds, Zenon DEF RestartLossy
    <2>2. PICK b \in {EmptyBank} \cup {PartlyRestored(bankDisk, ToSet(k)) : k \in Prefixes(RowOrder)} :
              Restart(b, FALSE)
      BY <1>11, Zenon DEF RestartLossy
    <2>3. b \in Banks /\ Timed(b, lastDeposit)
      BY <2>2, RestoredTimed, Zenon
    <2> QED
      BY <2>1, <2>2, <2>3, RestartKeeps, Zenon
  <1> QED
    BY <1>1, <1>2, <1>3, <1>4, <1>5, <1>6, <1>7, <1>8, <1>9, <1>10, <1>11, Zenon DEF StakeNext

(* execute_slash: whatever fails or crashes between its writes, and however *)
(* often evidence is recorded and confirmed again, it takes stake once.    *)
THEOREM SlashedOnceTheorem == StakeInit /\ [][StakeNext]_stakeVars => []SlashedOncePerEvidence
  <1>1. SlashInv => SlashedOncePerEvidence
    BY DEF SlashInv, SlashedOncePerEvidence
  <1> QED
    BY <1>1, StakeInitInv, StakeStepInv, PTL

(* unstake_tokens: a validator withdraws only when the lockup of its last  *)
(* deposit has passed, whatever was slashed, saved or partly restored.     *)
THEOREM LockupTheorem == StakeInit /\ [][StakeNext]_stakeVars => LockupHolds
  <1>1. ASSUME LockupInv, NEW v \in Validators, NEW a \in Amounts, Unstake(v, a)
        PROVE  lastDeposit[v] # NoEpoch /\ bank.epoch >= lastDeposit[v] + Lockup
    BY <1>1, Zenon DEF Unstake, CanUnstake, Matured, LockupInv, Timed
  <1>2. ASSUME LockupInv, [StakeNext]_stakeVars
        PROVE  [\A v \in Validators, a \in Amounts :
                   Unstake(v, a) => lastDeposit[v] # NoEpoch /\ bank.epoch >= lastDeposit[v] + Lockup]_stakeVars
    BY <1>1, <1>2, Zenon
  <1> QED
    BY <1>2, StakeInitInv, StakeStepInv, PTL DEF LockupHolds
=============================================================================
