------------------------------ MODULE GasMeter ------------------------------
(***************************************************************************)
(* The per-transaction gas meter (execution/src/gas.rs): memory expansion, *)
(* cold and warm accesses, net-metered SSTORE with its refund counter.     *)
(* Gas stays far below 2^64 here, so the saturating operations are exact.  *)
(***************************************************************************)
EXTENDS Integers, FiniteSets

CONSTANTS
    SlotKeys, AccountKeys,
    Words,              \* the values a slot may hold; 0 is one of them
    MemoryEnds,         \* the ends, in words, of the memory ranges touched
    PrecompileCosts,    \* what precompile_gas may return
    Unpayable,          \* u64::MAX, its answer to a malformed input
    GasLimits,
    MaxCharges          \* bound on the charges made by one transaction

(* A transaction touches finitely many slots, and memory grows to a size. *)
ASSUME GasAssumption == IsFiniteSet(SlotKeys) /\ MemoryEnds \subseteq Nat

VARIABLES
    gasLimit, gasUsed, gasRefund, memoryWords, warmStorage, warmAccounts,
    original,     \* the slots at the beginning of the transaction
    current,      \* the slots now
    memoryGas,    \* history: the gas charged for memory
    charges       \* the number of charges so far

gasVars == <<gasLimit, gasUsed, gasRefund, memoryWords, warmStorage, warmAccounts,
             original, current, memoryGas, charges>>

\* GasSchedule::mainnet
WarmSload == 48
ColdSload == 20
WarmAccount == 10
ColdAccount == 26
SstoreSet == 200
SstoreReset == 50
SstoreClears == 48
SstoreSentry == 23
MemoryGas == 3
MemoryQuotient == 512

-----------------------------------------------------------------------------
(* Costs *)

MemoryCost(words) == words * MemoryGas + (words * words) \div MemoryQuotient

MemoryExpansionCost(old, new) ==
    IF new <= old THEN 0 ELSE MemoryCost(new) - MemoryCost(old)

SloadGas(warm) == IF warm THEN WarmSload ELSE WarmSload + ColdSload

\* The dynamic cost of an SSTORE that is not a no-op, without the cold surcharge.
SstoreCost(orig, cur) ==
    IF orig # cur THEN WarmSload ELSE IF orig = 0 THEN SstoreSet ELSE SstoreReset

\* A slot cleared for the second time is credited again, but the credit it
\* had is not taken back in between.
SstoreRefundKept(orig, cur, new) ==
    IF cur = new \/ orig = 0 THEN 0
    ELSE IF orig = cur THEN (IF new = 0 THEN SstoreClears ELSE 0)
    ELSE IF new = 0 THEN SstoreClears ELSE 0

\* SSTORE_SET_REFUND and SSTORE_RESET_REFUND are zero.
SstoreRefund(orig, cur, new) ==
    IF cur = new \/ orig = 0 THEN 0
    ELSE IF orig = cur THEN (IF new = 0 THEN SstoreClears ELSE 0)
    ELSE IF cur = 0 THEN 0 - SstoreClears
    ELSE IF new = 0 THEN SstoreClears ELSE 0

SstoreGas(orig, cur, new, warm) ==
    (IF cur = new THEN WarmSload ELSE SstoreCost(orig, cur))
        + (IF warm THEN 0 ELSE ColdSload)

-----------------------------------------------------------------------------
(* The meter.  A charge fails when it would pass the limit, and then leaves  *)
(* gas_used alone; the key it touched stays warm.                            *)

GasInit ==
    /\ gasLimit \in GasLimits
    /\ gasUsed = 0 /\ gasRefund = 0 /\ memoryWords = 0
    /\ warmStorage = {} /\ warmAccounts = {}
    /\ original \in [SlotKeys -> Words] /\ current = original
    /\ memoryGas = 0 /\ charges = 0

Affordable(cost) == gasUsed + cost <= gasLimit

Consume(cost) == gasUsed' = IF Affordable(cost) THEN gasUsed + cost ELSE gasUsed

Counted == charges < MaxCharges /\ charges' = charges + 1

ChargeMemory(end) ==
    LET cost == MemoryExpansionCost(memoryWords, end)
    IN  /\ Counted
        /\ Consume(cost)
        /\ memoryWords' = IF Affordable(cost) /\ end > memoryWords THEN end ELSE memoryWords
        /\ memoryGas' = IF Affordable(cost) THEN memoryGas + cost ELSE memoryGas
        /\ UNCHANGED <<gasLimit, gasRefund, warmStorage, warmAccounts, original, current>>

ChargeSload(k) ==
    /\ Counted
    /\ Consume(SloadGas(k \in warmStorage))
    /\ warmStorage' = warmStorage \cup {k}
    /\ UNCHANGED <<gasLimit, gasRefund, memoryWords, warmAccounts, original, current, memoryGas>>

\* The EIP-2200 sentry comes first; the refund delta is applied only when the
\* charge succeeded, and only then does the EVM write the slot.
ChargeSstore(k, new) ==
    LET cost == SstoreGas(original[k], current[k], new, k \in warmStorage)
        refund == gasRefund + SstoreRefund(original[k], current[k], new)
    IN  /\ Counted
        /\ IF gasLimit - gasUsed <= SstoreSentry
           THEN UNCHANGED <<gasUsed, gasRefund, warmStorage, current>>
           ELSE /\ warmStorage' = warmStorage \cup {k}
                /\ Consume(cost)
                /\ IF Affordable(cost)
                   THEN /\ gasRefund' = IF refund < 0 THEN 0 ELSE refund
                        /\ current' = [current EXCEPT ![k] = new]
                   ELSE UNCHANGED <<gasRefund, current>>
        /\ UNCHANGED <<gasLimit, memoryWords, warmAccounts, original, memoryGas>>

ChargeAccountAccess(k) ==
    /\ Counted
    /\ Consume(IF k \in warmAccounts THEN WarmAccount ELSE ColdAccount)
    /\ warmAccounts' = warmAccounts \cup {k}
    /\ UNCHANGED <<gasLimit, gasRefund, memoryWords, warmStorage, original, current, memoryGas>>

\* A malformed input fails before anything is consumed.
ChargePrecompile(cost) ==
    /\ Counted
    /\ IF cost = Unpayable THEN UNCHANGED gasUsed ELSE Consume(cost)
    /\ UNCHANGED <<gasLimit, gasRefund, memoryWords, warmStorage, warmAccounts,
                   original, current, memoryGas>>

\* The transaction ends: the capped refund is settled (apply_refunds,
\* refund_unused), and reset clears the meter for the next transaction, whose
\* original values are the ones this one left.
EndTransaction ==
    /\ Counted
    /\ gasUsed' = 0 /\ gasRefund' = 0 /\ memoryWords' = 0
    /\ warmStorage' = {} /\ warmAccounts' = {}
    /\ original' = current /\ memoryGas' = 0
    /\ UNCHANGED <<gasLimit, current>>

GasNext ==
    \/ \E end \in MemoryEnds : ChargeMemory(end)
    \/ \E k \in SlotKeys : ChargeSload(k) \/ \E new \in Words : ChargeSstore(k, new)
    \/ \E k \in AccountKeys : ChargeAccountAccess(k)
    \/ \E cost \in PrecompileCosts : ChargePrecompile(cost)
    \/ EndTransaction

-----------------------------------------------------------------------------
(* Properties *)

\* The refund counter is worth one clearing refund for each slot that held a
\* value when the transaction began and holds none now, whatever the order of
\* the writes in between: the credits and claw-backs of sstore_gas cancel, and
\* the saturating subtraction of apply_refund_delta never loses one.
RefundsMatchClears ==
    gasRefund = SstoreClears *
                  Cardinality({k \in SlotKeys : original[k] # 0 /\ current[k] = 0})

\* What was charged for memory is the cost of its present size: expanding in
\* steps costs what expanding at once does, and a charge that ran out of gas
\* does not enlarge the memory.
MemoryPaidOnce == memoryGas = MemoryCost(memoryWords)

\* The meter's two running accounts, refunds and memory, are exact after any
\* sequence of charges, those that ran out of gas included.
GasAccounted == RefundsMatchClears /\ MemoryPaidOnce
=============================================================================
