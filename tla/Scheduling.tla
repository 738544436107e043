----------------------------- MODULE Scheduling -----------------------------
(***************************************************************************)
(* The dependency graph of a block's transactions and the scheduler that   *)
(* runs them batch by batch (execution/src/parallel/dependency.rs and      *)
(* scheduler.rs).  Two analyses build a graph from the keys a transaction  *)
(* reads and writes: DependencyGraph, whose edges go from the lower index  *)
(* to the higher, and DependencyAnalyzer.  BlockScheduler runs the tasks   *)
(* whose predecessors are executed, aborts the later one of two that       *)
(* conflict, and accepts it as it is once its retries are used up.         *)
(***************************************************************************)
EXTENDS Integers, FiniteSets, Sequences, FiniteSetsExt

CONSTANTS
    TxCount,       \* transactions in the block, indexed 0 .. TxCount - 1
    StateKeys,     \* the keys of a read or write set
    MaxRetries     \* SchedulerConfig::max_retries

VARIABLES
    rwSets,        \* rw_sets: [reads, writes] of every transaction
    edges,         \* edges and predecessors: pairs <<from, to>>
    reexecution,   \* reexecution_set
    batches,       \* what parallel_batches returned, << >> before
    taskGraph,     \* the graph the tasks are built from
    remaining,     \* tasks not yet accepted: index -> retry_count
    executedIn,    \* the round whose result was accepted: index -> round
    forced,        \* tasks accepted at their last retry
    phase          \* "graph", "batched", "running", "finished"

schedVars ==
    <<rwSets, edges, reexecution, batches, taskGraph, remaining, executedIn, forced, phase>>

TaskIndices == 0 .. TxCount - 1
RwSets == [reads : SUBSET StateKeys, writes : SUBSET StateKeys]

\* ReadWriteSet::raw_conflicts_with: this one reads a key the other writes.
RawConflictsWith(this, other) == this.reads \cap other.writes # {}

WawConflict(this, other) == this.writes \cap other.writes # {}

\* detect_overlaps as it would be if an earlier read of a key that a later
\* transaction writes were no overlap.
DetectOverlapsNoWar(rw) ==
    {p \in TaskIndices \X TaskIndices :
        /\ p[1] < p[2]
        /\ \/ RawConflictsWith(rw[p[2]], rw[p[1]])
           \/ WawConflict(rw[p[1]], rw[p[2]])}

\* DependencyGraph::detect_overlaps and build_edges.
DetectOverlaps(rw) ==
    {p \in TaskIndices \X TaskIndices :
        /\ p[1] < p[2]
        /\ \/ RawConflictsWith(rw[p[2]], rw[p[1]])
           \/ WawConflict(rw[p[1]], rw[p[2]])
           \/ RawConflictsWith(rw[p[1]], rw[p[2]])}

\* ConflictDetector::detect_conflicts for every pair, and the edges that
\* DependencyAnalyzer::analyze keeps.  Only a read after a write follows the
\* block; a write the earlier transaction shares with the later points back.
Analyze(rw) ==
    UNION {LET raw == RawConflictsWith(rw[p[2]], rw[p[1]])
               waw == WawConflict(rw[p[1]], rw[p[2]])
           IN  (IF raw THEN {p} ELSE {}) \cup (IF waw THEN {<<p[2], p[1]>>} ELSE {})
             : p \in {q \in TaskIndices \X TaskIndices : q[1] < q[2]}}

Predecessors(graph, i) == {p[1] : p \in {q \in graph : q[2] = i}}

\* next_parallel_batch: everything whose predecessors are all in "placed".
NextParallelBatch(graph, placed) ==
    {i \in TaskIndices \ placed : Predecessors(graph, i) \subseteq placed}

\* parallel_batches, greedy_schedule and the levels of batched_dag_schedule:
\* the same layers, computed by in-degrees, by rounds and by a fixed point.
Layers(graph) ==
    LET layer[n \in 0 .. TxCount] ==
            IF n = 0 THEN << >>
            ELSE LET before == layer[n - 1]
                     next == NextParallelBatch(graph, UNION {before[k] : k \in DOMAIN before})
                 IN  IF next = {} THEN before ELSE Append(before, next)
    IN  layer[TxCount]

\* ExecutionSchedule::validate, and the count parallel_batches checks.
AllPlaced(layers) == UNION {layers[k] : k \in DOMAIN layers} = TaskIndices

\* detect_cycles: the cycles a depth-first search closes, each given by its
\* members.  The search reports some of the cycles that exist.
Cycles(graph) ==
    {c \in SUBSET TaskIndices :
        /\ c # {}
        /\ \E next \in [c -> c] :
              /\ \A i \in c : <<i, next[i]>> \in graph
              /\ \A s \in SUBSET c : s \notin {{}, c} => \E i \in s : next[i] \notin s}

SchedInit ==
    /\ rwSets \in [TaskIndices -> RwSets]
    /\ \E added \in {{}} \cup {{p} : p \in {q \in TaskIndices \X TaskIndices : q[1] > q[2]}} :
          edges = DetectOverlaps(rwSets) \cup added
    /\ reexecution = {}
    /\ batches = << >>
    /\ taskGraph = {}
    /\ remaining = << >>
    /\ executedIn = [i \in TaskIndices |-> 0]
    /\ forced = {}
    /\ phase = "graph"

\* resolve_cycles, one cycle of its loop: the highest index of the cycle is
\* marked for another execution and loses the edges from the other members.
ResolveCycle ==
    /\ phase = "graph"
    /\ \E c \in Cycles(edges) :
          /\ reexecution' = reexecution \cup {Max(c)}
          /\ edges' = edges \ {<<i, Max(c)>> : i \in c}
    /\ UNCHANGED <<rwSets, batches, taskGraph, remaining, executedIn, forced, phase>>

ParallelBatches ==
    /\ phase = "graph"
    /\ AllPlaced(Layers(edges))
    /\ batches' = Layers(edges)
    /\ phase' = "batched"
    /\ UNCHANGED <<rwSets, edges, reexecution, taskGraph, remaining, executedIn, forced>>

\* build_tasks: from the dependency graph, from the other analysis, or, as
\* BlockExecutionPipeline::schedule does, from no edges.  A graph that cannot
\* be layered gives no tasks.
BuildTasks ==
    /\ phase = "batched"
    /\ taskGraph' \in {edges, Analyze(rwSets), {}}
    /\ AllPlaced(Layers(taskGraph'))
    /\ remaining' = [i \in TaskIndices |-> 0]
    /\ phase' = "running"
    /\ UNCHANGED <<rwSets, edges, reexecution, batches, executedIn, forced>>

\* detect_conflicts_in_batch.
DetectConflictsInBatch(ready) ==
    {j \in ready : \E i \in ready :
        /\ i < j
        /\ \/ RawConflictsWith(rwSets[i], rwSets[j])
           \/ RawConflictsWith(rwSets[j], rwSets[i])
           \/ WawConflict(rwSets[i], rwSets[j])}

\* One turn of the loop of BlockScheduler::execute_block.
ExecuteReady ==
    /\ phase = "running"
    /\ LET executed == {i \in TaskIndices : executedIn[i] > 0}
           ready == {i \in DOMAIN remaining : Predecessors(taskGraph, i) \subseteq executed}
           conflicted == DetectConflictsInBatch(ready)
           spent == {i \in conflicted : remaining[i] >= MaxRetries}
           accepted == (ready \ conflicted) \cup spent
           turn == 1 + Max({executedIn[i] : i \in TaskIndices})
       IN  /\ ready # {}
           /\ executedIn' = [i \in TaskIndices |-> IF i \in accepted THEN turn ELSE executedIn[i]]
           /\ forced' = forced \cup spent
           /\ remaining' = [i \in DOMAIN remaining \ accepted |->
                               remaining[i] + (IF i \in conflicted THEN 1 ELSE 0)]
    /\ UNCHANGED <<rwSets, edges, reexecution, batches, taskGraph, phase>>

\* The loop ends with nothing ready and nothing blocked.
FinishBlock ==
    /\ phase = "running"
    /\ DOMAIN remaining = {}
    /\ phase' = "finished"
    /\ UNCHANGED <<rwSets, edges, reexecution, batches, taskGraph, remaining, executedIn, forced>>

SchedNext == ResolveCycle \/ ParallelBatches \/ BuildTasks \/ ExecuteReady \/ FinishBlock

-----------------------------------------------------------------------------

Before(i, j) == i < j /\ DetectConflictsInBatch({i, j}) # {}

LayerOf(layers, i) == CHOOSE k \in DOMAIN layers : i \in layers[k]

\* Two transactions that touch a key one of them writes keep the order of the
\* block.  The dependency graph puts them in different batches, the earlier
\* first, whatever edge was added by hand, unless the later one was marked for
\* another execution to break a cycle.  The scheduler accepts their results in
\* different rounds, whichever graph its tasks came from, unless the later one
\* had no retry left; and with the dependency graph, or with no graph at all,
\* the earlier one first.
ConflictsKeepBlockOrder ==
    \A i, j \in TaskIndices : Before(i, j) =>
        /\ phase # "graph" /\ j \notin reexecution
              => LayerOf(batches, i) < LayerOf(batches, j)
        /\ executedIn[j] > 0 /\ j \notin forced
              => executedIn[i] # executedIn[j]
        /\ executedIn[j] > 0 /\ j \notin forced \cup reexecution /\ taskGraph \in {edges, {}}
              => executedIn[i] \in 1 .. executedIn[j] - 1
=============================================================================
