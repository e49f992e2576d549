---------------------------- MODULE DagScheduler ----------------------------
(***************************************************************************)
(* The dependency graph of a campaign (.autodev/task-graph.json) and the   *)
(* operations the trusted controllers apply to it                          *)
(* (.github/trusted/dag_controller.py).  Each operation is one pure        *)
(* function from a validated payload to a new payload, which the caller    *)
(* then stores with one compare-and-swap; here it is one atomic step.      *)
(*                                                                         *)
(* A task object is abstracted to its id, the declared order of the        *)
(* payload's "tasks" list to Rank, and the checks of a malformed payload   *)
(* to GraphAssumption: validate_graph_payload raises on a payload that     *)
(* does not satisfy it.                                                    *)
(***************************************************************************)
EXTENDS Naturals

CONSTANTS
    Task,       \* ids of the graph's nodes
    Deps,       \* Deps[t]: the tasks that t depends on
    Rank,       \* Rank[t]: position of t in the declared order
    NoTask      \* "no task" (None)

\* What validate_graph_payload establishes: dependencies name tasks of the
\* graph, and every set of tasks has one that depends on none of the others
\* (no cycle).  A list gives each node a position of its own.
GraphAssumption ==
    /\ NoTask \notin Task
    /\ Deps \in [Task -> SUBSET Task]
    /\ Rank \in [Task -> Nat]
    /\ \A t, u \in Task : Rank[t] = Rank[u] => t = u
    /\ \A S \in SUBSET Task : S # {} => \E t \in S : Deps[t] \cap S = {}

ASSUME DagGraphAssumption == GraphAssumption

Status == {"PENDING", "RUNNING", "WAITING_REVIEW", "HUMAN_WAIT",
           "COMPLETED", "FAILED"}

VARIABLE graph      \* graph[t]: the status of node t

-----------------------------------------------------------------------------
\* Pure operations on a payload g \in [Task -> Status].

\* Mutant of Runnable: a dependency that waits for its review counts as done.
RunnableOnReview(g) ==
    {t \in Task : /\ g[t] = "PENDING"
                  /\ \A d \in Deps[t] : g[d] \in {"COMPLETED", "WAITING_REVIEW"}}

Runnable(g) ==
    {t \in Task : g[t] = "PENDING" /\ \A d \in Deps[t] : g[d] = "COMPLETED"}

\* Mutant of Selected: no task is activated while one is parked.
SelectedUnlessParked(g, n) ==
    IF \E t \in Task : g[t] \in {"RUNNING", "WAITING_REVIEW"}
    THEN n = NoTask
    ELSE \/ n = NoTask /\ Runnable(g) = {}
         \/ n \in Runnable(g) /\ \A u \in Runnable(g) : Rank[n] <= Rank[u]

\* n is the task that activation selects from g, or NoTask: nothing is
\* activated while a task runs, otherwise the first runnable in order.
Selected(g, n) ==
    IF \E t \in Task : g[t] = "RUNNING"
    THEN n = NoTask
    ELSE \/ n = NoTask /\ Runnable(g) = {}
         \/ n \in Runnable(g) /\ \A u \in Runnable(g) : Rank[n] <= Rank[u]

Activated(g, n) ==
    IF n = NoTask THEN g ELSE [g EXCEPT ![n] = "RUNNING"]

WithStatus(g, t, s) == [g EXCEPT ![t] = s]

UnfinishedWork(g) ==
    \E t \in Task : g[t] \notin {"COMPLETED", "FAILED"}

\* Each operation of the controller as a relation: from g, for task t, the
\* new payload h and the successor n that it returns.  A task in any other
\* status raises TrustedDagError, so the relation is empty.
AdvanceResult(g, t, h, n) ==
    /\ g[t] = "RUNNING"
    /\ LET mid == WithStatus(g, t, "COMPLETED")
       IN  Selected(mid, n) /\ h = Activated(mid, n)

ParkResult(g, t, h, n) ==
    /\ g[t] \in {"RUNNING", "WAITING_REVIEW"}
    /\ LET mid == WithStatus(g, t, "WAITING_REVIEW")
       IN  Selected(mid, n) /\ h = Activated(mid, n)

\* Mutant of ReconcileResult: the merge of a parked task is recorded, and
\* nothing is activated after it.
ReconcileOnly(g, t, h, n) ==
    /\ g[t] \in {"WAITING_REVIEW", "COMPLETED"}
    /\ h = WithStatus(g, t, "COMPLETED") /\ n = NoTask

ReconcileResult(g, t, h, n) ==
    \/ g[t] = "COMPLETED" /\ h = g /\ n = NoTask
    \/ /\ g[t] = "WAITING_REVIEW"
       /\ LET mid == WithStatus(g, t, "COMPLETED")
          IN  Selected(mid, n) /\ h = Activated(mid, n)

-----------------------------------------------------------------------------
\* A fresh plan: every task pending but the first, which has no dependencies
\* and is running.
Init ==
    \E first \in Task :
        /\ Deps[first] = {}
        /\ \A u \in Task : Rank[first] <= Rank[u]
        /\ graph = [t \in Task |-> IF t = first THEN "RUNNING" ELSE "PENDING"]

Advance(t) ==
    \E n \in Task \cup {NoTask} :
        AdvanceResult(graph, t, graph', n)

ParkForReview(t) ==
    \E n \in Task \cup {NoTask} :
        ParkResult(graph, t, graph', n)

ReconcileReview(t) ==
    \E n \in Task \cup {NoTask} :
        ReconcileResult(graph, t, graph', n)

Next ==
    \E t \in Task : Advance(t) \/ ParkForReview(t) \/ ReconcileReview(t)

Spec == Init /\ [][Next]_graph

\* Every running task's pull request is eventually resolved, and every
\* parked one eventually merged.
FairSpec ==
    /\ Spec
    /\ \A t \in Task : WF_graph(Advance(t)) /\ WF_graph(ReconcileReview(t))

-----------------------------------------------------------------------------
TypeOK == graph \in [Task -> Status]

\* A task that has left PENDING has all its dependencies COMPLETED: parking a
\* task for review, whatever is then activated and however late its merge is
\* reconciled, never starts a dependent early.
DependencySafety ==
    \A t \in Task :
        graph[t] # "PENDING" => \A d \in Deps[t] : graph[d] = "COMPLETED"

\* The controllers keep one active task: no order of parking, completion and
\* late reconciliation leads to two RUNNING nodes.
AtMostOneRunning ==
    \A t, u \in Task : graph[t] = "RUNNING" /\ graph[u] = "RUNNING" => t = u

\* No safe work is left idle: whenever nothing runs, nothing is runnable.
WorkConserving ==
    (\A t \in Task : graph[t] # "RUNNING") => Runnable(graph) = {}

\* What no step may do: reopen a completed task, or take a parked task
\* anywhere but to COMPLETED.
ReviewIsFinal ==
    [][ \A t \in Task :
           /\ graph[t] = "COMPLETED" => graph'[t] = "COMPLETED"
           /\ graph[t] = "WAITING_REVIEW" =>
                 graph'[t] \in {"WAITING_REVIEW", "COMPLETED"} ]_graph

\* A late merge does not disturb the task that runs meanwhile.
LateMergeIsQuiet ==
    [][ \A t, u \in Task :
           /\ graph[t] = "WAITING_REVIEW"
           /\ graph'[t] = "COMPLETED"
           /\ graph[u] = "RUNNING"
           => graph'[u] = "RUNNING" ]_graph

\* If every review ends in a merge, every task of the plan completes.
PlanCompletes == <>(\A t \in Task : graph[t] = "COMPLETED")

=============================================================================
