--------------------------- MODULE PlannerProposal ---------------------------
(***************************************************************************)
(* What the planner does to a proposal, as pure operators: a provider's     *)
(* structured proposal, or one derived from the steps of its approval       *)
(* plan, is validated against the trusted policy and the repository         *)
(* snapshot, turned into a plan and compiled into a task graph              *)
(* (src/src/ade/autonomous_planner.py, jules_planner.py,                    *)
(* planner_path_grounding.py, development_plan.py, plan_compiler.py).       *)
(*                                                                         *)
(* A path is a member of Paths.  A field that must be well-formed text     *)
(* within a budget, free of secrets and of planner-protocol wording is the *)
(* Boolean "text"; the shape check of the JSON object is "shape".           *)
(***************************************************************************)
EXTENDS Integers, Sequences, FiniteSets

CONSTANTS
    Paths,          \* the file paths a proposal may name
    Trusted,        \* those below a trusted writable root, concrete files
    Protected,      \* those below a protected prefix
    MinTasks,       \* policy.min_tasks
    MaxTasks,       \* policy.max_tasks
    MaxPaths        \* policy.max_paths_per_task

ProposalAssumption ==
    /\ Trusted \subseteq Paths /\ Protected \subseteq Paths
    /\ MinTasks \in Nat \ {0} /\ MaxTasks \in Nat /\ MaxPaths \in Nat
    /\ MinTasks <= MaxTasks
ASSUME ProposalConstants == ProposalAssumption

MaxPlanTasks == 12          \* DevelopmentPlan: a plan has 1..12 tasks

-----------------------------------------------------------------------------
(* Validation.                                                              *)

PathAllowed(q) == q \in Trusted \ Protected

TaskInBudget(t) ==
    /\ t.text
    /\ t.paths # {} /\ Cardinality(t.paths) <= MaxPaths
    /\ \A q \in t.paths \cup t.new : PathAllowed(q)

(* Every allowed path exists in the snapshot or is declared new, not both.  *)
PathsGrounded(t, known) ==
    /\ t.new \subseteq t.paths
    /\ \A q \in t.paths : (q \in known) # (q \in t.new)

KeysDistinct(ts) == \A i, j \in DOMAIN ts : ts[i].key = ts[j].key => i = j

(* Dependencies are distinct keys of earlier tasks. *)
DependsBackwards(ts, i) ==
    /\ \A a, b \in DOMAIN ts[i].deps : ts[i].deps[a] = ts[i].deps[b] => a = b
    /\ \A a \in DOMAIN ts[i].deps : \E j \in 1..(i - 1) : ts[j].key = ts[i].deps[a]

ValidProposal(p, g, known) ==
    /\ p.shape /\ p.goal = g /\ p.boundaries
    /\ Len(p.tasks) >= MinTasks /\ Len(p.tasks) <= MaxTasks
    /\ KeysDistinct(p.tasks)
    /\ \A i \in DOMAIN p.tasks :
          /\ TaskInBudget(p.tasks[i])
          /\ PathsGrounded(p.tasks[i], known)
          /\ DependsBackwards(p.tasks, i)

(* Human-only tasks and sensitive wording turn a valid proposal into a wait. *)
NeedsHuman(p) == \E i \in DOMAIN p.tasks : p.tasks[i].human

Disposition(p, g, known) ==
    IF ~ValidProposal(p, g, known) THEN "INVALID"
    ELSE IF NeedsHuman(p) THEN "HUMAN_WAIT" ELSE "ACCEPTED"

-----------------------------------------------------------------------------
(* The plan of an accepted proposal: task ids are the positions.            *)

PlanOf(p) ==
    [i \in DOMAIN p.tasks |->
        [deps  |-> {j \in DOMAIN p.tasks :
                       \E a \in DOMAIN p.tasks[i].deps : p.tasks[i].deps[a] = p.tasks[j].key},
         paths |-> p.tasks[i].paths]]

Acyclic(plan) ==
    \A S \in SUBSET DOMAIN plan : S # {} => \E i \in S : plan[i].deps \cap S = {}

PlanValid(plan) ==
    /\ Len(plan) \in 1..MaxPlanTasks
    /\ \A i \in DOMAIN plan :
          /\ plan[i].paths # {} /\ plan[i].paths \cap Protected = {}
          /\ plan[i].deps \subseteq DOMAIN plan \ {i}
    /\ Acyclic(plan)

(* The compiled graph: every node waits. *)
CompiledStatus(plan) == [i \in DOMAIN plan |-> "PENDING"]

(* transition_task: the legal moves of one node of a graph. *)
MayTransition(plan, st, i, target) ==
    CASE st[i] = "PENDING"  -> target = "RUNNING" /\ \A j \in plan[i].deps : st[j] = "COMPLETED"
      [] st[i] = "RUNNING"  -> target \in {"HUMAN_WAIT", "WAITING_REVIEW", "COMPLETED", "FAILED"}
      [] OTHER              -> FALSE

(* Activation starts the first task, which must depend on nothing. *)
Activatable(plan) ==
    /\ PlanValid(plan)
    /\ plan[1].deps = {}
    /\ MayTransition(plan, CompiledStatus(plan), 1, "RUNNING")

-----------------------------------------------------------------------------
(* Proposals derived from the steps of an approval plan: every step with a  *)
(* title that names a path below the allowed roots becomes a task that      *)
(* depends on the task before it.                                           *)

StepPaths(s) == s.paths \cap Trusted

UsableSteps(steps) == SelectSeq(steps, LAMBDA s : s.title /\ StepPaths(s) # {})

(* new_paths: with a complete list of known files, every path not in it;    *)
(* with a truncated list, only for a step that says it creates a file.      *)
DerivedNew(s, known, complete) ==
    IF complete \/ s.creates THEN StepPaths(s) \ known ELSE {}

DerivedProposal(steps, g, known, complete) ==
    LET use == UsableSteps(steps)
    IN  [shape |-> TRUE, goal |-> g, boundaries |-> TRUE,
         tasks |-> [i \in DOMAIN use |->
            [key |-> i, deps |-> IF i = 1 THEN <<>> ELSE <<i - 1>>, text |-> TRUE,
             paths |-> StepPaths(use[i]), new |-> DerivedNew(use[i], known, complete),
             human |-> FALSE]]]

(* ground_derived_plan_new_paths: existence as the snapshot has it. *)
Grounded(p, known) ==
    [p EXCEPT !.tasks = [i \in DOMAIN p.tasks |->
        [p.tasks[i] EXCEPT !.new = p.tasks[i].paths \ known]]]

(* The deterministic planner: a recipe for this request is a chain of tasks, *)
(* one per group of files; it applies only if its groups stay inside the     *)
(* roots and their number is within the task budget.                         *)
RecipeApplies(groups) ==
    /\ Len(groups) \in MinTasks..MaxTasks
    /\ \A i \in DOMAIN groups : groups[i] \subseteq Trusted

RecipeProposal(groups, g, known) ==
    [shape |-> TRUE, goal |-> g, boundaries |-> TRUE,
     tasks |-> [i \in DOMAIN groups |->
        [key |-> i, deps |-> IF i = 1 THEN <<>> ELSE <<i - 1>>, text |-> TRUE,
         paths |-> groups[i], new |-> groups[i] \ known, human |-> FALSE]]]

=============================================================================
