--------------------------- MODULE RecoveryPolicy ---------------------------
(***************************************************************************)
(* What the engine does about a failed task (src/ade/recovery.py and       *)
(* recovery_runtime.py): a pure policy over one record per project, which  *)
(* counts the attempts that were granted to the task and how often the     *)
(* same failure came again in a row.                                       *)
(***************************************************************************)
EXTENDS Naturals

CONSTANTS
    NoTask,
    Budget,         \* RecoveryBudget: how often each attempt is granted
    RepeatLimit     \* identical failures in a row that end the attempts

Failure == {"CI_FAILURE", "MERGE_CONFLICT", "INFRASTRUCTURE", "TIMEOUT",
            "INVALID_IMPLEMENTATION", "RUNTIME_VERIFICATION", "HUMAN_REQUIRED"}

Attempt == {"RETRY", "REPAIR", "REBASE", "REPLAN"}

PolicyAssumption == Budget \in [Attempt -> Nat] /\ RepeatLimit \in Nat \ {0}

NoRecovery == [task |-> NoTask, action |-> "NONE",
               used |-> [x \in Attempt |-> 0], repeated |-> 0]

\* What is tried for a failure, and, once that is used up, instead.
Preferred(kind) ==
    CASE kind = "INFRASTRUCTURE" -> "RETRY"
      [] kind = "MERGE_CONFLICT" -> "REBASE"
      [] kind = "CI_FAILURE" -> "REPAIR"
      [] OTHER -> "REPLAN"

Tried(kind) ==
    IF kind = "INFRASTRUCTURE" THEN {"RETRY"}
    ELSE IF kind \in {"HUMAN_REQUIRED", "RUNTIME_VERIFICATION"} THEN {}
    ELSE {Preferred(kind), "REPLAN"}

\* When no attempt is left.
Ending(kind) ==
    IF kind \in {"MERGE_CONFLICT", "HUMAN_REQUIRED", "RUNTIME_VERIFICATION"}
    THEN "HUMAN_WAIT" ELSE "FAIL"

\* choose_recovery.  Mutant: the budget is granted once more.
ChosenGenerously(kind, used, repeated) ==
    LET left == {x \in Tried(kind) : used[x] <= Budget[x]}
    IN  IF repeated >= RepeatLimit THEN "HUMAN_WAIT"
        ELSE IF Preferred(kind) \in left THEN Preferred(kind)
        ELSE IF left # {} THEN "REPLAN" ELSE Ending(kind)

Chosen(kind, used, repeated) ==
    LET left == {x \in Tried(kind) : used[x] < Budget[x]}
    IN  IF repeated >= RepeatLimit THEN "HUMAN_WAIT"
        ELSE IF Preferred(kind) \in left THEN Preferred(kind)
        ELSE IF left # {} THEN "REPLAN" ELSE Ending(kind)

\* plan_and_persist forgets the record of another task.
Prior(record, t) == IF record.task = t THEN record ELSE NoRecovery

\* advance_recovery after a failure of t, whose fingerprint is that of the
\* last one or not.
Advanced(record, t, kind, again) ==
    LET prior == Prior(record, t)
        repeated == IF again THEN prior.repeated + 1 ELSE 1
        action == Chosen(kind, prior.used, repeated)
    IN  [task |-> t, action |-> action, repeated |-> repeated,
         used |-> [x \in Attempt |-> IF x = action THEN prior.used[x] + 1
                                     ELSE prior.used[x]]]

=============================================================================
