---------------------------- MODULE PlanningStart ----------------------------
(***************************************************************************)
(* From a high-level goal to the first provider session.                    *)
(*                                                                         *)
(* A planner run (autonomous_planner_cycle.py, started through              *)
(* completion_planner_cycle.py) reads a checkout, asks a provider for a     *)
(* proposal, validates it and activates it by one write per file, the       *)
(* accepted plan last.  Zero-touch start (zero_touch_start.py) reads all    *)
(* the files, checks that they reconcile and dispatches the first cycle.    *)
(* A control command (control_command.py) submits goals.  Any run may be    *)
(* killed between two writes, any write may be refused, any dispatch may be *)
(* lost.  The cycle and the campaign it starts are CampaignController and   *)
(* ProviderCycle; here they are the few external actions at the end.        *)
(*                                                                         *)
(* The planner and zero-touch start of one concurrency group take turns,    *)
(* but a control branch has two groups: a dispatched run queues by project  *)
(* key, a scheduled one by branch.  Two planner runs may so be at work on   *)
(* the same files, each with the copies it has checked out.                 *)
(*                                                                         *)
(* A request is a number; a plan is the pair of its request and of the      *)
(* proposal it was made from, and stands for the fingerprint of both.       *)
(* Evidence and intelligence files are written but never read here.         *)
(***************************************************************************)
EXTENDS PlannerProposal

CONSTANTS
    Groups,         \* the concurrency groups whose runs work on the branch
    Cron,           \* the group the scheduled runs are in
    First,          \* requests whose campaign has ended before the model begins
    MaxRequests,    \* bound: requests ever made
    Proposals,      \* the proposals a provider may return
    Known,          \* the paths of the repository snapshot
    StepLists,      \* the approval plans' steps considered by DerivedProposalsPass
    MaxAttempts,    \* MAX_NON_QUOTA_ATTEMPTS, 3 in the code
    OffMain,        \* requests whose base branch is not "main"
    MaxFaults       \* bound: kills, refused writes, lost dispatches, failed sessions,
                    \* and jobs begun while another group's is at work

Requests == 1..MaxRequests
MaxRetries == 2                 \* MAX_PROVIDER_ERROR_RETRIES
None == [req |-> 0, prop |-> "none"]
ProposalIds == DOMAIN Proposals
Plans == [req : Requests, prop : ProposalIds]
MaybePlan == Plans \cup {None}

(* A plan is accepted: what validation and compilation say of a proposal. *)
Acceptable(x) ==
    /\ Disposition(Proposals[x], "goal", Known) = "ACCEPTED"
    /\ Activatable(PlanOf(Proposals[x]))

PlanningAssumption ==
    /\ MaxAttempts \in Nat \ {0}
    /\ MaxRequests \in Nat /\ MaxFaults \in Nat /\ Cron \in Groups
    /\ First \in 0..MaxRequests
    /\ First # 0 => \E x \in ProposalIds : Acceptable(x)
ASSUME PlanningConstants == PlanningAssumption

VARIABLES
    goal,           \* planning-goal.json: the request, 0 before the first
    used,           \* requests made so far
    status,         \* autonomous-planner status: request, state, attempt
    files,          \* campaign.json, task-graph.json, cycle-task.json: their plans
    state,          \* state.json: current plan's task, status, queue_exhausted
    accepted,       \* accepted-plan.json
    receipt,        \* zero-touch receipt: plan, dispatch count, younger than 10 minutes
    planner,        \* the planner run of each group
    starter,        \* the zero-touch run of each group
    submit,         \* the control command
    cycle,          \* next-cycle dispatch in flight
    session,        \* checkpoint and lease of the provider session
    target,         \* the target: open, with parked reviews, or complete by its marker
    faults,         \* faults so far
    successor,      \* the request last armed when a request's campaign had ended
    mixed,          \* history: a planner run wrote over what it had not read
    finished        \* history: requests whose campaign ended

files_ == <<files, state, accepted, receipt>>
world == <<cycle, session, target, finished>>
history == <<successor, mixed>>
planningVars == <<goal, used, status, files, state, accepted, receipt, planner, starter,
                  submit, cycle, session, target, faults, successor, mixed, finished>>

\* A run: where it is, what it has read, and (history) whether another run
\* has written any of the files since.
NoPlanning == [pc |-> "idle", req |-> 0, prev |-> 0, settled |-> FALSE, plan |-> None,
               free |-> FALSE, eligible |-> FALSE, overtaken |-> FALSE]

NotStarting == [pc |-> "idle", plan |-> None]

Files == {"campaign", "graph", "cycle"}

\* The project as it is found: fresh, or with the last of its campaigns ended.
FirstPlan == IF First = 0 THEN None
             ELSE [req |-> First, prop |-> CHOOSE x \in ProposalIds : Acceptable(x)]

PlanningInit ==
    /\ goal = First /\ used = First
    /\ status = [req |-> First, state |-> IF First = 0 THEN "NONE" ELSE "ACCEPTED",
                 attempt |-> IF First = 0 THEN 0 ELSE 1]
    /\ files = [f \in Files |-> FirstPlan]
    /\ state = [cur |-> None, status |-> "READY", exhausted |-> First # 0]
    /\ accepted = FirstPlan
    /\ receipt = [plan |-> FirstPlan, count |-> IF First = 0 THEN 0 ELSE 1, recent |-> FALSE]
    /\ planner = [g \in Groups |-> NoPlanning]
    /\ starter = [g \in Groups |-> NotStarting]
    /\ submit = "idle"
    /\ cycle = FALSE
    /\ session = [plan |-> FirstPlan, st |-> IF First = 0 THEN "NONE" ELSE "COMPLETED"]
    /\ target = "open"
    /\ faults = 0
    /\ successor = [r \in Requests |-> 0] /\ mixed = FALSE
    /\ finished = 1..First

-----------------------------------------------------------------------------
(* Control command: submit_goal reads the state, then writes the goal.      *)

CheckIdle ==
    /\ submit = "idle" /\ used < MaxRequests
    /\ state.cur = None
    /\ submit' = "put"
    /\ UNCHANGED <<goal, used, status, files_, planner, starter, world, faults, history>>

PutGoal ==
    /\ submit = "put" /\ used < MaxRequests
    /\ submit' = "idle"
    /\ used' = used + 1 /\ goal' = used + 1
    /\ UNCHANGED <<status, files_, planner, starter, world, faults, history>>

-----------------------------------------------------------------------------
(* A planner run.                                                           *)

(* The jobs of one group take turns. *)
GroupFree(g) == planner[g].pc = "idle" /\ starter[g].pc = "idle"

(* A job begins when its group is free, beside the other group's or not. *)
Begin(g) ==
    /\ GroupFree(g)
    /\ IF \A h \in Groups : GroupFree(h) THEN UNCHANGED faults
       ELSE faults < MaxFaults /\ faults' = faults + 1

(* The other groups' planner runs, while at work, are overtaken by a write. *)
Overtaking(g, runs) ==
    [h \in Groups |-> IF h # g /\ runs[h].pc # "idle" THEN [runs[h] EXCEPT !.overtaken = TRUE]
                      ELSE runs[h]]
Mixing(g) == mixed' = (mixed \/ planner[g].overtaken)

Activity == {"RUNNING", "HUMAN_WAIT", "PAUSED_QUOTA", "BLOCKED", "FAILED"}

(* Mutant of MayActivate: the current task is not looked at. *)
MayActivateBusy(s) == s.status \notin Activity

(* build_planning_activation accepts this project state. *)
MayActivate(s) == s.cur = None /\ s.status \notin Activity

(* _eligible_for_successor, on what the run read. *)
EligibleForSuccessor(r, s, st, t) ==
    /\ t # "waits"
    /\ st.req = r /\ st.state = "ACCEPTED"
    /\ s.cur = None /\ s.exhausted

(* Mutant of PreviousAttempt: never resumed. *)
PreviousForgotten(r, st) == 0

PreviousAttempt(r, st) == IF st.req = r THEN st.attempt ELSE 0
Terminal(r, st) == st.req = r /\ st.state \in {"ACCEPTED", "HUMAN_WAIT"}

(* What a run may arm: a new request, or, as the request's name is made     *)
(* from the iteration and the target's head that the run read, the very one *)
(* another run has armed from the same campaign.                            *)
Successors(r) == (({used + 1} \cap Requests) \cup {successor[r]}) \ {0}

(* The job checks the control branch out.  (A run that would find nothing to *)
(* do, its request being settled, changes nothing and is left out.)          *)
BeginPlanning(g) ==
    LET eligible == EligibleForSuccessor(goal, state, status, target)
    IN  /\ Begin(g)
        /\ goal # 0
        /\ ~Terminal(goal, status) \/ (eligible /\ Successors(goal) # {})
        /\ planner' = [planner EXCEPT ![g] =
              [pc |-> "completion", req |-> goal, prev |-> PreviousAttempt(goal, status),
               settled |-> Terminal(goal, status), plan |-> None, free |-> MayActivate(state),
               eligible |-> eligible, overtaken |-> FALSE]]
        /\ UNCHANGED <<goal, used, status, files_, starter, submit, world, history>>

(* The completion goal's marker is in the target: the project has graduated, *)
(* or waits for its parked reviews.  The run only writes the completion      *)
(* status, which nothing reads: with the marker there it makes no difference *)
(* here whether reviews are parked.                                         *)
Graduate(g) ==
    /\ planner[g].pc = "completion" /\ target = "complete"
    /\ planner' = [planner EXCEPT ![g] = NoPlanning]
    /\ UNCHANGED <<goal, used, status, files_, starter, submit, world, faults, history>>

(* The campaign of the request it has read is exhausted: the run replaces   *)
(* the goal, whatever goal there is by now.                                 *)
ArmSuccessor(g) ==
    LET r == planner[g].req
    IN  /\ planner[g].pc = "completion" /\ target # "complete" /\ planner[g].eligible
        /\ \E n \in Successors(r) :
              /\ goal' = n
              /\ used' = IF n > used THEN n ELSE used
              /\ successor' = [successor EXCEPT ![r] = n]
              /\ planner' = Overtaking(g, [planner EXCEPT ![g].pc = "propose", ![g].req = n,
                                                         ![g].prev = 0, ![g].settled = FALSE])
        /\ Mixing(g)
        /\ UNCHANGED <<status, files_, starter, submit, world, faults>>

(* Otherwise the planner proper: nothing to do for a settled request.  (At  *)
(* the bound on requests an eligible run stops here too.)                   *)
EnterPlanner(g) ==
    /\ planner[g].pc = "completion" /\ target # "complete"
    /\ planner[g].eligible => Successors(planner[g].req) = {}
    /\ planner' = [planner EXCEPT ![g] = IF planner[g].settled THEN NoPlanning
                                         ELSE [planner[g] EXCEPT !.pc = "propose"]]
    /\ UNCHANGED <<goal, used, status, files_, starter, submit, world, faults, history>>

SetStatus(g, st, attempt) ==
    /\ status' = [req |-> planner[g].req, state |-> st, attempt |-> attempt]
    /\ planner' = Overtaking(g, [planner EXCEPT ![g] = NoPlanning])
    /\ Mixing(g)
    /\ UNCHANGED <<goal, used, files_, starter, submit, world, faults, successor>>

(* A retryable failure, the last one a terminal wait. *)
FailAttempt(g) ==
    LET attempt == planner[g].prev + 1
    IN  SetStatus(g, IF attempt >= MaxAttempts THEN "HUMAN_WAIT" ELSE "REPLAN", attempt)

(* No capacity: admission refused, or the provider's quota or precondition. *)
QuotaPause(g) ==
    /\ planner[g].pc = "propose"
    /\ SetStatus(g, "PAUSED_QUOTA", planner[g].prev)

(* The target is invisible to the provider, or it refuses the credentials. *)
ProviderRefuses(g) ==
    /\ planner[g].pc = "propose"
    /\ SetStatus(g, "HUMAN_WAIT", planner[g].prev + 1)

ProviderFails(g) == planner[g].pc = "propose" /\ FailAttempt(g)

(* A proposal comes back; what is done with it is decided by validation and *)
(* by the project state the run has read.                                   *)
Propose(g, x) ==
    /\ planner[g].pc = "propose"
    /\ CASE Disposition(Proposals[x], "goal", Known) = "HUMAN_WAIT" ->
              SetStatus(g, "HUMAN_WAIT", planner[g].prev + 1)
         [] Acceptable(x) /\ planner[g].free ->
              /\ planner' = [planner EXCEPT ![g].pc = "campaign",
                                            ![g].plan = [req |-> planner[g].req, prop |-> x]]
              /\ UNCHANGED <<goal, used, status, files_, starter, submit, world,
                             faults, history>>
         [] OTHER -> FailAttempt(g)

(* Mutant of AfterWrite: the accepted plan before the graph. *)
AfterWriteVisibleFirst ==
    [campaign |-> "accepted", accepted |-> "graph", graph |-> "cycle", cycle |-> "state",
     state |-> "status", status |-> "dispatch"]

(* The order of the writes of an activation. *)
AfterWrite == [campaign |-> "graph", graph |-> "cycle", cycle |-> "state", state |-> "status",
               status |-> "accepted", accepted |-> "dispatch"]
Writing(g) == planner[g].pc \in DOMAIN AfterWrite

PersistActivation(g) ==
    LET w == planner[g].pc
        P == planner[g].plan
    IN  /\ Writing(g)
        /\ planner' = Overtaking(g, [planner EXCEPT ![g].pc = AfterWrite[w]])
        /\ Mixing(g)
        /\ files' = IF w \in Files THEN [files EXCEPT ![w] = P] ELSE files
        /\ state' = IF w = "state" THEN [cur |-> P, status |-> "READY", exhausted |-> FALSE]
                    ELSE state
        /\ status' = IF w = "status"
                     THEN [req |-> P.req, state |-> "ACCEPTED", attempt |-> planner[g].prev + 1]
                     ELSE status
        /\ accepted' = IF w = "accepted" THEN P ELSE accepted
        /\ UNCHANGED <<goal, used, receipt, starter, submit, world, faults, successor>>

(* A refused write raises: the attempt fails where it stands. *)
WriteRefused(g) ==
    /\ Writing(g) /\ faults < MaxFaults
    /\ faults' = faults + 1
    /\ LET attempt == planner[g].prev + 1
       IN  status' = [req |-> planner[g].req, attempt |-> attempt,
                      state |-> IF attempt >= MaxAttempts THEN "HUMAN_WAIT" ELSE "REPLAN"]
    /\ planner' = Overtaking(g, [planner EXCEPT ![g] = NoPlanning])
    /\ Mixing(g)
    /\ UNCHANGED <<goal, used, files_, starter, submit, world, successor>>

(* The activation asks for zero-touch start; only a warning if that fails.  *)
(* The cron start of BeginStart is there in both cases.                     *)
EndActivation(g) ==
    /\ planner[g].pc = "dispatch"
    /\ planner' = [planner EXCEPT ![g] = NoPlanning]
    /\ UNCHANGED <<goal, used, status, files_, starter, submit, world, faults, history>>

KillPlanner(g) ==
    /\ planner[g].pc # "idle" /\ faults < MaxFaults
    /\ faults' = faults + 1
    /\ planner' = [planner EXCEPT ![g] = NoPlanning]
    /\ UNCHANGED <<goal, used, status, files_, starter, submit, world, history>>

-----------------------------------------------------------------------------
(* Zero-touch start.                                                        *)

(* The campaign and the graph are those the accepted plan compiles to.  The *)
(* plan is compiled here for the default branch, so that the nodes of a     *)
(* request with another base branch never match.                            *)
Reconciles ==
    /\ files["campaign"] = accepted /\ files["graph"] = accepted
    /\ accepted.req \notin OffMain

LeaseLive == session.st = "RUNNING"

(* evaluate_zero_touch_start, on the project state, the checkpoint of the   *)
(* current task, the lease and the receipt.                                 *)
ReceiptFor(P) == IF receipt.plan = P THEN receipt ELSE [plan |-> P, count |-> 0, recent |-> FALSE]
CheckpointOf(P) == IF session.plan = P THEN session.st ELSE "NONE"

StartDisposition ==
    LET P == state.cur
    IN  IF ~Reconciles THEN "BLOCKED"
        ELSE IF state.status = "HUMAN_WAIT" THEN "HUMAN_WAIT"
        ELSE IF state.status \in {"FAILED", "BLOCKED"} THEN "BLOCKED"
        ELSE IF state.status = "PAUSED_QUOTA" THEN "RECOVERING"
        ELSE IF P = None \/ P # accepted \/ files["cycle"] # P THEN "BLOCKED"
        ELSE IF CheckpointOf(P) = "RUNNING" THEN "RECOVERING"
        ELSE IF CheckpointOf(P) = "COMPLETED" THEN "NOOP"
        ELSE IF \/ CheckpointOf(P) = "FAILED"
                \/ CheckpointOf(P) = "PROVIDER_ERROR" /\ ReceiptFor(P).count >= MaxRetries
                \/ LeaseLive /\ session.plan # P THEN "BLOCKED"
        ELSE IF ReceiptFor(P).recent THEN "NOOP"
        ELSE "DISPATCH"

BeginStart(g) ==
    /\ Begin(g)
    /\ accepted # None
    /\ StartDisposition = "DISPATCH"
    /\ starter' = [starter EXCEPT ![g] = [pc |-> "dispatch", plan |-> state.cur]]
    /\ UNCHANGED <<goal, used, status, files_, planner, submit, world, history>>

(* The dispatch is delivered, is lost on the way, or is refused.            *)
DispatchCycle(g) ==
    /\ starter[g].pc = "dispatch"
    /\ \/ /\ cycle' = TRUE /\ starter' = [starter EXCEPT ![g].pc = "receipt"]
          /\ UNCHANGED faults
       \/ /\ faults < MaxFaults /\ faults' = faults + 1
          /\ UNCHANGED cycle
          /\ \/ starter' = [starter EXCEPT ![g].pc = "receipt"]
             \/ starter' = [starter EXCEPT ![g] = NotStarting]
    /\ UNCHANGED <<goal, used, status, files_, planner, submit, session, target, history, finished>>

(* The count is kept up to the retry budget, all it is compared with. *)
WriteReceipt(g) ==
    LET P == starter[g].plan
    IN  /\ starter[g].pc = "receipt"
        /\ receipt' = [plan |-> P, recent |-> TRUE,
                       count |-> IF ReceiptFor(P).count < MaxRetries
                                 THEN ReceiptFor(P).count + 1 ELSE MaxRetries]
        /\ starter' = [starter EXCEPT ![g] = NotStarting]
        /\ UNCHANGED <<goal, used, status, files, state, accepted, planner, submit, world,
                       faults, history>>

KillStarter(g) ==
    /\ starter[g].pc # "idle" /\ faults < MaxFaults
    /\ faults' = faults + 1
    /\ starter' = [starter EXCEPT ![g] = NotStarting]
    /\ UNCHANGED <<goal, used, status, files_, planner, submit, world, history>>

(* Ten minutes pass. *)
ReceiptAges ==
    /\ receipt.recent
    /\ receipt' = [receipt EXCEPT !.recent = FALSE]
    /\ UNCHANGED <<goal, used, status, files, state, accepted, planner, starter, submit,
                   world, faults, history>>

-----------------------------------------------------------------------------
(* External: the cycle, the campaign and the target repository.             *)

CycleStarts ==
    /\ cycle
    /\ cycle' = FALSE
    /\ IF LeaseLive \/ state.cur = None \/ state.cur # files["cycle"]
       THEN UNCHANGED session
       ELSE session' = [plan |-> files["cycle"], st |-> "RUNNING"]
    /\ UNCHANGED <<goal, used, status, files_, planner, starter, submit, target,
                   faults, history, finished>>

SessionEnds ==
    /\ session.st = "RUNNING"
    /\ \E st \in {"COMPLETED", "PROVIDER_ERROR", "FAILED"} :
          /\ st = "COMPLETED" \/ faults < MaxFaults
          /\ faults' = IF st = "COMPLETED" THEN faults ELSE faults + 1
          /\ session' = [session EXCEPT !.st = st]
    /\ UNCHANGED <<goal, used, status, files_, planner, starter, submit, cycle, target,
                   history, finished>>

CampaignEnds ==
    /\ session.st = "COMPLETED" /\ state.cur = session.plan
    /\ state' = [cur |-> None, status |-> "READY", exhausted |-> TRUE]
    /\ finished' = finished \cup {session.plan.req}
    /\ target' \in {"open", "waits", "complete"}
    /\ UNCHANGED <<goal, used, status, files, accepted, receipt, planner, starter,
                   submit, cycle, session, faults, history>>

ReviewsResolve ==
    /\ target = "waits"
    /\ target' = "open"
    /\ UNCHANGED <<goal, used, status, files_, planner, starter, submit, cycle, session,
                   faults, history, finished>>

-----------------------------------------------------------------------------
PlannerAction(g) ==
    \/ BeginPlanning(g) \/ Graduate(g) \/ ArmSuccessor(g) \/ EnterPlanner(g)
    \/ QuotaPause(g) \/ ProviderRefuses(g) \/ ProviderFails(g)
    \/ \E x \in ProposalIds : Propose(g, x)
    \/ PersistActivation(g) \/ EndActivation(g)

StarterAction(g) == BeginStart(g) \/ DispatchCycle(g) \/ WriteReceipt(g)
External == ReceiptAges \/ CycleStarts \/ SessionEnds \/ CampaignEnds \/ ReviewsResolve

PlanningNext ==
    \/ CheckIdle \/ PutGoal
    \/ \E g \in Groups : PlannerAction(g) \/ WriteRefused(g) \/ KillPlanner(g)
    \/ \E g \in Groups : StarterAction(g) \/ KillStarter(g)
    \/ External

(* A started step of a job ends.  The schedule starts the planner and        *)
(* zero-touch start again and again, in its own group only (strongly fair:   *)
(* the group is not held for ever by the other), and the provider's capacity *)
(* comes back.                                                              *)
Fairness ==
    /\ \A g \in Groups :
          /\ WF_planningVars(\/ Graduate(g) \/ ArmSuccessor(g) \/ EnterPlanner(g)
                             \/ PersistActivation(g) \/ EndActivation(g)
                             \/ DispatchCycle(g) \/ WriteReceipt(g))
          /\ SF_planningVars(\/ ProviderRefuses(g) \/ ProviderFails(g)
                             \/ \E x \in ProposalIds : Propose(g, x))
    /\ SF_planningVars(BeginPlanning(Cron)) /\ SF_planningVars(BeginStart(Cron))
    /\ WF_planningVars(ReceiptAges) /\ WF_planningVars(CycleStarts)

PlanningSpec == PlanningInit /\ [][PlanningNext]_planningVars
FairPlanningSpec == PlanningSpec /\ Fairness

-----------------------------------------------------------------------------
PlannerPCs == {"idle", "completion", "propose", "dispatch"} \cup DOMAIN AfterWrite

PlannerRuns == [pc : PlannerPCs, req : 0..MaxRequests, prev : 0..MaxAttempts,
                settled : BOOLEAN, plan : MaybePlan, free : BOOLEAN,
                eligible : BOOLEAN, overtaken : BOOLEAN]

(* Every variable stays in its range. *)
PlanningTypeOK ==
    /\ goal \in 0..MaxRequests /\ used \in 0..MaxRequests
    /\ status \in [req : 0..MaxRequests, attempt : 0..MaxAttempts,
                   state : {"NONE", "ACCEPTED", "HUMAN_WAIT", "PAUSED_QUOTA", "REPLAN"}]
    /\ files \in [Files -> MaybePlan] /\ accepted \in MaybePlan
    /\ state \in [cur : MaybePlan, status : {"READY"}, exhausted : BOOLEAN]
    /\ receipt.plan \in MaybePlan /\ receipt.count \in 0..MaxRetries /\ receipt.recent \in BOOLEAN
    /\ planner \in [Groups -> PlannerRuns]
    /\ starter \in [Groups -> [pc : {"idle", "dispatch", "receipt"}, plan : MaybePlan]]
    /\ submit \in {"idle", "put"} /\ cycle \in BOOLEAN
    /\ session \in [plan : MaybePlan,
                    st : {"NONE", "RUNNING", "COMPLETED", "PROVIDER_ERROR", "FAILED"}]
    /\ target \in {"open", "waits", "complete"}
    /\ faults \in 0..MaxFaults /\ mixed \in BOOLEAN
    /\ successor \in [Requests -> 0..MaxRequests]
    /\ finished \subseteq Requests

(* The accepted plan is written last: the files it is read with are those   *)
(* of the same activation, unless a later request's activation has begun.   *)
AcceptedPlanReconciles ==
    accepted # None =>
        \/ \A f \in Files : files[f] = accepted
        \/ files["campaign"].req > accepted.req

(* A run takes the place of a task that is still current only if another    *)
(* run has written the files since it read them: it decides on a state read *)
(* many writes earlier and never looks again.                               *)
TaskDisplacedUnread ==
    [][state.cur # None /\ state'.cur \notin {None, state.cur} =>
          \E g \in Groups : /\ planner[g].pc = "state" /\ planner'[g].pc = "status"
                            /\ planner[g].overtaken]_planningVars

(* And it replaces a goal whose campaign has not ended only if that goal    *)
(* was put there since it read the files, or if runs had by then written    *)
(* over each other's files.                                                 *)
GoalDisplacedUnread ==
    [][\A g \in Groups :
          planner[g].pc = "completion" /\ planner'[g].pc = "propose" /\ goal' # goal =>
             \/ goal \in finished
             \/ planner[g].req # goal \/ planner[g].overtaken \/ mixed]_planningVars

(* What one would wish, and what two runs at work violate (not checked).    *)
RunningTaskIsKept ==
    [][state.cur # None => state'.cur \in {None, state.cur}]_planningVars
GoalIsKept ==
    [][\A g \in Groups :
          planner[g].pc = "completion" /\ planner'[g].pc = "propose" /\ goal' # goal
             => goal \in finished]_planningVars

(* Failures are counted over runs, kills and pauses: the status goes on to  *)
(* later requests only, and of one request each failed attempt raises the   *)
(* count, so that a request fails at most MAX_NON_QUOTA_ATTEMPTS times.     *)
FailuresAreCounted ==
    \/ status'.req > status.req
    \/ /\ status'.req = status.req /\ status'.attempt >= status.attempt
       /\ status' # status /\ status.state # "ACCEPTED" /\ status'.state = "REPLAN" =>
             status'.attempt > status.attempt
       /\ status.state = "HUMAN_WAIT" => status' = status

(* A goal ends accepted or with a human, unless a newer goal replaces it or *)
(* the target's completion marker ends the project.  (As requests are       *)
(* bounded, it is enough that some goal settles again and again.)           *)
GoalSettles == []<>(goal = 0 \/ target = "complete" \/ Terminal(goal, status))

(* A plan that became visible gets a session, whatever dispatches were lost *)
(* and whichever run was killed, as long as no two runs have mixed files.   *)
AcceptedPlanStarts ==
    []<>(accepted = None \/ session.plan = accepted \/ state.cur # accepted \/ mixed)

(* The derived and grounded proposals of StepLists that validation refuses   *)
(* though they are within the task budget and name few, unprotected paths.   *)
RefusedDerived ==
    {p \in {Grounded(DerivedProposal(steps, "goal", Known, c), Known) :
               steps \in StepLists, c \in BOOLEAN} :
        /\ Len(p.tasks) \in MinTasks..MaxTasks
        /\ \A i \in DOMAIN p.tasks :
              p.tasks[i].paths \cap Protected = {} /\ Cardinality(p.tasks[i].paths) <= MaxPaths
        /\ ~(ValidProposal(p, "goal", Known) /\ Activatable(PlanOf(p)))}

(* A proposal derived from plan steps and grounded in the snapshot is       *)
(* refused only for its size or for a protected path: never for its keys,   *)
(* its dependencies or a path said to be new that exists, or the reverse.   *)
(* (A constant fact, looked at before the first new goal.)                  *)
DerivedProposalsPass == used = First => RefusedDerived = {}

(* What planning leaves in its files agrees, whichever run was killed       *)
(* between two of its writes, and the retries are counted, until a planner  *)
(* run has written over what another group's run wrote since it read.       *)
PlanningConsistent ==
    /\ []PlanningTypeOK /\ [](~mixed => AcceptedPlanReconciles)
    /\ [][~mixed' => FailuresAreCounted]_planningVars

(* No planner run takes the place of work that is not finished, neither of  *)
(* the task nor of the goal, unless that was put there after it had read.   *)
NothingIsDisplaced == TaskDisplacedUnread /\ GoalDisplacedUnread

(* From the goal to the first session: what is derived from a plan passes,  *)
(* each goal settles, and what it was accepted as is started.               *)
GoalsAreServed == []DerivedProposalsPass /\ GoalSettles /\ AcceptedPlanStarts

=============================================================================
