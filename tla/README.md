# A model of the Autonomous Development Engine's controllers

The Autonomous Development Engine (ADE) runs software projects as *campaigns*:
a plan is cut into tasks, each task is given to an external coding agent (a
*provider*) that opens a pull request, and short GitHub Actions jobs move the
campaign from task to task.  There is no server.  All state is a handful of
JSON files on a control branch, which the jobs read and write over the GitHub
REST API, one file at a time; jobs overlap, die, are replaced while they wait,
and are started again by schedules.

This directory models those controllers in TLA+, checks the models with TLC,
and proves most of their safety properties with TLAPS for instances of any
size.  Paths below are relative to the repository; `trusted/` stands for
`.github/trusted/`.

## 1. Inventory

### The control files

| file (under `.autodev/`) | written by | holds |
|---|---|---|
| `task-graph.json` | activation, queue advance, parking, reconciliation | status of each planned task |
| `state.json` | all of them, provider runs, verification, start, successors | current task, status, completed tasks, iteration |
| `task-queue.json` | queue advance, parking, reconciliation | FIFO tasks outside the graph |
| `campaign.json` | activation, queue advance, reconciliation, verification | completed tasks, campaign status |
| `cycle-task.json` | activation, queue advance, parking, reconciliation | the task given to the next provider run |
| `runtime/review-waits.json` | parking, reconciliation | ledger of tasks parked for review |
| `runtime/remote-execution.json` | provider runs, monitor, watchdog | the pull request of the task |
| `runtime/checkpoint.json` | provider and resume runs | the provider session and how it stands |
| `runtime/execution-lease.json` | provider runs | who may create a session |
| `runtime-verification/<task>/…` | monitor, verification, watchdog | contract, receipt and report of a merge |
| `runtime/recovery.json` | PR gate, verification | recovery action and its budgets |
| goal, planning status, accepted plan, start receipt | control command, planner, zero-touch start | the request and the plan made of it |
| review files of a task | multi-agent review, its finalizer | session, observation, contribution, reconciliation, clearance, proof |
| release receipts | release runs | candidate, approval, deployment, verification |
| improvement ledger, frozen chains, backlog | successors and finalizers | signals, chosen candidate, submitted goal |
| `development-memory.json` | verification | what verified merges taught |

### The components

| component | state it keeps | operations | what makes it correct |
|---|---|---|---|
| Trusted DAG scheduler (`trusted/dag_controller.py`) | task graph | advance, park, reconcile a late merge | dependencies before dependents, one running task, never idle with work at hand, all completed in the end |
| Campaign controller (`trusted/ade_pr_gate.py`, `review_wait_controller.py`, `remote_pr_monitor.py`) | graph, state, queue, campaign, cycle task, ledger, receipt | queue advance, parking, reconciliation, monitor run, gate run | files agree; a completion counts once and is never undone; nothing is dropped; a campaign is not declared complete early |
| Recovery policy (`src/ade/recovery*.py`, `trusted/recovery_controller.py`) | recovery record | choose, advance, apply | bounded attempts, each repair accounted for, then a human |
| Execution lease (`src/ade/execution_lease.py`, `execution_lease_store.py`) | lease file | claim | one holder of a task at a time |
| Provider cycle and resume watch (`trusted/provider_cycle.py`, `provider_resume.py`, `src/ade/production_provider_broker.py`) | checkpoint, project status | start, monitor, pause, retry, stop | no session without a reason, bounded retries, the checkpoint names the last session, a stop stays |
| Runtime verification (`trusted/runtime_verification_*.py`, `src/ade/runtime_verification_*.py`) | receipts, reports | arm, dispatch, verify, contain, settle, watch, migrate, retry | no merge escapes, verdicts have reports, a failure stops the project |
| JSON store (`trusted/github_client.py`) | – | conditional put, unconditional upsert, dispatch | a conditional write never overwrites what it did not see |
| Quota admission (`src/ade/quota_scheduler.py`, `trusted/quota_scheduler_runtime.py`) | admission evidence | assess | the limit holds, shares are fair |
| Planning, zero-touch start, control commands (`trusted/autonomous_planner_cycle.py`, `completion_planner_cycle.py`, `zero_touch_start.py`, `control_command.py`) | goal, planning status, accepted plan, start receipt | submit, plan, retry, activate, start | a plan is readable only with its files, failures are bounded, a campaign at work is not displaced |
| Execution engine of the package (`src/ade/routed_execution.py`, `checkpoint_runtime.py`, `repair*.py`, `provider_*.py`) | checkpoint, availability | route, start, monitor, repair, resume | one provider, each session explained, an end is an end |
| Multi-agent delivery (`trusted/multi_agent_review_cycle.py`, `src/ade/multi_agent*.py`) | role session, review files | ask, observe, reconcile, clear, correct, freeze | a clearance stands on a reply that was given |
| Release and deployment (`src/ade/release_*.py`) | candidate, approval, deployment and verification receipts | approve, arm, deploy, observe, verify | deployed once, as approved; what a verdict took is not given back |
| Improvement signals and backlog (`src/ade/improvement_*.py`, `autonomous_backlog*.py`, `trusted/v1_9_*.py`) | ledger, frozen chains, projection | resolve, bridge, select, freeze, submit, retire | no campaign without its receipt, nothing verified is asked for again |
| Development memory (`src/ade/development_memory*.py`, `trusted/v1_5_*.py`, `v1_6_*.py`) | store, evidence, frozen chain, proofs | record, retrieve, freeze, audit, graduate | no record is lost, a graduation rests on what happened |
| Observability, control centre, previews, repository intelligence, pilots, remaining audits | reports | – | read only, or one-off |

`PROJECT.json` lists the same components with their files, and says for each
why it is modelled, partly modelled or not.

### How they interact

    goal --> planner --> accepted plan --> zero-touch start
                                               |
                                               v
    provider cycle <-- ade_next_cycle <-- queue advance <-- runtime verification
      |    ^  lease, quota, routing         ^   | DAG            ^    |
      |    |                                |   | scheduler      |    v
      |    resume watch     reconciliation -+   v                | HUMAN_WAIT,
      |                         ^           parking              | memory record
      v                         |              |                 |
    pull request --> receipt --> remote PR monitor --arm, dispatch
      |                           or PR gate --> recovery: REPAIR, HUMAN_WAIT
      v
    multi-agent review --> clearance           verified campaign --> release
                                               memory, signals --> next goal

* Jobs call each other only by `repository_dispatch` events and by the files.
* `concurrency:` groups serialize the jobs that share a group, and keep *one*
  pending run: a newer one replaces it.  Scheduled jobs are keyed by
  `control_ref`, dispatched ones by `project_key`, so two groups may work on
  the same branch.  The PR gate, the review, the successors and the finalizers
  have groups of their own.  The cron planner is in the second group, and the one
  that `control_command.py` sends in the first: two planners may work at once.
* `put_json_file` sends the blob SHA that was read: a conditional write.
  `upsert_json_file` reads the file again first, so it overwrites what another
  job has stored since the caller's own read.

### What is hard

A kill between two writes; a rerun that must recognise what was done; two jobs
with copies of different ages; a late merge for a parked task; a lease that
expires while its holder waits; a verdict that arrives after the next task was
started; a pending run that is replaced; a chain of files frozen one by one from
a store that grows; an approval overtaken by a new head or a redeployment.
`PROJECT.json` lists these hazards at their lines, with the properties that
would notice them go wrong, and, where none does, the reason.

## 2. The modules

| module | models | actions and code |
|---|---|---|
| `DagScheduler` | the graph and its three operations | `Advance` is `advance_managed_graph`, `ParkForReview` is `park_managed_graph_for_review`, `ReconcileReview` is `reconcile_waiting_review`; each ends in `_activate_first_runnable` (`Runnable`, `Selected`, `Activated`) |
| `ExecutionLease`, `LeaseClaims` | the lease as data, and runs that race for it | `Acquired` is `acquire_lease`; `Call`, `Read`, `Write` are the clock, the GET and the conditional PUT of `claim_execution` |
| `ScheduledClaims` | scheduler and lease composed | `Schedule` moves the graph and dispatches a run for the task that runs, `Claim` is a step of a run, at its own pace |
| `CampaignController` | the jobs that edit the control files | one action per stored file: `Advance*` and `Put*` for `advance_queue`, `Park*`, `Reconcile*`; `Monitor*`; `GateStart`, `GateMerge`; `GateRecover`, `GateStatus`, `GateRepair` for a failed CI run; the provider run as far as it matters here; instantiates `DagScheduler` for the graph and `RecoveryPolicy` for the record |
| `RecoveryPolicy` | the policy as operators | `choose_recovery`, `advance_recovery`, the statuses that an action leads to |
| `ProviderCycle` | the provider run and the resume watch of one task | `StartCycle`, `Claim`, `CreateSession`, `BeginMonitor`, `Poll*`, `WriteCheckpoint`, `SetStatus`, `ResumeRun`, `Fail`, `PreserveFloor`; `Retryable`, `Monitored`, `Rerouted` are the branches of `broker_resume_action` |
| `RuntimeVerification` | what follows a merge | `Arm`, `Dispatch`, `RecordDispatch` (monitor, watchdog, retry), `Advance*`, `Prepare`, `Probe`, `Pass`, `Fail`, `Catch`, `Contain*`, `Settle*`, `Migrate*`, `Watchdog*`, `RetryStart` |
| `QuotaAdmission` | projects on one provider account | `StartRun`, `ReadBranch`, `Decide` are `assess_jules_admission`; `Admits` is `evaluate_quota_admission`, `Ahead` is `_fair_rank`, `Awaited` is `_resume_after`; `Create` is `run_new_cycle` after the admission, `Tick` moves the rolling window |
| `PlannerProposal` | a proposal on its way to a graph, as operators | validation, derivation from steps, grounding of paths, compilation |
| `PlanningStart` | from the goal to the first session | a planner run in each concurrency group, one action per activated file, and what it has read kept in `planner[g]`; `ArmSuccessor` is the completion run that replaces the goal; `BeginStart`, `DispatchCycle`, `WriteReceipt` are the zero-touch start; `CheckIdle`, `PutGoal` are `submit_goal`; the campaign itself is a few external actions |
| `RoutedExecution` | the package's execution engine | routing, `run_checkpointed_cycle` with every save, classification and disposition of failures |
| `MultiAgentReview` | the review of one pull request and its finalizer | one action per file, `Begin` to clearance or correction, by dispatched and scheduled runs; `Park`, `Completes`, `ReceiptMerged` are the monitor beside them; the finalizer's frozen proof with its audit |
| `ReleasePromotion` | candidate to verified environment | one action per durable receipt, and the adapter call |
| `ImprovementLoop` | signals, backlog, successor and finalizer | resolution, bridge and selection as operators; one write step of a run stands for the files of a frozen chain, goal and state are steps of their own; a run may be killed between any two |
| `DevelopmentMemory` | store, three proofs, successors, finalizer | one action per file of the evidence and of the frozen chain |
| `ScheduledClaimsProofs`, `CampaignProofs`, `RuntimeVerificationProofs`, `QuotaAdmissionProofs`, `RoutedExecutionProofs`, `MultiAgentReviewProofs`, `ReleasePromotionProofs`, `DevelopmentMemoryProofs` | – | the proofs |
| `MC*` | – | small instances for TLC |

`PROJECT.json`'s "map" gives the source lines of every definition.

**Composition and refinement.**  `DagScheduler` is the abstract specification
of the task graph: atomic operations on a graph.  `CampaignController` performs
them as read, compute, conditional write, by several jobs that may die.
`GraphImplementsDag` says that the stored graph nevertheless behaves as
`DagScheduler` with `Task <- Managed`.  `ScheduledClaims` composes the scheduler
with the runs that claim the lease, and implements both.  `PlanningStart` uses
the operators of `PlannerProposal`.

**Grain.**  One action is one remote write, with the reads that follow it.  A
file that is read immediately before its own write is one step.  A job's copy
of a file is kept in its `job` record, and whether its SHA is still the stored
one is the write's guard (`SameGraph`, `SameState`, `SameLease`).

**Abstractions.**  A task, a pull request and its head are the task's name where
the head does not matter; a run's id and a message are not represented; time is
relative to what expires; a probe suite is its verdict; contract, registry and
policy fingerprints are one profile number, since the code always compares and
replaces them together.  A fingerprint binds every field of a value, so a value
is its own fingerprint.  A neighbouring component is a single action where a
module of its own has its steps: in `DevelopmentMemory` planning, start, merge
and verdict; in `PlanningStart` the campaign.

**What a module takes for granted.**

* `CampaignController`: no planner writes `task-queue.json`, and the activation
  leaves it alone, so the queued tasks are not of the plan and each is there
  once (`QueueAssumption`); the plan starts with the first of its tasks, which
  depends on none (`PlanAssumption`); the graph is one that
  `validate_graph_payload` accepts (`ManagedAssumption`), the campaign is finite
  and of the project's tasks, and the gate is no concurrency group of the
  workers (`NameAssumption`).  The gate's recovery is that of a self-hosted
  project, and for CI failures: the other kinds have no caller but the
  containment of `RuntimeVerification`.
* `ProviderCycle`: a session is taken up again as `jules.py` does
  (`_reusable_session`).
* `PlanningStart`: the jobs of a group take turns, those of the two groups do
  not; that a job begins beside another group's is one of the counted faults.
  Lost dispatches are healed by the zero-touch watchdog.  Two attempts stand for
  the three of the code, and the project has had one campaign before.
* `ReleasePromotion`: the library is pure and its caller commits each result,
  one run at a time, and finalises with the campaign as it is; one deployment
  receipt for each transition; the adapter is idempotent by its key.  Which
  environment was verified last the caller says, and any environment may be
  asked for: nothing under `src/` keeps it, and the one caller there
  (`v1_8_release_proof_prepare.py`) always begins with the preview.
* `ImprovementLoop`: the scripts run cycle 1, the module the same steps for
  every cycle that the policy allows; a cycle begins when the one before is
  armed and settled; a rerun rebuilds the frozen chain; the order of candidate
  ids is nondeterministic; cycle 1 holds one actionable signal.
* `MultiAgentReview`: review runs are serial; plan and availability are written
  once; no other campaign starts before the proof is frozen; the finalizer reads
  one snapshot, and what it demands of artifacts older than the review (CI and
  gate runs) does not change.  A merge that was verified irregularly (a second
  dispatch, a recovery record, runs of another controller) stays `"merged"` in
  the model: the finalizer refuses it for ever.  A pull request closed without a
  merge is parked like one that nobody merges.  `SendReview` is the predecessor
  `jules_cycle.py`, which sent the review event, as the finalizer expects; see
  the divergences for what today's provider cycle does.
* `DevelopmentMemory`: the event that asks for the planner is not kept (its
  schedule leaves `main` out); the watchdog's repetitions, the human retry and
  the wake-up of a quota pause are left out; run ids and dispatch counts that the
  audits compare agree.

**Operators called "Mutant of …".**  Each property has a variant of one modelled
definition that changes it as a plausible bug would: a dropped guard, a write in
the other order, a missing reset.  TLC must report the property violated when
the variant takes the definition's place.  They are not part of the
specification.

## 3. The runs

Run `tlc -config X.cfg M` in this directory.

| run | instance | distinct states | shows |
|---|---|---|---|
| `dag` (`MCScheduledClaims`) | 5 tasks (a diamond and a free task, declared out of topological order), 2 runs, lease time 1, clock to 3, fairness | 141 k | dependencies, no idling, an attempt is granted once, the plan completes |
| `campaign` (`MCCampaign`) | 4 managed tasks (a chain of two and a single task that join) and a FIFO task, one group or the gate, 2 kills, 1 replaced run, 1 failed CI run, external and self-hosted target, fairness | 56 k | a completion counts once, campaign honest, graph ahead of state, dispatched after merges, nothing dropped; where no job ends part-way, the files agree between jobs, and everything completes if no pending run was replaced |
| `campaign_race` (`MCCampaignRace.cfg`) | 2 tasks, 2 groups and the gate, 1 kill, 5 failed CI runs | 708 k | refinement of `DagScheduler`, completions stand, repairs are counted |
| `provider` | lease 2, job 1 unit, 2 failed requests, 1 kill, 1 repeated dispatch, 4 sessions, fairness | 1.18 M | sessions are accounted for, retries bounded, checkpoint and status consistent, stops hold, the work settles |
| `runtime` | 2 tasks, 2 kills, 1 failed request, 1 replaced run, 1 profile change, fairness | 148 k | verdicts rest on reports, the queue advances once, every merge is armed, what is armed can be found and is served, a wait for a human holds |
| `quota` | shares of 2 and 1 and an unmanaged project on 3 sessions per window, 1 session from outside the policy, fairness | 190 k | admission by rank finds room without a lock, the overshoot is bounded, everyone is served |
| `planning` | 3 requests (the first has ended), 4 kinds of proposal, 2 attempts, 2 groups, 1 fault, fairness | 272 k | until a run writes over what it has not read, the accepted plan is readable only with its files and failures are counted; unfinished work is displaced only by a run that had not read it; goals are served |
| `release` | 2 sources (symmetric) with 2 versions, 2 of the environments, 2 registries, 3 requests | 1.48 M | deployed once and as approved, the verdict is of its own deployment, nothing goes back, and a contained campaign carries nothing on |
| `improvement` | 7 signals of four generations (limit 2), 2 cycles, 1 kill, fairness | 93 k | no campaign without its receipt, no verified improvement asked for again, the projection reconciles, cycles complete |
| `multi_agent` | 2 heads, 2 correction rounds, 2 kills, 1 quota refusal, 2 review events, fairness | 1.19 M | a clearance is earned, the frozen proof is the audited one, sessions are accounted for, a review concludes while its task is current, and a proven merge is frozen |
| `memory` | three proofs, 3 kills or repetitions, 1 failing request, 1 foreign commit, fairness | 172 k | no record is lost, graduations are earned, the frozen chain is of one store, each successor gets done what it may |
| `engine` | 2 providers, 1 retry, 1 replan, 1 fault, 2 kills, fairness | 1.21 M | records true, sessions explained, every task ends once |

### Bounds, and why they are enough

* *Kills* (`MaxCrash`, `MaxKills`): with two, a job dies, and so does the one
  that should repair it; every pair of writes of every job is covered.
* *Replaced runs* (`MaxLost`), *failed requests* (`MaxFault`, `MaxErrors`),
  *repetitions* (`MaxDuplicate`): one loses each message or repeats it at any
  point; the provider run has two failed requests because its retry budget (one
  retry in the model, `MaxRetries`) needs two to be exhausted.
* *Failed CI runs* (`MaxRed`): five exhaust the budgets of a task and begin
  those of the next.
* *Tasks*: two managed tasks show every order between a task and its successor;
  three or four add an independent task that runs while another is parked.  In
  `runtime`, one task is last and one is not, the distinction that the
  containment makes.
* *Time*: the lease outlasts a job by one unit (50 and 45 minutes in the code),
  which is all that the comparisons see.
* *Quota*: with shares of two and one on a limit of three, capacity is scarce,
  protected, borrowed and exhausted in turn; the window and the grace are one
  unit each, since only the order of departures and resumptions is seen.
* *Sessions from outside the policy* (`MaxForeign` of `quota`): an unmanaged
  project or a person takes whatever is free and could starve the shares for
  ever, in the code as in the model; the bound is what `EveryProjectIsServed`
  needs.
* *Heads, rounds, cycles, versions, review events*: two show an answer that is
  overtaken, and a cycle that begins after one that was retired or has failed.
* *Requests of `planning`*: with the first one ended, a second is submitted or
  armed as its successor, and a third meanwhile.  *Environments of `release`*: no
  action compares more than two.
* *Groups*: two, plus the gate; in `planning` the two that its workflow names
  (`autonomous-planner.yml:32` and `:87`).  With two groups of `campaign`,
  `FilesInStep` and `NoTaskIsLost`
  do not hold: between a job's write of the ledger and its write of the state, the
  other group's job overwrites the ledger from an older copy, and the task just
  parked is in neither.  Both are checked, and proved, for one group.

Deadlock is checked in `dag`, whose finished plan stutters by its own action
(a merge reported again for a COMPLETED task), and switched off in the others: a
campaign that is complete, or that waits for a human, rightly stops.

### Fairness, and why the code justifies it

* A job that has begun goes on (`WF` of its steps): a runner executes it; kills
  are separate actions and bounded.
* The monitor, the resume watch, the watchdog and the zero-touch watchdog are
  cron schedules, and a pending run gets its turn when the group is free: `SF`,
  because other jobs of the group may run in between.
* A provider session ends, and a provider that is asked again and again is
  available at some point; a reviewer merges a pull request that is found open
  again and again.  These are assumptions about the outside world, and the
  liveness results say only what follows from them.
* In `quota`, time passes, the resume watch finds a pause that is due, and a run
  that has begun reads on.  Nothing is assumed of when tasks end or begin.
* Successors and finalizers are started by the verification's completion and by
  their own schedules.
* The planner's schedule lists two branches (`ade-jichi-insight` and
  `ade-chu-kei`): `GoalsAreServed` is about those.  A project on another branch
  has its dispatched planner only, and a failed attempt is not repeated.
* In `multi_agent` the schedules of review and finalizer are fair.  Nothing is
  asked of the review events, which are lost or overtaken as they may be, or of
  the monitor, which may park the task at any time.
* Nothing is assumed of the human who may request a verification retry,
  approve a release or change a runtime profile: `release` claims no liveness,
  its workflows run on push and by hand.

### Known divergences

Where documents and code disagree, the model follows the code.  Most of these
are visible in an instance: change the constants as stated and check the named
definition, and TLC shows the behaviour.

| definition and instance | the document | the code |
|---|---|---|
| `CampaignController!RecordOutlivesDispatch`, one group, 1 kill | the review record is removed only after the dispatch succeeded (`review_wait_controller.py`, docstring of `reconcile_review_wait_merge`) | killed after its state write, a reconciliation is retried as if the successor had been current all along: no dispatch, record removed |
| `CampaignController!LedgerKeepsUnfinished`, two groups | the ledger is durable and retains the PR identity until a later merge | two jobs upsert the whole ledger from copies; the later one drops a record |
| `ProviderCycle!SessionIsKept` | a running session stays checkpointed, and is resumed rather than duplicated (`SPEC.md`, `ACCEPTANCE.md`) | one failed request while monitoring replaces the checkpoint; the resume run starts a second session |
| `RuntimeVerification!RuntimeFailureIsNotSilent` | a runtime failure cannot coexist with silent campaign success (`ROADMAP.md`, `ACCEPTANCE.md`) | the queue advances before the verdict; a failure of a task that is not the last raises an error nobody handles, and the campaign completes |
| `MultiAgentReview!ClearedHeadWasReviewed` | the review is of the head that it clears (`ROADMAP.md:253`) | the session's record does not hold the head that was asked about: a push between two runs lets a verdict on the old head clear the new one (`multi_agent_review_cycle.py:728`) |
| `DevelopmentMemory!FeedbackArrives`, no kill, 1 failing request | memory is fed back by every verification (`ROADMAP.md:192`) | the successor's repetition lacks merge, head and number, and the verification refuses it each time (`v1_5_memory_successor.py:93`, `runtime_verification_dispatch.py:445`) |
| `PlanningStart`, `OffMain` not empty | a project on another base branch starts like any other (`ACCEPTANCE.md:209`) | the start compiles the plan for `main`, and never finds it reconciled (`zero_touch_start.py:168`) |
| `ImprovementLoop!ConflictedStays` | competing children fail closed as CONFLICTED (`ROADMAP.md:321`) | the child of a conflicted signal has no rival, becomes CURRENT, and its verification retires its conflicted parent with its lineage (`improvement_lineage_feedback.py`); this takes a `max_generation` of two or more, the default is four (`improvement_signal_resolution.py:79`) |
| `PlanningStart!RunningTaskIsKept`, as in `planning` | "cannot activate a new plan while another task is current" (`planning_activation.py:236`) | the planner reads the state, asks a provider for many minutes, and writes without looking again: the other group's run has made a task current meanwhile, and it is replaced (`autonomous_planner_cycle.py:393`) |
| `PlanningStart!GoalIsKept`, one group is enough | the successor follows a "previous-campaign-exhausted-before-graduation" (`completion_planner_cycle.py`) | the run upserts the goal from what it has read: a goal submitted since is lost (`completion_planner_cycle.py:323`) |

Further ones were met while modelling and have no instance:

* the recovery's failure fingerprint contains the id of the CI run, so only
  repetitions of the same run count as identical (`ACCEPTANCE.md:154`); a REPAIR
  dispatched while the first run's lease is live does nothing
  (`provider_cycle.py:784`), and the attempt is spent; REPLAN has no executor; a
  HUMAN_WAIT of the recovery is left by the next CI failure with another id
  (`ACCEPTANCE.md:153`);
* in the engine, a retry after monitoring drops provider and session from the
  checkpoint (`checkpoint_runtime.py:281`), so a killed call may continue with
  another provider (`ACCEPTANCE.md:96`); a quota pause without a session keeps its
  provider, and routing elsewhere then raises (`checkpoint_runtime.py:142`,
  `ACCEPTANCE.md:107`); `CyclePaused` is classified as UNKNOWN and ends FAILED
  although it "must be resumed later" (`cycle.py:27`); a failed write of
  COMPLETED is recorded as a failure of the session;
* parking writes the graph, with a successor RUNNING, before ledger and state
  (`review_wait_controller.py:221`): killed in between, its rerun activates nobody,
  and that successor is RUNNING in the graph and never current;
* the except clause of the verification contains a failure with the receipt as
  it was read at the start: a verdict that the run itself has just stored as
  VERIFIED becomes HUMAN_WAIT (`runtime_verification_dispatch.py:766`);
* a DISPATCHED verification whose pending run was replaced is looked for by
  nobody: the watchdog re-dispatches ARMED receipts only;
* once two planner runs have written over each other (`mixed` in
  `PlanningStart`), the accepted plan may stand beside files of another plan, and
  a failed attempt may be counted once instead of twice;
* `ROADMAP.md:281` says that no environment is skipped, but the policy trusts the
  environment that it is told was verified last (`release_policy.py:245`), and
  nothing keeps one.  After a release was contained, a transition that had been
  approved before may still be armed and deployed; it cannot be verified any more
  (`ContainmentStands`);
* the review of a pull request has the time that the monitor waits for the merge,
  about twenty minutes (`remote_pr_monitor.py:467`): a pause or a kill that
  outlasts it leaves the task parked, and every later review run has nothing to
  do.  A parked task that merges late is completed, but its receipt stays
  PR_CREATED, so it is never proved; the same if the monitor is killed between
  the queue advance and the receipt;
* the finalizer of the review takes only a dispatched review run that succeeded
  (`v1_7_multi_agent_finalize.py:145`): a clearance that a scheduled run wrote,
  after the dispatched one was killed, is never proved.  If another dispatched
  run ends between two attempts of the finalizer, the provenance it has frozen
  does not match any more, and each later attempt fails.  Today no review event
  is sent at all (`provider_cycle.py:175` dispatches the monitor alone), and the
  workflow that the finalizer asks for, `ADE Jules Cycle` (line 314), is now named
  `ADE Provider Cycle`;
* the gate completes whichever task is current when it advances
  (`ade_pr_gate.py:431`); one parked pull request whose reads fail stops the
  others from being looked at (`remote_pr_monitor.py:248`);
* a review's HUMAN_WAIT decision is printed and nowhere enqueued
  (`ACCEPTANCE.md:288`).

## 4. The proofs

Run `tlapm M.tla`.  The theorems hold for every value of the constants that
satisfies the named assumptions, with no bound on tasks, groups, runs, kills or
steps.  `PROJECT.json` lists the theorems a reader should know of; the lemmas
carry the argument.

**`ScheduledClaimsProofs`** assumes `GraphAssumption`: what
`validate_graph_payload` accepts (each dependency is a task of the graph, the
graph is acyclic) and distinct natural ranks, the places of the tasks in the
list; and `LeaseAssumption`, a positive lease time.

* For the graph the invariant is `GraphInv`: types, "whoever left PENDING has
  its dependencies COMPLETED", "one RUNNING task" and "nothing idle".  None of
  the middle ones is inductive alone: activation is safe because nothing runs,
  and nothing is left idle because the activation comes last.  The argument is
  one lemma, `ActivationSound`; each operation is a change of one node followed
  by an activation.  The action properties `DagReviewIsFinal` and
  `DagLateMergeIsQuiet` use the same invariant.
* For the lease, what makes `LeaseExclusive` inductive is `WriteInv`, about runs
  that have read and not yet written (the lease they will write follows the one
  they have seen), and `FileInv`, which relates the stored lease to every earlier
  grant.  The conditional write joins the two.
* `SchedulerIsImplemented` and `ClaimsAreImplemented` show that the composition
  implements both sides, which carries their theorems over.

Its second part is about `PlanningStart`, and assumes `PlanningConstants` (the
bounds are numbers, the schedule's group is one of the groups).  It is about any
number of groups, each with a planner run at work, with copies of any age.  A
planner run reads the files once and then works for many minutes; the history
variable `planner[g].overtaken` says that another run has written since, and
`mixed` that an overtaken run has written in turn.

* `AlwaysInv` holds whatever the runs do to each other's files.  Its core is
  `RunFree`: what a run that nobody has overtaken saw of the current task is
  still so, because a task is made current by the activation of a run alone, and
  that overtakes all others.  It gives `TaskDisplacedUnread`, one half of
  `PlanningDisplacesNothing`.
* `OrderInv` holds until `mixed`.  `FilesInOrder` is about the files: goal, status
  and accepted plan go from request to request, and what is accepted is at work
  or has ended.  `RunInOrder` is about each run that is `Fresh`: it plans for a
  request no older than the status (`RequestInOrder`), knows how often that has
  failed (`AttemptInOrder`), and what it has activated so far is in the files
  (`ActivatedSoFar`).  As a write overtakes all the other runs, only the writer's
  own part has to be looked at again.  It gives `PlanningIsConsistent`, and the
  other half, `GoalDisplacedUnread`: an eligible run that is fresh read a goal
  whose campaign has ended.
* `RunEffects` and `OtherEffects` first say what each action does to the few
  variables that the invariant is about, so that the argument is about those
  effects and not about each action.

**`CampaignProofs`** is about any number of concurrency groups, but for its last
part.

* `Standing`: a job's snapshot of `state.json` that is still fresh covers the
  completions there, and so does what it is about to store; with the conditional
  write, `CompletionsAreKept`.
* `Bounded`: the counters of the recovery record stay within the budget;
  `AttemptsWithinBudget`.
* `Ahead`: a job that is about to write the graph holds one operation of
  `DagScheduler` on the graph it read, and what it holds for the other files is
  completed in the graph by the time it gets to write them.  It gives
  `GraphIsAhead`, and, with `StepIsOperation` (each step maps to one operation or
  to a stutter), the refinement `GraphRefinesDag`, under `PlanAssumption` and for
  projects that have a graph.
* `RecoveryInv` under `QueueAssumption` and `NameAssumption`: in a self-hosted
  project only the gate moves the campaign, what waits in graph or queue has no
  session yet, and a task with a session does not become current again; so the
  record of the task at hand, which is replaced when the task changes, accounts
  for all of its repairs: `RepairsAreCounted`.
* `Sound` and `Sole` are about what a job knows.  `Sound` has the type of every
  file and of every job's record, and says which steps of a job may carry a task
  that is not merged (`Evident`: only parking's), which successors have been
  activated by the time they are stored (`Activates`), and what the files say as
  a result (`FilesBacked`).  It is not inductive for a self-hosted project: the
  gate reads the current task and then asks for its merge, without looking again.
  `Sole` is what makes that safe: there, every other task with a session is
  merged, since the gate hands over only after a merge; it rests in turn on
  `RecoveryInv`, and the dependencies of a dispatched task on `Ahead`.  Together:
  `CampaignTypeCorrect`, and `CompletionsAreMerged`, the parts of `FilesInStep`
  about evidence: what is recorded as completed was merged, `COMPLETED` means
  every task was, and a task is dispatched after the merges it depends on.

Its last part has the hypothesis `OneGroup`: the workflows of the control branch
share one concurrency group (besides the gate's).  Then `OneJobMoves`: each step
is one of the one job that moves the campaign, or leaves the campaign alone; what
a step makes of that job's record is `Moves`, so that the rest of the argument is
about two records and the files.  Jobs are killed anywhere, but for `InStep`.

* `Once`: what waits in the queue, or was taken out of it and is not the cycle
  task yet, was never given a session (`Untouched`), so no pull request of it can
  have been merged, and it is not among the completed tasks when it becomes
  current.  A plan therefore counts a task that was not counted
  (`OncePlanned`): `CompletionCountedOnce`.
* `Kept`: each write that takes a task out of a file finds it in another.  The
  state that a job is about to store drops the current task only if that is
  completed or, by then, in the ledger; the queue loses the successor that is
  current by then; the ledger loses the task that is completed by then.  With
  `SnapshotsCover`, `NoTaskLost`: `NoTaskIsLost`, both `FifoKept` and
  `CurrentIsNotDropped`.
* `InStep`: the files agree only when the job is done, so the invariant states
  for each of its steps that the files *as they will be* agree: `Shelf` relates a
  graph, a current task, parked, completed and queued tasks, and holds of the
  graph and the ledger that the job is about to write (`AimGraph`, `Aim`) with
  the state that it is about to store (`Aims`) or has stored (`Follows`).  That
  none of its writes is refused is part of it (`Unspoiled`): a refused write would
  be a job that ends part-way.  What keeps parked and queued tasks apart is
  `Once`; what lets a FIFO task start is that the graph is exhausted, which no
  later step undoes.  With `Sound` and `Ahead`, `FilesStayInStep`: all of
  `FilesInStep`.

**`RuntimeVerificationProofs`** assumes `RuntimeConstants` (a plan, and bounds
that are numbers).  `JobInv` says what the one running job has made sure of
before each of its steps; `Straight` holds the parts that only a kill can break:
graph, campaign and state move together, and only the monitor meets a task that
is not completed.  From them, `VerificationsStand` and `ProjectWaits`.

**`QuotaAdmissionProofs`** assumes `PolicyAssumption`: what `GlobalQuotaPolicy`
accepts, without the sum of the shares, which the argument does not need.

* `AdmittedFindRoom` compares the window with the admitted runs that have no
  session yet, but is not inductive: it says nothing of *which* runs they are.
  The invariant is `RankInv`.  `SoundSelected` says that each of them is under
  its share and that fewer projects with work at hand precede it in rank than
  there are free places; `ReadersKnow` says that a run that still reads has
  either seen every project with work at hand or has yet to read it.
* No two of these runs have the same number of predecessors, and each number is
  below that of the free places, so there are no more of them than places
  (`SoundFits`).  A creation takes one place and one predecessor from
  those behind it, and those before it had one fewer (`CreationKeepsRank`); what
  leaves the window puts no more projects ahead than it frees places
  (`TickKeepsRank`).  A new task, and a session that was not ranked, break the
  relation: hence the history variable `overtaken`.
* `OvershootBounded` needs that a run creates at most one session after it
  looked; `TypeCorrect` needs that the window is ordered by age.

Its second part is about `ProviderCycle`, and assumes `CycleAssumption`: the
lease is longer than the job, and the bounds are numbers.

* `SessionsAccounted` is the end of a balance (`Accounted`): the sessions there
  are, one for a run that may still create one (`MayCreate`), and one for a
  dispatch that waits behind a resume run and will (`Overtakes`), are at most one
  more than the faults, kills and overtaken dispatches.  Each step that makes a
  run able to create is one of those, or finds a checkpoint that stops it.
* The retries have a balance of their own (`RetryBalance`), with a level that
  says how far the checkpoint and the run at work have counted: a retry is made
  before its attempt is recorded, and a kill between the two gives one back.
* What a run may conclude rests on the others being over: the lease of a
  dispatched run outlasts it because the job is shorter (`LeaseHolds`), so that
  who fails to take it was repeated (`Explained`), and finds a checkpoint that is
  not blank (`InOrder`).  That gives the parts of `RecordsHold` about undisturbed
  runs; `StatusAgrees` follows each status write to its checkpoint.
* The attempt showed that a single repetition had hidden something: the first
  repetition dies after it failed to take the lease, and the second, once the
  lease is out, starts as if nothing had run, and creates a session.  Two
  repetitions and a kill are therefore a disturbance (`Undisturbed`).  TLC
  confirms the safety properties with two repetitions as well; the run keeps to
  one, because its liveness property takes too long with two.

**`RoutedExecutionProofs`**: the invariant joins the records (`RecordsAreTrue`)
with what the running call holds in memory (`RunIsTrue`), the names in the
checkpoint (`Named`), the one provider of all sessions (`OneProvider`) and the
count of sessions against retries, replans, pauses and kills (`Counted`).
`RecordsTrue`, `SessionsExplained`, and the action property `EndStands`.

**`MultiAgentReviewProofs`**: `Inv` ties each file of a review to the reply of a
completed session and to the files before it, by how much of the chain is
written; `TypeCorrect`, `ClearancesAreEarned`, `SessionsAreAccounted`,
`RoleKeepsItsSession`.  `FreezeInv` adds that the finalizer works on the copies
that it audited, and how many of its files it has written:
`ProofGraduatesAsReviewed`.  Pull request, project and review events change
beside a run as they like: a step that touches only those keeps the invariant,
which knows of them no more than their types (`DeliveryOK`) and that a merge,
once verified, stands (`VerifiedStands`).

**`ReleasePromotionProofs`**: `Inv` relates each receipt to the approval and the
deployment it names, and a run in flight to the receipts it read;
`OneApprovedDeployment`, `VerdictOfItsOwn`.  `PromotionsGoForward` adds two
facts: nothing is requested of a campaign that is still to come (`NoneAhead`), and
a failed release is final and leaves the campaign to a human for as long as it is
the current one (`FailureEnds`), so that neither readiness nor a finalisation
finds it COMPLETED again, in whatever order environments were asked for.
The proof found that `View`, a
`CASE` with guards that overlap, had no single value; it, and the dispositions
of `MultiAgentReview`, `RoutedExecution` and `PlanningStart`, now decide in the
order of the code's conditions.

Its second part is about `ImprovementLoop`, and assumes `LoopConstants`: finitely
many signals, each a generation after its parent, and bounds that are numbers.

* `LoopConsistent` is not inductive: it says nothing of the order of cycles.
  `LoopInv` adds that cycles have their receipts in turn, on the retirements of
  that time until their campaigns are planned (`CyclesInTurn`); that what a
  successor at work carries is that receipt, or the present (`Carries`); that a
  campaign is planned once and ends once (`CampaignsOnce`); that each retirement
  can be proved again (`Retirable`); and how far the projection got (`Projected`).
* Successor and finalizer write the same files without a lock.  What keeps them
  apart is `NothingBesides`: while a cycle is due to be retired it is the last
  one that has a receipt, no successor is at work, and every chain is planned.
  So a retirement overtakes no chain that was frozen without it, which gives
  `NoRecurrence`, and no later projection.
* `OneStateEach` counts: the seven states of the resolution are a partition of
  the ledger, and since the ranking is a total order (`OneCurrent`), at most one
  signal is CURRENT.  The audit passes ever after because a proof reads the
  frozen receipt and the campaign's end only (`ProvesStays`).
* The attempt showed that a clause of `RetirementIsEarned`, by which no
  conflicted signal leaves the ledger with a lineage, had held only because the
  run had a single generation of successors.  It is now `ConflictedStays` among
  the divergences, and the run has signals of four generations.

**`DevelopmentMemoryProofs`**: the invariant has a part for each stage a proof
passes: what is verified and recorded (`Verdicts`, `Records`), what a run holds
that loaded the store (`Fresh`), which goal is submitted (`Goals`), the first and
the second verification, the frozen chain so far, kept and complete
(`ChainSoFar`, `ChainKept`, `ChainIsOne`), and the third.  `MemoryKept`,
`GraduationsEarned`, `OneChain`.

**Only model-checked.**  Liveness, everywhere: it needs fairness and ENABLED and
is beyond this prover.  Of safety: `PlannerProposal` computes on sequences; what
its folds return for every input (`DerivedProposalsPass`, a part of
`GoalsAreServed`) would need an induction over data, also out of reach.

## 5. What is not modelled, and why

* The provider clients, runtime workspaces and probes: pure input and output,
  present as success, failure or verdict.
* In `QuotaAdmission`: the evidence file, which nothing reads; the split of a
  project's work into a planning and an implementation run, which follow each
  other; the paid fallback provider, off by default; failing requests and kills,
  which `ProviderCycle` has.
* In `RoutedExecution`: `run_cycle_with_repair`, the same loop without a
  checkpoint.  Nothing under `src/` calls `run_routed_cycle`; tests and probes do.
* Observability, control centre, previews, repository intelligence: they read,
  or their failures are caught and change nothing.
* Legacy projects without a task graph in `RuntimeVerification`, and the trusted
  zero-diff completion of the gate.
* The verification of parked tasks that merge late, and two groups in
  `RuntimeVerification`: the hazards say what may go wrong.
* The v1.8 finalizer, which checks a frozen copy of the campaign and cannot see
  a containment that comes later, and the audits of graduated versions, apart
  from v1.6, v1.7 and v1.9, whose conditions are in `DevelopmentMemory`,
  `MultiAgentReview` and `ImprovementLoop`.
* The older single-provider cycle, the local library forms of graph and
  campaign, pilots, probes: not run by the workflows that drive a campaign, or
  once only.

## 6. Plan

1. Done: scheduler, lease and their composition; campaign controller with
   recovery; provider cycle; runtime verification; quota; planning and start;
   engine; multi-agent review; release; improvement loop; development memory.
2. Done: the proofs of section 4.
3. To follow: composition of parking with runtime verification (a late merge is armed
   before it is reconciled), and two groups in `RuntimeVerification`.
