------------------------- MODULE CampaignController -------------------------
(***************************************************************************)
(* The control plane that moves a campaign from task to task: the remote   *)
(* PR monitor, the PR gate and the review-wait controller, each a GitHub   *)
(* Actions job that edits several JSON files of the control branch, one    *)
(* remote write at a time, and may die between any two of them.            *)
(*                                                                         *)
(* One action is one remote write followed by the reads the job makes      *)
(* before its next write.  A write with a stale blob SHA is refused (409)  *)
(* and raises, which ends the job; what it wrote before stays.  The SHA of *)
(* state.json changes with every write (updated_at), so a job's snapshot   *)
(* of it carries a freshness flag; the SHA of the other files is their     *)
(* content.  campaign.json and, in the review-wait controller,             *)
(* cycle-task.json are read immediately before their own write: one step.  *)
(*                                                                         *)
(* Jobs of one concurrency group run one at a time: a Worker is a group.   *)
(* The groups of a project are keyed by project_key or by control_ref, so  *)
(* two of them may reach one control branch; the PR gate has its own.      *)
(*                                                                         *)
(* Abstracted: the provider's session (ProviderCycle models it), runtime   *)
(* verification, observability, messages and timestamps, and the identity  *)
(* of a pull request, which is that of its task.                           *)
(***************************************************************************)
EXTENDS Naturals, FiniteSets, SequencesExt

CONSTANTS
    Task,           \* task ids of the project
    Managed,        \* those in task-graph.json; {} when there is no graph
    Deps, Rank,     \* the graph, as in DagScheduler
    NoTask,
    First,          \* the task that the activated plan starts with
    Fifo,           \* the initial task-queue.json
    CampaignTask,   \* campaign.json's task_ids; {} when there is none
    Worker,         \* concurrency groups that reach this control branch
    Gate,           \* the concurrency group of the PR gate
    MainWorker,     \* the group that runs what the gate dispatches
    Targets,        \* what the project may develop: "self" is the controller's
                    \* own repository, "external" another one
    Budget,         \* RecoveryBudget, and the identical failures in a row
    RepeatLimit,    \* that end the attempts
    MaxRed,         \* bound: runs of the gate for a failed CI run
    MaxCrash,       \* bound: jobs killed part-way
    MaxLost         \* bound: pending runs dropped by the concurrency group

VARIABLES
    graph,          \* task-graph.json: Managed -> status
    ledger,         \* runtime/review-waits.json: task ids in record order
    state,          \* state.json
    queue,          \* task-queue.json
    campaign,       \* campaign.json
    cycle,          \* cycle-task.json: the task id
    receipt,        \* runtime/remote-execution.json
    checkpoint,     \* the task whose checkpoint is RUNNING, or NoTask
    pr,             \* the pull request of each task, as GitHub has it
    nextCycle,      \* pending ade_next_cycle runs: <<task, group>>
    dispatched,     \* tasks for which ade_next_cycle was ever dispatched
    started,        \* tasks for which a provider session was created
    target,         \* the one of Targets that the project develops
    job,            \* the running job of each concurrency group
    recovery,       \* runtime/recovery.json
    repairs,        \* how many repairs of each task were dispatched
    red,            \* gate runs for a failed CI run so far
    crashes, lost

ciRecovery == <<recovery, repairs, red>>
files == <<graph, ledger, state, queue, campaign, cycle, receipt>>
world == <<checkpoint, pr, nextCycle, dispatched, started, target, ciRecovery,
           crashes, lost>>
vars == <<files, world, job>>

Dag == INSTANCE DagScheduler WITH Task <- Managed
Policy == INSTANCE RecoveryPolicy

ASSUME RecoveryAssumption == Policy!PolicyAssumption

\* The activated plan starts with its first task, which depends on none.
FirstOfPlan ==
    Managed # {} =>
        /\ First \in Managed /\ Deps[First] = {}
        /\ \A t \in Managed : Rank[First] <= Rank[t]

ASSUME PlanAssumption == FirstOfPlan

\* The activation of a plan writes no queue: what is queued, each task once, is
\* not of the plan.
ASSUME QueueAssumption ==
    /\ Fifo \in Seq(Task) /\ IsInjective(Fifo)
    /\ ToSet(Fifo) \cap (Managed \cup {First}) = {}

\* The graph, the campaign and the plan name tasks of the project, NoTask is
\* none of them, and the gate's workflow has a group of its own.
ASSUME NameAssumption ==
    /\ Managed \subseteq Task /\ CampaignTask \subseteq Task
    /\ IsFiniteSet(CampaignTask)
    /\ First \in Task /\ NoTask \notin Task
    /\ MainWorker \in Worker /\ Gate \notin Worker

\* What validate_graph_payload accepts.
ASSUME ManagedAssumption == Dag!GraphAssumption

ASSUME BoundAssumption == {MaxRed, MaxCrash, MaxLost} \subseteq Nat

Agent == Worker \cup {Gate}

NoReceipt == [task |-> NoTask, status |-> "NONE"]

\* A job: where it is, the task it handles, the receipt and ledger it read,
\* the payloads it is about to write and the snapshots their SHAs came from.
IdleJob ==
    [pc |-> "idle", t |-> NoTask, cont |-> "none", rcpt |-> NoReceipt,
     todo |-> <<>>, led |-> <<>>, g0 |-> [m \in Managed |-> "PENDING"],
     g1 |-> [m \in Managed |-> "PENDING"], nxt |-> NoTask, blocked |-> FALSE,
     st |-> [current |-> NoTask, status |-> "READY", completed |-> {},
             iteration |-> 0],
     fresh |-> FALSE, q0 |-> <<>>, q1 |-> <<>>, c0 |-> NoTask]

Init ==
    /\ graph = [t \in Managed |-> IF t = First THEN "RUNNING" ELSE "PENDING"]
    /\ ledger = <<>>
    /\ state = [current |-> First, status |-> "READY", completed |-> {},
                iteration |-> 0]
    /\ queue = Fifo
    /\ campaign = [completed |-> {}, status |-> "RUNNING"]
    /\ cycle = First
    /\ receipt = NoReceipt
    /\ checkpoint = NoTask
    /\ pr = [t \in Task |-> "none"]
    /\ nextCycle = {<<First, MainWorker>>}
    /\ dispatched = {First}
    /\ started = {}
    /\ target \in Targets
    /\ job = [a \in Agent |-> IdleJob]
    /\ recovery = Policy!NoRecovery
    /\ repairs = [t \in Task |-> 0]
    /\ red = 0
    /\ crashes = 0
    /\ lost = 0

-----------------------------------------------------------------------------
\* Job bookkeeping.

At(a, pc) == job[a].pc = pc

Become(a, r) == job' = [job EXCEPT ![a] = r]

Goto(a, pc) == Become(a, [job[a] EXCEPT !.pc = pc])

EndJob(a) == Become(a, IdleJob)

\* Store s in state.json: every other job's snapshot of it is now stale.
PutState(a, s, r) ==
    /\ state' = s
    /\ job' = [b \in Agent |-> IF b = a THEN r
                               ELSE [job[b] EXCEPT !.fresh = FALSE]]

\* _remove_queue_task: the first queued entry with this id.
RemoveQueueTask(q, t) == RemoveFirst(q, t)

\* A ledger has one record per task, so the first is the only one.
Without(led, t) == RemoveFirst(led, t)

\* ReviewWaitLedger.upsert: a record is replaced in place or appended.
Upsert(led, t) == IF t \in ToSet(led) THEN led ELSE Append(led, t)

\* The polling monitor takes a merged or a trusted zero-diff pull request as
\* done.
Merged(t) == pr[t] \in {"merged", "noop"}

\* The reconciliation of parked reviews insists on merged_at.  Mutant: only
\* the current task is looked at.
LateMergedCurrent(t) == pr[t] = "merged" /\ state.current = t

LateMerged(t) == pr[t] = "merged"

\* Mutant of AllCompleted: one short.
AlmostCompleted(done) == Cardinality(done) + 1 >= Cardinality(CampaignTask)

AllCompleted(done) == Cardinality(done) = Cardinality(CampaignTask)

-----------------------------------------------------------------------------
\* advance_queue: complete job.t and activate its successor.

\* The snapshot refuses the completion: another task is current, or the graph
\* does not have the task RUNNING.
AdvanceRefused(a) ==
    /\ At(a, "advance")
    /\ LET t == job[a].t
       IN  \/ state.current \notin {NoTask, t}
           \/ t \in Managed /\ graph[t] # "RUNNING"
    /\ EndJob(a)
    /\ UNCHANGED <<files, world>>

FirstWrite(t) == IF t \in Managed THEN "advGraph" ELSE "advCampaign"

\* The queue that is left when the head is popped, or when graph successor n
\* is taken out of it.
RestOfQueue(fifo, n) ==
    IF fifo THEN Tail(queue)
    ELSE IF n # NoTask THEN RemoveQueueTask(queue, n) ELSE queue

\* What advance_queue computes from its reads, for graph result h and
\* graph successor n.
AdvancePlan(a, h, n) ==
    LET t == job[a].t
        blocked == t \in Managed /\ n = NoTask /\ Dag!UnfinishedWork(h)
        fifo == n = NoTask /\ ~blocked /\ queue # <<>>
        next == IF fifo THEN Head(queue) ELSE n
    IN  [job[a] EXCEPT
           !.pc = FirstWrite(t),
           !.g0 = graph, !.g1 = h, !.nxt = next, !.blocked = blocked,
           !.fresh = TRUE, !.c0 = cycle, !.q0 = queue,
           !.q1 = RestOfQueue(fifo, n),
           !.st = [current |-> next,
                   status |-> IF blocked THEN "BLOCKED" ELSE "READY",
                   completed |-> state.completed \cup {t},
                   iteration |-> state.iteration + 1]]

AdvanceRead(a) ==
    /\ At(a, "advance")
    /\ state.current \in {NoTask, job[a].t}
    /\ IF job[a].t \in Managed
       THEN \E n \in Managed \cup {NoTask} :
              LET h == Dag!Activated(Dag!WithStatus(graph, job[a].t, "COMPLETED"), n)
              IN  /\ Dag!AdvanceResult(graph, job[a].t, h, n)
                  /\ Become(a, AdvancePlan(a, h, n))
       ELSE Become(a, AdvancePlan(a, graph, NoTask))
    /\ UNCHANGED <<files, world>>

AdvanceCampaign(a) ==
    /\ At(a, "advCampaign")
    /\ LET t == job[a].t
           done == campaign.completed \cup {t}
       IN  campaign' =
             IF t \notin CampaignTask THEN campaign
             ELSE [completed |-> done,
                   status |-> IF AllCompleted(done) THEN "COMPLETED"
                              ELSE IF job[a].blocked THEN "HUMAN_WAIT"
                              ELSE "RUNNING"]
    /\ Goto(a, "putState")
    /\ UNCHANGED <<graph, ledger, state, queue, cycle, receipt, world>>

\* The cycle task is replaced against the SHA read at the start.
AdvanceCycle(a) ==
    /\ At(a, "advCycle")
    /\ IF job[a].nxt = NoTask
       THEN Goto(a, "after") /\ UNCHANGED cycle
       ELSE IF cycle = job[a].c0
            THEN cycle' = job[a].nxt /\ Goto(a, "dispatch")
            ELSE EndJob(a) /\ UNCHANGED cycle
    /\ UNCHANGED <<graph, ledger, state, queue, campaign, receipt, world>>

\* What the caller of advance_queue does next: the monitor stores a MERGED
\* receipt over whatever receipt there is, the gate is done, and a legacy
\* reconciliation goes on to clear its record.
AfterAdvance(a) ==
    /\ At(a, "after")
    /\ \/ /\ job[a].cont = "receipt"
          /\ receipt' = [task |-> job[a].t, status |-> "MERGED"]
          /\ EndJob(a)
       \/ job[a].cont = "gate" /\ EndJob(a) /\ UNCHANGED receipt
       \/ job[a].cont = "legacy" /\ Goto(a, "recClear") /\ UNCHANGED receipt
    /\ UNCHANGED <<graph, ledger, state, queue, campaign, cycle, world>>

-----------------------------------------------------------------------------
\* Writes that advance_queue, parking and reconciliation share.

\* put_json_file succeeds only against the blob SHA that was read.  Mutants:
\* the SHA is not sent, the last writer wins.
BlindGraph(a) == TRUE
BlindState(a) == TRUE

SameGraph(a) == graph = job[a].g0
SameState(a) == job[a].fresh

\* The graph write and, once it succeeded, the next reads of each operation.
PutGraph(a) ==
    /\ job[a].pc \in {"advGraph", "parkGraph", "recGraph"}
    /\ IF ~SameGraph(a)
       THEN EndJob(a) /\ UNCHANGED graph
       ELSE /\ graph' = job[a].g1
            /\ \/ At(a, "advGraph") /\ Goto(a, "advCampaign")
               \/ /\ At(a, "parkGraph")
                  /\ Become(a, [job[a] EXCEPT !.pc = "parkLedger", !.led = ledger])
               \/ At(a, "recGraph") /\ Goto(a, "recRead")
    /\ UNCHANGED <<ledger, state, queue, campaign, cycle, receipt, world>>

PutStateFile(a) ==
    /\ At(a, "putState")
    /\ IF SameState(a)
       THEN PutState(a, job[a].st,
                     [job[a] EXCEPT !.pc = "putQueue", !.fresh = FALSE])
       ELSE EndJob(a) /\ UNCHANGED state
    /\ UNCHANGED <<graph, ledger, queue, campaign, cycle, receipt, world>>

PutQueueFile(a) ==
    /\ At(a, "putQueue")
    /\ IF queue # job[a].q0
       THEN EndJob(a) /\ UNCHANGED queue
       ELSE /\ queue' = job[a].q1
            /\ Goto(a, IF job[a].cont \in {"park", "review"}
                       THEN "campaign" ELSE "advCycle")
    /\ UNCHANGED <<graph, ledger, state, campaign, cycle, receipt, world>>

Dispatch(a) ==
    /\ At(a, "dispatch")
    /\ nextCycle' = nextCycle \cup
         {<<job[a].nxt, IF a = Gate THEN MainWorker ELSE a>>}
    /\ dispatched' = dispatched \cup {job[a].nxt}
    /\ IF job[a].cont = "park" THEN EndJob(a)
       ELSE Goto(a, IF job[a].cont = "review" THEN "recLedger" ELSE "after")
    /\ UNCHANGED <<files, checkpoint, pr, started, target, ciRecovery, crashes, lost>>

\* _update_campaign_status, after completed is brought up to date.
CampaignStatus(done, led, active) ==
    IF AllCompleted(done) THEN "COMPLETED"
    ELSE IF ~active /\ led # <<>> THEN "HUMAN_WAIT" ELSE "RUNNING"

\* The campaign write of parking and reconciliation.
PutCampaign(a) ==
    /\ At(a, "campaign")
    /\ LET done == IF job[a].cont = "review" /\ job[a].t \in CampaignTask
                   THEN campaign.completed \cup {job[a].t}
                   ELSE campaign.completed
           active == job[a].st.current # NoTask
       IN  campaign' =
             IF CampaignTask = {} THEN campaign
             ELSE [completed |-> done,
                   status |-> CampaignStatus(done, job[a].led, active)]
    /\ IF job[a].nxt # NoTask THEN Goto(a, "cycle")
       ELSE IF job[a].cont = "park" THEN EndJob(a) ELSE Goto(a, "recLedger")
    /\ UNCHANGED <<graph, ledger, state, queue, cycle, receipt, world>>

PutCycle(a) ==
    /\ At(a, "cycle")
    /\ cycle' = job[a].nxt
    /\ Goto(a, "dispatch")
    /\ UNCHANGED <<graph, ledger, state, queue, campaign, receipt, world>>

-----------------------------------------------------------------------------
\* park_current_task_for_review.

\* A task that is no longer current, or that the graph does not have RUNNING
\* or WAITING_REVIEW, is not parked.
ParkRefused(a) ==
    /\ At(a, "park")
    /\ \/ state.current # job[a].t
       \/ /\ job[a].t \in Managed
          /\ graph[job[a].t] \notin {"RUNNING", "WAITING_REVIEW"}
    /\ EndJob(a)
    /\ UNCHANGED <<files, world>>

ParkRead(a) ==
    /\ At(a, "park")
    /\ state.current = job[a].t
    /\ LET r == [job[a] EXCEPT !.fresh = TRUE, !.st = state, !.g0 = graph]
       IN  IF job[a].t \notin Managed
           THEN Become(a, [r EXCEPT !.pc = "parkLedger", !.led = ledger])
           ELSE \E n \in Managed \cup {NoTask} :
                  LET h == Dag!Activated(
                             Dag!WithStatus(graph, job[a].t, "WAITING_REVIEW"), n)
                  IN  /\ Dag!ParkResult(graph, job[a].t, h, n)
                      /\ Become(a, [r EXCEPT !.pc = "parkGraph", !.g1 = h, !.nxt = n])
    /\ UNCHANGED <<files, world>>

\* The ledger is upserted from the copy read before, whatever it holds now.
\* Then the queue is read and the new state prepared.
ParkLedger(a) ==
    /\ At(a, "parkLedger")
    /\ LET led == Upsert(job[a].led, job[a].t)
           n == job[a].nxt
       IN  /\ ledger' = led
           /\ Become(a, [job[a] EXCEPT
                !.pc = "putState", !.led = led, !.q0 = queue,
                !.q1 = IF n = NoTask THEN queue ELSE RemoveQueueTask(queue, n),
                !.st = [@ EXCEPT
                         !.current = n,
                         !.status = IF n = NoTask THEN "HUMAN_WAIT" ELSE "READY"]])
    /\ UNCHANGED <<graph, state, queue, campaign, cycle, receipt, world>>

-----------------------------------------------------------------------------
\* _reconcile_waiting_reviews and reconcile_review_wait_merge.

\* The next record of the snapshot: its pull request is not merged, or
\* another job has removed the record meanwhile.
ReviewSkip(a) ==
    /\ At(a, "reviews")
    /\ job[a].todo # <<>>
    /\ LET t == Head(job[a].todo)
       IN  ~LateMerged(t) \/ t \notin ToSet(ledger)
    /\ Become(a, [job[a] EXCEPT !.todo = Tail(@)])
    /\ UNCHANGED <<files, world>>

\* The task that a job which finds the graph already reconciled takes as the
\* successor: the one RUNNING node (_running_graph_task).
RunningTask == {t \in Managed : graph[t] = "RUNNING"}

ReconcileRead(a) ==
    /\ At(a, "reviews")
    /\ job[a].todo # <<>>
    /\ LET t == Head(job[a].todo)
           r == [job[a] EXCEPT !.t = t, !.led = Without(ledger, t),
                               !.nxt = NoTask, !.g0 = graph]
       IN  /\ LateMerged(t)
           /\ t \in ToSet(ledger)
           /\ \/ /\ t \in Managed
                 /\ graph[t] = "WAITING_REVIEW"
                 /\ \E n \in Managed \cup {NoTask} :
                      LET h == Dag!Activated(
                                 Dag!WithStatus(graph, t, "COMPLETED"), n)
                      IN  /\ Dag!ReconcileResult(graph, t, h, n)
                          /\ Become(a, [r EXCEPT !.pc = "recGraph", !.cont = "review",
                                                 !.g1 = h, !.nxt = n])
              \/ /\ t \in Managed
                 /\ graph[t] = "COMPLETED"
                 /\ Cardinality(RunningTask) <= 1
                 /\ \E n \in Managed \cup {NoTask} :
                      /\ RunningTask = {n} \cap Managed
                      /\ Become(a, [r EXCEPT !.pc = "recRead", !.cont = "review",
                                             !.nxt = n])
              \/ /\ t \in Managed
                 /\ graph[t] \notin {"WAITING_REVIEW", "COMPLETED"}
                 /\ EndJob(a)
              \/ /\ t \notin Managed
                 /\ Become(a, [r EXCEPT
                      !.pc = IF t \in state.completed THEN "recClear" ELSE "advance",
                      !.cont = "legacy"])
    /\ UNCHANGED <<files, world>>

\* The current task that a reconciliation of t leaves alone.  Mutant: none.
KeptNone(t) == NoTask

KeptCurrent(t) == IF state.current = t THEN NoTask ELSE state.current

\* The iteration counts t unless it was counted before.  Mutant: always.
IterationAgain(t) == state.iteration + 1

Iteration(t) == state.iteration + IF t \in state.completed THEN 0 ELSE 1

\* Read state and queue and prepare their new contents: an unrelated current
\* task stays current, otherwise the successor becomes current.
ReconcileState(a) ==
    /\ At(a, "recRead")
    /\ LET t == job[a].t
           cur == KeptCurrent(t)
           n == IF cur = NoTask THEN job[a].nxt ELSE NoTask
           next == IF cur # NoTask THEN cur ELSE n
       IN  Become(a, [job[a] EXCEPT
             !.pc = "putState", !.fresh = TRUE, !.nxt = n, !.q0 = queue,
             !.q1 = IF n = NoTask THEN queue ELSE RemoveQueueTask(queue, n),
             !.st = [current |-> next,
                     status |-> IF cur # NoTask THEN "RUNNING"
                                ELSE IF n = NoTask /\ job[a].led # <<>>
                                THEN "HUMAN_WAIT" ELSE "READY",
                     completed |-> state.completed \cup {t},
                     iteration |-> Iteration(t)]])
    /\ UNCHANGED <<files, world>>

\* The tail of a legacy reconciliation: state.json gets new wait metadata,
\* campaign.json its status.
ReconcileClearState(a) ==
    /\ At(a, "recClear")
    /\ PutState(a, state, [job[a] EXCEPT !.pc = "recClearCampaign", !.st = state])
    /\ UNCHANGED <<graph, ledger, queue, campaign, cycle, receipt, world>>

ReconcileClearCampaign(a) ==
    /\ At(a, "recClearCampaign")
    /\ campaign' =
         IF CampaignTask = {} THEN campaign
         ELSE [campaign EXCEPT
                 !.status = CampaignStatus(campaign.completed, job[a].led,
                                           job[a].st.current # NoTask)]
    /\ Goto(a, "recLedger")
    /\ UNCHANGED <<graph, ledger, state, queue, cycle, receipt, world>>

\* Last, the ledger is overwritten with the copy read at the start, less the
\* reconciled record.
ReconcileLedger(a) ==
    /\ At(a, "recLedger")
    /\ ledger' = job[a].led
    /\ Become(a, [IdleJob EXCEPT !.pc = "reviews", !.rcpt = job[a].rcpt,
                                 !.todo = Tail(job[a].todo)])
    /\ UNCHANGED <<graph, state, queue, campaign, cycle, receipt, world>>

-----------------------------------------------------------------------------
\* remote_pr_monitor.main: a scheduled or dispatched job.  The receipt comes
\* from the checkout of the control branch, everything else from the API.

MonitorStart(a) ==
    /\ a \in Worker
    /\ At(a, "idle")
    /\ receipt # NoReceipt \/ ledger # <<>>
    /\ Become(a, [IdleJob EXCEPT !.pc = "reviews", !.rcpt = receipt,
                                 !.todo = ledger])
    /\ UNCHANGED <<files, world>>

\* After the ledger, the receipt is followed up if it is that of the current
\* task and not MERGED yet.
MonitorReceipt(a) ==
    /\ At(a, "reviews")
    /\ job[a].todo = <<>>
    /\ LET r == job[a].rcpt
       IN  IF r.status = "PR_CREATED" /\ state.current = r.task
           THEN Become(a, [job[a] EXCEPT !.pc = "poll", !.t = r.task])
           ELSE EndJob(a)
    /\ UNCHANGED <<files, world>>

\* One poll, or the last one: a zero-diff or merged pull request completes
\* the task, a closed one is parked, and so is one still open when the polls
\* are used up.
MonitorPoll(a) ==
    /\ At(a, "poll")
    /\ IF Merged(job[a].t)
       THEN Become(a, [job[a] EXCEPT !.pc = "advance", !.cont = "receipt"])
       ELSE Become(a, [job[a] EXCEPT !.pc = "park", !.cont = "park"])
    /\ UNCHANGED <<files, world>>

-----------------------------------------------------------------------------
\* ade_pr_gate.main on a successful CI run of a pull request.

\* An open pull request of the provider in the controller's own repository.
Trusted(t) == target = "self" /\ pr[t] = "open"

GateStart(t) ==
    /\ Trusted(t)
    /\ At(Gate, "idle")
    /\ state.current # NoTask
    /\ Become(Gate, [IdleJob EXCEPT !.pc = "merge", !.t = state.current,
                                    !.rcpt = [task |-> t, status |-> "PR_CREATED"]])
    /\ UNCHANGED <<files, world>>

GateMerge ==
    /\ At(Gate, "merge")
    /\ LET t == job[Gate].rcpt.task
       IN  IF pr[t] = "open"
           THEN /\ pr' = [pr EXCEPT ![t] = "merged"]
                /\ Become(Gate, [job[Gate] EXCEPT !.pc = "advance", !.cont = "gate"])
           ELSE EndJob(Gate) /\ UNCHANGED pr
    /\ UNCHANGED <<files, checkpoint, nextCycle, dispatched, started, target,
                   ciRecovery, crashes, lost>>

-----------------------------------------------------------------------------
\* ade_pr_gate.main on a failed CI run of the pull request of the current
\* task.  The record is the first thing written; a gate that is run again for
\* the same CI run finds the failure identical, and so does a repeated CI run.

\* The checkpoint and the pull request name the session of the current task.
FailureIsOurs(t) == Trusted(t) /\ state.current = t /\ t \in started

GateRecover(t) ==
    /\ FailureIsOurs(t)
    /\ At(Gate, "idle")
    /\ red < MaxRed
    /\ red' = red + 1
    /\ \E again \in BOOLEAN :
         /\ again => recovery.task = t
         /\ recovery' = Policy!Advanced(recovery, t, "CI_FAILURE", again)
    /\ Become(Gate, [IdleJob EXCEPT !.pc = "status", !.t = t])
    /\ UNCHANGED <<files, checkpoint, pr, nextCycle, dispatched, started, target,
                   repairs, crashes, lost>>

StatusAfter(action) ==
    IF action = "HUMAN_WAIT" THEN "HUMAN_WAIT"
    ELSE IF action = "FAIL" THEN "FAILED" ELSE "READY"

\* apply_project_status; only a repair goes on to be dispatched.
GateStatus ==
    /\ At(Gate, "status")
    /\ IF state.current # job[Gate].t
       THEN EndJob(Gate) /\ UNCHANGED state
       ELSE PutState(Gate, [state EXCEPT !.status = StatusAfter(recovery.action)],
                     IF recovery.action = "REPAIR"
                     THEN [job[Gate] EXCEPT !.pc = "repair"] ELSE IdleJob)
    /\ UNCHANGED <<graph, ledger, queue, campaign, cycle, receipt, world>>

GateRepair ==
    /\ At(Gate, "repair")
    /\ nextCycle' = nextCycle \cup {<<job[Gate].t, MainWorker>>}
    /\ repairs' = [repairs EXCEPT ![job[Gate].t] = @ + 1]
    /\ EndJob(Gate)
    /\ UNCHANGED <<files, checkpoint, pr, dispatched, started, target, recovery,
                   red, crashes, lost>>

-----------------------------------------------------------------------------
\* The provider cycle and the resume watch, as this module needs them.

\* A dispatched run reads cycle-task.json from its checkout and creates a
\* session unless one was created before; only then does it compare with
\* state.json, and fails if another task is current.
ProviderStart(a) ==
    /\ a \in Worker
    /\ At(a, "idle")
    /\ \E t \in Task :
         /\ <<t, a>> \in nextCycle
         /\ nextCycle' = nextCycle \ {<<t, a>>}
    /\ started' = started \cup {cycle}
    /\ IF cycle \notin started /\ state.current = cycle
       THEN /\ checkpoint' = cycle
            /\ PutState(a, [state EXCEPT !.status = "RUNNING"],
                        [IdleJob EXCEPT !.pc = "session", !.t = cycle])
       ELSE UNCHANGED <<checkpoint, state, job>>
    /\ UNCHANGED <<graph, ledger, queue, campaign, cycle, receipt, pr,
                   dispatched, target, ciRecovery, crashes, lost>>

\* The resume watch monitors the session of a RUNNING checkpoint that
\* belongs to the current cycle task.
ProviderResume(a) ==
    /\ a \in Worker
    /\ At(a, "idle")
    /\ checkpoint = cycle
    /\ state.current = cycle
    /\ PutState(a, [state EXCEPT !.status = "RUNNING"],
                [IdleJob EXCEPT !.pc = "session", !.t = cycle])
    /\ UNCHANGED <<graph, ledger, queue, campaign, cycle, receipt, world>>

\* The monitor of the session sees the pull request: it stores the receipt
\* (of an external target) and, the session having completed, the checkpoint.
SessionPublish(a) ==
    /\ At(a, "session")
    /\ pr[job[a].t] # "none"
    /\ receipt' = IF target = "self" \/ receipt.task = job[a].t THEN receipt
                  ELSE [task |-> job[a].t, status |-> "PR_CREATED"]
    /\ checkpoint' = NoTask
    /\ EndJob(a)
    /\ UNCHANGED <<graph, ledger, state, queue, campaign, cycle,
                   pr, nextCycle, dispatched, started, target, ciRecovery,
                   crashes, lost>>

\* The monitor's deadline passes first; the checkpoint stays RUNNING.
SessionTimeout(a) ==
    /\ At(a, "session")
    /\ pr[job[a].t] = "none"
    /\ EndJob(a)
    /\ UNCHANGED <<files, world>>

-----------------------------------------------------------------------------
\* The outside world: providers, reviewers, GitHub.

SetPr(t, s) ==
    /\ pr' = [pr EXCEPT ![t] = s]
    /\ UNCHANGED <<files, checkpoint, nextCycle, dispatched, started, target, job,
                   ciRecovery, crashes, lost>>

OpenPr(t) ==
    /\ t \in started
    /\ pr[t] = "none"
    /\ \/ SetPr(t, "open")
       \/ SetPr(t, "noop") /\ target = "external"

MergePr(t) == pr[t] = "open" /\ SetPr(t, "merged")
ClosePr(t) == pr[t] = "open" /\ SetPr(t, "closed")
ReopenPr(t) == pr[t] = "closed" /\ SetPr(t, "open")

\* A job is killed, times out or fails a request: what it wrote stays.
Crash(a) ==
    /\ crashes < MaxCrash
    /\ ~At(a, "idle")
    /\ crashes' = crashes + 1
    /\ EndJob(a)
    /\ UNCHANGED <<files, checkpoint, pr, nextCycle, dispatched, started, target,
                   ciRecovery, lost>>

\* A concurrency group keeps one pending run: a later one replaces it.
LoseRun(e) ==
    /\ lost < MaxLost
    /\ e \in nextCycle
    /\ nextCycle' = nextCycle \ {e}
    /\ lost' = lost + 1
    /\ UNCHANGED <<files, checkpoint, pr, dispatched, started, target, job,
                   ciRecovery, crashes>>

-----------------------------------------------------------------------------
\* The steps that a job takes once it has begun.
JobStep(a) ==
    \/ AdvanceRefused(a) \/ AdvanceRead(a) \/ AdvanceCampaign(a)
    \/ AdvanceCycle(a) \/ AfterAdvance(a)
    \/ PutGraph(a) \/ PutStateFile(a) \/ PutQueueFile(a) \/ Dispatch(a)
    \/ PutCampaign(a) \/ PutCycle(a)
    \/ ParkRefused(a) \/ ParkRead(a) \/ ParkLedger(a)
    \/ ReviewSkip(a) \/ ReconcileRead(a) \/ ReconcileState(a)
    \/ ReconcileClearState(a) \/ ReconcileClearCampaign(a) \/ ReconcileLedger(a)
    \/ MonitorReceipt(a) \/ MonitorPoll(a)
    \/ SessionPublish(a) \/ SessionTimeout(a)

Next ==
    \/ \E a \in Agent : JobStep(a) \/ Crash(a)
    \/ \E a \in Worker : MonitorStart(a) \/ ProviderStart(a) \/ ProviderResume(a)
    \/ GateMerge \/ GateStatus \/ GateRepair
    \/ \E t \in Task :
         GateStart(t) \/ GateRecover(t) \/ OpenPr(t) \/ MergePr(t) \/ ClosePr(t) \/ ReopenPr(t)
    \/ \E e \in Task \X Worker : LoseRun(e)

Spec == Init /\ [][Next]_vars

\* A job that has begun goes on; the monitor and the resume watch are on a
\* schedule; a pending run gets its turn (the group serves it next); a
\* provider session ends in a pull request; a reviewer who finds a pull
\* request open again and again merges it; CI triggers the gate.
Fairness ==
    /\ \A a \in Agent : WF_vars(JobStep(a))
    /\ \A a \in Worker : /\ SF_vars(MonitorStart(a))
                         /\ SF_vars(ProviderStart(a))
                         /\ SF_vars(ProviderResume(a))
    /\ \A t \in Task : /\ WF_vars(OpenPr(t))
                       /\ SF_vars(MergePr(t))
                       /\ WF_vars(ReopenPr(t))
                       /\ SF_vars(GateStart(t))
    /\ WF_vars(GateMerge) /\ WF_vars(GateStatus) /\ WF_vars(GateRepair)

FairSpec == Spec /\ Fairness

-----------------------------------------------------------------------------
\* Properties.

StateStatus == {"READY", "RUNNING", "BLOCKED", "HUMAN_WAIT", "FAILED"}

JobType ==
    [pc : {"idle", "advance", "advGraph", "advCampaign", "advCycle", "after",
           "parkGraph", "recGraph", "parkLedger", "recRead", "putState",
           "putQueue", "campaign", "cycle", "dispatch", "recLedger", "park",
           "reviews", "recClear", "recClearCampaign", "poll", "merge",
           "session", "status", "repair"},
     t : Task \cup {NoTask},
     cont : {"none", "receipt", "gate", "legacy", "park", "review"},
     rcpt : [task : Task \cup {NoTask},
             status : {"NONE", "PR_CREATED", "MERGED"}],
     todo : Seq(Task), led : Seq(Task),
     g0 : [Managed -> Dag!Status], g1 : [Managed -> Dag!Status],
     nxt : Task \cup {NoTask}, blocked : BOOLEAN,
     st : [current : Task \cup {NoTask},
           status : StateStatus,
           completed : SUBSET Task, iteration : Nat],
     fresh : BOOLEAN, q0 : Seq(Task), q1 : Seq(Task),
     c0 : Task \cup {NoTask}]

\* Every file keeps the shape its reader validates.
TypeOK ==
    /\ graph \in [Managed -> Dag!Status]
    /\ ledger \in Seq(Task) /\ IsInjective(ledger)
    /\ state \in [current : Task \cup {NoTask},
                  status : StateStatus,
                  completed : SUBSET Task, iteration : Nat]
    /\ queue \in Seq(Task)
    /\ campaign \in [completed : SUBSET CampaignTask,
                     status : {"RUNNING", "HUMAN_WAIT", "COMPLETED"}]
    /\ cycle \in Task
    /\ receipt \in [task : Task \cup {NoTask},
                    status : {"NONE", "PR_CREATED", "MERGED"}]
    /\ checkpoint \in Task \cup {NoTask}
    /\ pr \in [Task -> {"none", "open", "closed", "merged", "noop"}]
    /\ nextCycle \subseteq Task \X Worker
    /\ dispatched \subseteq Task
    /\ started \subseteq Task
    /\ target \in Targets
    /\ job \in [Agent -> JobType]
    /\ recovery.task \in Task \cup {NoTask}
    /\ red \in 0 .. MaxRed
    /\ crashes \in 0 .. MaxCrash
    /\ lost \in 0 .. MaxLost

\* Whatever jobs interleave or die, task-graph.json changes only as one
\* operation of the graph at a time would change it.
GraphImplementsDag == Dag!Spec

\* A task is completed once: no retry of a partly done advance or
\* reconciliation counts a task's iteration again.
CompletionCountedOnce == state.iteration = Cardinality(state.completed)

\* No record of completion without merge evidence from the provider's host.
CompletedWasMerged ==
    \A t \in state.completed \cup campaign.completed : Merged(t)

\* state.json and campaign.json never run ahead of the graph, so that a
\* rerun after a crash finds the graph's status authoritative.
GraphAheadOfState ==
    \A t \in (state.completed \cup campaign.completed) \cap Managed :
        graph[t] = "COMPLETED"

\* A campaign is declared COMPLETED only when every one of its tasks is
\* merged, parked reviews included.
CampaignHonest ==
    campaign.status = "COMPLETED" => \A t \in CampaignTask : Merged(t)

\* A managed task is dispatched only after the pull requests of all the
\* tasks it depends on were merged.
DispatchedAfterMerges ==
    \A t \in dispatched \cap Managed : \A d \in Deps[t] : Merged(d)

\* The current task is never dropped: when it stops being current it is
\* completed, or its review record is in the ledger.
CurrentIsNotDropped ==
    [][ state'.current # state.current /\ state.current # NoTask =>
          state.current \in state'.completed \cup ToSet(ledger) ]_vars

\* A completion once recorded in state.json or campaign.json is never lost to
\* another job's write.
CompletionsStand ==
    [][ /\ state.completed \subseteq state'.completed
        /\ campaign.completed \subseteq campaign'.completed ]_vars

\* A FIFO task is not lost between its removal from the queue and its
\* activation: it is queued, current, parked or completed.
FifoKept ==
    ToSet(Fifo) \subseteq ToSet(queue) \cup {state.current} \cup ToSet(ledger)
                          \cup state.completed

\* A review record leaves the ledger only when its task is completed: the
\* durable ledger retains the PR identity until a later merge is reconciled.
LedgerKeepsUnfinished ==
    [][ \A t \in ToSet(ledger) \ ToSet(ledger') : t \in state.completed ]_vars

\* The record that allows a retry is cleared only after the task that is
\* current by then has been dispatched.
RecordOutlivesDispatch ==
    [][ ToSet(ledger) \ ToSet(ledger') # {} /\ state.current # NoTask =>
          state.current \in dispatched ]_vars

\* No job ended part-way: none was killed, and none failed at a state write,
\* as the gate of a self-hosted project may against the resume watch.
Undisturbed == crashes = 0 /\ target = "external"

Quiescent == \A a \in Agent : At(a, "idle")

\* Between jobs the files agree with each other: the RUNNING node is the
\* current task, is the cycle task and was dispatched; the parked nodes are
\* exactly the ledger's; and HUMAN_WAIT is shown only for a parked review.
FilesAgree ==
    Undisturbed /\ Quiescent =>
        /\ \A t \in Managed :
              /\ graph[t] = "RUNNING" <=> state.current = t
              /\ graph[t] = "WAITING_REVIEW" <=> t \in ToSet(ledger)
        /\ state.current # NoTask =>
              state.current = cycle /\ state.current \in dispatched
        /\ state.status = "HUMAN_WAIT" => ledger # <<>>

\* Recovery progress is kept across kills, reruns of the gate and changes of
\* the task: no attempt beyond its budget is ever granted, a task is never
\* repaired more often than its budget in all, and the record of the task at
\* hand accounts for each repair that was dispatched for it; unless the gate
\* was killed in between, each granted repair was dispatched.
RecoveryCounted ==
    /\ \A x \in Policy!Attempt : recovery.used[x] <= Budget[x]
    /\ \A t \in Task : repairs[t] <= Budget["REPAIR"]
    /\ \A t \in Task : recovery.task = t =>
         /\ repairs[t] <= recovery.used["REPAIR"]
         /\ crashes = 0 /\ At(Gate, "idle") =>
              repairs[t] = recovery.used["REPAIR"]

\* The files are in step, killed jobs and replaced dispatches included: each
\* keeps its shape, none runs ahead of the graph, of the merges or of the
\* files it is written with, and no completion is counted twice.
FilesInStep ==
    /\ TypeOK /\ FilesAgree
    /\ GraphAheadOfState /\ CompletedWasMerged
    /\ CampaignHonest /\ DispatchedAfterMerges
    /\ CompletionCountedOnce

\* Every task of the campaign completes when its pull request does, however
\* often it was parked for review on the way, unless a job is killed or a
\* pending run replaced.
AllDone ==
    [](Undisturbed /\ lost = 0) =>
        <>(CampaignTask \subseteq state.completed /\ campaign.status = "COMPLETED")

\* No task is lost, queued or current, though graph, campaign, state, queue and
\* ledger are written one by one and any write may be the last of its job.
NoTaskIsLost == []FifoKept /\ CurrentIsNotDropped

=============================================================================
