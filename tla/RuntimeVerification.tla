------------------------- MODULE RuntimeVerification -------------------------
(***************************************************************************)
(* What follows a trusted merge in the autonomous-development phase: the   *)
(* remote PR monitor arms a runtime verification of the exact merge,       *)
(* dispatches it and advances the campaign; the verification run executes  *)
(* the probes and either settles the campaign or contains the failure in   *)
(* HUMAN_WAIT; the watchdog redispatches what was interrupted, and re-arms *)
(* after a change of the trusted profile; a human may ask for a retry.     *)
(*                                                                         *)
(* The plan is a chain: task t + 1 is activated when t completes, and 0 is *)
(* "no task".  All jobs are in one concurrency group, as when project_key  *)
(* and control_ref agree, so one job runs at a time (CampaignController    *)
(* has the races of two groups); each may die between two writes, and a    *)
(* pending one may be replaced.  The probes of a run, their attempts and   *)
(* their target are abstracted to a verdict, the contract, registry and    *)
(* policy to a profile number, written with the receipt.  Observability is *)
(* left out; what is recorded of a verified merge, and whose failures      *)
(* change nothing here, is in DevelopmentMemory.                           *)
(***************************************************************************)
EXTENDS Naturals, FiniteSets

CONSTANTS
    N,              \* tasks of the campaign
    MaxProfile,     \* bound: changes of the trusted runtime profile
    MaxFault,       \* bound: failed requests of verification runs
    MaxCrash,       \* bound: jobs killed part-way
    MaxLost         \* bound: pending runs replaced by the concurrency group

ASSUME RuntimeConstants ==
    /\ N \in Nat \ {0} /\ MaxProfile \in Nat
    /\ MaxFault \in Nat /\ MaxCrash \in Nat /\ MaxLost \in Nat

Task == 1 .. N

VARIABLES
    receipt,        \* runtime-verification/<task>/receipt.json
    report,         \* runtime-verification/<task>/report.json
    graph,          \* task-graph.json: tasks 1 .. graph are COMPLETED
    state,          \* state.json
    campaign,       \* campaign.json
    remote,         \* runtime/remote-execution.json
    pending,        \* the tasks whose ade_runtime_verification run waits
    profile,        \* the profile of the trusted code on main
    job,            \* the job that runs
    crashes, faults, lost

files == <<receipt, report, graph, state, campaign, remote>>
counters == <<crashes, faults, lost>>
vars == <<files, pending, profile, job, counters>>

NoReceipt == [status |-> "NONE", profile |-> 0]

\* kind: which program it is; first: the receipt that a verification run read;
\* active: the receipt that it works with.
IdleJob == [pc |-> "idle", kind |-> "none", t |-> 0, profile |-> 0,
            first |-> NoReceipt, active |-> NoReceipt]

Init ==
    /\ receipt = [t \in Task |-> NoReceipt]
    /\ report = [t \in Task |-> NoReceipt]
    /\ graph = 0
    /\ state = [current |-> 1, status |-> "READY", completed |-> {}, iteration |-> 0]
    /\ campaign = [completed |-> {}, status |-> "RUNNING"]
    /\ remote = [task |-> 0, status |-> "NONE"]
    /\ pending = {}
    /\ profile = 0
    /\ job = IdleJob
    /\ crashes = 0 /\ faults = 0 /\ lost = 0

At(pc) == job.pc = pc

GoTo(pc) == job' = IF pc = "idle" THEN IdleJob ELSE [job EXCEPT !.pc = pc]

Start(pc, kind, t) ==
    job' = [IdleJob EXCEPT !.pc = pc, !.kind = kind, !.t = t, !.profile = profile]

Receipt(status) == [status |-> status, profile |-> job.profile]

-----------------------------------------------------------------------------
\* The remote PR monitor, on a merged pull request.

FirstStep == "arm"

\* The receipt of the current task's pull request is not marked MERGED yet.
MonitorStart ==
    /\ At("idle")
    /\ remote.status = "PR_CREATED"
    /\ state.current = remote.task
    /\ Start(FirstStep, "monitor", remote.task)
    /\ UNCHANGED <<files, pending, profile, counters>>

\* arm_post_merge_runtime_verification: a receipt of the same identity is
\* kept, whatever its status, any other one is replaced; what is then ARMED
\* is dispatched.
Armed(t) ==
    IF receipt[t].status # "NONE" /\ receipt[t].profile = job.profile
    THEN receipt[t] ELSE Receipt("ARMED")

Arm ==
    /\ At("arm")
    /\ receipt' = [receipt EXCEPT ![job.t] = Armed(job.t)]
    /\ GoTo(IF Armed(job.t).status = "ARMED" THEN "dispatch" ELSE "advance")
    /\ UNCHANGED <<report, graph, state, campaign, remote, pending, profile, counters>>

Dispatch ==
    /\ At("dispatch")
    /\ pending' = pending \cup {job.t}
    /\ GoTo("record")
    /\ UNCHANGED <<files, profile, counters>>

\* What each program does once the receipt is DISPATCHED.
AfterRecord(kind) ==
    CASE kind = "monitor"  -> "advance"
      [] kind = "watchdog" -> "merged"
      [] kind = "retry"    -> "idle"
      [] kind = "verify"   -> "probe"

Dispatched(r) == [r EXCEPT !.status = "DISPATCHED"]

\* record_runtime_verification_dispatch refuses a receipt of another profile.
RecordDispatch ==
    /\ At("record")
    /\ IF receipt[job.t].profile = job.profile
       THEN /\ receipt' = [receipt EXCEPT ![job.t] = Dispatched(@)]
            /\ job' = IF AfterRecord(job.kind) = "idle" THEN IdleJob
                      ELSE [job EXCEPT !.pc = AfterRecord(job.kind),
                                       !.active = Receipt("DISPATCHED")]
       ELSE /\ GoTo(IF job.kind = "verify" THEN "catch" ELSE "idle")
            /\ UNCHANGED receipt
    /\ UNCHANGED <<report, graph, state, campaign, remote, pending, profile, counters>>

MarkMerged ==
    /\ At("merged")
    /\ remote' = [task |-> job.t, status |-> "MERGED"]
    /\ GoTo("idle")
    /\ UNCHANGED <<receipt, report, graph, state, campaign, pending, profile, counters>>

-----------------------------------------------------------------------------
\* advance_queue, for the monitor or for a verification run.

GraphAllows(t) == graph + 1 = t

\* Another current task is a RuntimeError, which no caller contains; a task
\* that the graph does not have RUNNING is a ValueError.
AdvanceGraph ==
    /\ At("advance")
    /\ IF state.current \notin {0, job.t} THEN GoTo("idle") /\ UNCHANGED graph
       ELSE IF GraphAllows(job.t) THEN GoTo("advCampaign") /\ graph' = job.t
       ELSE GoTo(IF job.kind = "verify" THEN "catch" ELSE "idle") /\ UNCHANGED graph
    /\ UNCHANGED <<receipt, report, state, campaign, remote, pending, profile, counters>>

AdvanceCampaign ==
    /\ At("advCampaign")
    /\ LET done == campaign.completed \cup {job.t}
       IN  campaign' = [completed |-> done,
                        status |-> IF done = Task THEN "COMPLETED" ELSE "RUNNING"]
    /\ GoTo("advState")
    /\ UNCHANGED <<receipt, report, graph, state, remote, pending, profile, counters>>

AdvanceState ==
    /\ At("advState")
    /\ state' = [current |-> IF job.t = N THEN 0 ELSE job.t + 1,
                 status |-> "READY",
                 completed |-> state.completed \cup {job.t},
                 iteration |-> state.iteration + 1]
    /\ GoTo(IF job.kind = "monitor" THEN "merged" ELSE "settle")
    /\ UNCHANGED <<receipt, report, graph, campaign, remote, pending, profile, counters>>

-----------------------------------------------------------------------------
\* The verification run.

VerifyStart(t) ==
    /\ At("idle")
    /\ t \in pending
    /\ pending' = pending \ {t}
    /\ LET r == receipt[t]
           next == CASE r.status = "VERIFIED"   -> "reconcile"
                     [] r.status = "HUMAN_WAIT" -> "idle"
                     [] OTHER                   -> "prepare"
       IN  IF next = "idle" THEN UNCHANGED job
           ELSE job' = [IdleJob EXCEPT !.pc = next, !.kind = "verify", !.t = t,
                          !.profile = profile, !.first = r, !.active = r]
    /\ UNCHANGED <<files, profile, counters>>

\* The target and the workspace are ready; a receipt of another profile, a
\* drift of the registry, is refused before the probes run.
Prepare ==
    /\ At("prepare")
    /\ GoTo(IF job.active.profile # job.profile THEN "catch"
            ELSE IF job.active.status = "ARMED" THEN "record" ELSE "probe")
    /\ UNCHANGED <<files, pending, profile, counters>>

\* Mutant of Saved: the report is not stored.
SavedNone(verdict) == report[job.t]

Saved(verdict) == Receipt(verdict)

\* The probes run, and the report is stored before the verdict.
Probe ==
    /\ At("probe")
    /\ \E verdict \in {"VERIFIED", "FAILED"} :
         /\ report' = [report EXCEPT ![job.t] = Saved(verdict)]
         /\ GoTo(IF verdict = "VERIFIED" THEN "pass" ELSE "fail")
    /\ UNCHANGED <<receipt, graph, state, campaign, remote, pending, profile, counters>>

\* A FAILED receipt stays FAILED whatever the probes say now; that run ends.
Pass ==
    /\ At("pass")
    /\ IF job.active.status = "DISPATCHED"
       THEN /\ receipt' = [receipt EXCEPT ![job.t] = Receipt("VERIFIED")]
            /\ GoTo("reconcile")
       ELSE GoTo("idle") /\ UNCHANGED receipt
    /\ UNCHANGED <<report, graph, state, campaign, remote, pending, profile, counters>>

Fail ==
    /\ At("fail")
    /\ receipt' = [receipt EXCEPT ![job.t] = Receipt("FAILED")]
    /\ job' = [job EXCEPT !.pc = "contain", !.active = Receipt("FAILED")]
    /\ UNCHANGED <<report, graph, state, campaign, remote, pending, profile, counters>>

\* The except clause of main contains any error of a run that had not read a
\* final receipt, as a failure of the receipt that it had read.
Catch ==
    /\ At("catch")
    /\ IF job.first.status \in {"ARMED", "DISPATCHED", "FAILED"}
       THEN job' = [job EXCEPT !.pc = "contain", !.active = job.first, !.first = NoReceipt]
       ELSE GoTo("idle")
    /\ UNCHANGED <<files, pending, profile, counters>>

\* Mutant of Stale: a late failure replaces a newer current task.
StaleNever == FALSE

\* contain_runtime_verification_failure: a newer current task is not replaced,
\* and the error that says so ends the run.
Stale == state.current \notin {0, job.t}

ContainCampaign ==
    /\ At("contain")
    /\ IF Stale THEN GoTo("idle") /\ UNCHANGED campaign
       ELSE /\ campaign' = [campaign EXCEPT !.status = "HUMAN_WAIT"]
            /\ GoTo("containState")
    /\ UNCHANGED <<receipt, report, graph, state, remote, pending, profile, counters>>

ContainState ==
    /\ At("containState")
    /\ state' = [state EXCEPT !.current = job.t, !.status = "HUMAN_WAIT"]
    /\ GoTo("containReceipt")
    /\ UNCHANGED <<receipt, report, graph, campaign, remote, pending, profile, counters>>

ContainReceipt ==
    /\ At("containReceipt")
    /\ receipt' = [receipt EXCEPT ![job.t] =
                     [status |-> "HUMAN_WAIT", profile |-> job.active.profile]]
    /\ GoTo("idle")
    /\ UNCHANGED <<report, graph, state, campaign, remote, pending, profile, counters>>

\* reconcile_verified_task: a queue transition that the monitor lost is made
\* up for.
Reconcile ==
    /\ At("reconcile")
    /\ GoTo(IF job.t \in campaign.completed THEN "settle" ELSE "advance")
    /\ UNCHANGED <<files, pending, profile, counters>>

\* _reconcile_autonomous_development_success: when every task is completed,
\* and no other task is current, the campaign is COMPLETED, again or at last.
SettleCampaign ==
    /\ At("settle")
    /\ IF campaign.completed = Task /\ state.current \in {0, job.t}
       THEN campaign' = [campaign EXCEPT !.status = "COMPLETED"] /\ GoTo("settleState")
       ELSE GoTo("idle") /\ UNCHANGED campaign
    /\ UNCHANGED <<receipt, report, graph, state, remote, pending, profile, counters>>

SettleState ==
    /\ At("settleState")
    /\ state' = [state EXCEPT !.current = 0, !.status = "READY"]
    /\ GoTo("idle")
    /\ UNCHANGED <<receipt, report, graph, campaign, remote, pending, profile, counters>>

-----------------------------------------------------------------------------
\* The watchdog, with the profile migration that it begins with, and the
\* retry that a human asks for.

\* migrate_runtime_profile_if_needed has something to do.
Migrates ==
    LET t == state.current
    IN  /\ state.status = "HUMAN_WAIT"
        /\ t # 0
        /\ receipt[t].status = "HUMAN_WAIT"
        /\ receipt[t].profile # profile
        /\ remote.task = t

MigrateStart ==
    /\ At("idle")
    /\ Migrates
    /\ Start("rearm", "watchdog", state.current)
    /\ UNCHANGED <<files, pending, profile, counters>>

MigrateReceipt ==
    /\ At("rearm")
    /\ receipt' = [receipt EXCEPT ![job.t] = Receipt("ARMED")]
    /\ GoTo("rearmState")
    /\ UNCHANGED <<report, graph, state, campaign, remote, pending, profile, counters>>

MigrateState ==
    /\ At("rearmState")
    /\ state' = [state EXCEPT !.status = "RUNNING"]
    /\ GoTo("rearmCampaign")
    /\ UNCHANGED <<receipt, report, graph, campaign, remote, pending, profile, counters>>

MigrateCampaign ==
    /\ At("rearmCampaign")
    /\ campaign' = IF campaign.status = "HUMAN_WAIT"
                   THEN [campaign EXCEPT !.status = "RUNNING"] ELSE campaign
    /\ GoTo("dispatch")
    /\ UNCHANGED <<receipt, report, graph, state, remote, pending, profile, counters>>

\* watchdog_disposition.  Mutant: a dispatched verification is watched instead.
WatchedDispatched(r) == r.status = "DISPATCHED"

Watched(r) == r.status = "ARMED"

WatchdogStart ==
    /\ At("idle")
    /\ ~Migrates
    /\ state.current # 0
    /\ Watched(receipt[state.current])
    /\ remote.task = state.current
    /\ Start("dispatch", "watchdog", state.current)
    /\ UNCHANGED <<files, pending, profile, counters>>

\* The retry is refused unless it leads to a dispatch.
RetryStart ==
    /\ At("idle")
    /\ state.status = "HUMAN_WAIT"
    /\ LET t == state.current
       IN  /\ remote = [task |-> t, status |-> "MERGED"]
           /\ \/ receipt[t].status = "ARMED"
              \/ receipt[t].status = "HUMAN_WAIT" /\ receipt[t].profile # profile
           /\ Start("arm", "retry", t)
    /\ UNCHANGED <<files, pending, profile, counters>>

-----------------------------------------------------------------------------
\* Everything else.

\* The provider's pull request for the current task is recorded, and merged
\* before the monitor looks at it.
Merge ==
    /\ At("idle")
    /\ LET t == state.current
       IN  /\ t # 0 /\ t \notin state.completed
           /\ remote.task # t
           /\ remote' = [task |-> t, status |-> "PR_CREATED"]
    /\ UNCHANGED <<receipt, report, graph, state, campaign, pending, profile, job, counters>>

NewProfile ==
    /\ profile < MaxProfile
    /\ profile' = profile + 1
    /\ UNCHANGED <<files, pending, job, counters>>

\* A request of a verification run fails for good, or its workspace cannot be
\* prepared: the error is caught and contained.  A failure while containing
\* ends the run, as does any failure of another program: that is Crash.
VerifyFails ==
    /\ job.kind = "verify"
    /\ ~At("catch")
    /\ job.first # NoReceipt
    /\ faults < MaxFault
    /\ faults' = faults + 1
    /\ GoTo("catch")
    /\ UNCHANGED <<files, pending, profile, crashes, lost>>

Crash ==
    /\ ~At("idle")
    /\ crashes < MaxCrash
    /\ crashes' = crashes + 1
    /\ GoTo("idle")
    /\ UNCHANGED <<files, pending, profile, faults, lost>>

LoseRun ==
    /\ lost < MaxLost
    /\ \E t \in pending : pending' = pending \ {t}
    /\ lost' = lost + 1
    /\ UNCHANGED <<files, profile, job, crashes, faults>>

JobStep ==
    \/ Arm \/ Dispatch \/ RecordDispatch \/ MarkMerged
    \/ AdvanceGraph \/ AdvanceCampaign \/ AdvanceState
    \/ Prepare \/ Probe \/ Pass \/ Fail \/ Catch
    \/ ContainCampaign \/ ContainState \/ ContainReceipt
    \/ Reconcile \/ SettleCampaign \/ SettleState
    \/ MigrateReceipt \/ MigrateState \/ MigrateCampaign

Next ==
    \/ MonitorStart \/ MigrateStart \/ WatchdogStart \/ RetryStart
    \/ \E t \in Task : VerifyStart(t)
    \/ JobStep
    \/ Merge \/ NewProfile \/ VerifyFails \/ Crash \/ LoseRun

Spec == Init /\ [][Next]_vars

\* A job goes on; the monitor and the watchdog are on a schedule; a pending
\* run gets its turn, unless it is replaced.  Nothing is asked of a human.
FairSpec ==
    /\ Spec
    /\ WF_vars(JobStep)
    /\ SF_vars(MonitorStart) /\ SF_vars(WatchdogStart) /\ SF_vars(MigrateStart)
    /\ \A t \in Task : SF_vars(VerifyStart(t))

-----------------------------------------------------------------------------
ReceiptStatus == {"NONE", "ARMED", "DISPATCHED", "VERIFIED", "FAILED", "HUMAN_WAIT"}
Receipts == [status : ReceiptStatus, profile : 0 .. MaxProfile]

\* The types of the stored files and of the job; the statuses are those that
\* RuntimeVerificationReceipt and the state and campaign schemas accept.
TypeOK ==
    /\ receipt \in [Task -> Receipts]
    /\ report \in [Task -> Receipts]
    /\ graph \in 0 .. N
    /\ state \in [current : 0 .. N, status : {"READY", "RUNNING", "HUMAN_WAIT"},
                   completed : SUBSET Task, iteration : 0 .. N]
    /\ campaign \in [completed : SUBSET Task,
                      status : {"RUNNING", "HUMAN_WAIT", "COMPLETED"}]
    /\ remote \in [task : 0 .. N, status : {"NONE", "PR_CREATED", "MERGED"}]
    /\ pending \subseteq Task
    /\ profile \in 0 .. MaxProfile
    /\ job.t \in 0 .. N
    /\ job.first \in Receipts /\ job.active \in Receipts

\* A task is VERIFIED only on a stored report that says so, made under the
\* very profile of the receipt, whatever crash, re-arming or repeated run came
\* between (the report is stored before the verdict, and a receipt of another
\* profile is refused).
VerdictHasReport ==
    \A t \in Task : receipt[t].status = "VERIFIED" => report[t] = receipt[t]

\* A queue transition is made once, by the monitor or, "if that monitor
\* crashed", by the verification run (reconcile_verified_task): iterations and
\* completed tasks stay equal in number, and completions follow the graph.
AdvancedOnce ==
    /\ state.iteration = Cardinality(state.completed)
    /\ state.completed \subseteq 1 .. graph

\* No merge of the monitor reaches the completed tasks unverified: its receipt
\* is stored before the queue is advanced, also when the monitor dies.
EveryMergeIsArmed ==
    \A t \in state.completed : receipt[t].status # "NONE"

\* The watchdog looks at the current task only, so an armed verification must
\* belong to it: nothing may move the project on while a receipt is ARMED.
ArmedIsReachable ==
    \A t \in Task : receipt[t].status = "ARMED" => state.current = t

\* What the verifications leave behind agrees after any crash, replaced run
\* or failed request: verdicts rest on reports, the queue moved once for each
\* task, no merge escaped, and no armed receipt is out of the watchdog's sight.
VerdictsStand ==
    /\ TypeOK /\ VerdictHasReport /\ AdvancedOnce
    /\ EveryMergeIsArmed /\ ArmedIsReachable

\* Unless a job dies, a verification that waits for a human holds the whole
\* project: its task is current, and state and campaign wait too.  No other
\* verification, merge or settlement takes the project from under it.
HumanWaitHolds ==
    crashes = 0 =>
        \A t \in Task : receipt[t].status = "HUMAN_WAIT" =>
            /\ state.current = t /\ state.status = "HUMAN_WAIT"
            /\ campaign.status = "HUMAN_WAIT"

\* An armed verification is dispatched or given up, though the monitor, the
\* profile migration or the watchdog died, or the dispatched run was replaced.
ArmedIsServed ==
    \A t \in Task : (receipt[t].status = "ARMED") ~> (receipt[t].status # "ARMED")

\* ROADMAP.md, "a failed runtime receipt is promoted to HUMAN_WAIT [...] so
\* runtime failure cannot coexist with silent Campaign success".  The code
\* breaks it: a task that is not the last one has a newer current task when
\* its verification fails, and the failure is not contained.
RuntimeFailureIsNotSilent ==
    At("idle") /\ campaign.status = "COMPLETED" =>
        \A t \in Task : receipt[t].status \notin {"FAILED", "HUMAN_WAIT"}

=============================================================================
