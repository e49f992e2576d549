---------------------- MODULE RuntimeVerificationProofs ----------------------
(***************************************************************************)
(* What the verifications of a campaign leave behind, for any number of    *)
(* tasks, profiles, kills, failing requests and lost runs.  One job runs   *)
(* at a time, so what a job read or wrote of its task's receipt holds      *)
(* until it ends: JobInv says, step by step, what that is.  Straight is    *)
(* the part that a kill can break, and says that without one the graph,    *)
(* the campaign and the state move together and only the monitor meets a   *)
(* task that is not completed; HumanWaitHolds rests on it.                 *)
(***************************************************************************)
EXTENDS RuntimeVerification, FiniteSetTheorems, TLAPS

Advancing == {"advance", "advCampaign", "advState"}
InTransit == job.pc \in {"advCampaign", "advState"}

(* The steps of each program. *)
MonitorSteps == {"arm", "dispatch", "record", "merged", "advance", "advCampaign", "advState"}
WatchdogSteps == {"rearm", "rearmState", "rearmCampaign", "dispatch", "record", "merged"}
RetrySteps == {"arm", "dispatch", "record"}
VerifySteps ==
    {"prepare", "record", "probe", "pass", "fail", "catch", "contain", "containState",
     "containReceipt", "reconcile", "settle", "settleState", "advance", "advCampaign",
     "advState"}

Pcs == {"idle"} \cup MonitorSteps \cup WatchdogSteps \cup RetrySteps \cup VerifySteps

Jobs == [pc : Pcs, kind : {"none", "monitor", "watchdog", "retry", "verify"}, t : 0 .. N,
         profile : 0 .. MaxProfile, first : Receipts, active : Receipts]

(* A job runs its own program, and is about a task. *)
OnCourse ==
    /\ job.kind = "none" => job.pc = "idle"
    /\ job.kind = "monitor" => job.pc \in MonitorSteps
    /\ job.kind = "watchdog" => job.pc \in WatchdogSteps
    /\ job.kind = "retry" => job.pc \in RetrySteps
    /\ job.kind = "verify" => job.pc \in VerifySteps
    /\ job.pc # "idle" => job.t \in Task

Typed ==
    /\ TypeOK
    /\ job \in Jobs /\ OnCourse
    /\ remote.status # "NONE" => remote.task \in Task
    /\ crashes \in Nat

Verdict(t) == receipt[t].status

(* What the job has made sure of when it is about to take a step. *)
JobInv ==
    /\ job.pc \notin {"idle", "arm"} => Verdict(job.t) # "NONE"
    /\ job.pc \in {"arm", "rearm", "rearmState", "rearmCampaign"} => state.current = job.t
    /\ job.kind = "monitor" /\ job.pc # "merged" => state.current = job.t
    /\ At("arm") /\ job.kind = "retry" =>
          Verdict(job.t) # "NONE" /\ Armed(job.t).status = "ARMED"
    /\ job.pc \in {"rearmState", "rearmCampaign"} => Verdict(job.t) = "ARMED"
    /\ job.pc \in Advancing => Verdict(job.t) # "ARMED"
    /\ job.pc \in {"advCampaign", "advState"} =>
          state.current \in {0, job.t} /\ job.t = graph /\ job.t \notin state.completed
    /\ job.kind = "verify" /\ job.pc \in {"prepare", "record", "probe"} =>
          Verdict(job.t) # "VERIFIED"
    /\ At("pass") => report[job.t] = Receipt("VERIFIED")
    /\ job.kind = "verify" /\ job.pc \in {"reconcile", "settle", "settleState"} \cup Advancing =>
          Verdict(job.t) = "VERIFIED"
    /\ At("settleState") => state.current \in {0, job.t} /\ campaign.completed = Task
    /\ At("containState") => state.current \in {0, job.t}
    /\ job.pc \in {"containState", "containReceipt"} => campaign.status = "HUMAN_WAIT"
    /\ At("containReceipt") => state.current = job.t /\ state.status = "HUMAN_WAIT"

(* A run waits for a receipt that is there. *)
PendingInv == \A t \in pending : Verdict(t) # "NONE"

IInv ==
    /\ Typed /\ JobInv /\ PendingInv
    /\ VerdictHasReport /\ AdvancedOnce /\ EveryMergeIsArmed /\ ArmedIsReachable

(* Without a kill: the completed tasks are those of the graph, in all three *)
(* files, but for the task that the monitor is about to complete ...        *)
Aligned ==
    /\ state.completed = IF InTransit THEN 1 .. graph - 1 ELSE 1 .. graph
    /\ campaign.completed = IF At("advCampaign") THEN 1 .. graph - 1 ELSE 1 .. graph
    /\ InTransit \/ graph = N \/ state.current = graph + 1

(* ... a task has a receipt when it is completed or the monitor is at it,   *)
(* and a verification is of a completed task ...                            *)
Covered ==
    /\ \A t \in Task : Verdict(t) # "NONE" =>
          t \in state.completed \/ (job.kind = "monitor" /\ t = job.t)
    /\ job.kind = "verify" => job.t \in state.completed

(* ... and a pull request that the monitor has to look at is of a task that *)
(* is not completed, until the monitor has done so, step by step.           *)
Unfinished ==
    /\ remote.status = "PR_CREATED" /\ job.kind # "monitor" =>
          remote.task \notin state.completed
    /\ job.kind = "monitor" =>
          /\ At("merged") <=> job.t \in state.completed
          /\ At("arm") => Verdict(job.t) = "NONE"
          /\ job.pc \in {"dispatch", "record"} =>
                Verdict(job.t) = "ARMED" /\ receipt[job.t].profile = job.profile
          /\ job.pc \in Advancing => Verdict(job.t) = "DISPATCHED"

Straight == Aligned /\ Covered /\ Unfinished

StraightInv == crashes = 0 => Straight

Inv == IInv /\ StraightInv /\ HumanWaitHolds

USE RuntimeConstants DEF Task

(* A job that goes on is the same job, and one that ends is none. *)
Onward(pc) ==
    /\ pc # "idle" =>
          job'.kind = job.kind /\ job'.t = job.t /\ job'.profile = job.profile
    /\ pc = "idle" => job'.kind = "none"

(* What GoTo does with the job. *)
LEMMA GoToFacts ==
    ASSUME job \in Jobs, NEW pc \in Pcs, GoTo(pc)
    PROVE  job' \in Jobs /\ job'.pc = pc /\ Onward(pc)
<1>1. IdleJob \in Jobs /\ IdleJob.kind = "none" /\ IdleJob.pc = "idle"
  BY DEF IdleJob, Jobs, Pcs, NoReceipt, Receipts, ReceiptStatus
<1>2. [job EXCEPT !.pc = pc] \in Jobs BY DEF Jobs
<1>3. QED BY <1>1, <1>2 DEF GoTo, Jobs, Onward

(* What a job writes into a receipt. *)
LEMMA ReceiptType ==
    ASSUME job \in Jobs
    PROVE  \A s \in ReceiptStatus :
              /\ Receipt(s) \in Receipts /\ Receipt(s).status = s
              /\ Receipt(s).profile = job.profile
BY DEF Jobs, Receipt, Receipts

(* The parts of a job that TypeOK names. *)
LEMMA JobTypes ==
    ASSUME job' \in Jobs
    PROVE  job'.t \in 0 .. N /\ job'.first \in Receipts /\ job'.active \in Receipts
BY DEF Jobs

(* Before the first task there are none. *)
LEMMA CountNone == Cardinality({}) = 0
BY FS_EmptySet

(* Completed tasks are counted one by one. *)
LEMMA CountTasks ==
    ASSUME NEW S \in SUBSET Task
    PROVE  /\ IsFiniteSet(S) /\ Cardinality(S) \in 0 .. N
           /\ \A t \in Task \ S : Cardinality(S \cup {t}) = Cardinality(S) + 1
<1>1. IsFiniteSet(Task) /\ Cardinality(Task) = N
  BY FS_Interval
<1>2. IsFiniteSet(S) /\ Cardinality(S) <= N
  BY <1>1, FS_Subset
<1>3. Cardinality(S) \in Nat BY <1>2, FS_CardinalityType
<1>4. QED BY <1>2, <1>3, FS_AddElement

(* What arming leaves: what is there for this profile, or an armed receipt. *)
LEMMA ArmedFacts ==
    ASSUME job \in Jobs, job.t \in Task, receipt \in [Task -> Receipts],
           NEW r, r = Armed(job.t)
    PROVE  /\ r \in Receipts /\ r.status # "NONE" /\ r.profile = job.profile
           /\ r.status # "ARMED" => r = receipt[job.t] /\ Verdict(job.t) # "NONE"
BY ReceiptType DEF Armed, Verdict, ReceiptStatus, Receipts

(* A program starts on a task, under the profile of the moment. *)
LEMMA StartFacts ==
    ASSUME NEW pc \in Pcs, NEW kind \in {"monitor", "watchdog", "retry"}, NEW t \in Task,
           profile \in 0 .. MaxProfile, Start(pc, kind, t)
    PROVE  /\ job' \in Jobs /\ job'.pc = pc /\ job'.kind = kind /\ job'.t = t
           /\ job'.profile = profile
<1>1. IdleJob \in Jobs
  BY DEF IdleJob, Jobs, Pcs, NoReceipt, Receipts, ReceiptStatus
<1>2. PICK j : j = IdleJob OBVIOUS
<1>3. job' = [j EXCEPT !.pc = pc, !.kind = kind, !.t = t, !.profile = profile]
  BY <1>2 DEF Start
<1>4. j \in Jobs /\ t \in 0 .. N /\ kind \in {"none", "monitor", "watchdog", "retry", "verify"}
  BY <1>1, <1>2
<1>5. QED BY <1>3, <1>4 DEF Jobs

(* The monitor starts on the current task, which without kills has no      *)
(* receipt yet.                                                            *)
LEMMA MonitorStartInv ==
    ASSUME Inv, MonitorStart
    PROVE  Inv'
<1>1. PICK t \in Task, pc \in {"arm"} :
           /\ Start(pc, "monitor", t) /\ job \in Jobs /\ job.pc = "idle" /\ job.kind = "none"
           /\ t = state.current
           /\ remote.task = t /\ remote.status = "PR_CREATED"
  BY DEF MonitorStart, FirstStep, Inv, IInv, Typed, TypeOK, Jobs, OnCourse, At,
       MonitorSteps, WatchdogSteps, RetrySteps, VerifySteps
<1>2. UNCHANGED <<receipt, report, graph, state, campaign, remote, pending, profile, crashes>>
  BY DEF MonitorStart, files, counters
<1>3. /\ job' \in Jobs /\ job'.pc = pc /\ job'.kind = "monitor" /\ job'.t = t
      /\ job'.profile = profile
  BY <1>1, StartFacts DEF Inv, IInv, Typed, TypeOK, Pcs, MonitorSteps, WatchdogSteps,
       RetrySteps, VerifySteps
<1>4. TypeOK'
  BY <1>1, <1>2, <1>3, JobTypes, ReceiptType DEF Inv, IInv, Typed, TypeOK, ReceiptStatus
<1>5. (OnCourse /\ (remote.status # "NONE" => remote.task \in Task) /\ crashes \in Nat)'
  BY <1>1, <1>2, <1>3 DEF Inv, IInv, Typed, Onward, OnCourse, MonitorSteps, WatchdogSteps,
       RetrySteps, VerifySteps
<1>6. JobInv'
  BY <1>1, <1>2, <1>3, ReceiptType DEF Inv, IInv, Typed, TypeOK, Onward, ReceiptStatus, At,
       JobInv, Verdict, Armed, Advancing
<1>7. (PendingInv /\ VerdictHasReport /\ EveryMergeIsArmed /\ ArmedIsReachable)'
  BY <1>1, <1>2, <1>3, ReceiptType DEF Inv, IInv, Typed, TypeOK, ReceiptStatus, JobInv, At,
       PendingInv, VerdictHasReport, EveryMergeIsArmed, ArmedIsReachable, Verdict, Advancing
<1>8. AdvancedOnce'
  BY <1>1, <1>2 DEF Inv, IInv, Typed, TypeOK, AdvancedOnce
<1>9. StraightInv' /\ HumanWaitHolds'
  <2>1. SUFFICES ASSUME crashes' = 0, Straight, HumanWaitHolds
                 PROVE  Straight' /\ HumanWaitHolds'
    BY <1>1, <1>2 DEF Inv, StraightInv, HumanWaitHolds
  <2>2. Aligned'
    BY <1>1, <1>2, <1>3, <2>1 DEF Onward, Inv, IInv, Typed, TypeOK, At, JobInv, Straight,
         Aligned, Covered, Unfinished, InTransit
  <2>3. Covered'
    BY <1>1, <1>2, <1>3, <2>1, ReceiptType DEF Onward, Inv, IInv, Typed, TypeOK,
         ReceiptStatus, At, JobInv, Straight, Covered, Unfinished, Verdict
  <2>4. Unfinished'
    BY <1>1, <1>2, <1>3, <2>1, ReceiptType DEF Onward, Inv, IInv, Typed, TypeOK,
         ReceiptStatus, At, JobInv, Straight, Aligned, Covered, Unfinished, Verdict, Advancing,
         InTransit
  <2>5. HumanWaitHolds'
    BY <1>1, <1>2, <1>3, <2>1, ReceiptType DEF Inv, IInv, Typed, TypeOK, ReceiptStatus, At,
         JobInv, Straight, Covered, Unfinished, HumanWaitHolds, Verdict, Advancing
  <2>6. QED BY <2>2, <2>3, <2>4, <2>5 DEF Straight
<1>10. QED BY <1>2, <1>3, <1>4, <1>5, <1>6, <1>7, <1>8, <1>9 DEF Inv, IInv, Typed

(* The receipt that is there for this profile stays; any other is replaced. *)
LEMMA ArmInv ==
    ASSUME Inv, Arm
    PROVE  Inv'
<1>1. PICK pc \in {"dispatch", "advance"} :
           /\ GoTo(pc)
           /\ receipt' = [receipt EXCEPT ![job.t] = Armed(job.t)]
           /\ pc = "dispatch" <=> Armed(job.t).status = "ARMED"
  <2>1. CASE Armed(job.t).status = "ARMED" BY <2>1, Zenon DEF Arm
  <2>2. CASE Armed(job.t).status # "ARMED" BY <2>2, Zenon DEF Arm
  <2>3. QED BY <2>1, <2>2 DEF Arm
<1>2. /\ job \in Jobs /\ job.t \in Task /\ job.pc = "arm" /\ job.kind \in {"monitor", "retry"}
      /\ UNCHANGED <<report, graph, state, campaign, remote, pending, profile, crashes>>
  BY DEF Arm, files, counters, Inv, IInv, Typed, Jobs, OnCourse, At, MonitorSteps,
       WatchdogSteps, RetrySteps, VerifySteps
<1>3. job' \in Jobs /\ job'.pc = pc /\ Onward(pc)
  BY <1>1, <1>2, GoToFacts DEF Pcs, MonitorSteps, WatchdogSteps, RetrySteps, VerifySteps
<1>4. TypeOK'
  <2>1. receipt \in [Task -> Receipts] BY DEF Inv, IInv, Typed, TypeOK
  <2>2. Armed(job.t) \in Receipts BY <1>2, <2>1, ArmedFacts
  <2>3. QED BY <1>1, <1>2, <1>3, <2>2, JobTypes DEF Inv, IInv, Typed, TypeOK
<1>5. (OnCourse /\ (remote.status # "NONE" => remote.task \in Task) /\ crashes \in Nat)'
  BY <1>1, <1>2, <1>3 DEF Inv, IInv, Typed, Onward, OnCourse, MonitorSteps, WatchdogSteps,
       RetrySteps, VerifySteps, JobInv, At
<1>6. JobInv'
  BY <1>1, <1>2, <1>3, ReceiptType DEF Inv, IInv, Typed, TypeOK, Onward, ReceiptStatus, At,
       JobInv, Verdict, Armed, Advancing
<1>7. (PendingInv /\ VerdictHasReport /\ EveryMergeIsArmed /\ ArmedIsReachable)'
  <2>1. PICK r : r = Armed(job.t) OBVIOUS
  <2>2. receipt \in [Task -> Receipts] BY DEF Inv, IInv, Typed, TypeOK
  <2>3. /\ r.status # "NONE" /\ receipt' = [receipt EXCEPT ![job.t] = r]
        /\ r.status # "ARMED" => r = receipt[job.t]
    BY <1>1, <1>2, <2>1, <2>2, ArmedFacts
  <2>4. /\ \A t \in Task : receipt'[t] = IF t = job.t THEN r ELSE receipt[t]
        /\ state.current = job.t
    BY <1>2, <2>2, <2>3 DEF Inv, IInv, JobInv
  <2>5. (PendingInv /\ EveryMergeIsArmed)'
    BY <1>2, <2>3, <2>4 DEF Inv, IInv, Typed, TypeOK, PendingInv, EveryMergeIsArmed, Verdict
  <2>6. VerdictHasReport'
    BY <1>2, <2>3, <2>4 DEF Inv, IInv, VerdictHasReport
  <2>7. ArmedIsReachable'
    BY <1>2, <2>4 DEF Inv, IInv, ArmedIsReachable
  <2>8. QED BY <2>5, <2>6, <2>7
<1>8. AdvancedOnce'
  BY <1>1, <1>2 DEF Inv, IInv, Typed, TypeOK, AdvancedOnce
<1>9. StraightInv' /\ HumanWaitHolds'
  <2>1. SUFFICES ASSUME crashes' = 0, Straight, HumanWaitHolds
                 PROVE  Straight' /\ HumanWaitHolds'
    BY <1>1, <1>2 DEF Inv, StraightInv, HumanWaitHolds
  <2>2. Aligned'
    BY <1>1, <1>2, <1>3, <2>1 DEF Onward, Inv, IInv, Typed, TypeOK, At, JobInv, Straight,
         Aligned, Covered, Unfinished, InTransit
  <2>3. Covered'
    BY <1>1, <1>2, <1>3, <2>1, ReceiptType DEF Onward, Inv, IInv, Typed, TypeOK,
         ReceiptStatus, At, JobInv, Straight, Covered, Unfinished, Verdict
  <2>4. Unfinished'
    <3>1. PICK r : r = Armed(job.t) OBVIOUS
    <3>2. receipt \in [Task -> Receipts] BY DEF Inv, IInv, Typed, TypeOK
    <3>3. /\ r.profile = job.profile /\ receipt' = [receipt EXCEPT ![job.t] = r]
          /\ receipt'[job.t] = r
          /\ r.status # "ARMED" => Verdict(job.t) # "NONE"
      BY <1>1, <1>2, <3>1, <3>2, ArmedFacts
    <3>4. job.kind = "monitor" => r.status = "ARMED"
      BY <1>2, <2>1, <3>3 DEF Straight, Unfinished, At
    <3>5. pc = "dispatch" <=> r.status = "ARMED" BY <1>1, <3>1
    <3>6. QED
      BY <1>1, <1>2, <1>3, <2>1, <3>3, <3>4, <3>5
         DEF Onward, Straight, Unfinished, At, Verdict, Advancing
  <2>5. HumanWaitHolds'
    <3>1. PICK r : r = Armed(job.t) OBVIOUS
    <3>2. receipt \in [Task -> Receipts] BY DEF Inv, IInv, Typed, TypeOK
    <3>3. /\ receipt' = [receipt EXCEPT ![job.t] = r]
          /\ r.status # "ARMED" => r = receipt[job.t]
      BY <1>1, <1>2, <3>1, <3>2, ArmedFacts
    <3>4. \A t \in Task : receipt'[t] = IF t = job.t THEN r ELSE receipt[t]
      BY <1>2, <3>2, <3>3
    <3>5. QED BY <1>2, <2>1, <3>3, <3>4 DEF HumanWaitHolds
  <2>6. QED BY <2>2, <2>3, <2>4, <2>5 DEF Straight
<1>10. QED BY <1>2, <1>3, <1>4, <1>5, <1>6, <1>7, <1>8, <1>9 DEF Inv, IInv, Typed

(* The run that is sent for has a receipt to work on. *)
LEMMA DispatchInv ==
    ASSUME Inv, Dispatch
    PROVE  Inv'
<1>1. PICK pc \in {"record"} :
           /\ GoTo(pc)
           /\ pending' = pending \cup {job.t}
  BY Zenon DEF Dispatch
<1>2. /\ job \in Jobs /\ job.t \in Task /\ job.pc = "dispatch"
      /\ job.kind \in {"monitor", "watchdog", "retry"}
      /\ UNCHANGED <<receipt, report, graph, state, campaign, remote, profile, crashes>>
  BY DEF Dispatch, files, counters, Inv, IInv, Typed, Jobs, OnCourse, At, MonitorSteps,
       WatchdogSteps, RetrySteps, VerifySteps
<1>3. job' \in Jobs /\ job'.pc = pc /\ Onward(pc)
  BY <1>1, <1>2, GoToFacts DEF Pcs, MonitorSteps, WatchdogSteps, RetrySteps, VerifySteps
<1>4. TypeOK'
  BY <1>1, <1>2, <1>3, JobTypes, ReceiptType DEF Inv, IInv, Typed, TypeOK, ReceiptStatus
<1>5. (OnCourse /\ (remote.status # "NONE" => remote.task \in Task) /\ crashes \in Nat)'
  BY <1>1, <1>2, <1>3 DEF Inv, IInv, Typed, Onward, OnCourse, MonitorSteps, WatchdogSteps,
       RetrySteps, VerifySteps
<1>6. JobInv'
  BY <1>1, <1>2, <1>3, ReceiptType DEF Inv, IInv, Typed, TypeOK, Onward, ReceiptStatus, At,
       JobInv, Verdict, Armed, Advancing
<1>7. (PendingInv /\ VerdictHasReport /\ EveryMergeIsArmed /\ ArmedIsReachable)'
  BY <1>1, <1>2, <1>3, ReceiptType DEF Inv, IInv, Typed, TypeOK, ReceiptStatus, JobInv, At,
       PendingInv, VerdictHasReport, EveryMergeIsArmed, ArmedIsReachable, Verdict, Advancing
<1>8. AdvancedOnce'
  BY <1>1, <1>2 DEF Inv, IInv, Typed, TypeOK, AdvancedOnce
<1>9. StraightInv' /\ HumanWaitHolds'
  <2>1. SUFFICES ASSUME crashes' = 0, Straight, HumanWaitHolds
                 PROVE  Straight' /\ HumanWaitHolds'
    BY <1>1, <1>2 DEF Inv, StraightInv, HumanWaitHolds
  <2>2. Aligned'
    BY <1>1, <1>2, <1>3, <2>1 DEF Onward, Inv, IInv, Typed, TypeOK, At, JobInv, Straight,
         Aligned, Covered, Unfinished, InTransit
  <2>3. Covered'
    BY <1>1, <1>2, <1>3, <2>1, ReceiptType DEF Onward, Inv, IInv, Typed, TypeOK,
         ReceiptStatus, At, JobInv, Straight, Covered, Unfinished, Verdict
  <2>4. Unfinished'
    BY <1>1, <1>2, <1>3, <2>1, ReceiptType DEF Onward, Inv, IInv, Typed, TypeOK,
         ReceiptStatus, At, JobInv, Straight, Aligned, Covered, Unfinished, Verdict, Advancing,
         InTransit
  <2>5. HumanWaitHolds'
    BY <1>1, <1>2, <1>3, <2>1, ReceiptType DEF Inv, IInv, Typed, TypeOK, ReceiptStatus, At,
         JobInv, Straight, Covered, Unfinished, HumanWaitHolds, Verdict, Advancing
  <2>6. QED BY <2>2, <2>3, <2>4, <2>5 DEF Straight
<1>10. QED BY <1>2, <1>3, <1>4, <1>5, <1>6, <1>7, <1>8, <1>9 DEF Inv, IInv, Typed

(* A receipt of this profile becomes DISPATCHED; without kills the monitor *)
(* always finds one.                                                       *)
LEMMA RecordDispatchInv ==
    ASSUME Inv, RecordDispatch
    PROVE  Inv'
<1>1. /\ job \in Jobs /\ job.t \in Task /\ job.pc = "record"
      /\ job.kind \in {"monitor", "watchdog", "retry", "verify"}
      /\ UNCHANGED <<report, graph, state, campaign, remote, pending, profile, crashes>>
  BY DEF RecordDispatch, files, counters, Inv, IInv, Typed, Jobs, OnCourse, At,
       MonitorSteps, WatchdogSteps, RetrySteps, VerifySteps
<1>2. PICK pc \in {"advance", "merged", "idle", "probe", "catch"} :
           /\ job' \in Jobs /\ job'.pc = pc /\ Onward(pc)
           /\ pc = "advance" => job.kind = "monitor"
           /\ pc = "merged" => job.kind = "watchdog"
           /\ pc \in {"probe", "catch"} => job.kind = "verify"
           /\ receipt[job.t].profile = job.profile =>
                /\ receipt' = [receipt EXCEPT ![job.t] = Dispatched(@)]
                /\ pc = AfterRecord(job.kind)
           /\ receipt[job.t].profile # job.profile =>
                UNCHANGED receipt /\ pc \in {"idle", "catch"}
  <2>1. CASE receipt[job.t].profile = job.profile
    <3>1. PICK pc \in {"advance", "merged", "idle", "probe"} :
              /\ pc = AfterRecord(job.kind)
              /\ pc = "advance" => job.kind = "monitor"
              /\ pc = "merged" => job.kind = "watchdog"
              /\ pc = "probe" => job.kind = "verify"
      BY <1>1 DEF AfterRecord
    <3>2. receipt' = [receipt EXCEPT ![job.t] = Dispatched(@)] BY <2>1 DEF RecordDispatch
    <3>3. job' = IF pc = "idle" THEN IdleJob
                 ELSE [job EXCEPT !.pc = pc, !.active = Receipt("DISPATCHED")]
      BY <2>1, <3>1, Zenon DEF RecordDispatch
    <3>4. job' \in Jobs /\ job'.pc = pc /\ Onward(pc)
      <4>1. CASE pc = "idle"
        <5>1. GoTo(pc) BY <3>3, <4>1 DEF GoTo
        <5>2. QED BY <1>1, <4>1, <5>1, GoToFacts DEF Pcs
      <4>2. CASE pc # "idle"
        <5>1. Receipt("DISPATCHED") \in Receipts BY <1>1, ReceiptType DEF ReceiptStatus
        <5>2. pc \in Pcs BY DEF Pcs, MonitorSteps, VerifySteps
        <5>3. QED BY <1>1, <3>3, <4>2, <5>1, <5>2 DEF Jobs, Onward
      <4>3. QED BY <4>1, <4>2
    <3>5. QED BY <2>1, <3>1, <3>2, <3>4
  <2>2. CASE receipt[job.t].profile # job.profile
    <3>1. PICK pc \in {"idle", "catch"} : GoTo(pc) /\ (pc = "catch" => job.kind = "verify")
      <4>1. CASE job.kind = "verify" BY <2>2, <4>1, Zenon DEF RecordDispatch
      <4>2. CASE job.kind # "verify" BY <2>2, <4>2, Zenon DEF RecordDispatch
      <4>3. QED BY <4>1, <4>2
    <3>2. UNCHANGED receipt BY <2>2 DEF RecordDispatch
    <3>3. job' \in Jobs /\ job'.pc = pc /\ Onward(pc)
      BY <1>1, <3>1, GoToFacts DEF Pcs, VerifySteps
    <3>4. QED BY <2>2, <3>1, <3>2, <3>3
  <2>3. QED BY <2>1, <2>2
<1>3. PICK r \in Receipts :
           /\ receipt' \in [Task -> Receipts]
           /\ \A t \in Task : receipt'[t] = IF t = job.t THEN r ELSE receipt[t]
           /\ r.profile = receipt[job.t].profile
           /\ r = receipt[job.t] \/ r.status = "DISPATCHED"
           /\ pc \notin {"idle", "catch"} => r.status = "DISPATCHED"
           /\ r.status = receipt[job.t].status => r = receipt[job.t]
  <2>1. receipt \in [Task -> Receipts] BY DEF Inv, IInv, Typed, TypeOK
  <2>2. CASE receipt[job.t].profile = job.profile
    <3>1. PICK r : r = Dispatched(receipt[job.t]) OBVIOUS
    <3>2. /\ r \in Receipts /\ r.status = "DISPATCHED" /\ r.profile = receipt[job.t].profile
          /\ receipt[job.t].status = "DISPATCHED" => r = receipt[job.t]
      BY <1>1, <2>1, <3>1 DEF Dispatched, Receipts, ReceiptStatus
    <3>3. receipt' = [receipt EXCEPT ![job.t] = r] BY <1>2, <2>2, <3>1
    <3>4. QED BY <1>1, <2>1, <3>2, <3>3
  <2>3. CASE receipt[job.t].profile # job.profile
    BY <1>1, <1>2, <2>1, <2>3
  <2>4. QED BY <2>2, <2>3
<1>4. TypeOK'
  BY <1>1, <1>2, <1>3, JobTypes DEF Inv, IInv, Typed, TypeOK
<1>5. (OnCourse /\ (remote.status # "NONE" => remote.task \in Task) /\ crashes \in Nat)'
  BY <1>1, <1>2, <1>3 DEF Inv, IInv, Typed, Onward, OnCourse, MonitorSteps, WatchdogSteps,
       RetrySteps, VerifySteps
<1>6. JobInv'
  BY <1>1, <1>2, <1>3, ReceiptType DEF Inv, IInv, Typed, TypeOK, Onward, ReceiptStatus, At,
       JobInv, Verdict, Armed, Advancing
<1>7. (PendingInv /\ VerdictHasReport /\ EveryMergeIsArmed /\ ArmedIsReachable)'
  <2>1. \A t \in Task : receipt'[t] = receipt[t] \/ receipt'[t].status = "DISPATCHED"
    BY <1>3
  <2>2. (PendingInv /\ VerdictHasReport /\ EveryMergeIsArmed)'
    BY <1>1, <2>1 DEF Inv, IInv, Typed, TypeOK, PendingInv, VerdictHasReport,
       EveryMergeIsArmed, Verdict
  <2>3. ArmedIsReachable' BY <1>1, <2>1 DEF Inv, IInv, ArmedIsReachable
  <2>4. QED BY <2>2, <2>3
<1>8. AdvancedOnce'
  BY <1>1, <1>2 DEF Inv, IInv, Typed, TypeOK, AdvancedOnce
<1>9. StraightInv' /\ HumanWaitHolds'
  <2>1. SUFFICES ASSUME crashes' = 0, Straight, HumanWaitHolds
                 PROVE  Straight' /\ HumanWaitHolds'
    BY <1>1, <1>2 DEF Inv, StraightInv, HumanWaitHolds
  <2>0. /\ job.kind = "monitor" => pc = "advance" /\ job.t \notin state.completed
        /\ receipt'[job.t] = r /\ \A t \in Task : t # job.t => receipt'[t] = receipt[t]
        /\ receipt[job.t].status # "NONE"
    BY <1>1, <1>2, <1>3, <2>1 DEF AfterRecord, Straight, Unfinished, At, Inv, IInv, JobInv,
         Verdict
  <2>2. Aligned'
    BY <1>1, <1>2, <1>3, <2>1 DEF Onward, Inv, IInv, Typed, TypeOK, At, JobInv, Straight,
         Aligned, Covered, Unfinished, InTransit
  <2>3. Covered'
    BY <1>1, <1>2, <2>1, <2>0 DEF Onward, Straight, Covered, Verdict
  <2>4. Unfinished'
    BY <1>1, <1>2, <1>3, <2>1, <2>0 DEF Onward, Straight, Unfinished, Verdict, At, Advancing
  <2>5. HumanWaitHolds'
    <3>1. \A t \in Task : receipt'[t] = receipt[t] \/ receipt'[t].status = "DISPATCHED"
      BY <1>3
    <3>2. QED BY <1>1, <2>1, <3>1 DEF HumanWaitHolds
  <2>6. QED BY <2>2, <2>3, <2>4, <2>5 DEF Straight
<1>10. QED BY <1>2, <1>3, <1>4, <1>5, <1>6, <1>7, <1>8, <1>9 DEF Inv, IInv, Typed

(* The monitor is done with its pull request. *)
LEMMA MarkMergedInv ==
    ASSUME Inv, MarkMerged
    PROVE  Inv'
<1>1. PICK pc \in {"idle"} :
           /\ GoTo(pc)
           /\ remote' = [task |-> job.t, status |-> "MERGED"]
  BY Zenon DEF MarkMerged
<1>2. /\ job \in Jobs /\ job.t \in Task /\ job.pc = "merged"
      /\ job.kind \in {"monitor", "watchdog"}
      /\ UNCHANGED <<receipt, report, graph, state, campaign, pending, profile, crashes>>
  BY DEF MarkMerged, files, counters, Inv, IInv, Typed, Jobs, OnCourse, At, MonitorSteps,
       WatchdogSteps, RetrySteps, VerifySteps
<1>3. job' \in Jobs /\ job'.pc = pc /\ Onward(pc)
  BY <1>1, <1>2, GoToFacts DEF Pcs, MonitorSteps, WatchdogSteps, RetrySteps, VerifySteps
<1>4. TypeOK'
  BY <1>1, <1>2, <1>3, JobTypes, ReceiptType DEF Inv, IInv, Typed, TypeOK, ReceiptStatus
<1>5. (OnCourse /\ (remote.status # "NONE" => remote.task \in Task) /\ crashes \in Nat)'
  BY <1>1, <1>2, <1>3 DEF Inv, IInv, Typed, Onward, OnCourse, MonitorSteps, WatchdogSteps,
       RetrySteps, VerifySteps
<1>6. JobInv'
  BY <1>1, <1>2, <1>3, ReceiptType DEF Inv, IInv, Typed, TypeOK, Onward, ReceiptStatus, At,
       JobInv, Verdict, Armed, Advancing
<1>7. (PendingInv /\ VerdictHasReport /\ EveryMergeIsArmed /\ ArmedIsReachable)'
  BY <1>1, <1>2, <1>3, ReceiptType DEF Inv, IInv, Typed, TypeOK, ReceiptStatus, JobInv, At,
       PendingInv, VerdictHasReport, EveryMergeIsArmed, ArmedIsReachable, Verdict, Advancing
<1>8. AdvancedOnce'
  BY <1>1, <1>2 DEF Inv, IInv, Typed, TypeOK, AdvancedOnce
<1>9. StraightInv' /\ HumanWaitHolds'
  <2>1. SUFFICES ASSUME crashes' = 0, Straight, HumanWaitHolds
                 PROVE  Straight' /\ HumanWaitHolds'
    BY <1>1, <1>2 DEF Inv, StraightInv, HumanWaitHolds
  <2>2. Aligned'
    BY <1>1, <1>2, <1>3, <2>1 DEF Onward, Inv, IInv, Typed, TypeOK, At, JobInv, Straight,
         Aligned, Covered, Unfinished, InTransit
  <2>3. Covered'
    BY <1>1, <1>2, <1>3, <2>1, ReceiptType DEF Onward, Inv, IInv, Typed, TypeOK,
         ReceiptStatus, At, JobInv, Straight, Covered, Unfinished, Verdict
  <2>4. Unfinished'
    BY <1>1, <1>2, <1>3, <2>1, ReceiptType DEF Onward, Inv, IInv, Typed, TypeOK,
         ReceiptStatus, At, JobInv, Straight, Aligned, Covered, Unfinished, Verdict, Advancing,
         InTransit
  <2>5. HumanWaitHolds'
    BY <1>1, <1>2, <1>3, <2>1, ReceiptType DEF Inv, IInv, Typed, TypeOK, ReceiptStatus, At,
         JobInv, Straight, Covered, Unfinished, HumanWaitHolds, Verdict, Advancing
  <2>6. QED BY <2>2, <2>3, <2>4, <2>5 DEF Straight
<1>10. QED BY <1>2, <1>3, <1>4, <1>5, <1>6, <1>7, <1>8, <1>9 DEF Inv, IInv, Typed

(* The graph completes the next task or refuses; without kills the monitor *)
(* is never refused.                                                       *)
LEMMA AdvanceGraphInv ==
    ASSUME Inv, AdvanceGraph
    PROVE  Inv'
<1>1. PICK pc \in {"idle", "advCampaign", "catch"} :
           /\ GoTo(pc)
           /\ pc = "advCampaign" =>
                state.current \in {0, job.t} /\ graph + 1 = job.t /\ graph' = job.t
           /\ pc # "advCampaign" =>
                UNCHANGED graph /\ (state.current \notin {0, job.t} \/ graph + 1 # job.t)
           /\ pc = "catch" => job.kind = "verify"
  BY Zenon DEF AdvanceGraph, GraphAllows
<1>2. /\ job \in Jobs /\ job.t \in Task /\ job.pc = "advance"
      /\ job.kind \in {"monitor", "verify"}
      /\ UNCHANGED <<receipt, report, state, campaign, remote, pending, profile, crashes>>
  BY DEF AdvanceGraph, files, counters, Inv, IInv, Typed, Jobs, OnCourse, At, MonitorSteps,
       WatchdogSteps, RetrySteps, VerifySteps
<1>3. job' \in Jobs /\ job'.pc = pc /\ Onward(pc)
  BY <1>1, <1>2, GoToFacts DEF Pcs, MonitorSteps, WatchdogSteps, RetrySteps, VerifySteps
<1>4. TypeOK'
  BY <1>1, <1>2, <1>3, JobTypes, ReceiptType DEF Inv, IInv, Typed, TypeOK, ReceiptStatus
<1>5. (OnCourse /\ (remote.status # "NONE" => remote.task \in Task) /\ crashes \in Nat)'
  BY <1>1, <1>2, <1>3 DEF Inv, IInv, Typed, Onward, OnCourse, MonitorSteps, WatchdogSteps,
       RetrySteps, VerifySteps
<1>6. JobInv'
  BY <1>1, <1>2, <1>3, ReceiptType DEF Inv, IInv, Typed, TypeOK, Onward, ReceiptStatus, At,
       JobInv, Verdict, Armed, Advancing, AdvancedOnce
<1>7. (PendingInv /\ VerdictHasReport /\ EveryMergeIsArmed /\ ArmedIsReachable)'
  BY <1>1, <1>2, <1>3, ReceiptType DEF Inv, IInv, Typed, TypeOK, ReceiptStatus, JobInv, At,
       PendingInv, VerdictHasReport, EveryMergeIsArmed, ArmedIsReachable, Verdict, Advancing
<1>8. AdvancedOnce'
  BY <1>1, <1>2 DEF Inv, IInv, Typed, TypeOK, AdvancedOnce
<1>9. StraightInv' /\ HumanWaitHolds'
  <2>1. SUFFICES ASSUME crashes' = 0, Straight, HumanWaitHolds
                 PROVE  Straight' /\ HumanWaitHolds'
    BY <1>1, <1>2 DEF Inv, StraightInv, HumanWaitHolds
  <2>0. job.kind = "monitor" => pc = "advCampaign"
    BY <1>1, <1>2, <2>1 DEF Inv, IInv, Typed, TypeOK, JobInv, Straight, Unfinished, Aligned,
       InTransit, At
  <2>2. Aligned'
    <3>1. /\ state.completed = 1 .. graph /\ campaign.completed = 1 .. graph
          /\ graph \in 0 .. N /\ (graph = N \/ state.current = graph + 1)
      BY <1>2, <2>1 DEF Straight, Aligned, InTransit, At, Inv, IInv, Typed, TypeOK
    <3>2. CASE pc = "advCampaign"
      <4>1. graph' - 1 = graph BY <1>1, <3>1, <3>2
      <4>2. QED BY <1>2, <1>3, <3>1, <3>2, <4>1 DEF Aligned, InTransit, At
    <3>3. CASE pc # "advCampaign"
      BY <1>1, <1>2, <1>3, <3>1, <3>3 DEF Aligned, InTransit, At
    <3>4. QED BY <3>2, <3>3
  <2>3. Covered'
    BY <1>1, <1>2, <1>3, <2>1, <2>0 DEF Onward, Straight, Covered, Verdict
  <2>4. Unfinished'
    BY <1>1, <1>2, <1>3, <2>1, <2>0 DEF Onward, Straight, Unfinished, At, Verdict, Advancing
  <2>5. HumanWaitHolds'
    BY <1>1, <1>2, <1>3, <2>1, ReceiptType DEF Inv, IInv, Typed, TypeOK, ReceiptStatus, At,
         JobInv, Straight, Covered, Unfinished, HumanWaitHolds, Verdict, Advancing
  <2>6. QED BY <2>2, <2>3, <2>4, <2>5 DEF Straight
<1>10. QED BY <1>2, <1>3, <1>4, <1>5, <1>6, <1>7, <1>8, <1>9 DEF Inv, IInv, Typed

(* The campaign follows the graph. *)
LEMMA AdvanceCampaignInv ==
    ASSUME Inv, AdvanceCampaign
    PROVE  Inv'
<1>1. PICK pc \in {"advState"} :
           /\ GoTo(pc)
           /\ campaign'.completed = campaign.completed \cup {job.t}
           /\ campaign' \in [completed : {campaign.completed \cup {job.t}},
                             status : {"RUNNING", "COMPLETED"}]
  BY DEF AdvanceCampaign
<1>2. /\ job \in Jobs /\ job.t \in Task /\ job.pc = "advCampaign"
      /\ job.kind \in {"monitor", "verify"}
      /\ UNCHANGED <<receipt, report, graph, state, remote, pending, profile, crashes>>
  BY DEF AdvanceCampaign, files, counters, Inv, IInv, Typed, Jobs, OnCourse, At,
       MonitorSteps, WatchdogSteps, RetrySteps, VerifySteps
<1>3. job' \in Jobs /\ job'.pc = pc /\ Onward(pc)
  BY <1>1, <1>2, GoToFacts DEF Pcs, MonitorSteps, WatchdogSteps, RetrySteps, VerifySteps
<1>4. TypeOK'
  BY <1>1, <1>2, <1>3, JobTypes, ReceiptType DEF Inv, IInv, Typed, TypeOK, ReceiptStatus
<1>5. (OnCourse /\ (remote.status # "NONE" => remote.task \in Task) /\ crashes \in Nat)'
  BY <1>1, <1>2, <1>3 DEF Inv, IInv, Typed, Onward, OnCourse, MonitorSteps, WatchdogSteps,
       RetrySteps, VerifySteps
<1>6. JobInv'
  BY <1>1, <1>2, <1>3, ReceiptType DEF Inv, IInv, Typed, TypeOK, Onward, ReceiptStatus, At,
       JobInv, Verdict, Armed, Advancing
<1>7. (PendingInv /\ VerdictHasReport /\ EveryMergeIsArmed /\ ArmedIsReachable)'
  BY <1>1, <1>2, <1>3, ReceiptType DEF Inv, IInv, Typed, TypeOK, ReceiptStatus, JobInv, At,
       PendingInv, VerdictHasReport, EveryMergeIsArmed, ArmedIsReachable, Verdict, Advancing
<1>8. AdvancedOnce'
  BY <1>1, <1>2 DEF Inv, IInv, Typed, TypeOK, AdvancedOnce
<1>9. StraightInv' /\ HumanWaitHolds'
  <2>1. SUFFICES ASSUME crashes' = 0, Straight, HumanWaitHolds
                 PROVE  Straight' /\ HumanWaitHolds'
    BY <1>1, <1>2 DEF Inv, StraightInv, HumanWaitHolds
  <2>2. Aligned'
    BY <1>1, <1>2, <1>3, <2>1 DEF Onward, Inv, IInv, Typed, TypeOK, At, JobInv, Straight,
         Aligned, Covered, Unfinished, InTransit
  <2>3. Covered'
    BY <1>1, <1>2, <1>3, <2>1, ReceiptType DEF Onward, Inv, IInv, Typed, TypeOK,
         ReceiptStatus, At, JobInv, Straight, Covered, Unfinished, Verdict
  <2>4. Unfinished'
    BY <1>1, <1>2, <1>3, <2>1, ReceiptType DEF Onward, Inv, IInv, Typed, TypeOK,
         ReceiptStatus, At, JobInv, Straight, Aligned, Covered, Unfinished, Verdict, Advancing,
         InTransit
  <2>5. HumanWaitHolds'
    BY <1>1, <1>2, <1>3, <2>1, ReceiptType DEF Inv, IInv, Typed, TypeOK, ReceiptStatus, At,
         JobInv, Straight, Covered, Unfinished, HumanWaitHolds, Verdict, Advancing
  <2>6. QED BY <2>2, <2>3, <2>4, <2>5 DEF Straight
<1>10. QED BY <1>2, <1>3, <1>4, <1>5, <1>6, <1>7, <1>8, <1>9 DEF Inv, IInv, Typed

(* The state follows the campaign: the task is counted for the first time. *)
LEMMA AdvanceStateInv ==
    ASSUME Inv, AdvanceState
    PROVE  Inv'
<1>1. PICK pc \in {"merged", "settle"} :
           /\ GoTo(pc)
           /\ state' = [current |-> IF job.t = N THEN 0 ELSE job.t + 1,
                        status |-> "READY",
                        completed |-> state.completed \cup {job.t},
                        iteration |-> state.iteration + 1]
           /\ pc = "merged" <=> job.kind = "monitor"
  BY Zenon DEF AdvanceState
<1>2. /\ job \in Jobs /\ job.t \in Task /\ job.pc = "advState"
      /\ job.kind \in {"monitor", "verify"}
      /\ UNCHANGED <<receipt, report, graph, campaign, remote, pending, profile, crashes>>
  BY DEF AdvanceState, files, counters, Inv, IInv, Typed, Jobs, OnCourse, At, MonitorSteps,
       WatchdogSteps, RetrySteps, VerifySteps
<1>3. job' \in Jobs /\ job'.pc = pc /\ Onward(pc)
  BY <1>1, <1>2, GoToFacts DEF Pcs, MonitorSteps, WatchdogSteps, RetrySteps, VerifySteps
<1>4. TypeOK'
  <2>1. state.completed \cup {job.t} \in SUBSET Task /\ job.t \notin state.completed
        /\ state.iteration = Cardinality(state.completed)
    BY <1>2 DEF Inv, IInv, Typed, TypeOK, JobInv, AdvancedOnce
  <2>2. state.iteration + 1 = Cardinality(state.completed \cup {job.t})
        /\ state.iteration + 1 \in 0 .. N
    BY <1>2, <2>1, CountTasks
  <2>3. (IF job.t = N THEN 0 ELSE job.t + 1) \in 0 .. N BY <1>2
  <2>4. QED BY <1>1, <1>2, <1>3, <2>1, <2>2, <2>3, JobTypes DEF Inv, IInv, Typed, TypeOK
<1>5. (OnCourse /\ (remote.status # "NONE" => remote.task \in Task) /\ crashes \in Nat)'
  BY <1>1, <1>2, <1>3 DEF Inv, IInv, Typed, Onward, OnCourse, MonitorSteps, WatchdogSteps,
       RetrySteps, VerifySteps
<1>6. JobInv'
  BY <1>1, <1>2, <1>3, ReceiptType DEF Inv, IInv, Typed, TypeOK, Onward, ReceiptStatus, At,
       JobInv, Verdict, Armed, Advancing
<1>7. (PendingInv /\ VerdictHasReport /\ EveryMergeIsArmed /\ ArmedIsReachable)'
  BY <1>1, <1>2, <1>3, ReceiptType DEF Inv, IInv, Typed, TypeOK, ReceiptStatus, JobInv, At,
       PendingInv, VerdictHasReport, EveryMergeIsArmed, ArmedIsReachable, Verdict, Advancing
<1>8. AdvancedOnce'
  <2>1. state.completed \in SUBSET Task /\ job.t \notin state.completed /\ job.t = graph
        /\ state.iteration = Cardinality(state.completed) /\ state.completed \subseteq 1 .. graph
    BY <1>2 DEF Inv, IInv, Typed, TypeOK, JobInv, AdvancedOnce
  <2>2. state.iteration + 1 = Cardinality(state.completed \cup {job.t})
    BY <1>2, <2>1, CountTasks
  <2>3. QED BY <1>1, <1>2, <2>1, <2>2 DEF AdvancedOnce
<1>9. StraightInv' /\ HumanWaitHolds'
  <2>1. SUFFICES ASSUME crashes' = 0, Straight, HumanWaitHolds
                 PROVE  Straight' /\ HumanWaitHolds'
    BY <1>1, <1>2 DEF Inv, StraightInv, HumanWaitHolds
  <2>2. Aligned'
    BY <1>1, <1>2, <1>3, <2>1 DEF Onward, Inv, IInv, Typed, TypeOK, At, JobInv, Straight,
         Aligned, Covered, Unfinished, InTransit
  <2>3. Covered'
    BY <1>1, <1>2, <1>3, <2>1, ReceiptType DEF Onward, Inv, IInv, Typed, TypeOK,
         ReceiptStatus, At, JobInv, Straight, Covered, Unfinished, Verdict
  <2>4. Unfinished'
    BY <1>1, <1>2, <1>3, <2>1, ReceiptType DEF Onward, Inv, IInv, Typed, TypeOK,
         ReceiptStatus, At, JobInv, Straight, Aligned, Covered, Unfinished, Verdict, Advancing,
         InTransit
  <2>5. HumanWaitHolds'
    BY <1>1, <1>2, <1>3, <2>1, ReceiptType DEF Inv, IInv, Typed, TypeOK, ReceiptStatus, At,
         JobInv, Straight, Covered, Unfinished, HumanWaitHolds, Verdict, Advancing
  <2>6. QED BY <2>2, <2>3, <2>4, <2>5 DEF Straight
<1>10. QED BY <1>2, <1>3, <1>4, <1>5, <1>6, <1>7, <1>8, <1>9 DEF Inv, IInv, Typed

(* A verification starts with a receipt, and without kills on a completed  *)
(* task.                                                                   *)
LEMMA VerifyStartInv ==
    ASSUME Inv, NEW t \in Task, VerifyStart(t)
    PROVE  Inv'
<1>1. /\ job \in Jobs /\ job.pc = "idle" /\ job.kind = "none" /\ t \in pending
      /\ pending' = pending \ {t} /\ receipt[t] \in Receipts
      /\ UNCHANGED <<receipt, report, graph, state, campaign, remote, profile, crashes>>
  BY DEF VerifyStart, files, counters, Inv, IInv, Typed, TypeOK, Jobs, OnCourse, At,
       MonitorSteps, WatchdogSteps, RetrySteps, VerifySteps
<1>2. PICK pc \in {"idle", "reconcile", "prepare"} :
           /\ IF pc = "idle" THEN UNCHANGED job
              ELSE job' = [IdleJob EXCEPT !.pc = pc, !.kind = "verify", !.t = t,
                             !.profile = profile, !.first = receipt[t], !.active = receipt[t]]
           /\ pc = "reconcile" <=> receipt[t].status = "VERIFIED"
  <2>1. CASE receipt[t].status = "VERIFIED" BY <2>1, Zenon DEF VerifyStart
  <2>2. CASE receipt[t].status = "HUMAN_WAIT" BY <2>2 DEF VerifyStart
  <2>3. CASE receipt[t].status \notin {"VERIFIED", "HUMAN_WAIT"} BY <2>3 DEF VerifyStart
  <2>4. QED BY <2>1, <2>2, <2>3
<1>3. /\ job' \in Jobs /\ job'.pc = pc
      /\ pc = "idle" => UNCHANGED job
      /\ pc # "idle" => job'.kind = "verify" /\ job'.t = t
  <2>1. IdleJob \in Jobs
    BY DEF IdleJob, Jobs, Pcs, NoReceipt, Receipts, ReceiptStatus
  <2>2. pc \in Pcs /\ profile \in 0 .. MaxProfile
    BY DEF Pcs, VerifySteps, Inv, IInv, Typed, TypeOK
  <2>3. PICK j, r : j = IdleJob /\ r = receipt[t] OBVIOUS
  <2>4. j \in Jobs /\ r \in Receipts /\ t \in 0 .. N BY <1>1, <2>1, <2>3
  <2>5. CASE pc = "idle" BY <1>1, <1>2, <2>5
  <2>6. CASE pc # "idle"
    <3>1. job' = [j EXCEPT !.pc = pc, !.kind = "verify", !.t = t, !.profile = profile,
                    !.first = r, !.active = r]
      BY <1>2, <2>3, <2>6
    <3>2. QED BY <2>2, <2>4, <2>6, <3>1 DEF Jobs
  <2>7. QED BY <2>5, <2>6
<1>4. TypeOK'
  BY <1>1, <1>2, <1>3, JobTypes, ReceiptType DEF Inv, IInv, Typed, TypeOK, ReceiptStatus
<1>5. (OnCourse /\ (remote.status # "NONE" => remote.task \in Task) /\ crashes \in Nat)'
  BY <1>1, <1>2, <1>3 DEF Inv, IInv, Typed, Onward, OnCourse, MonitorSteps, WatchdogSteps,
       RetrySteps, VerifySteps
<1>6. JobInv'
  <2>1. Verdict(t) # "NONE" BY <1>1 DEF Inv, IInv, PendingInv
  <2>2. CASE pc = "idle" BY <1>1, <1>3, <2>2 DEF JobInv, At, Advancing
  <2>3. CASE pc # "idle"
    BY <1>1, <1>2, <1>3, <2>1, <2>3 DEF JobInv, At, Verdict, Advancing
  <2>4. QED BY <2>2, <2>3
<1>7. (PendingInv /\ VerdictHasReport /\ EveryMergeIsArmed /\ ArmedIsReachable)'
  BY <1>1, <1>2, <1>3, ReceiptType DEF Inv, IInv, Typed, TypeOK, ReceiptStatus, JobInv, At,
       PendingInv, VerdictHasReport, EveryMergeIsArmed, ArmedIsReachable, Verdict, Advancing
<1>8. AdvancedOnce'
  BY <1>1, <1>2 DEF Inv, IInv, Typed, TypeOK, AdvancedOnce
<1>9. StraightInv' /\ HumanWaitHolds'
  <2>1. SUFFICES ASSUME crashes' = 0, Straight, HumanWaitHolds
                 PROVE  Straight' /\ HumanWaitHolds'
    BY <1>1, <1>2 DEF Inv, StraightInv, HumanWaitHolds
  <2>2. Aligned'
    BY <1>1, <1>2, <1>3, <2>1 DEF Onward, Inv, IInv, Typed, TypeOK, At, JobInv, Straight,
         Aligned, Covered, Unfinished, InTransit
  <2>3. Covered'
    <3>1. Verdict(t) # "NONE" BY <1>1 DEF Inv, IInv, PendingInv
    <3>2. t \in state.completed BY <1>1, <2>1, <3>1 DEF Straight, Covered
    <3>3. QED BY <1>1, <1>3, <2>1, <3>2 DEF Straight, Covered, Verdict
  <2>4. Unfinished'
    BY <1>1, <1>2, <1>3, <2>1, ReceiptType DEF Onward, Inv, IInv, Typed, TypeOK,
         ReceiptStatus, At, JobInv, Straight, Aligned, Covered, Unfinished, Verdict, Advancing,
         InTransit
  <2>5. HumanWaitHolds'
    BY <1>1, <1>2, <1>3, <2>1, ReceiptType DEF Inv, IInv, Typed, TypeOK, ReceiptStatus, At,
         JobInv, Straight, Covered, Unfinished, HumanWaitHolds, Verdict, Advancing
  <2>6. QED BY <2>2, <2>3, <2>4, <2>5 DEF Straight
<1>10. QED BY <1>2, <1>3, <1>4, <1>5, <1>6, <1>7, <1>8, <1>9 DEF Inv, IInv, Typed

(* A verification goes on to its probes, or gives up. *)
LEMMA PrepareInv ==
    ASSUME Inv, Prepare
    PROVE  Inv'
<1>1. PICK pc \in {"catch", "record", "probe"} :
           /\ GoTo(pc)
  BY Zenon DEF Prepare
<1>2. /\ job \in Jobs /\ job.t \in Task /\ job.pc = "prepare" /\ job.kind = "verify"
      /\ UNCHANGED <<receipt, report, graph, state, campaign, remote, pending, profile, crashes>>
  BY DEF Prepare, files, counters, Inv, IInv, Typed, Jobs, OnCourse, At, MonitorSteps,
       WatchdogSteps, RetrySteps, VerifySteps
<1>3. job' \in Jobs /\ job'.pc = pc /\ Onward(pc)
  BY <1>1, <1>2, GoToFacts DEF Pcs, MonitorSteps, WatchdogSteps, RetrySteps, VerifySteps
<1>4. TypeOK'
  BY <1>1, <1>2, <1>3, JobTypes, ReceiptType DEF Inv, IInv, Typed, TypeOK, ReceiptStatus
<1>5. (OnCourse /\ (remote.status # "NONE" => remote.task \in Task) /\ crashes \in Nat)'
  BY <1>1, <1>2, <1>3 DEF Inv, IInv, Typed, Onward, OnCourse, MonitorSteps, WatchdogSteps,
       RetrySteps, VerifySteps
<1>6. JobInv'
  BY <1>1, <1>2, <1>3, ReceiptType DEF Inv, IInv, Typed, TypeOK, Onward, ReceiptStatus, At,
       JobInv, Verdict, Armed, Advancing
<1>7. (PendingInv /\ VerdictHasReport /\ EveryMergeIsArmed /\ ArmedIsReachable)'
  BY <1>1, <1>2, <1>3, ReceiptType DEF Inv, IInv, Typed, TypeOK, ReceiptStatus, JobInv, At,
       PendingInv, VerdictHasReport, EveryMergeIsArmed, ArmedIsReachable, Verdict, Advancing
<1>8. AdvancedOnce'
  BY <1>1, <1>2 DEF Inv, IInv, Typed, TypeOK, AdvancedOnce
<1>9. StraightInv' /\ HumanWaitHolds'
  <2>1. SUFFICES ASSUME crashes' = 0, Straight, HumanWaitHolds
                 PROVE  Straight' /\ HumanWaitHolds'
    BY <1>1, <1>2 DEF Inv, StraightInv, HumanWaitHolds
  <2>2. Aligned'
    BY <1>1, <1>2, <1>3, <2>1 DEF Onward, Inv, IInv, Typed, TypeOK, At, JobInv, Straight,
         Aligned, Covered, Unfinished, InTransit
  <2>3. Covered'
    BY <1>1, <1>2, <1>3, <2>1, ReceiptType DEF Onward, Inv, IInv, Typed, TypeOK,
         ReceiptStatus, At, JobInv, Straight, Covered, Unfinished, Verdict
  <2>4. Unfinished'
    BY <1>1, <1>2, <1>3, <2>1, ReceiptType DEF Onward, Inv, IInv, Typed, TypeOK,
         ReceiptStatus, At, JobInv, Straight, Aligned, Covered, Unfinished, Verdict, Advancing,
         InTransit
  <2>5. HumanWaitHolds'
    BY <1>1, <1>2, <1>3, <2>1, ReceiptType DEF Inv, IInv, Typed, TypeOK, ReceiptStatus, At,
         JobInv, Straight, Covered, Unfinished, HumanWaitHolds, Verdict, Advancing
  <2>6. QED BY <2>2, <2>3, <2>4, <2>5 DEF Straight
<1>10. QED BY <1>2, <1>3, <1>4, <1>5, <1>6, <1>7, <1>8, <1>9 DEF Inv, IInv, Typed

(* The report is stored while the receipt says nothing final. *)
LEMMA ProbeInv ==
    ASSUME Inv, Probe
    PROVE  Inv'
<1>1. PICK pc \in {"pass", "fail"} :
           /\ GoTo(pc)
           /\ \E v \in {"VERIFIED", "FAILED"} :
                 /\ report' = [report EXCEPT ![job.t] = Receipt(v)]
                 /\ pc = "pass" <=> v = "VERIFIED"
  BY Zenon DEF Probe, Saved
<1>2. /\ job \in Jobs /\ job.t \in Task /\ job.pc = "probe" /\ job.kind = "verify"
      /\ UNCHANGED <<receipt, graph, state, campaign, remote, pending, profile, crashes>>
  BY DEF Probe, files, counters, Inv, IInv, Typed, Jobs, OnCourse, At, MonitorSteps,
       WatchdogSteps, RetrySteps, VerifySteps
<1>3. job' \in Jobs /\ job'.pc = pc /\ Onward(pc)
  BY <1>1, <1>2, GoToFacts DEF Pcs, MonitorSteps, WatchdogSteps, RetrySteps, VerifySteps
<1>4. TypeOK'
  BY <1>1, <1>2, <1>3, JobTypes, ReceiptType DEF Inv, IInv, Typed, TypeOK, ReceiptStatus
<1>5. (OnCourse /\ (remote.status # "NONE" => remote.task \in Task) /\ crashes \in Nat)'
  BY <1>1, <1>2, <1>3 DEF Inv, IInv, Typed, Onward, OnCourse, MonitorSteps, WatchdogSteps,
       RetrySteps, VerifySteps
<1>6. JobInv'
  BY <1>1, <1>2, <1>3, ReceiptType DEF Inv, IInv, Typed, TypeOK, Onward, ReceiptStatus, At,
       JobInv, Verdict, Armed, Advancing, Receipt, Jobs
<1>7. (PendingInv /\ VerdictHasReport /\ EveryMergeIsArmed /\ ArmedIsReachable)'
  BY <1>1, <1>2, <1>3, ReceiptType DEF Inv, IInv, Typed, TypeOK, ReceiptStatus, JobInv, At,
       PendingInv, VerdictHasReport, EveryMergeIsArmed, ArmedIsReachable, Verdict, Advancing
<1>8. AdvancedOnce'
  BY <1>1, <1>2 DEF Inv, IInv, Typed, TypeOK, AdvancedOnce
<1>9. StraightInv' /\ HumanWaitHolds'
  <2>1. SUFFICES ASSUME crashes' = 0, Straight, HumanWaitHolds
                 PROVE  Straight' /\ HumanWaitHolds'
    BY <1>1, <1>2 DEF Inv, StraightInv, HumanWaitHolds
  <2>2. Aligned'
    BY <1>1, <1>2, <1>3, <2>1 DEF Onward, Inv, IInv, Typed, TypeOK, At, JobInv, Straight,
         Aligned, Covered, Unfinished, InTransit
  <2>3. Covered'
    BY <1>1, <1>2, <1>3, <2>1, ReceiptType DEF Onward, Inv, IInv, Typed, TypeOK,
         ReceiptStatus, At, JobInv, Straight, Covered, Unfinished, Verdict
  <2>4. Unfinished'
    BY <1>1, <1>2, <1>3, <2>1, ReceiptType DEF Onward, Inv, IInv, Typed, TypeOK,
         ReceiptStatus, At, JobInv, Straight, Aligned, Covered, Unfinished, Verdict, Advancing,
         InTransit
  <2>5. HumanWaitHolds'
    BY <1>1, <1>2, <1>3, <2>1, ReceiptType DEF Inv, IInv, Typed, TypeOK, ReceiptStatus, At,
         JobInv, Straight, Covered, Unfinished, HumanWaitHolds, Verdict, Advancing
  <2>6. QED BY <2>2, <2>3, <2>4, <2>5 DEF Straight
<1>10. QED BY <1>2, <1>3, <1>4, <1>5, <1>6, <1>7, <1>8, <1>9 DEF Inv, IInv, Typed

(* The verdict is that of the report stored a step before. *)
LEMMA PassInv ==
    ASSUME Inv, Pass
    PROVE  Inv'
<1>1. PICK pc \in {"reconcile", "idle"} :
           /\ GoTo(pc)
           /\ pc = "reconcile" => receipt' = [receipt EXCEPT ![job.t] = Receipt("VERIFIED")]
           /\ pc = "idle" => UNCHANGED receipt
  BY Zenon DEF Pass
<1>2. /\ job \in Jobs /\ job.t \in Task /\ job.pc = "pass" /\ job.kind = "verify"
      /\ UNCHANGED <<report, graph, state, campaign, remote, pending, profile, crashes>>
  BY DEF Pass, files, counters, Inv, IInv, Typed, Jobs, OnCourse, At, MonitorSteps,
       WatchdogSteps, RetrySteps, VerifySteps
<1>3. job' \in Jobs /\ job'.pc = pc /\ Onward(pc)
  BY <1>1, <1>2, GoToFacts DEF Pcs, MonitorSteps, WatchdogSteps, RetrySteps, VerifySteps
<1>4. TypeOK'
  <2>1. receipt' \in [Task -> Receipts]
    BY <1>1, <1>2, ReceiptType DEF Inv, IInv, Typed, TypeOK, ReceiptStatus
  <2>2. QED BY <1>2, <1>3, <2>1, JobTypes DEF Inv, IInv, Typed, TypeOK
<1>5. (OnCourse /\ (remote.status # "NONE" => remote.task \in Task) /\ crashes \in Nat)'
  BY <1>1, <1>2, <1>3 DEF Inv, IInv, Typed, Onward, OnCourse, MonitorSteps, WatchdogSteps,
       RetrySteps, VerifySteps
<1>6. JobInv'
  BY <1>1, <1>2, <1>3, ReceiptType DEF Inv, IInv, Typed, TypeOK, Onward, ReceiptStatus, At,
       JobInv, Verdict, Armed, Advancing
<1>7. (PendingInv /\ VerdictHasReport /\ EveryMergeIsArmed /\ ArmedIsReachable)'
  <2>1. CASE pc = "idle"
    BY <1>1, <1>2, <2>1 DEF Inv, IInv, PendingInv, VerdictHasReport, EveryMergeIsArmed,
       ArmedIsReachable, Verdict
  <2>2. CASE pc = "reconcile"
    <3>1. PICK r : r = Receipt("VERIFIED") OBVIOUS
    <3>2. /\ \A t \in Task : receipt'[t] = IF t = job.t THEN r ELSE receipt[t]
          /\ r.status = "VERIFIED" /\ report[job.t] = r
      BY <1>1, <1>2, <2>2, <3>1, ReceiptType
         DEF Inv, IInv, Typed, TypeOK, ReceiptStatus, JobInv, At
    <3>3. QED
      BY <1>2, <3>2 DEF Inv, IInv, Typed, TypeOK, PendingInv, VerdictHasReport,
         EveryMergeIsArmed, ArmedIsReachable, Verdict
  <2>3. QED BY <1>1, <2>1, <2>2
<1>8. AdvancedOnce'
  BY <1>1, <1>2 DEF Inv, IInv, Typed, TypeOK, AdvancedOnce
<1>9. StraightInv' /\ HumanWaitHolds'
  <2>1. SUFFICES ASSUME crashes' = 0, Straight, HumanWaitHolds
                 PROVE  Straight' /\ HumanWaitHolds'
    BY <1>1, <1>2 DEF Inv, StraightInv, HumanWaitHolds
  <2>2. Aligned'
    BY <1>1, <1>2, <1>3, <2>1 DEF Onward, Inv, IInv, Typed, TypeOK, At, JobInv, Straight,
         Aligned, Covered, Unfinished, InTransit
  <2>3. Covered'
    BY <1>1, <1>2, <1>3, <2>1, ReceiptType DEF Onward, Inv, IInv, Typed, TypeOK,
         ReceiptStatus, At, JobInv, Straight, Covered, Unfinished, Verdict
  <2>4. Unfinished'
    BY <1>1, <1>2, <1>3, <2>1, ReceiptType DEF Onward, Inv, IInv, Typed, TypeOK,
         ReceiptStatus, At, JobInv, Straight, Aligned, Covered, Unfinished, Verdict, Advancing,
         InTransit
  <2>5. HumanWaitHolds'
    BY <1>1, <1>2, <1>3, <2>1, ReceiptType DEF Inv, IInv, Typed, TypeOK, ReceiptStatus, At,
         JobInv, Straight, Covered, Unfinished, HumanWaitHolds, Verdict, Advancing
  <2>6. QED BY <2>2, <2>3, <2>4, <2>5 DEF Straight
<1>10. QED BY <1>2, <1>3, <1>4, <1>5, <1>6, <1>7, <1>8, <1>9 DEF Inv, IInv, Typed

(* A failed verdict needs no report. *)
LEMMA FailInv ==
    ASSUME Inv, Fail
    PROVE  Inv'
<1>1. /\ job \in Jobs /\ job.t \in Task /\ job.pc = "fail" /\ job.kind = "verify"
      /\ receipt' = [receipt EXCEPT ![job.t] = Receipt("FAILED")]
      /\ UNCHANGED <<report, graph, state, campaign, remote, pending, profile, crashes>>
  BY DEF Fail, files, counters, Inv, IInv, Typed, Jobs, OnCourse, At, MonitorSteps,
       WatchdogSteps, RetrySteps, VerifySteps
<1>2. PICK pc \in {"contain"} : job' = [job EXCEPT !.pc = pc, !.active = Receipt("FAILED")]
  BY Zenon DEF Fail
<1>3. job' \in Jobs /\ job'.pc = pc /\ Onward(pc)
  <2>1. Receipt("FAILED") \in Receipts BY <1>1, ReceiptType DEF ReceiptStatus
  <2>2. pc \in Pcs BY DEF Pcs, VerifySteps
  <2>3. QED BY <1>1, <1>2, <2>1, <2>2 DEF Jobs, Onward
<1>4. TypeOK'
  BY <1>1, <1>2, <1>3, JobTypes, ReceiptType DEF Inv, IInv, Typed, TypeOK, ReceiptStatus
<1>5. (OnCourse /\ (remote.status # "NONE" => remote.task \in Task) /\ crashes \in Nat)'
  BY <1>1, <1>2, <1>3 DEF Inv, IInv, Typed, Onward, OnCourse, MonitorSteps, WatchdogSteps,
       RetrySteps, VerifySteps
<1>6. JobInv'
  BY <1>1, <1>2, <1>3, ReceiptType DEF Inv, IInv, Typed, TypeOK, Onward, ReceiptStatus, At,
       JobInv, Verdict, Armed, Advancing
<1>7. (PendingInv /\ VerdictHasReport /\ EveryMergeIsArmed /\ ArmedIsReachable)'
  BY <1>1, <1>2, <1>3, ReceiptType DEF Inv, IInv, Typed, TypeOK, ReceiptStatus, JobInv, At,
       PendingInv, VerdictHasReport, EveryMergeIsArmed, ArmedIsReachable, Verdict, Advancing
<1>8. AdvancedOnce'
  BY <1>1, <1>2 DEF Inv, IInv, Typed, TypeOK, AdvancedOnce
<1>9. StraightInv' /\ HumanWaitHolds'
  <2>1. SUFFICES ASSUME crashes' = 0, Straight, HumanWaitHolds
                 PROVE  Straight' /\ HumanWaitHolds'
    BY <1>1, <1>2 DEF Inv, StraightInv, HumanWaitHolds
  <2>2. Aligned'
    BY <1>1, <1>2, <1>3, <2>1 DEF Onward, Inv, IInv, Typed, TypeOK, At, JobInv, Straight,
         Aligned, Covered, Unfinished, InTransit
  <2>3. Covered'
    BY <1>1, <1>2, <1>3, <2>1, ReceiptType DEF Onward, Inv, IInv, Typed, TypeOK,
         ReceiptStatus, At, JobInv, Straight, Covered, Unfinished, Verdict
  <2>4. Unfinished'
    BY <1>1, <1>2, <1>3, <2>1, ReceiptType DEF Onward, Inv, IInv, Typed, TypeOK,
         ReceiptStatus, At, JobInv, Straight, Aligned, Covered, Unfinished, Verdict, Advancing,
         InTransit
  <2>5. HumanWaitHolds'
    BY <1>1, <1>2, <1>3, <2>1, ReceiptType DEF Inv, IInv, Typed, TypeOK, ReceiptStatus, At,
         JobInv, Straight, Covered, Unfinished, HumanWaitHolds, Verdict, Advancing
  <2>6. QED BY <2>2, <2>3, <2>4, <2>5 DEF Straight
<1>10. QED BY <1>2, <1>3, <1>4, <1>5, <1>6, <1>7, <1>8, <1>9 DEF Inv, IInv, Typed

(* A caught error is contained unless the receipt was final. *)
LEMMA CatchInv ==
    ASSUME Inv, Catch
    PROVE  Inv'
<1>1. /\ job \in Jobs /\ job.t \in Task /\ job.pc = "catch" /\ job.kind = "verify"
      /\ UNCHANGED <<receipt, report, graph, state, campaign, remote, pending, profile, crashes>>
  BY DEF Catch, files, counters, Inv, IInv, Typed, Jobs, OnCourse, At, MonitorSteps,
       WatchdogSteps, RetrySteps, VerifySteps
<1>2. PICK pc \in {"idle", "contain"} :
           \/ GoTo(pc)
           \/ pc = "contain" /\ job' = [job EXCEPT !.pc = pc, !.active = job.first,
                                                   !.first = NoReceipt]
  BY Zenon DEF Catch
<1>3. job' \in Jobs /\ job'.pc = pc /\ Onward(pc)
  <2>1. NoReceipt \in Receipts BY DEF NoReceipt, Receipts, ReceiptStatus
  <2>2. pc \in Pcs BY DEF Pcs, VerifySteps
  <2>3. CASE GoTo(pc) BY <1>1, <2>2, <2>3, GoToFacts
  <2>4. CASE pc = "contain" /\ job' = [job EXCEPT !.pc = pc, !.active = job.first,
                                                  !.first = NoReceipt]
    BY <1>1, <2>1, <2>2, <2>4 DEF Jobs, Onward
  <2>5. QED BY <1>2, <2>3, <2>4
<1>4. TypeOK'
  BY <1>1, <1>2, <1>3, JobTypes, ReceiptType DEF Inv, IInv, Typed, TypeOK, ReceiptStatus
<1>5. (OnCourse /\ (remote.status # "NONE" => remote.task \in Task) /\ crashes \in Nat)'
  BY <1>1, <1>2, <1>3 DEF Inv, IInv, Typed, Onward, OnCourse, MonitorSteps, WatchdogSteps,
       RetrySteps, VerifySteps
<1>6. JobInv'
  BY <1>1, <1>2, <1>3, ReceiptType DEF Inv, IInv, Typed, TypeOK, Onward, ReceiptStatus, At,
       JobInv, Verdict, Armed, Advancing
<1>7. (PendingInv /\ VerdictHasReport /\ EveryMergeIsArmed /\ ArmedIsReachable)'
  BY <1>1, <1>2, <1>3, ReceiptType DEF Inv, IInv, Typed, TypeOK, ReceiptStatus, JobInv, At,
       PendingInv, VerdictHasReport, EveryMergeIsArmed, ArmedIsReachable, Verdict, Advancing
<1>8. AdvancedOnce'
  BY <1>1, <1>2 DEF Inv, IInv, Typed, TypeOK, AdvancedOnce
<1>9. StraightInv' /\ HumanWaitHolds'
  <2>1. SUFFICES ASSUME crashes' = 0, Straight, HumanWaitHolds
                 PROVE  Straight' /\ HumanWaitHolds'
    BY <1>1, <1>2 DEF Inv, StraightInv, HumanWaitHolds
  <2>2. Aligned'
    BY <1>1, <1>2, <1>3, <2>1 DEF Onward, Inv, IInv, Typed, TypeOK, At, JobInv, Straight,
         Aligned, Covered, Unfinished, InTransit
  <2>3. Covered'
    BY <1>1, <1>2, <1>3, <2>1, ReceiptType DEF Onward, Inv, IInv, Typed, TypeOK,
         ReceiptStatus, At, JobInv, Straight, Covered, Unfinished, Verdict
  <2>4. Unfinished'
    BY <1>1, <1>2, <1>3, <2>1, ReceiptType DEF Onward, Inv, IInv, Typed, TypeOK,
         ReceiptStatus, At, JobInv, Straight, Aligned, Covered, Unfinished, Verdict, Advancing,
         InTransit
  <2>5. HumanWaitHolds'
    BY <1>1, <1>2, <1>3, <2>1, ReceiptType DEF Inv, IInv, Typed, TypeOK, ReceiptStatus, At,
         JobInv, Straight, Covered, Unfinished, HumanWaitHolds, Verdict, Advancing
  <2>6. QED BY <2>2, <2>3, <2>4, <2>5 DEF Straight
<1>10. QED BY <1>2, <1>3, <1>4, <1>5, <1>6, <1>7, <1>8, <1>9 DEF Inv, IInv, Typed

(* A failed request is caught where the run stands. *)
LEMMA VerifyFailsInv ==
    ASSUME Inv, VerifyFails
    PROVE  Inv'
<1>1. PICK pc \in {"catch"} :
           /\ GoTo(pc)
  BY Zenon DEF VerifyFails
<1>2. /\ job \in Jobs /\ job.t \in Task /\ job.pc \notin {"idle", "arm"} /\ job.kind = "verify"
      /\ UNCHANGED <<receipt, report, graph, state, campaign, remote, pending, profile, crashes>>
  BY DEF VerifyFails, files, counters, Inv, IInv, Typed, Jobs, OnCourse, At, MonitorSteps,
       WatchdogSteps, RetrySteps, VerifySteps
<1>3. job' \in Jobs /\ job'.pc = pc /\ Onward(pc)
  BY <1>1, <1>2, GoToFacts DEF Pcs, MonitorSteps, WatchdogSteps, RetrySteps, VerifySteps
<1>4. TypeOK'
  BY <1>1, <1>2, <1>3, JobTypes, ReceiptType DEF Inv, IInv, Typed, TypeOK, ReceiptStatus
<1>5. (OnCourse /\ (remote.status # "NONE" => remote.task \in Task) /\ crashes \in Nat)'
  BY <1>1, <1>2, <1>3 DEF Inv, IInv, Typed, Onward, OnCourse, MonitorSteps, WatchdogSteps,
       RetrySteps, VerifySteps
<1>6. JobInv'
  BY <1>1, <1>2, <1>3, ReceiptType DEF Inv, IInv, Typed, TypeOK, Onward, ReceiptStatus, At,
       JobInv, Verdict, Armed, Advancing
<1>7. (PendingInv /\ VerdictHasReport /\ EveryMergeIsArmed /\ ArmedIsReachable)'
  BY <1>1, <1>2, <1>3, ReceiptType DEF Inv, IInv, Typed, TypeOK, ReceiptStatus, JobInv, At,
       PendingInv, VerdictHasReport, EveryMergeIsArmed, ArmedIsReachable, Verdict, Advancing
<1>8. AdvancedOnce'
  BY <1>1, <1>2 DEF Inv, IInv, Typed, TypeOK, AdvancedOnce
<1>9. StraightInv' /\ HumanWaitHolds'
  <2>1. SUFFICES ASSUME crashes' = 0, Straight, HumanWaitHolds
                 PROVE  Straight' /\ HumanWaitHolds'
    BY <1>1, <1>2 DEF Inv, StraightInv, HumanWaitHolds
  <2>2. Aligned'
    BY <1>1, <1>2, <1>3, <2>1 DEF Onward, Inv, IInv, Typed, TypeOK, At, JobInv, Straight,
         Aligned, Covered, Unfinished, InTransit
  <2>3. Covered'
    BY <1>1, <1>2, <1>3, <2>1, ReceiptType DEF Onward, Inv, IInv, Typed, TypeOK,
         ReceiptStatus, At, JobInv, Straight, Covered, Unfinished, Verdict
  <2>4. Unfinished'
    BY <1>1, <1>2, <1>3, <2>1, ReceiptType DEF Onward, Inv, IInv, Typed, TypeOK,
         ReceiptStatus, At, JobInv, Straight, Aligned, Covered, Unfinished, Verdict, Advancing,
         InTransit
  <2>5. HumanWaitHolds'
    BY <1>1, <1>2, <1>3, <2>1, ReceiptType DEF Inv, IInv, Typed, TypeOK, ReceiptStatus, At,
         JobInv, Straight, Covered, Unfinished, HumanWaitHolds, Verdict, Advancing
  <2>6. QED BY <2>2, <2>3, <2>4, <2>5 DEF Straight
<1>10. QED BY <1>2, <1>3, <1>4, <1>5, <1>6, <1>7, <1>8, <1>9 DEF Inv, IInv, Typed

(* The containment goes on only when no newer task is current. *)
LEMMA ContainCampaignInv ==
    ASSUME Inv, ContainCampaign
    PROVE  Inv'
<1>1. PICK pc \in {"idle", "containState"} :
           /\ GoTo(pc)
           /\ pc = "idle" => UNCHANGED campaign
           /\ pc = "containState" =>
                /\ campaign' = [campaign EXCEPT !.status = "HUMAN_WAIT"]
                /\ state.current \in {0, job.t}
  BY Zenon DEF ContainCampaign, Stale
<1>2. /\ job \in Jobs /\ job.t \in Task /\ job.pc = "contain" /\ job.kind = "verify"
      /\ UNCHANGED <<receipt, report, graph, state, remote, pending, profile, crashes>>
  BY DEF ContainCampaign, files, counters, Inv, IInv, Typed, Jobs, OnCourse, At,
       MonitorSteps, WatchdogSteps, RetrySteps, VerifySteps
<1>3. job' \in Jobs /\ job'.pc = pc /\ Onward(pc)
  BY <1>1, <1>2, GoToFacts DEF Pcs, MonitorSteps, WatchdogSteps, RetrySteps, VerifySteps
<1>4. TypeOK'
  BY <1>1, <1>2, <1>3, JobTypes, ReceiptType DEF Inv, IInv, Typed, TypeOK, ReceiptStatus
<1>5. (OnCourse /\ (remote.status # "NONE" => remote.task \in Task) /\ crashes \in Nat)'
  BY <1>1, <1>2, <1>3 DEF Inv, IInv, Typed, Onward, OnCourse, MonitorSteps, WatchdogSteps,
       RetrySteps, VerifySteps
<1>6. JobInv'
  BY <1>1, <1>2, <1>3, ReceiptType DEF Inv, IInv, Typed, TypeOK, Onward, ReceiptStatus, At,
       JobInv, Verdict, Armed, Advancing
<1>7. (PendingInv /\ VerdictHasReport /\ EveryMergeIsArmed /\ ArmedIsReachable)'
  BY <1>1, <1>2, <1>3, ReceiptType DEF Inv, IInv, Typed, TypeOK, ReceiptStatus, JobInv, At,
       PendingInv, VerdictHasReport, EveryMergeIsArmed, ArmedIsReachable, Verdict, Advancing
<1>8. AdvancedOnce'
  BY <1>1, <1>2 DEF Inv, IInv, Typed, TypeOK, AdvancedOnce
<1>9. StraightInv' /\ HumanWaitHolds'
  <2>1. SUFFICES ASSUME crashes' = 0, Straight, HumanWaitHolds
                 PROVE  Straight' /\ HumanWaitHolds'
    BY <1>1, <1>2 DEF Inv, StraightInv, HumanWaitHolds
  <2>2. Aligned'
    BY <1>1, <1>2, <1>3, <2>1 DEF Onward, Inv, IInv, Typed, TypeOK, At, JobInv, Straight,
         Aligned, Covered, Unfinished, InTransit
  <2>3. Covered'
    BY <1>1, <1>2, <1>3, <2>1, ReceiptType DEF Onward, Inv, IInv, Typed, TypeOK,
         ReceiptStatus, At, JobInv, Straight, Covered, Unfinished, Verdict
  <2>4. Unfinished'
    BY <1>1, <1>2, <1>3, <2>1, ReceiptType DEF Onward, Inv, IInv, Typed, TypeOK,
         ReceiptStatus, At, JobInv, Straight, Aligned, Covered, Unfinished, Verdict, Advancing,
         InTransit
  <2>5. HumanWaitHolds'
    BY <1>1, <1>2, <1>3, <2>1, ReceiptType DEF Inv, IInv, Typed, TypeOK, ReceiptStatus, At,
         JobInv, Straight, Covered, Unfinished, HumanWaitHolds, Verdict, Advancing
  <2>6. QED BY <2>2, <2>3, <2>4, <2>5 DEF Straight
<1>10. QED BY <1>2, <1>3, <1>4, <1>5, <1>6, <1>7, <1>8, <1>9 DEF Inv, IInv, Typed

(* The contained task is current, and nothing else was waiting. *)
LEMMA ContainStateInv ==
    ASSUME Inv, ContainState
    PROVE  Inv'
<1>1. PICK pc \in {"containReceipt"} :
           /\ GoTo(pc)
           /\ state' = [state EXCEPT !.current = job.t, !.status = "HUMAN_WAIT"]
  BY Zenon DEF ContainState
<1>2. /\ job \in Jobs /\ job.t \in Task /\ job.pc = "containState" /\ job.kind = "verify"
      /\ UNCHANGED <<receipt, report, graph, campaign, remote, pending, profile, crashes>>
  BY DEF ContainState, files, counters, Inv, IInv, Typed, Jobs, OnCourse, At, MonitorSteps,
       WatchdogSteps, RetrySteps, VerifySteps
<1>3. job' \in Jobs /\ job'.pc = pc /\ Onward(pc)
  BY <1>1, <1>2, GoToFacts DEF Pcs, MonitorSteps, WatchdogSteps, RetrySteps, VerifySteps
<1>4. TypeOK'
  BY <1>1, <1>2, <1>3, JobTypes, ReceiptType DEF Inv, IInv, Typed, TypeOK, ReceiptStatus
<1>5. (OnCourse /\ (remote.status # "NONE" => remote.task \in Task) /\ crashes \in Nat)'
  BY <1>1, <1>2, <1>3 DEF Inv, IInv, Typed, Onward, OnCourse, MonitorSteps, WatchdogSteps,
       RetrySteps, VerifySteps
<1>6. JobInv'
  BY <1>1, <1>2, <1>3, ReceiptType DEF Inv, IInv, Typed, TypeOK, Onward, ReceiptStatus, At,
       JobInv, Verdict, Armed, Advancing
<1>7. (PendingInv /\ VerdictHasReport /\ EveryMergeIsArmed /\ ArmedIsReachable)'
  BY <1>1, <1>2, <1>3, ReceiptType DEF Inv, IInv, Typed, TypeOK, ReceiptStatus, JobInv, At,
       PendingInv, VerdictHasReport, EveryMergeIsArmed, ArmedIsReachable, Verdict, Advancing
<1>8. AdvancedOnce'
  BY <1>1, <1>2 DEF Inv, IInv, Typed, TypeOK, AdvancedOnce
<1>9. StraightInv' /\ HumanWaitHolds'
  <2>1. SUFFICES ASSUME crashes' = 0, Straight, HumanWaitHolds
                 PROVE  Straight' /\ HumanWaitHolds'
    BY <1>1, <1>2 DEF Inv, StraightInv, HumanWaitHolds
  <2>2. Aligned'
    BY <1>1, <1>2, <1>3, <2>1 DEF Onward, Inv, IInv, Typed, TypeOK, At, JobInv, Straight,
         Aligned, Covered, Unfinished, InTransit
  <2>3. Covered'
    BY <1>1, <1>2, <1>3, <2>1, ReceiptType DEF Onward, Inv, IInv, Typed, TypeOK,
         ReceiptStatus, At, JobInv, Straight, Covered, Unfinished, Verdict
  <2>4. Unfinished'
    BY <1>1, <1>2, <1>3, <2>1, ReceiptType DEF Onward, Inv, IInv, Typed, TypeOK,
         ReceiptStatus, At, JobInv, Straight, Aligned, Covered, Unfinished, Verdict, Advancing,
         InTransit
  <2>5. HumanWaitHolds'
    BY <1>1, <1>2, <1>3, <2>1, ReceiptType DEF Inv, IInv, Typed, TypeOK, ReceiptStatus, At,
         JobInv, Straight, Covered, Unfinished, HumanWaitHolds, Verdict, Advancing
  <2>6. QED BY <2>2, <2>3, <2>4, <2>5 DEF Straight
<1>10. QED BY <1>2, <1>3, <1>4, <1>5, <1>6, <1>7, <1>8, <1>9 DEF Inv, IInv, Typed

(* At last the receipt waits, with the state and the campaign. *)
LEMMA ContainReceiptInv ==
    ASSUME Inv, ContainReceipt
    PROVE  Inv'
<1>1. PICK pc \in {"idle"} :
           /\ GoTo(pc)
           /\ receipt' = [receipt EXCEPT ![job.t] =
                            [status |-> "HUMAN_WAIT", profile |-> job.active.profile]]
  BY Zenon DEF ContainReceipt
<1>2. /\ job \in Jobs /\ job.t \in Task /\ job.pc = "containReceipt" /\ job.kind = "verify"
      /\ UNCHANGED <<report, graph, state, campaign, remote, pending, profile, crashes>>
  BY DEF ContainReceipt, files, counters, Inv, IInv, Typed, Jobs, OnCourse, At,
       MonitorSteps, WatchdogSteps, RetrySteps, VerifySteps
<1>3. job' \in Jobs /\ job'.pc = pc /\ Onward(pc)
  BY <1>1, <1>2, GoToFacts DEF Pcs, MonitorSteps, WatchdogSteps, RetrySteps, VerifySteps
<1>4. TypeOK'
  <2>1. [status |-> "HUMAN_WAIT", profile |-> job.active.profile] \in Receipts BY <1>2 DEF
       Jobs, Receipts, ReceiptStatus
  <2>2. QED BY <1>1, <1>2, <1>3, <2>1, JobTypes DEF Inv, IInv, Typed, TypeOK
<1>5. (OnCourse /\ (remote.status # "NONE" => remote.task \in Task) /\ crashes \in Nat)'
  BY <1>1, <1>2, <1>3 DEF Inv, IInv, Typed, Onward, OnCourse, MonitorSteps, WatchdogSteps,
       RetrySteps, VerifySteps
<1>6. JobInv'
  BY <1>1, <1>2, <1>3, ReceiptType DEF Inv, IInv, Typed, TypeOK, Onward, ReceiptStatus, At,
       JobInv, Verdict, Armed, Advancing
<1>7. (PendingInv /\ VerdictHasReport /\ EveryMergeIsArmed /\ ArmedIsReachable)'
  BY <1>1, <1>2, <1>3, ReceiptType DEF Inv, IInv, Typed, TypeOK, ReceiptStatus, JobInv, At,
       PendingInv, VerdictHasReport, EveryMergeIsArmed, ArmedIsReachable, Verdict, Advancing
<1>8. AdvancedOnce'
  BY <1>1, <1>2 DEF Inv, IInv, Typed, TypeOK, AdvancedOnce
<1>9. StraightInv' /\ HumanWaitHolds'
  <2>1. SUFFICES ASSUME crashes' = 0, Straight, HumanWaitHolds
                 PROVE  Straight' /\ HumanWaitHolds'
    BY <1>1, <1>2 DEF Inv, StraightInv, HumanWaitHolds
  <2>2. Aligned'
    BY <1>1, <1>2, <1>3, <2>1 DEF Onward, Inv, IInv, Typed, TypeOK, At, JobInv, Straight,
         Aligned, Covered, Unfinished, InTransit
  <2>3. Covered'
    BY <1>1, <1>2, <1>3, <2>1, ReceiptType DEF Onward, Inv, IInv, Typed, TypeOK,
         ReceiptStatus, At, JobInv, Straight, Covered, Unfinished, Verdict
  <2>4. Unfinished'
    BY <1>1, <1>2, <1>3, <2>1, ReceiptType DEF Onward, Inv, IInv, Typed, TypeOK,
         ReceiptStatus, At, JobInv, Straight, Aligned, Covered, Unfinished, Verdict, Advancing,
         InTransit
  <2>5. HumanWaitHolds'
    BY <1>1, <1>2, <1>3, <2>1, ReceiptType DEF Inv, IInv, Typed, TypeOK, ReceiptStatus, At,
         JobInv, Straight, Covered, Unfinished, HumanWaitHolds, Verdict, Advancing
  <2>6. QED BY <2>2, <2>3, <2>4, <2>5 DEF Straight
<1>10. QED BY <1>2, <1>3, <1>4, <1>5, <1>6, <1>7, <1>8, <1>9 DEF Inv, IInv, Typed

(* A verified task is settled, or its transition is made up for. *)
LEMMA ReconcileInv ==
    ASSUME Inv, Reconcile
    PROVE  Inv'
<1>1. PICK pc \in {"settle", "advance"} :
           /\ GoTo(pc)
  BY Zenon DEF Reconcile
<1>2. /\ job \in Jobs /\ job.t \in Task /\ job.pc = "reconcile" /\ job.kind = "verify"
      /\ UNCHANGED <<receipt, report, graph, state, campaign, remote, pending, profile, crashes>>
  BY DEF Reconcile, files, counters, Inv, IInv, Typed, Jobs, OnCourse, At, MonitorSteps,
       WatchdogSteps, RetrySteps, VerifySteps
<1>3. job' \in Jobs /\ job'.pc = pc /\ Onward(pc)
  BY <1>1, <1>2, GoToFacts DEF Pcs, MonitorSteps, WatchdogSteps, RetrySteps, VerifySteps
<1>4. TypeOK'
  BY <1>1, <1>2, <1>3, JobTypes, ReceiptType DEF Inv, IInv, Typed, TypeOK, ReceiptStatus
<1>5. (OnCourse /\ (remote.status # "NONE" => remote.task \in Task) /\ crashes \in Nat)'
  BY <1>1, <1>2, <1>3 DEF Inv, IInv, Typed, Onward, OnCourse, MonitorSteps, WatchdogSteps,
       RetrySteps, VerifySteps
<1>6. JobInv'
  BY <1>1, <1>2, <1>3, ReceiptType DEF Inv, IInv, Typed, TypeOK, Onward, ReceiptStatus, At,
       JobInv, Verdict, Armed, Advancing
<1>7. (PendingInv /\ VerdictHasReport /\ EveryMergeIsArmed /\ ArmedIsReachable)'
  BY <1>1, <1>2, <1>3, ReceiptType DEF Inv, IInv, Typed, TypeOK, ReceiptStatus, JobInv, At,
       PendingInv, VerdictHasReport, EveryMergeIsArmed, ArmedIsReachable, Verdict, Advancing
<1>8. AdvancedOnce'
  BY <1>1, <1>2 DEF Inv, IInv, Typed, TypeOK, AdvancedOnce
<1>9. StraightInv' /\ HumanWaitHolds'
  <2>1. SUFFICES ASSUME crashes' = 0, Straight, HumanWaitHolds
                 PROVE  Straight' /\ HumanWaitHolds'
    BY <1>1, <1>2 DEF Inv, StraightInv, HumanWaitHolds
  <2>2. Aligned'
    BY <1>1, <1>2, <1>3, <2>1 DEF Onward, Inv, IInv, Typed, TypeOK, At, JobInv, Straight,
         Aligned, Covered, Unfinished, InTransit
  <2>3. Covered'
    BY <1>1, <1>2, <1>3, <2>1, ReceiptType DEF Onward, Inv, IInv, Typed, TypeOK,
         ReceiptStatus, At, JobInv, Straight, Covered, Unfinished, Verdict
  <2>4. Unfinished'
    BY <1>1, <1>2, <1>3, <2>1, ReceiptType DEF Onward, Inv, IInv, Typed, TypeOK,
         ReceiptStatus, At, JobInv, Straight, Aligned, Covered, Unfinished, Verdict, Advancing,
         InTransit
  <2>5. HumanWaitHolds'
    BY <1>1, <1>2, <1>3, <2>1, ReceiptType DEF Inv, IInv, Typed, TypeOK, ReceiptStatus, At,
         JobInv, Straight, Covered, Unfinished, HumanWaitHolds, Verdict, Advancing
  <2>6. QED BY <2>2, <2>3, <2>4, <2>5 DEF Straight
<1>10. QED BY <1>2, <1>3, <1>4, <1>5, <1>6, <1>7, <1>8, <1>9 DEF Inv, IInv, Typed

(* The campaign is over only when all of it is completed. *)
LEMMA SettleCampaignInv ==
    ASSUME Inv, SettleCampaign
    PROVE  Inv'
<1>1. PICK pc \in {"idle", "settleState"} :
           /\ GoTo(pc)
           /\ pc = "idle" => UNCHANGED campaign
           /\ pc = "settleState" =>
                /\ campaign' = [campaign EXCEPT !.status = "COMPLETED"]
                /\ campaign.completed = Task /\ state.current \in {0, job.t}
  BY Zenon DEF SettleCampaign
<1>2. /\ job \in Jobs /\ job.t \in Task /\ job.pc = "settle" /\ job.kind = "verify"
      /\ UNCHANGED <<receipt, report, graph, state, remote, pending, profile, crashes>>
  BY DEF SettleCampaign, files, counters, Inv, IInv, Typed, Jobs, OnCourse, At,
       MonitorSteps, WatchdogSteps, RetrySteps, VerifySteps
<1>3. job' \in Jobs /\ job'.pc = pc /\ Onward(pc)
  BY <1>1, <1>2, GoToFacts DEF Pcs, MonitorSteps, WatchdogSteps, RetrySteps, VerifySteps
<1>4. TypeOK'
  BY <1>1, <1>2, <1>3, JobTypes, ReceiptType DEF Inv, IInv, Typed, TypeOK, ReceiptStatus
<1>5. (OnCourse /\ (remote.status # "NONE" => remote.task \in Task) /\ crashes \in Nat)'
  BY <1>1, <1>2, <1>3 DEF Inv, IInv, Typed, Onward, OnCourse, MonitorSteps, WatchdogSteps,
       RetrySteps, VerifySteps
<1>6. JobInv'
  BY <1>1, <1>2, <1>3, ReceiptType DEF Inv, IInv, Typed, TypeOK, Onward, ReceiptStatus, At,
       JobInv, Verdict, Armed, Advancing
<1>7. (PendingInv /\ VerdictHasReport /\ EveryMergeIsArmed /\ ArmedIsReachable)'
  BY <1>1, <1>2, <1>3, ReceiptType DEF Inv, IInv, Typed, TypeOK, ReceiptStatus, JobInv, At,
       PendingInv, VerdictHasReport, EveryMergeIsArmed, ArmedIsReachable, Verdict, Advancing
<1>8. AdvancedOnce'
  BY <1>1, <1>2 DEF Inv, IInv, Typed, TypeOK, AdvancedOnce
<1>9. StraightInv' /\ HumanWaitHolds'
  <2>1. SUFFICES ASSUME crashes' = 0, Straight, HumanWaitHolds
                 PROVE  Straight' /\ HumanWaitHolds'
    BY <1>1, <1>2 DEF Inv, StraightInv, HumanWaitHolds
  <2>2. Aligned'
    BY <1>1, <1>2, <1>3, <2>1 DEF Onward, Inv, IInv, Typed, TypeOK, At, JobInv, Straight,
         Aligned, Covered, Unfinished, InTransit
  <2>3. Covered'
    BY <1>1, <1>2, <1>3, <2>1, ReceiptType DEF Onward, Inv, IInv, Typed, TypeOK,
         ReceiptStatus, At, JobInv, Straight, Covered, Unfinished, Verdict
  <2>4. Unfinished'
    BY <1>1, <1>2, <1>3, <2>1, ReceiptType DEF Onward, Inv, IInv, Typed, TypeOK,
         ReceiptStatus, At, JobInv, Straight, Aligned, Covered, Unfinished, Verdict, Advancing,
         InTransit
  <2>5. HumanWaitHolds'
    BY <1>1, <1>2, <1>3, <2>1, ReceiptType DEF Inv, IInv, Typed, TypeOK, ReceiptStatus, At,
         JobInv, Straight, Covered, Unfinished, HumanWaitHolds, Verdict, Advancing
  <2>6. QED BY <2>2, <2>3, <2>4, <2>5 DEF Straight
<1>10. QED BY <1>2, <1>3, <1>4, <1>5, <1>6, <1>7, <1>8, <1>9 DEF Inv, IInv, Typed

(* No armed or waiting receipt loses its current task. *)
LEMMA SettleStateInv ==
    ASSUME Inv, SettleState
    PROVE  Inv'
<1>1. PICK pc \in {"idle"} :
           /\ GoTo(pc)
           /\ state' = [state EXCEPT !.current = 0, !.status = "READY"]
  BY Zenon DEF SettleState
<1>2. /\ job \in Jobs /\ job.t \in Task /\ job.pc = "settleState" /\ job.kind = "verify"
      /\ UNCHANGED <<receipt, report, graph, campaign, remote, pending, profile, crashes>>
  BY DEF SettleState, files, counters, Inv, IInv, Typed, Jobs, OnCourse, At, MonitorSteps,
       WatchdogSteps, RetrySteps, VerifySteps
<1>3. job' \in Jobs /\ job'.pc = pc /\ Onward(pc)
  BY <1>1, <1>2, GoToFacts DEF Pcs, MonitorSteps, WatchdogSteps, RetrySteps, VerifySteps
<1>4. TypeOK'
  <2>1. PICK s : s = state OBVIOUS
  <2>2. s \in [current : 0 .. N, status : {"READY", "RUNNING", "HUMAN_WAIT"},
               completed : SUBSET Task, iteration : 0 .. N]
    BY <2>1 DEF Inv, IInv, Typed, TypeOK
  <2>3. [s EXCEPT !.current = 0, !.status = "READY"]
          \in [current : 0 .. N, status : {"READY", "RUNNING", "HUMAN_WAIT"},
               completed : SUBSET Task, iteration : 0 .. N]
    <3>1. 0 \in 0 .. N OBVIOUS
    <3>2. QED BY <2>2, <3>1
  <2>4. QED BY <1>1, <1>2, <1>3, <2>1, <2>3, JobTypes DEF Inv, IInv, Typed, TypeOK
<1>5. (OnCourse /\ (remote.status # "NONE" => remote.task \in Task) /\ crashes \in Nat)'
  BY <1>1, <1>2, <1>3 DEF Inv, IInv, Typed, Onward, OnCourse, MonitorSteps, WatchdogSteps,
       RetrySteps, VerifySteps
<1>6. JobInv'
  BY <1>1, <1>2, <1>3, ReceiptType DEF Inv, IInv, Typed, TypeOK, Onward, ReceiptStatus, At,
       JobInv, Verdict, Armed, Advancing
<1>7. (PendingInv /\ VerdictHasReport /\ EveryMergeIsArmed /\ ArmedIsReachable)'
  BY <1>1, <1>2, <1>3, ReceiptType DEF Inv, IInv, Typed, TypeOK, ReceiptStatus, JobInv, At,
       PendingInv, VerdictHasReport, EveryMergeIsArmed, ArmedIsReachable, Verdict, Advancing
<1>8. AdvancedOnce'
  BY <1>1, <1>2 DEF Inv, IInv, Typed, TypeOK, AdvancedOnce
<1>9. StraightInv' /\ HumanWaitHolds'
  <2>1. SUFFICES ASSUME crashes' = 0, Straight, HumanWaitHolds
                 PROVE  Straight' /\ HumanWaitHolds'
    BY <1>1, <1>2 DEF Inv, StraightInv, HumanWaitHolds
  <2>2. Aligned'
    BY <1>1, <1>2, <1>3, <2>1 DEF Onward, Inv, IInv, Typed, TypeOK, At, JobInv, Straight,
         Aligned, Covered, Unfinished, InTransit
  <2>3. Covered'
    BY <1>1, <1>2, <1>3, <2>1, ReceiptType DEF Onward, Inv, IInv, Typed, TypeOK,
         ReceiptStatus, At, JobInv, Straight, Covered, Unfinished, Verdict
  <2>4. Unfinished'
    BY <1>1, <1>2, <1>3, <2>1, ReceiptType DEF Onward, Inv, IInv, Typed, TypeOK,
         ReceiptStatus, At, JobInv, Straight, Aligned, Covered, Unfinished, Verdict, Advancing,
         InTransit
  <2>5. HumanWaitHolds'
    BY <1>1, <1>2, <1>3, <2>1, ReceiptType DEF Inv, IInv, Typed, TypeOK, ReceiptStatus, At,
         JobInv, Straight, Covered, Unfinished, HumanWaitHolds, Verdict, Advancing
  <2>6. QED BY <2>2, <2>3, <2>4, <2>5 DEF Straight
<1>10. QED BY <1>2, <1>3, <1>4, <1>5, <1>6, <1>7, <1>8, <1>9 DEF Inv, IInv, Typed

(* The migration starts on the current task. *)
LEMMA MigrateStartInv ==
    ASSUME Inv, MigrateStart
    PROVE  Inv'
<1>1. PICK t \in Task, pc \in {"rearm"} :
           /\ Start(pc, "watchdog", t) /\ job \in Jobs /\ job.pc = "idle" /\ job.kind = "none"
           /\ t = state.current
           /\ receipt[t].status = "HUMAN_WAIT"
  BY DEF MigrateStart, Migrates, Inv, IInv, Typed, TypeOK, Jobs, OnCourse, At,
       MonitorSteps, WatchdogSteps, RetrySteps, VerifySteps
<1>2. UNCHANGED <<receipt, report, graph, state, campaign, remote, pending, profile, crashes>>
  BY DEF MigrateStart, files, counters
<1>3. /\ job' \in Jobs /\ job'.pc = pc /\ job'.kind = "watchdog" /\ job'.t = t
      /\ job'.profile = profile
  BY <1>1, StartFacts DEF Inv, IInv, Typed, TypeOK, Pcs, MonitorSteps, WatchdogSteps,
       RetrySteps, VerifySteps
<1>4. TypeOK'
  BY <1>1, <1>2, <1>3, JobTypes, ReceiptType DEF Inv, IInv, Typed, TypeOK, ReceiptStatus
<1>5. (OnCourse /\ (remote.status # "NONE" => remote.task \in Task) /\ crashes \in Nat)'
  BY <1>1, <1>2, <1>3 DEF Inv, IInv, Typed, Onward, OnCourse, MonitorSteps, WatchdogSteps,
       RetrySteps, VerifySteps
<1>6. JobInv'
  BY <1>1, <1>2, <1>3, ReceiptType DEF Inv, IInv, Typed, TypeOK, Onward, ReceiptStatus, At,
       JobInv, Verdict, Armed, Advancing
<1>7. (PendingInv /\ VerdictHasReport /\ EveryMergeIsArmed /\ ArmedIsReachable)'
  BY <1>1, <1>2, <1>3, ReceiptType DEF Inv, IInv, Typed, TypeOK, ReceiptStatus, JobInv, At,
       PendingInv, VerdictHasReport, EveryMergeIsArmed, ArmedIsReachable, Verdict, Advancing
<1>8. AdvancedOnce'
  BY <1>1, <1>2 DEF Inv, IInv, Typed, TypeOK, AdvancedOnce
<1>9. StraightInv' /\ HumanWaitHolds'
  <2>1. SUFFICES ASSUME crashes' = 0, Straight, HumanWaitHolds
                 PROVE  Straight' /\ HumanWaitHolds'
    BY <1>1, <1>2 DEF Inv, StraightInv, HumanWaitHolds
  <2>2. Aligned'
    BY <1>1, <1>2, <1>3, <2>1 DEF Onward, Inv, IInv, Typed, TypeOK, At, JobInv, Straight,
         Aligned, Covered, Unfinished, InTransit
  <2>3. Covered'
    BY <1>1, <1>2, <1>3, <2>1, ReceiptType DEF Onward, Inv, IInv, Typed, TypeOK,
         ReceiptStatus, At, JobInv, Straight, Covered, Unfinished, Verdict
  <2>4. Unfinished'
    BY <1>1, <1>2, <1>3, <2>1, ReceiptType DEF Onward, Inv, IInv, Typed, TypeOK,
         ReceiptStatus, At, JobInv, Straight, Aligned, Covered, Unfinished, Verdict, Advancing,
         InTransit
  <2>5. HumanWaitHolds'
    BY <1>1, <1>2, <1>3, <2>1, ReceiptType DEF Inv, IInv, Typed, TypeOK, ReceiptStatus, At,
         JobInv, Straight, Covered, Unfinished, HumanWaitHolds, Verdict, Advancing
  <2>6. QED BY <2>2, <2>3, <2>4, <2>5 DEF Straight
<1>10. QED BY <1>2, <1>3, <1>4, <1>5, <1>6, <1>7, <1>8, <1>9 DEF Inv, IInv, Typed

(* The receipt of the current task is armed again. *)
LEMMA MigrateReceiptInv ==
    ASSUME Inv, MigrateReceipt
    PROVE  Inv'
<1>1. PICK pc \in {"rearmState"} :
           /\ GoTo(pc)
           /\ receipt' = [receipt EXCEPT ![job.t] = Receipt("ARMED")]
  BY Zenon DEF MigrateReceipt
<1>2. /\ job \in Jobs /\ job.t \in Task /\ job.pc = "rearm" /\ job.kind = "watchdog"
      /\ UNCHANGED <<report, graph, state, campaign, remote, pending, profile, crashes>>
  BY DEF MigrateReceipt, files, counters, Inv, IInv, Typed, Jobs, OnCourse, At,
       MonitorSteps, WatchdogSteps, RetrySteps, VerifySteps
<1>3. job' \in Jobs /\ job'.pc = pc /\ Onward(pc)
  BY <1>1, <1>2, GoToFacts DEF Pcs, MonitorSteps, WatchdogSteps, RetrySteps, VerifySteps
<1>4. TypeOK'
  BY <1>1, <1>2, <1>3, JobTypes, ReceiptType DEF Inv, IInv, Typed, TypeOK, ReceiptStatus
<1>5. (OnCourse /\ (remote.status # "NONE" => remote.task \in Task) /\ crashes \in Nat)'
  BY <1>1, <1>2, <1>3 DEF Inv, IInv, Typed, Onward, OnCourse, MonitorSteps, WatchdogSteps,
       RetrySteps, VerifySteps
<1>6. JobInv'
  BY <1>1, <1>2, <1>3, ReceiptType DEF Inv, IInv, Typed, TypeOK, Onward, ReceiptStatus, At,
       JobInv, Verdict, Armed, Advancing
<1>7. (PendingInv /\ VerdictHasReport /\ EveryMergeIsArmed /\ ArmedIsReachable)'
  BY <1>1, <1>2, <1>3, ReceiptType DEF Inv, IInv, Typed, TypeOK, ReceiptStatus, JobInv, At,
       PendingInv, VerdictHasReport, EveryMergeIsArmed, ArmedIsReachable, Verdict, Advancing
<1>8. AdvancedOnce'
  BY <1>1, <1>2 DEF Inv, IInv, Typed, TypeOK, AdvancedOnce
<1>9. StraightInv' /\ HumanWaitHolds'
  <2>1. SUFFICES ASSUME crashes' = 0, Straight, HumanWaitHolds
                 PROVE  Straight' /\ HumanWaitHolds'
    BY <1>1, <1>2 DEF Inv, StraightInv, HumanWaitHolds
  <2>2. Aligned'
    BY <1>1, <1>2, <1>3, <2>1 DEF Onward, Inv, IInv, Typed, TypeOK, At, JobInv, Straight,
         Aligned, Covered, Unfinished, InTransit
  <2>3. Covered'
    BY <1>1, <1>2, <1>3, <2>1, ReceiptType DEF Onward, Inv, IInv, Typed, TypeOK,
         ReceiptStatus, At, JobInv, Straight, Covered, Unfinished, Verdict
  <2>4. Unfinished'
    BY <1>1, <1>2, <1>3, <2>1, ReceiptType DEF Onward, Inv, IInv, Typed, TypeOK,
         ReceiptStatus, At, JobInv, Straight, Aligned, Covered, Unfinished, Verdict, Advancing,
         InTransit
  <2>5. HumanWaitHolds'
    BY <1>1, <1>2, <1>3, <2>1, ReceiptType DEF Inv, IInv, Typed, TypeOK, ReceiptStatus, At,
         JobInv, Straight, Covered, Unfinished, HumanWaitHolds, Verdict, Advancing
  <2>6. QED BY <2>2, <2>3, <2>4, <2>5 DEF Straight
<1>10. QED BY <1>2, <1>3, <1>4, <1>5, <1>6, <1>7, <1>8, <1>9 DEF Inv, IInv, Typed

(* The state goes on, as nothing waits for a human any more. *)
LEMMA MigrateStateInv ==
    ASSUME Inv, MigrateState
    PROVE  Inv'
<1>1. PICK pc \in {"rearmCampaign"} :
           /\ GoTo(pc)
           /\ state' = [state EXCEPT !.status = "RUNNING"]
  BY Zenon DEF MigrateState
<1>2. /\ job \in Jobs /\ job.t \in Task /\ job.pc = "rearmState" /\ job.kind = "watchdog"
      /\ UNCHANGED <<receipt, report, graph, campaign, remote, pending, profile, crashes>>
  BY DEF MigrateState, files, counters, Inv, IInv, Typed, Jobs, OnCourse, At, MonitorSteps,
       WatchdogSteps, RetrySteps, VerifySteps
<1>3. job' \in Jobs /\ job'.pc = pc /\ Onward(pc)
  BY <1>1, <1>2, GoToFacts DEF Pcs, MonitorSteps, WatchdogSteps, RetrySteps, VerifySteps
<1>4. TypeOK'
  BY <1>1, <1>2, <1>3, JobTypes, ReceiptType DEF Inv, IInv, Typed, TypeOK, ReceiptStatus
<1>5. (OnCourse /\ (remote.status # "NONE" => remote.task \in Task) /\ crashes \in Nat)'
  BY <1>1, <1>2, <1>3 DEF Inv, IInv, Typed, Onward, OnCourse, MonitorSteps, WatchdogSteps,
       RetrySteps, VerifySteps
<1>6. JobInv'
  BY <1>1, <1>2, <1>3, ReceiptType DEF Inv, IInv, Typed, TypeOK, Onward, ReceiptStatus, At,
       JobInv, Verdict, Armed, Advancing
<1>7. (PendingInv /\ VerdictHasReport /\ EveryMergeIsArmed /\ ArmedIsReachable)'
  BY <1>1, <1>2, <1>3, ReceiptType DEF Inv, IInv, Typed, TypeOK, ReceiptStatus, JobInv, At,
       PendingInv, VerdictHasReport, EveryMergeIsArmed, ArmedIsReachable, Verdict, Advancing
<1>8. AdvancedOnce'
  BY <1>1, <1>2 DEF Inv, IInv, Typed, TypeOK, AdvancedOnce
<1>9. StraightInv' /\ HumanWaitHolds'
  <2>1. SUFFICES ASSUME crashes' = 0, Straight, HumanWaitHolds
                 PROVE  Straight' /\ HumanWaitHolds'
    BY <1>1, <1>2 DEF Inv, StraightInv, HumanWaitHolds
  <2>2. Aligned'
    BY <1>1, <1>2, <1>3, <2>1 DEF Onward, Inv, IInv, Typed, TypeOK, At, JobInv, Straight,
         Aligned, Covered, Unfinished, InTransit
  <2>3. Covered'
    BY <1>1, <1>2, <1>3, <2>1, ReceiptType DEF Onward, Inv, IInv, Typed, TypeOK,
         ReceiptStatus, At, JobInv, Straight, Covered, Unfinished, Verdict
  <2>4. Unfinished'
    BY <1>1, <1>2, <1>3, <2>1, ReceiptType DEF Onward, Inv, IInv, Typed, TypeOK,
         ReceiptStatus, At, JobInv, Straight, Aligned, Covered, Unfinished, Verdict, Advancing,
         InTransit
  <2>5. HumanWaitHolds'
    BY <1>1, <1>2, <1>3, <2>1, ReceiptType DEF Inv, IInv, Typed, TypeOK, ReceiptStatus, At,
         JobInv, Straight, Covered, Unfinished, HumanWaitHolds, Verdict, Advancing
  <2>6. QED BY <2>2, <2>3, <2>4, <2>5 DEF Straight
<1>10. QED BY <1>2, <1>3, <1>4, <1>5, <1>6, <1>7, <1>8, <1>9 DEF Inv, IInv, Typed

(* And so does the campaign. *)
LEMMA MigrateCampaignInv ==
    ASSUME Inv, MigrateCampaign
    PROVE  Inv'
<1>1. PICK pc \in {"dispatch"} :
           /\ GoTo(pc)
           /\ campaign' = IF campaign.status = "HUMAN_WAIT"
                          THEN [campaign EXCEPT !.status = "RUNNING"] ELSE campaign
  BY Zenon DEF MigrateCampaign
<1>2. /\ job \in Jobs /\ job.t \in Task /\ job.pc = "rearmCampaign" /\ job.kind = "watchdog"
      /\ UNCHANGED <<receipt, report, graph, state, remote, pending, profile, crashes>>
  BY DEF MigrateCampaign, files, counters, Inv, IInv, Typed, Jobs, OnCourse, At,
       MonitorSteps, WatchdogSteps, RetrySteps, VerifySteps
<1>3. job' \in Jobs /\ job'.pc = pc /\ Onward(pc)
  BY <1>1, <1>2, GoToFacts DEF Pcs, MonitorSteps, WatchdogSteps, RetrySteps, VerifySteps
<1>4. TypeOK'
  BY <1>1, <1>2, <1>3, JobTypes, ReceiptType DEF Inv, IInv, Typed, TypeOK, ReceiptStatus
<1>5. (OnCourse /\ (remote.status # "NONE" => remote.task \in Task) /\ crashes \in Nat)'
  BY <1>1, <1>2, <1>3 DEF Inv, IInv, Typed, Onward, OnCourse, MonitorSteps, WatchdogSteps,
       RetrySteps, VerifySteps
<1>6. JobInv'
  BY <1>1, <1>2, <1>3, ReceiptType DEF Inv, IInv, Typed, TypeOK, Onward, ReceiptStatus, At,
       JobInv, Verdict, Armed, Advancing
<1>7. (PendingInv /\ VerdictHasReport /\ EveryMergeIsArmed /\ ArmedIsReachable)'
  BY <1>1, <1>2, <1>3, ReceiptType DEF Inv, IInv, Typed, TypeOK, ReceiptStatus, JobInv, At,
       PendingInv, VerdictHasReport, EveryMergeIsArmed, ArmedIsReachable, Verdict, Advancing
<1>8. AdvancedOnce'
  BY <1>1, <1>2 DEF Inv, IInv, Typed, TypeOK, AdvancedOnce
<1>9. StraightInv' /\ HumanWaitHolds'
  <2>1. SUFFICES ASSUME crashes' = 0, Straight, HumanWaitHolds
                 PROVE  Straight' /\ HumanWaitHolds'
    BY <1>1, <1>2 DEF Inv, StraightInv, HumanWaitHolds
  <2>2. Aligned'
    BY <1>1, <1>2, <1>3, <2>1 DEF Onward, Inv, IInv, Typed, TypeOK, At, JobInv, Straight,
         Aligned, Covered, Unfinished, InTransit
  <2>3. Covered'
    BY <1>1, <1>2, <1>3, <2>1, ReceiptType DEF Onward, Inv, IInv, Typed, TypeOK,
         ReceiptStatus, At, JobInv, Straight, Covered, Unfinished, Verdict
  <2>4. Unfinished'
    BY <1>1, <1>2, <1>3, <2>1, ReceiptType DEF Onward, Inv, IInv, Typed, TypeOK,
         ReceiptStatus, At, JobInv, Straight, Aligned, Covered, Unfinished, Verdict, Advancing,
         InTransit
  <2>5. HumanWaitHolds'
    BY <1>1, <1>2, <1>3, <2>1, ReceiptType DEF Inv, IInv, Typed, TypeOK, ReceiptStatus, At,
         JobInv, Straight, Covered, Unfinished, HumanWaitHolds, Verdict, Advancing
  <2>6. QED BY <2>2, <2>3, <2>4, <2>5 DEF Straight
<1>10. QED BY <1>2, <1>3, <1>4, <1>5, <1>6, <1>7, <1>8, <1>9 DEF Inv, IInv, Typed

(* The watchdog starts on an armed receipt. *)
LEMMA WatchdogStartInv ==
    ASSUME Inv, WatchdogStart
    PROVE  Inv'
<1>1. PICK t \in Task, pc \in {"dispatch"} :
           /\ Start(pc, "watchdog", t) /\ job \in Jobs /\ job.pc = "idle" /\ job.kind = "none"
           /\ t = state.current
           /\ receipt[t].status = "ARMED"
  BY DEF WatchdogStart, Watched, Inv, IInv, Typed, TypeOK, Jobs, OnCourse, At,
       MonitorSteps, WatchdogSteps, RetrySteps, VerifySteps
<1>2. UNCHANGED <<receipt, report, graph, state, campaign, remote, pending, profile, crashes>>
  BY DEF WatchdogStart, files, counters
<1>3. /\ job' \in Jobs /\ job'.pc = pc /\ job'.kind = "watchdog" /\ job'.t = t
      /\ job'.profile = profile
  BY <1>1, StartFacts DEF Inv, IInv, Typed, TypeOK, Pcs, MonitorSteps, WatchdogSteps,
       RetrySteps, VerifySteps
<1>4. TypeOK'
  BY <1>1, <1>2, <1>3, JobTypes, ReceiptType DEF Inv, IInv, Typed, TypeOK, ReceiptStatus
<1>5. (OnCourse /\ (remote.status # "NONE" => remote.task \in Task) /\ crashes \in Nat)'
  BY <1>1, <1>2, <1>3 DEF Inv, IInv, Typed, Onward, OnCourse, MonitorSteps, WatchdogSteps,
       RetrySteps, VerifySteps
<1>6. JobInv'
  BY <1>1, <1>2, <1>3, ReceiptType DEF Inv, IInv, Typed, TypeOK, Onward, ReceiptStatus, At,
       JobInv, Verdict, Armed, Advancing
<1>7. (PendingInv /\ VerdictHasReport /\ EveryMergeIsArmed /\ ArmedIsReachable)'
  BY <1>1, <1>2, <1>3, ReceiptType DEF Inv, IInv, Typed, TypeOK, ReceiptStatus, JobInv, At,
       PendingInv, VerdictHasReport, EveryMergeIsArmed, ArmedIsReachable, Verdict, Advancing
<1>8. AdvancedOnce'
  BY <1>1, <1>2 DEF Inv, IInv, Typed, TypeOK, AdvancedOnce
<1>9. StraightInv' /\ HumanWaitHolds'
  <2>1. SUFFICES ASSUME crashes' = 0, Straight, HumanWaitHolds
                 PROVE  Straight' /\ HumanWaitHolds'
    BY <1>1, <1>2 DEF Inv, StraightInv, HumanWaitHolds
  <2>2. Aligned'
    BY <1>1, <1>2, <1>3, <2>1 DEF Onward, Inv, IInv, Typed, TypeOK, At, JobInv, Straight,
         Aligned, Covered, Unfinished, InTransit
  <2>3. Covered'
    BY <1>1, <1>2, <1>3, <2>1, ReceiptType DEF Onward, Inv, IInv, Typed, TypeOK,
         ReceiptStatus, At, JobInv, Straight, Covered, Unfinished, Verdict
  <2>4. Unfinished'
    BY <1>1, <1>2, <1>3, <2>1, ReceiptType DEF Onward, Inv, IInv, Typed, TypeOK,
         ReceiptStatus, At, JobInv, Straight, Aligned, Covered, Unfinished, Verdict, Advancing,
         InTransit
  <2>5. HumanWaitHolds'
    BY <1>1, <1>2, <1>3, <2>1, ReceiptType DEF Inv, IInv, Typed, TypeOK, ReceiptStatus, At,
         JobInv, Straight, Covered, Unfinished, HumanWaitHolds, Verdict, Advancing
  <2>6. QED BY <2>2, <2>3, <2>4, <2>5 DEF Straight
<1>10. QED BY <1>2, <1>3, <1>4, <1>5, <1>6, <1>7, <1>8, <1>9 DEF Inv, IInv, Typed

(* A retry starts where it leads to an armed receipt. *)
LEMMA RetryStartInv ==
    ASSUME Inv, RetryStart
    PROVE  Inv'
<1>1. PICK t \in Task, pc \in {"arm"} :
           /\ Start(pc, "retry", t) /\ job \in Jobs /\ job.pc = "idle" /\ job.kind = "none"
           /\ t = state.current
           /\ \/ receipt[t].status = "ARMED"
              \/ receipt[t].status = "HUMAN_WAIT" /\ receipt[t].profile # profile
  BY DEF RetryStart, FirstStep, Inv, IInv, Typed, TypeOK, Jobs, OnCourse, At, MonitorSteps,
       WatchdogSteps, RetrySteps, VerifySteps
<1>2. UNCHANGED <<receipt, report, graph, state, campaign, remote, pending, profile, crashes>>
  BY DEF RetryStart, files, counters
<1>3. /\ job' \in Jobs /\ job'.pc = pc /\ job'.kind = "retry" /\ job'.t = t
      /\ job'.profile = profile
  BY <1>1, StartFacts DEF Inv, IInv, Typed, TypeOK, Pcs, MonitorSteps, WatchdogSteps,
       RetrySteps, VerifySteps
<1>4. TypeOK'
  BY <1>1, <1>2, <1>3, JobTypes, ReceiptType DEF Inv, IInv, Typed, TypeOK, ReceiptStatus
<1>5. (OnCourse /\ (remote.status # "NONE" => remote.task \in Task) /\ crashes \in Nat)'
  BY <1>1, <1>2, <1>3 DEF Inv, IInv, Typed, Onward, OnCourse, MonitorSteps, WatchdogSteps,
       RetrySteps, VerifySteps
<1>6. JobInv'
  BY <1>1, <1>2, <1>3 DEF Receipt, At, JobInv, Verdict, Armed, Advancing
<1>7. (PendingInv /\ VerdictHasReport /\ EveryMergeIsArmed /\ ArmedIsReachable)'
  BY <1>1, <1>2, <1>3, ReceiptType DEF Inv, IInv, Typed, TypeOK, ReceiptStatus, JobInv, At,
       PendingInv, VerdictHasReport, EveryMergeIsArmed, ArmedIsReachable, Verdict, Advancing
<1>8. AdvancedOnce'
  BY <1>1, <1>2 DEF Inv, IInv, Typed, TypeOK, AdvancedOnce
<1>9. StraightInv' /\ HumanWaitHolds'
  <2>1. SUFFICES ASSUME crashes' = 0, Straight, HumanWaitHolds
                 PROVE  Straight' /\ HumanWaitHolds'
    BY <1>1, <1>2 DEF Inv, StraightInv, HumanWaitHolds
  <2>2. Aligned'
    BY <1>1, <1>2, <1>3, <2>1 DEF Onward, Inv, IInv, Typed, TypeOK, At, JobInv, Straight,
         Aligned, Covered, Unfinished, InTransit
  <2>3. Covered'
    BY <1>1, <1>2, <1>3, <2>1, ReceiptType DEF Onward, Inv, IInv, Typed, TypeOK,
         ReceiptStatus, At, JobInv, Straight, Covered, Unfinished, Verdict
  <2>4. Unfinished'
    BY <1>1, <1>2, <1>3, <2>1, ReceiptType DEF Onward, Inv, IInv, Typed, TypeOK,
         ReceiptStatus, At, JobInv, Straight, Aligned, Covered, Unfinished, Verdict, Advancing,
         InTransit
  <2>5. HumanWaitHolds'
    BY <1>1, <1>2, <1>3, <2>1, ReceiptType DEF Inv, IInv, Typed, TypeOK, ReceiptStatus, At,
         JobInv, Straight, Covered, Unfinished, HumanWaitHolds, Verdict, Advancing
  <2>6. QED BY <2>2, <2>3, <2>4, <2>5 DEF Straight
<1>10. QED BY <1>2, <1>3, <1>4, <1>5, <1>6, <1>7, <1>8, <1>9 DEF Inv, IInv, Typed

(* Pushes and merges, changes of the profile, and runs that are replaced    *)
(* leave what a job relies on.                                             *)
LEMMA BystanderInv ==
    ASSUME Inv, UNCHANGED <<receipt, report, graph, state, campaign, job, crashes>>,
           pending' \subseteq pending, profile' \in 0 .. MaxProfile,
           \/ UNCHANGED remote
           \/ \E t \in Task \ state.completed : remote' = [task |-> t, status |-> "PR_CREATED"]
    PROVE  Inv'
<1>1. (Typed /\ JobInv)'
  BY DEF Inv, IInv, Typed, TypeOK, Jobs, OnCourse, JobInv, Verdict, At, Armed, Receipt,
       Advancing
<1>2. (PendingInv /\ VerdictHasReport /\ AdvancedOnce /\ EveryMergeIsArmed /\ ArmedIsReachable)'
  BY DEF Inv, IInv, PendingInv, VerdictHasReport, AdvancedOnce, EveryMergeIsArmed,
         ArmedIsReachable, Verdict
<1>3. StraightInv'
  <2>1. (Aligned => Aligned') /\ (Covered => Covered')
    BY DEF Aligned, Covered, InTransit, At, Verdict
  <2>2. Unfinished => Unfinished'
    BY DEF Unfinished, Verdict, At
  <2>3. QED BY <2>1, <2>2 DEF Inv, StraightInv, Straight
<1>4. HumanWaitHolds' BY DEF Inv, HumanWaitHolds
<1>5. QED BY <1>1, <1>2, <1>3, <1>4 DEF Inv, IInv

(* A job that is killed leaves its files as they are: nothing that holds    *)
(* with kills is said of a job that rests.                                 *)
LEMMA CrashInv ==
    ASSUME Inv, Crash
    PROVE  Inv'
<1>1. /\ UNCHANGED <<receipt, report, graph, state, campaign, remote, pending, profile>>
      /\ crashes \in Nat /\ crashes' = crashes + 1 /\ job' = IdleJob
  BY DEF Crash, GoTo, files, Inv, IInv, Typed
<1>2. IdleJob \in Jobs /\ IdleJob.kind = "none" /\ IdleJob.pc = "idle"
  BY DEF IdleJob, Jobs, Pcs, NoReceipt, Receipts, ReceiptStatus
<1>3. job' \in Jobs /\ job'.kind = "none" /\ job'.pc = "idle" BY <1>1, <1>2
<1>4. (Typed /\ JobInv)'
  <2>1. TypeOK' BY <1>1, <1>3, JobTypes DEF Inv, IInv, Typed, TypeOK
  <2>2. OnCourse' /\ JobInv' BY <1>3 DEF OnCourse, JobInv, At, Advancing
  <2>3. QED BY <1>1, <1>3, <2>1, <2>2 DEF Inv, IInv, Typed
<1>5. (PendingInv /\ VerdictHasReport /\ AdvancedOnce /\ EveryMergeIsArmed /\ ArmedIsReachable)'
  BY <1>1 DEF Inv, IInv, PendingInv, VerdictHasReport, AdvancedOnce, EveryMergeIsArmed,
              ArmedIsReachable, Verdict
<1>6. StraightInv' /\ HumanWaitHolds' BY <1>1 DEF StraightInv, HumanWaitHolds
<1>7. QED BY <1>4, <1>5, <1>6 DEF Inv, IInv

(* Initially the first task is current, and nothing is merged. *)
LEMMA InitInv == Init => Inv
<1> SUFFICES ASSUME Init PROVE Inv
  OBVIOUS
<1>1. IdleJob \in Jobs /\ IdleJob.kind = "none" /\ IdleJob.pc = "idle" /\ IdleJob.t = 0
  BY DEF IdleJob, Jobs, Pcs, NoReceipt, Receipts, ReceiptStatus
<1>2. /\ job \in Jobs /\ job.kind = "none" /\ job.pc = "idle"
      /\ job.t \in 0 .. N /\ job.first \in Receipts /\ job.active \in Receipts
  BY <1>1 DEF Init, Jobs
<1>3. NoReceipt \in Receipts /\ NoReceipt.status = "NONE"
  BY DEF NoReceipt, Receipts, ReceiptStatus
<1>4. Typed BY <1>2, <1>3 DEF Init, Typed, TypeOK, OnCourse
<1>5. JobInv BY <1>2 DEF JobInv, At, Advancing
<1>6. PendingInv /\ VerdictHasReport /\ EveryMergeIsArmed /\ ArmedIsReachable
  BY <1>3 DEF Init, PendingInv, VerdictHasReport, EveryMergeIsArmed, ArmedIsReachable, Verdict
<1>7. AdvancedOnce BY CountNone DEF Init, AdvancedOnce
<1>8. Straight BY <1>2, <1>3 DEF Init, Straight, Aligned, Covered, Unfinished, InTransit,
                                 At, Verdict
<1>9. HumanWaitHolds BY <1>3 DEF Init, HumanWaitHolds
<1>10. QED BY <1>4, <1>5, <1>6, <1>7, <1>8, <1>9 DEF Inv, IInv, StraightInv

(* Every step keeps the invariant. *)
LEMMA StepInv ==
    ASSUME Inv, [Next]_vars
    PROVE  Inv'
<1>1. CASE MonitorStart \/ MigrateStart \/ WatchdogStart \/ RetryStart
           \/ \E t \in Task : VerifyStart(t)
  BY <1>1, MonitorStartInv, MigrateStartInv, WatchdogStartInv, RetryStartInv, VerifyStartInv
<1>2. CASE Arm \/ Dispatch \/ RecordDispatch \/ MarkMerged
  BY <1>2, ArmInv, DispatchInv, RecordDispatchInv, MarkMergedInv
<1>3. CASE AdvanceGraph \/ AdvanceCampaign \/ AdvanceState
  BY <1>3, AdvanceGraphInv, AdvanceCampaignInv, AdvanceStateInv
<1>4. CASE Prepare \/ Probe \/ Pass \/ Fail \/ Catch \/ VerifyFails
  BY <1>4, PrepareInv, ProbeInv, PassInv, FailInv, CatchInv, VerifyFailsInv
<1>5. CASE ContainCampaign \/ ContainState \/ ContainReceipt
  BY <1>5, ContainCampaignInv, ContainStateInv, ContainReceiptInv
<1>6. CASE Reconcile \/ SettleCampaign \/ SettleState
  BY <1>6, ReconcileInv, SettleCampaignInv, SettleStateInv
<1>7. CASE MigrateReceipt \/ MigrateState \/ MigrateCampaign
  BY <1>7, MigrateReceiptInv, MigrateStateInv, MigrateCampaignInv
<1>8. CASE Crash BY <1>8, CrashInv
<1>9. CASE Merge \/ NewProfile \/ LoseRun \/ UNCHANGED vars
  <2>1. UNCHANGED <<receipt, report, graph, state, campaign, job, crashes>>
    BY <1>9 DEF Merge, NewProfile, LoseRun, vars, files, counters
  <2>2. pending' \subseteq pending
    BY <1>9 DEF Merge, NewProfile, LoseRun, vars, files, counters
  <2>3. profile' \in 0 .. MaxProfile
    BY <1>9 DEF Merge, NewProfile, LoseRun, vars, files, counters, Inv, IInv, Typed, TypeOK
  <2>4. \/ UNCHANGED remote
        \/ \E t \in Task \ state.completed : remote' = [task |-> t, status |-> "PR_CREATED"]
    BY <1>9 DEF Merge, NewProfile, LoseRun, vars, files, counters, Inv, IInv, Typed, TypeOK
  <2>5. QED BY <2>1, <2>2, <2>3, <2>4, BystanderInv
<1>10. QED
  BY <1>1, <1>2, <1>3, <1>4, <1>5, <1>6, <1>7, <1>8, <1>9 DEF Next, JobStep

(* The invariant holds throughout. *)
THEOREM InvHolds == Spec => []Inv
BY InitInv, StepInv, PTL DEF Spec

(* Whatever is killed, lost, failing or repeated, for any number of tasks: *)
(* a VERIFIED receipt rests on a stored report of its own profile, each    *)
(* task advances the queue once, no merge of the monitor completes without *)
(* a receipt, and an armed receipt is in the watchdog's sight              *)
(* (runtime_verification_dispatch.py, runtime_verification_worker.py).     *)
THEOREM VerificationsStand == Spec => []VerdictsStand
<1>1. Inv => VerdictsStand BY DEF Inv, IInv, Typed, VerdictsStand
<1>2. QED BY <1>1, InvHolds, PTL

(* While no job is killed, a verification that waits for a human holds the *)
(* project: no monitor, watchdog, retry or other verification takes the    *)
(* current task, the state or the campaign from it.                        *)
THEOREM ProjectWaits == Spec => []HumanWaitHolds
<1>1. Inv => HumanWaitHolds BY DEF Inv
<1>2. QED BY <1>1, InvHolds, PTL

=============================================================================
