-------------------------- MODULE MultiAgentReview --------------------------
(***************************************************************************)
(* The independent review of one task's pull request, and the finalizer    *)
(* that freezes it as proof.  A run of the review reads the pull request's *)
(* head, asks a reviewer session for a verdict, and turns the verdict into *)
(* observation, contribution, reconciliation and clearance, one file at a  *)
(* time.  Runs are serial (one concurrency group) and may be killed        *)
(* between two writes; the files decide where the next run starts.  A run  *)
(* is dispatched or scheduled, and the finalizer looks for a dispatched    *)
(* one.  Meanwhile the PR monitor waits for the merge, and parks the task  *)
(* when its time is over, after which no run reviews any more.             *)
(*                                                                         *)
(* A value is its own fingerprint.  The task, the plan and the base commit *)
(* are fixed: plan.json and provider-availability.json are write-once and  *)
(* the same on every run.                                                  *)
(***************************************************************************)
EXTENDS Integers, Sequences

CONSTANTS MaxHeads,        \* bound: heads the pull request has
          MaxRounds,       \* CorrectionPolicy.max_correction_rounds
          MaxKills,        \* bound: runs killed midway
          MaxQuotas,       \* bound: refusals of the provider
          MaxDispatches,   \* bound: review events sent
          None             \* a file that is not there, a job that is not running

Heads == 1 .. MaxHeads
Verdicts == {"CLEAR", "CHANGES_REQUIRED", "HUMAN_REVIEW_REQUIRED"}

(* What a session leaves: its verdict markers.  Two of a kind are one      *)
(* verdict, and only those of a CLEAR are counted; none, or two kinds, are *)
(* no verdict.                                                             *)
Replies ==
    [verdict : Verdicts, markers : {1}] \cup [verdict : {"CLEAR"}, markers : {2}]
    \cup [verdict : {None}, markers : {0}]

(* A RoleSession; a paused one, and only a paused one, has a resume_after. *)
RoleSessions ==
    [session : Nat \ {0}, state : {"RUNNING", "COMPLETED"}, resume : {None}]
    \cup [session : Nat \ {0}, state : {"PAUSED_QUOTA"}, resume : {"NOT_DUE", "DUE"}]

Steps == {"create", "persist", "poll", "observe", "contribute", "reconcile",
          "conclude", "request", "end"}
Runs == [at : Steps, head : Heads, session : Nat \cup {None}, id : 0 .. MaxDispatches]

ASSUME ReviewConstants ==
    /\ MaxHeads \in Nat \ {0} /\ MaxRounds \in 1 .. 3
    /\ MaxKills \in Nat /\ MaxQuotas \in Nat /\ MaxDispatches \in Nat

ASSUME NoneIsNoValue ==
    /\ None \notin RoleSessions /\ None \notin Runs
    /\ None \notin Verdicts \cup {"NOT_DUE", "DUE"}

VARIABLES
    pr,              \* the pull request: its head; open, merged, verified
    project,         \* state.json with campaign.json, and remote-execution.json
    dispatches,      \* review events: how many were sent, the one that waits,
                     \* and the last whose run succeeded (0 for none)
    sessions,        \* the provider's reviewer sessions
    role,            \* reviewer-session.json
    pause,           \* reviewer-pause.json
    observation, contribution, reconciliation, clearance,
    correction,      \* correction-state.json
    request,         \* correction-request.json
    run,             \* the review run; the id of a scheduled one is 0
    proof,           \* the finalizer's proof artifacts
    finalizer,       \* the finalizer's run: what it read, and what is written
    kills, quotas

target == <<pr, project>>
delivery == <<target, dispatches>>
evidence == <<observation, contribution, reconciliation, clearance>>
corrections == <<correction, request>>
frozen == <<proof, finalizer>>
review == <<sessions, role, pause, evidence, corrections, run>>
vars == <<delivery, review, frozen, kills, quotas>>

(***************************************************************************)
(* Reconciliation and correction                                           *)
(***************************************************************************)
Disposition(verdicts) ==
    CASE verdicts = {} -> "INCOMPLETE"
      [] \/ "HUMAN_REVIEW_REQUIRED" \in verdicts
         \/ {"CLEAR", "CHANGES_REQUIRED"} \subseteq verdicts -> "HUMAN_WAIT"
      [] verdicts = {"CHANGES_REQUIRED"} -> "CHANGES_REQUIRED"
      [] OTHER -> "CLEAR"

Reconciled(contributions) ==
    [disposition   |-> Disposition({c.verdict : c \in contributions}),
     contributions |-> contributions]

InitialLoop == [stage |-> "REVIEW_PENDING", rounds |-> 0]

(* What advance_correction_loop makes of a CHANGES_REQUIRED. *)
NextRound(loop) ==
    IF loop.rounds + 1 > MaxRounds THEN [loop EXCEPT !.stage = "HUMAN_WAIT"]
    ELSE [stage |-> "CORRECTION_PENDING", rounds |-> loop.rounds + 1]

Clearance(head, session, c) ==
    [head |-> head, session |-> session, contribution |-> c,
     reconciliation |-> Reconciled({c})]

(***************************************************************************)
(* The role session                                                        *)
(***************************************************************************)
Started(session) == [session |-> session, state |-> "RUNNING", resume |-> None]

Paused(r) == [r EXCEPT !.state = "PAUSED_QUOTA", !.resume = "NOT_DUE"]

Resumed(r) == [r EXCEPT !.state = "RUNNING", !.resume = None]

Completed(r) == [r EXCEPT !.state = "COMPLETED"]

(* Mutant of NeedsSession: a pause that is due is answered by a new one. *)
NeedsSessionWhenPaused(r) ==
    IF r = None THEN TRUE ELSE r.state = "PAUSED_QUOTA" /\ r.resume = "DUE"

NeedsSession(r) == r = None

(* Mutants of MayWrite: what is there is left there, whatever it says; and *)
(* what is there is never written again.                                   *)
KeepsFirst(file, value) == TRUE

WritesOnlyOnce(file, value) == file = None

(* A write-once file takes its first value, and that value again. *)
MayWrite(file, value) == file \in {None, value}

FirstOf(file, value) == IF file = None THEN value ELSE file

(***************************************************************************)
(* Start                                                                   *)
(***************************************************************************)

(* Mutant of Order: the evidence, which ends the freezing, is the first. *)
OrderEvidenceFirst == <<"evidence", "session", "observation", "contribution",
                        "reconciliation", "clearance", "provenance">>

(* The order in which the proof artifacts are frozen. *)
Order == <<"session", "observation", "contribution", "reconciliation",
           "clearance", "provenance", "evidence">>
Artifacts == {Order[i] : i \in DOMAIN Order}

(* The pull request is recorded, and its task is at work. *)
Init ==
    /\ pr = [head |-> 1, state |-> "open"]
    /\ project = [task |-> "current", receipt |-> "PR_CREATED"]
    /\ dispatches = [sent |-> 0, waiting |-> 0, picked |-> 0]
    /\ sessions = <<>>
    /\ role = None /\ pause = None
    /\ observation = None /\ contribution = None
    /\ reconciliation = None /\ clearance = None
    /\ correction = None /\ request = None
    /\ run = None
    /\ proof = [a \in Artifacts |-> None] /\ finalizer = None
    /\ kills = 0 /\ quotas = 0

(***************************************************************************)
(* A run of the review                                                     *)
(***************************************************************************)
At(step) == IF run = None THEN FALSE ELSE run.at = step

GoTo(step) == run' = [run EXCEPT !.at = step]

(* A scheduled run is over with its last write; whether a dispatched one    *)
(* ended well is seen of it afterwards.                                    *)
EndsWell == IF run.id = 0 THEN run' = None ELSE GoTo("end")

(* The run that waits is the next; when none does, the schedule makes one. *)
RunStarts(step) ==
    /\ run' = [at |-> step, head |-> pr.head, session |-> None, id |-> dispatches.waiting]
    /\ dispatches' = [dispatches EXCEPT !.waiting = 0]

(* The task is current, with its campaign RUNNING, and its pull request is *)
(* recorded and open.                                                      *)
Reviewable ==
    project.task = "current" /\ project.receipt = "PR_CREATED" /\ pr.state = "open"

(* The run reads project, pull request and files.  It ends at once when    *)
(* there is nothing to review, a clearance exists, or a pause is not due.  *)
MayBegin ==
    run = None /\ Reviewable /\ clearance = None /\ pause # "NOT_DUE"

BeginCreate ==
    /\ MayBegin /\ NeedsSession(role)
    /\ RunStarts("create")
    /\ UNCHANGED <<target, sessions, role, pause, evidence, corrections, frozen, kills, quotas>>

BeginPoll ==
    /\ MayBegin /\ ~NeedsSession(role)
    /\ \/ role.state = "RUNNING" /\ UNCHANGED role
       \/ role.state = "PAUSED_QUOTA" /\ role.resume = "DUE" /\ role' = Resumed(role)
    /\ RunStarts("poll")
    /\ UNCHANGED <<target, sessions, pause, evidence, corrections, frozen, kills, quotas>>

BeginJudge ==
    /\ MayBegin /\ ~NeedsSession(role)
    /\ role.state = "COMPLETED"
    /\ RunStarts("observe")
    /\ UNCHANGED <<target, sessions, role, pause, evidence, corrections, frozen, kills, quotas>>

RolePaused == role # None /\ role.resume = "NOT_DUE"

(* Nothing to do is a success; a state that should not be is an error. *)
NothingToDo ==
    \/ project.task = "parked"
    \/ project.task = "current" /\ project.receipt = "MERGED"
    \/ Reviewable /\ clearance = None /\ (pause = "NOT_DUE" \/ RolePaused)
    \/ Reviewable /\ clearance # None /\ clearance.head = pr.head

EndsAtOnce ==
    /\ run = None /\ dispatches.waiting # 0 /\ (~MayBegin \/ RolePaused)
    /\ dispatches' = [dispatches EXCEPT
                        !.waiting = 0,
                        !.picked = IF NothingToDo THEN dispatches.waiting ELSE @]
    /\ UNCHANGED <<target, review, frozen, kills, quotas>>

(* A session whose prompt asks about a head. *)
Asked(head) == [asked |-> head, state |-> "RUNNING", reply |-> None]

CreateSession ==
    /\ At("create")
    /\ sessions' = Append(sessions, Asked(run.head))
    /\ run' = [run EXCEPT !.at = "persist", !.session = Len(sessions) + 1]
    /\ UNCHANGED <<delivery, role, pause, evidence, corrections, frozen, kills, quotas>>

CreateRefused ==
    /\ At("create") /\ quotas < MaxQuotas
    /\ pause' = "NOT_DUE"
    /\ quotas' = quotas + 1
    /\ EndsWell
    /\ UNCHANGED <<delivery, sessions, role, evidence, corrections, frozen, kills>>

PersistSession ==
    /\ At("persist")
    /\ role' = Started(run.session)
    /\ GoTo("poll")
    /\ UNCHANGED <<delivery, sessions, pause, evidence, corrections, frozen, kills, quotas>>

PollRefused ==
    /\ At("poll") /\ quotas < MaxQuotas
    /\ role' = Paused(role)
    /\ quotas' = quotas + 1
    /\ EndsWell
    /\ UNCHANGED <<delivery, sessions, pause, evidence, corrections, frozen, kills>>

PollCompleted ==
    /\ At("poll") /\ sessions[role.session].state = "COMPLETED"
    /\ role' = Completed(role)
    /\ GoTo("observe")
    /\ UNCHANGED <<delivery, sessions, pause, evidence, corrections, frozen, kills, quotas>>

(* The session stopped, which is an error, or the run's twenty minutes are *)
(* over: the file stays as it is.                                          *)
PollGivesUp ==
    /\ At("poll") /\ sessions[role.session].state # "COMPLETED"
    /\ IF sessions[role.session].state = "FAILED" THEN run' = None ELSE EndsWell
    /\ UNCHANGED <<delivery, sessions, role, pause, evidence, corrections, frozen, kills, quotas>>

(* The observation binds the head of this run, and replaces the last one. *)
Observe ==
    LET reply == sessions[role.session].reply
    IN  /\ At("observe")
        /\ IF reply.verdict = None
           THEN run' = None /\ UNCHANGED observation
           ELSE /\ observation' = [head |-> run.head, session |-> role.session,
                                   verdict |-> reply.verdict, markers |-> reply.markers]
                /\ GoTo("contribute")
        /\ UNCHANGED <<delivery, sessions, role, pause, contribution, reconciliation,
                       clearance, corrections, frozen, kills, quotas>>

ThisContribution == [verdict |-> observation.verdict, observed |-> observation]

Contribute ==
    /\ At("contribute")
    /\ IF MayWrite(contribution, ThisContribution)
       THEN contribution' = FirstOf(contribution, ThisContribution) /\ GoTo("reconcile")
       ELSE run' = None /\ UNCHANGED contribution
    /\ UNCHANGED <<delivery, sessions, role, pause, observation, reconciliation,
                   clearance, corrections, frozen, kills, quotas>>

Reconcile ==
    LET value == Reconciled({ThisContribution})
    IN  /\ At("reconcile")
        /\ IF MayWrite(reconciliation, value)
           THEN reconciliation' = FirstOf(reconciliation, value) /\ GoTo("conclude")
           ELSE run' = None /\ UNCHANGED reconciliation
        /\ UNCHANGED <<delivery, sessions, role, pause, observation, contribution,
                       clearance, corrections, frozen, kills, quotas>>

ConcludeClear ==
    LET value == Clearance(run.head, role.session, ThisContribution)
    IN  /\ At("conclude") /\ Disposition({observation.verdict}) = "CLEAR"
        /\ IF MayWrite(clearance, value)
           THEN clearance' = FirstOf(clearance, value) /\ EndsWell
           ELSE run' = None /\ UNCHANGED clearance
        /\ UNCHANGED <<delivery, sessions, role, pause, observation, contribution,
                       reconciliation, corrections, frozen, kills, quotas>>

(* Every run starts the loop anew; nothing reads the request. *)
ConcludeChanges ==
    /\ At("conclude") /\ Disposition({observation.verdict}) = "CHANGES_REQUIRED"
    /\ correction' = NextRound(InitialLoop)
    /\ GoTo("request")
    /\ UNCHANGED <<delivery, sessions, role, pause, evidence, request, frozen, kills, quotas>>

WriteRequest ==
    /\ At("request")
    /\ request' = IF correction.stage = "CORRECTION_PENDING"
                  THEN [round |-> correction.rounds, findings |-> ThisContribution]
                  ELSE request
    /\ EndsWell
    /\ UNCHANGED <<delivery, sessions, role, pause, evidence, correction, frozen, kills, quotas>>

(* The decision request is printed, not enqueued. *)
ConcludeHuman ==
    /\ At("conclude") /\ Disposition({observation.verdict}) = "HUMAN_WAIT"
    /\ EndsWell
    /\ UNCHANGED <<delivery, sessions, role, pause, evidence, corrections, frozen, kills, quotas>>

(* The list of the workflow's runs says of a dispatched one that it ended  *)
(* well.                                                                   *)
Succeeds ==
    /\ At("end") /\ run' = None
    /\ dispatches' = [dispatches EXCEPT !.picked = run.id]
    /\ UNCHANGED <<target, sessions, role, pause, evidence, corrections, frozen, kills, quotas>>

Kill ==
    /\ run # None /\ kills < MaxKills
    /\ run' = None /\ kills' = kills + 1
    /\ UNCHANGED <<delivery, sessions, role, pause, evidence, corrections, frozen, quotas>>

(***************************************************************************)
(* The finalizer                                                           *)
(***************************************************************************)

(* The head the proof must be about. *)
MergedHead == pr.head

HeadAgrees == clearance.head = MergedHead

(* Nothing is current any more, and the task is among the completed. *)
CampaignOver == project.task = "completed"

(* The receipt says that the pull request was merged, and the merge was    *)
(* VERIFIED at runtime, by the runs that were meant to.                    *)
MergeProven == project.receipt = "MERGED" /\ pr.state = "verified"

(* The last review run that was dispatched while the pull request was open *)
(* and ended well; what a scheduled run did does not count.                *)
ReviewRun == dispatches.picked

(* The chain as the finalizer rebuilds it from the live files. *)
ChainAgrees ==
    /\ role # None /\ observation # None /\ contribution # None
    /\ reconciliation # None /\ clearance # None
    /\ role.state = "COMPLETED" /\ contribution.verdict = "CLEAR"
    /\ reconciliation = Reconciled({contribution})
    /\ clearance = Clearance(clearance.head, role.session, contribution)

(* The proof that is assembled; the evidence names the merge. *)
Evidence == [head |-> MergedHead, review |-> ReviewRun]

Snapshot ==
    [session |-> role, observation |-> observation, contribution |-> contribution,
     reconciliation |-> reconciliation, clearance |-> clearance,
     provenance |-> ReviewRun, evidence |-> Evidence]

(***************************************************************************)
(* scripts/v1_7_multi_agent_audit.py rebuilds a proof from its artifacts    *)
(* alone.  The finalizer runs it on what it is about to freeze, and CI, on  *)
(* every commit after, on what is frozen.                                   *)
(***************************************************************************)
AuditRebuilds(a) ==
    /\ \A x \in Artifacts : a[x] # None
    /\ a["reconciliation"] = Reconciled({a["contribution"]})
    /\ a["clearance"] =
          Clearance(a["clearance"].head, a["session"].session, a["contribution"])

AuditBinds(a) ==
    /\ a["observation"].head = a["evidence"].head
    /\ a["observation"].session = a["session"].session
    /\ a["observation"].verdict = "CLEAR" /\ a["observation"].markers = 1
    /\ a["contribution"].verdict = "CLEAR"
    /\ a["contribution"].observed = a["observation"]
    /\ a["clearance"].head = a["evidence"].head

Audited(a) ==
    /\ AuditRebuilds(a)
    /\ a["session"].state = "COMPLETED"
    /\ AuditBinds(a)

BeginFreeze ==
    /\ finalizer = None /\ proof["evidence"] = None
    /\ CampaignOver /\ ChainAgrees /\ MergeProven /\ HeadAgrees /\ ReviewRun # 0
    /\ Audited(Snapshot)
    /\ finalizer' = [copies |-> Snapshot, next |-> 1]
    /\ UNCHANGED <<delivery, review, proof, kills, quotas>>

(* One artifact after the other; the evidence is the last. *)
Freeze ==
    LET a == Order[finalizer.next]    value == finalizer.copies[a]
    IN  /\ finalizer # None
        /\ proof' = [proof EXCEPT ![a] = IF MayWrite(@, value) THEN FirstOf(@, value) ELSE @]
        /\ finalizer' = IF MayWrite(proof[a], value) /\ finalizer.next < Len(Order)
                        THEN [finalizer EXCEPT !.next = @ + 1] ELSE None
        /\ UNCHANGED <<delivery, review, kills, quotas>>

KillFinalizer ==
    /\ finalizer # None /\ kills < MaxKills
    /\ finalizer' = None /\ kills' = kills + 1
    /\ UNCHANGED <<delivery, review, proof, quotas>>

(***************************************************************************)
(* The provider, the target repository, the monitor and the clock          *)
(***************************************************************************)

(* The role's session ends; what others come to, nobody looks at. *)
SessionEnds ==
    /\ role # None /\ sessions[role.session].state = "RUNNING"
    /\ \/ \E reply \in Replies :
             sessions' = [sessions EXCEPT ![role.session].state = "COMPLETED",
                                          ![role.session].reply = reply]
       \/ sessions' = [sessions EXCEPT ![role.session].state = "FAILED"]
    /\ UNCHANGED <<delivery, role, pause, evidence, corrections, run, frozen, kills, quotas>>

HeadMoves ==
    /\ pr.state = "open" /\ pr.head < MaxHeads
    /\ pr' = [pr EXCEPT !.head = @ + 1]
    /\ UNCHANGED <<project, dispatches, review, frozen, kills, quotas>>

(* The gate that merges is the target repository's; a person may merge too. *)
Merge ==
    /\ pr.state = "open"
    /\ pr' = [pr EXCEPT !.state = "merged"]
    /\ UNCHANGED <<project, dispatches, review, frozen, kills, quotas>>

(* Verified at the first dispatch, without a recovery, and by the runs     *)
(* that were meant to; verified otherwise, it is merged for the finalizer. *)
Verified ==
    /\ pr.state = "merged"
    /\ pr' = [pr EXCEPT !.state = "verified"]
    /\ UNCHANGED <<project, dispatches, review, frozen, kills, quotas>>

(* The cycle that records the pull request sends a review event: it did    *)
(* in jules_cycle.py, whose successor sends none.                          *)
SendReview ==
    /\ pr.state = "open" /\ dispatches.sent < MaxDispatches
    /\ dispatches' = [dispatches EXCEPT !.sent = @ + 1, !.waiting = dispatches.sent + 1]
    /\ UNCHANGED <<target, review, frozen, kills, quotas>>

(* The run that waits for another one is replaced by a scheduled one. *)
DropWaiting ==
    /\ run # None /\ dispatches.waiting # 0
    /\ dispatches' = [dispatches EXCEPT !.waiting = 0]
    /\ UNCHANGED <<target, review, frozen, kills, quotas>>

(* The monitor saw no merge in all its polls.  A late merge completes the  *)
(* task, but leaves the receipt as it is: nothing is reviewed or proved.   *)
Park ==
    /\ project = [task |-> "current", receipt |-> "PR_CREATED"]
    /\ project' = [project EXCEPT !.task = "parked"]
    /\ UNCHANGED <<pr, dispatches, review, frozen, kills, quotas>>

(* The monitor sees the merge. *)
Completes ==
    /\ pr.state # "open" /\ project.task = "current"
    /\ project' = [project EXCEPT !.task = "completed"]
    /\ UNCHANGED <<pr, dispatches, review, frozen, kills, quotas>>

(* The receipt follows, by the monitor that completed the task or by the   *)
(* watchdog while it is current.                                           *)
ReceiptMerged ==
    /\ pr.state # "open" /\ project.task \in {"current", "completed"}
    /\ project.receipt = "PR_CREATED"
    /\ project' = [project EXCEPT !.receipt = "MERGED"]
    /\ UNCHANGED <<pr, dispatches, review, frozen, kills, quotas>>

PauseDue ==
    /\ pause = "NOT_DUE" /\ pause' = "DUE"
    /\ UNCHANGED <<delivery, sessions, role, evidence, corrections, run, frozen, kills, quotas>>

ResumeDue ==
    /\ role # None
    /\ role.resume = "NOT_DUE" /\ role' = [role EXCEPT !.resume = "DUE"]
    /\ UNCHANGED <<delivery, sessions, pause, evidence, corrections, run, frozen, kills, quotas>>

(***************************************************************************)
(* The specification                                                       *)
(***************************************************************************)
Begin == BeginCreate \/ BeginPoll \/ BeginJudge

RunStep ==
    \/ CreateSession \/ PersistSession \/ PollCompleted \/ PollGivesUp
    \/ Observe \/ Contribute \/ Reconcile \/ ConcludeClear \/ ConcludeChanges
    \/ WriteRequest \/ ConcludeHuman \/ Succeeds

FinalizerStep == BeginFreeze \/ Freeze

Next ==
    \/ Begin \/ EndsAtOnce \/ RunStep \/ CreateRefused \/ PollRefused \/ Kill
    \/ FinalizerStep \/ KillFinalizer
    \/ SessionEnds \/ HeadMoves \/ Merge \/ Verified \/ SendReview \/ DropWaiting
    \/ Park \/ Completes \/ ReceiptMerged \/ PauseDue \/ ResumeDue

(* Both workflows run on a schedule, the provider ends its sessions, and   *)
(* time passes.  Nothing makes a person push or merge, and nothing is      *)
(* asked of the dispatches and of the monitor.                             *)
Fairness ==
    /\ WF_vars(Begin \/ RunStep) /\ WF_vars(FinalizerStep)
    /\ WF_vars(SessionEnds) /\ WF_vars(PauseDue \/ ResumeDue)

Spec == Init /\ [][Next]_vars /\ Fairness

(***************************************************************************)
(* Properties                                                              *)
(***************************************************************************)
Observations ==
    [head : Heads, session : DOMAIN sessions, verdict : Verdicts, markers : {1, 2}]
Contributions == [verdict : Verdicts, observed : Observations]
Reconciliations ==
    [disposition : {"INCOMPLETE", "CLEAR", "CHANGES_REQUIRED", "HUMAN_WAIT"},
     contributions : SUBSET Contributions]
Clearances ==
    [head : Heads, session : DOMAIN sessions, contribution : Contributions,
     reconciliation : Reconciliations]
Loops ==
    [stage : {"REVIEW_PENDING", "CORRECTION_PENDING", "HUMAN_WAIT", "CLEAR"},
     rounds : 0 .. MaxRounds]
Requests == [round : 1 .. MaxRounds, findings : Contributions]

(* The files hold what their classes accept: a paused session, and only a  *)
(* paused one, carries a resume_after (RoleSession.__post_init__); the     *)
(* correction round stays in the policy's budget.                          *)
TypeOK ==
    /\ pr \in [head : Heads, state : {"open", "merged", "verified"}]
    /\ project \in [task : {"current", "parked", "completed"},
                    receipt : {"PR_CREATED", "MERGED"}]
    /\ dispatches \in [sent : 0 .. MaxDispatches, waiting : 0 .. MaxDispatches,
                       picked : 0 .. MaxDispatches]
    /\ sessions \in Seq([asked : Heads, state : {"RUNNING", "COMPLETED", "FAILED"},
                         reply : Replies \cup {None}])
    /\ role # None => role \in RoleSessions /\ role.session \in DOMAIN sessions
    /\ pause \in {None, "NOT_DUE", "DUE"}
    /\ run # None => run \in Runs
    /\ observation \in Observations \cup {None}
    /\ contribution \in Contributions \cup {None}
    /\ reconciliation \in Reconciliations \cup {None}
    /\ clearance \in Clearances \cup {None}
    /\ correction \in Loops \cup {None}
    /\ request \in Requests \cup {None}
    /\ kills \in 0 .. MaxKills /\ quotas \in 0 .. MaxQuotas

(* A clearance stands on the files around it: a completed session whose    *)
(* reply was CLEAR, the one observation of it at the cleared head, the     *)
(* contribution and reconciliation of that observation; whatever was       *)
(* killed, and however often the head moved, between the writes.           *)
ClearanceIsEarned ==
    clearance # None =>
        /\ role # None /\ role.state = "COMPLETED"
        /\ sessions[role.session].reply.verdict = "CLEAR"
        /\ observation.head = clearance.head /\ observation.session = role.session
        /\ contribution = ThisContribution
        /\ clearance = Clearance(clearance.head, role.session, contribution)
        /\ reconciliation = clearance.reconciliation

(* Once the evidence is frozen, the audit passes on the frozen files and     *)
(* keeps passing: they are whole and of one chain, about the head that was   *)
(* merged and one run of the review, wherever the finalizer was killed and   *)
(* started over.                                                             *)
GraduatedAsReviewed ==
    proof["evidence"] # None =>
        /\ Audited(proof)
        /\ proof["evidence"] = [head |-> pr.head, review |-> proof["provenance"]]
        /\ pr.state = "verified"

(* The provider is asked for one reviewer session, and for one more only   *)
(* when a run is killed: pauses, resumes and reruns create none.           *)
SessionsAccounted == Len(sessions) <= 1 + kills

(* The role keeps the session it has, and a completed one stays completed: *)
(* a resume goes back to the same session, and not before it is due.       *)
SessionIsKept ==
    [][role # None =>
          /\ role'.session = role.session
          /\ role.state = "COMPLETED" => role' = role
          /\ role.resume = "NOT_DUE" => role'.state = "PAUSED_QUOTA"]_vars

(* The head the reviewer's session was asked about. *)
HeadAsked == sessions[role.session].asked

(* The reviewer gave no verdict, a person has to decide, the pull request  *)
(* was merged meanwhile, its head is not the one first observed, or the    *)
(* monitor's twenty minutes were over before the review was.               *)
OutOfHands ==
    \/ pr.state # "open" \/ pr.head > 1 \/ project.task # "current"
    \/ role # None /\ sessions[role.session].state = "FAILED"
    \/ role # None /\ sessions[role.session].reply = [verdict |-> None, markers |-> 0]
    \/ reconciliation # None /\ reconciliation.disposition = "HUMAN_WAIT"

(* A review ends while its task is current: pauses, timeouts and kills at  *)
(* any write delay the clearance or the correction request, unless it is   *)
(* out of its hands.                                                       *)
ReviewConcludes == <>(clearance # None \/ request # None \/ OutOfHands)

(* The frozen provenance names another run than the one found now: a run   *)
(* that ended after a finalizer had begun.                                 *)
Reselected == proof["provenance"] \notin {None, ReviewRun}

(* What the finalizer asks for beside the chain that was reviewed. *)
Provable == CampaignOver /\ MergeProven /\ ReviewRun # 0

(* A proven merge of the cleared head, reviewed with one marker, and with  *)
(* a dispatched run that ended well, is frozen as proof wherever the       *)
(* finalizer was killed, unless that run is overtaken by a later one.      *)
ClearedMergeGraduates ==
    (/\ Provable /\ clearance # None
     /\ clearance.head = pr.head /\ observation.markers = 1)
        ~> (proof["evidence"] # None \/ Reselected)

(* ROADMAP.md: a clearance binds the reviewed pull request head.  The role *)
(* session does not record the head it was asked about, so a verdict is    *)
(* bound to the head of the run that reads it.                             *)
ClearedHeadWasReviewed == clearance # None => clearance.head = HeadAsked

(* Both at once: the review gets to its end while its task is current, and *)
(* its clearance to the proof of a proven merge, whatever is killed,       *)
(* paused or slow on the way.                                              *)
ReviewSettles == ReviewConcludes /\ ClearedMergeGraduates

=============================================================================
