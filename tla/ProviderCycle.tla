--------------------------- MODULE ProviderCycle ---------------------------
(***************************************************************************)
(* One task from its dispatch to the end of its provider session: the      *)
(* provider cycle (.github/trusted/provider_cycle.py), which claims the    *)
(* lease, creates a session and monitors it, and the resume watch          *)
(* (.github/trusted/provider_resume.py), which a schedule starts and which *)
(* monitors, retries or leaves alone what the checkpoint records.          *)
(*                                                                         *)
(* All runs of the project are in one concurrency group, where one runs,   *)
(* at most one is pending, and a newer arrival replaces it.  Dispatched    *)
(* runs queue for a group of their own first, so that one more may wait    *)
(* there while the previous one runs.  One action is one remote call.  A   *)
(* run may die between any two.                                            *)
(*                                                                         *)
(* Time is relative: leaseLeft until the lease expires, run.left until     *)
(* GitHub kills the job.  The lease is a single step here (LeaseClaims has *)
(* its race); no two runs have the same owner id.  The choice between the  *)
(* providers is abstracted to whether one is available; the remote receipt *)
(* of the pull request is CampaignController's.                            *)
(***************************************************************************)
EXTENDS Naturals, Sequences, FiniteSets

CONSTANTS
    TTL,            \* the lease's life: 50 minutes
    JobTime,        \* the job's timeout-minutes: 45 minutes
    MaxRetries,     \* MAX_PROVIDER_ERROR_RETRIES
    MaxSession,     \* bound: provider sessions created
    MaxFault,       \* bound: failed provider or GitHub requests
    MaxCrash,       \* bound: runs killed
    MaxDuplicate    \* bound: repetitions of the dispatch request

\* The lease is longer than the job: 50 and 45 minutes in the source.
CycleAssumption ==
    /\ TTL \in Nat /\ JobTime \in Nat /\ JobTime < TTL
    /\ MaxRetries \in Nat /\ MaxSession \in Nat
    /\ MaxFault \in Nat /\ MaxCrash \in Nat /\ MaxDuplicate \in Nat

ASSUME CycleConstants == CycleAssumption

VARIABLES
    checkpoint,     \* runtime/checkpoint.json
    leaseLeft,      \* 0: no live lease
    status,         \* state.json's status
    current,        \* the task is still state.json's current task
    sessions,       \* the provider's sessions for the task, oldest first
    pending,        \* the kinds of run that wait
    run,            \* the running one
    overtakings,    \* dispatched runs that a later resume run overtook
    duplicates, faults, crashes, retries

cycleVars == <<checkpoint, leaseLeft, status, current, sessions, pending, run,
               overtakings, duplicates, faults, crashes, retries>>

counters == <<overtakings, duplicates, faults, crashes, retries>>

\* _checkpoint: attempt is always 0 here; session 0 stands for null.
Checkpoint(st, s, kind) ==
    [state |-> st, session |-> s, kind |-> kind, attempt |-> 0]

NoCheckpoint == Checkpoint("NONE", 0, "NONE")

IdleRun == [pc |-> "idle", kind |-> "none", attempt |-> 0, retrying |-> FALSE,
            session |-> 0, left |-> 0, cp |-> NoCheckpoint, st |-> "NONE",
            next |-> "idle", catch |-> "idle"]

CycleInit ==
    /\ checkpoint = NoCheckpoint
    /\ leaseLeft = 0
    /\ status = "READY"
    /\ current = TRUE
    /\ sessions = <<>>
    /\ pending = {"cycle"}
    /\ run = IdleRun
    /\ overtakings = 0 /\ duplicates = 0 /\ faults = 0 /\ crashes = 0 /\ retries = 0

At(pc) == run.pc = pc

EndRun == run' = IdleRun

GoTo(pc) == IF pc = "idle" THEN EndRun ELSE run' = [run EXCEPT !.pc = pc]

\* The same once the checkpoint is written and needs no remembering.
GoOn(pc) ==
    IF pc = "idle" THEN EndRun
    ELSE run' = [run EXCEPT !.pc = pc, !.cp = NoCheckpoint]

\* Persist checkpoint cp, then set project status st if there is one, then go
\* on at next; a failed request continues at run.catch.
PersistIn(r, cp, st, next) ==
    run' = [r EXCEPT !.pc = "write", !.cp = cp, !.st = st, !.next = next]

Persist(cp, st, next) == PersistIn(run, cp, st, next)

\* The same from an except clause of main, where nothing catches a failure.
PersistLast(cp, st) == PersistIn([run EXCEPT !.catch = "idle"], cp, st, "idle")

\* What follows once run_new_cycle or monitor_existing returns.
Returned == IF run.kind = "resume" THEN "floor" ELSE "idle"

Fault == faults < MaxFault /\ faults' = faults + 1

-----------------------------------------------------------------------------
\* The concurrency group.

\* The schedule of the resume watch.  While a dispatched run is at work, the
\* next one waits in its own group and is not replaced.
CronArrives ==
    /\ At("idle") => "cycle" \notin pending
    /\ pending' = {"resume"} \cup IF run.kind = "cycle" THEN pending ELSE {}
    /\ UNCHANGED <<checkpoint, leaseLeft, status, current, sessions, run, counters>>

\* The dispatch request was answered late and repeated: a second event, while
\* the run that the first one started has only begun.
DuplicateArrives ==
    /\ duplicates < MaxDuplicate
    /\ run.kind = "cycle" /\ run.left = JobTime
    /\ pending' = pending \cup {"cycle"}
    /\ duplicates' = duplicates + 1
    /\ UNCHANGED <<checkpoint, leaseLeft, status, current, sessions, run,
                   overtakings, faults, crashes, retries>>

StartCycle ==
    /\ At("idle") /\ "cycle" \in pending /\ current
    /\ pending' = pending \ {"cycle"}
    /\ run' = [IdleRun EXCEPT !.pc = "claim", !.kind = "cycle", !.left = JobTime,
                              !.catch = "fail"]
    /\ UNCHANGED <<checkpoint, leaseLeft, status, current, sessions, counters>>

\* broker_resume_action: what the resume watch does with the checkpoint.
Retryable(cp) ==
    /\ cp.state = "FAILED" /\ cp.kind = "PROVIDER_ERROR" /\ cp.session = 0
    /\ cp.attempt < MaxRetries

\* Mutants of Monitored: a session that waits for a human is monitored again;
\* a paused one is not.
MonitoredWaiting(cp) ==
    cp.state \in {"RUNNING", "PAUSED_QUOTA", "HUMAN_WAIT"} /\ cp.session # 0

MonitoredRunning(cp) == cp.state = "RUNNING" /\ cp.session # 0

Monitored(cp) == cp.state \in {"RUNNING", "PAUSED_QUOTA"} /\ cp.session # 0

Rerouted(cp) == cp.state = "PAUSED_QUOTA" /\ cp.session = 0

ResumeRun(pc, attempt, retrying, s) ==
    run' = [IdleRun EXCEPT !.pc = pc, !.kind = "resume", !.left = JobTime,
                           !.catch = "fail",
                           !.attempt = attempt, !.retrying = retrying,
                           !.session = s]

\* The resume watch has something to do: monitor the session, retry after a
\* provider error, or route anew once the quota pause is over or a fallback
\* provider is available.
StartResume ==
    /\ At("idle") /\ "resume" \in pending /\ current
    /\ pending' = pending \ {"resume"}
    /\ overtakings' = overtakings + Cardinality(pending \ {"resume"})
    /\ \/ Monitored(checkpoint)
          /\ ResumeRun("begin", checkpoint.attempt, FALSE, checkpoint.session)
       \/ Retryable(checkpoint)
          /\ ResumeRun("claim", checkpoint.attempt + 1, TRUE, 0)
       \/ Rerouted(checkpoint)
          /\ ResumeRun("claim", checkpoint.attempt, FALSE, 0)
    /\ UNCHANGED <<checkpoint, leaseLeft, status, current, sessions, duplicates,
                   faults, crashes, retries>>

\* It has nothing to do for this task, or a paused checkpoint is not due.
SkipResume ==
    /\ At("idle") /\ "resume" \in pending
    /\ current => ~Retryable(checkpoint) /\ checkpoint.state # "RUNNING"
    /\ pending' = pending \ {"resume"}
    /\ UNCHANGED <<checkpoint, leaseLeft, status, current, sessions, run, counters>>

\* Time passes, in steps no shorter than a run's set-up: a run claims its lease
\* before the next one.  A dispatched run does not wait for an idle group; the
\* schedule is not that punctual.
TimePasses ==
    /\ IF At("idle") THEN "cycle" \in pending => ~current
                     ELSE run.left > 0 /\ ~At("claim")
    /\ leaseLeft > 0 \/ ~At("idle")
    /\ leaseLeft' = IF leaseLeft > 0 THEN leaseLeft - 1 ELSE 0
    /\ run' = IF At("idle") THEN run ELSE [run EXCEPT !.left = @ - 1]
    /\ UNCHANGED <<checkpoint, status, current, sessions, pending, counters>>

-----------------------------------------------------------------------------
\* Claiming the lease and creating a session.

\* Mutant of LeaseTime: the lease is shorter than the job.
LeaseTimeShort == 1

LeaseTime == TTL

Claim ==
    /\ At("claim")
    /\ IF leaseLeft > 0
       THEN EndRun /\ UNCHANGED leaseLeft
       ELSE leaseLeft' = LeaseTime /\ run' = [run EXCEPT !.pc = "create"]
    /\ UNCHANGED <<checkpoint, status, current, sessions, pending, counters>>

CountRetry == retries' = retries + IF run.retrying THEN 1 ELSE 0

\* No provider is available, or its quota is used up by now.
CreatePaused ==
    /\ At("create")
    /\ Persist(Checkpoint("PAUSED_QUOTA", 0, "PROVIDER_QUOTA"), "PAUSED_QUOTA",
               Returned)
    /\ UNCHANGED <<checkpoint, leaseLeft, status, current, sessions, pending,
                   counters>>

NewSession ==
    Len(sessions) < MaxSession /\ sessions' = Append(sessions, "active")

\* The adapter of Jules looks for a session of the same title and prompt
\* before it creates one, and takes the newest that has not failed; a stopped
\* one may have failed, or have completed without a pull request.
Reusable ==
    {s \in DOMAIN sessions :
        \A t \in DOMAIN sessions : t > s => sessions[t] = "stopped"}

\* It finds none if they are older than two hours, and the adapter of the
\* other provider does not look.
CreateSession ==
    /\ At("create")
    /\ CountRetry
    /\ \E s \in Reusable \cup {Len(sessions) + 1} :
         /\ IF s \in Reusable THEN UNCHANGED sessions ELSE NewSession
         /\ run' = [run EXCEPT !.pc = "write", !.session = s,
                               !.cp = Checkpoint("RUNNING", s, "NONE"),
                               !.st = "NONE", !.next = "begin"]
    /\ UNCHANGED <<checkpoint, leaseLeft, status, current, pending,
                   overtakings, duplicates, faults, crashes>>

\* The request fails; the provider may have created the session nonetheless.
CreateFails ==
    /\ At("create")
    /\ Fault
    /\ CountRetry
    /\ NewSession \/ UNCHANGED sessions
    /\ GoTo("fail")
    /\ UNCHANGED <<checkpoint, leaseLeft, status, current, pending,
                   overtakings, duplicates, crashes>>

\* The provider refuses the credentials: the cycle records HUMAN_WAIT, the
\* resume watch just ends.
CreateUnauthorized ==
    /\ At("create")
    /\ Fault
    /\ IF run.kind = "cycle"
       THEN PersistLast(Checkpoint("HUMAN_WAIT", 0, "HUMAN_INPUT"), "HUMAN_WAIT")
       ELSE EndRun
    /\ UNCHANGED <<checkpoint, leaseLeft, status, current, sessions, pending,
                   overtakings, duplicates, crashes, retries>>

-----------------------------------------------------------------------------
\* monitor_existing.

\* _set_project_status fails when another task has become current.
BeginMonitor ==
    /\ At("begin")
    /\ IF current
       THEN status' = "RUNNING" /\ GoTo("monitor")
       ELSE UNCHANGED status /\ GoTo("fail")
    /\ UNCHANGED <<checkpoint, leaseLeft, current, sessions, pending, counters>>

\* What monitor_existing makes of what a poll sees: the checkpoint's state and
\* failure kind and the project status.  A session that has stopped working
\* has completed, failed, waits for an answer or is paused.
Outcome(working) ==
    IF working
    THEN {<<"RUNNING", "CYCLE_TIMEOUT", "NONE">>}
    ELSE {<<"COMPLETED", "NONE", "NONE">>,
          <<"FAILED", "CYCLE_FAILED", "FAILED">>,
          <<"HUMAN_WAIT", "HUMAN_INPUT", "HUMAN_WAIT">>,
          <<"REPLAN", "PROVIDER_ERROR", "BLOCKED">>}

\* A poll sees that the session has stopped, or the deadline passes while it
\* is at work.
Poll ==
    /\ At("monitor")
    /\ \E o \in Outcome(sessions[run.session] = "active") :
         Persist(Checkpoint(o[1], run.session, o[2]), o[3], Returned)
    /\ UNCHANGED <<checkpoint, leaseLeft, status, current, sessions, pending,
                   counters>>

\* The poll is answered with a quota error: the session is kept.
PollPaused ==
    /\ At("monitor")
    /\ Persist(Checkpoint("PAUSED_QUOTA", run.session, "PROVIDER_QUOTA"),
               "PAUSED_QUOTA", Returned)
    /\ UNCHANGED <<checkpoint, leaseLeft, status, current, sessions, pending,
                   counters>>

\* The provider refuses the credentials: so it is then.
PollUnauthorized ==
    /\ At("monitor")
    /\ Fault
    /\ Persist(Checkpoint("HUMAN_WAIT", run.session, "HUMAN_INPUT"),
               "HUMAN_WAIT", Returned)
    /\ UNCHANGED <<checkpoint, leaseLeft, status, current, sessions, pending,
                   overtakings, duplicates, crashes, retries>>

\* Any other error of the provider or of GitHub ends the monitoring, and so
\* does a completed session of an external target without a pull request.
PollFails ==
    /\ At("monitor")
    /\ Fault
    /\ GoTo("fail")
    /\ UNCHANGED <<checkpoint, leaseLeft, status, current, sessions, pending,
                   overtakings, duplicates, crashes, retries>>

-----------------------------------------------------------------------------
\* Writes.

WriteCheckpoint ==
    /\ At("write")
    /\ checkpoint' = run.cp
    /\ GoOn(IF run.st = "NONE" THEN run.next ELSE "status")
    /\ UNCHANGED <<leaseLeft, status, current, sessions, pending, counters>>

SetStatus ==
    /\ At("status")
    /\ IF current
       THEN status' = run.st /\ GoTo(run.next)
       ELSE UNCHANGED status /\ GoTo(run.catch)
    /\ UNCHANGED <<checkpoint, leaseLeft, current, sessions, pending, counters>>

\* The except clause of main: the cycle always records a FAILED checkpoint
\* without a session; the resume watch does so, with its attempt, when it was
\* retrying, and otherwise leaves the checkpoint.
Fail ==
    /\ At("fail")
    /\ IF run.kind = "cycle" \/ run.retrying
       THEN PersistLast([Checkpoint("FAILED", 0, "PROVIDER_ERROR")
                           EXCEPT !.attempt = run.attempt], "NONE")
       ELSE EndRun
    /\ UNCHANGED <<checkpoint, leaseLeft, status, current, sessions, pending,
                   counters>>

\* _preserve_attempt_floor, after the resume watch's run returned.
PreserveFloor ==
    /\ At("floor")
    /\ checkpoint' = IF checkpoint.attempt < run.attempt
                     THEN [checkpoint EXCEPT !.attempt = run.attempt]
                     ELSE checkpoint
    /\ EndRun
    /\ UNCHANGED <<leaseLeft, status, current, sessions, pending, counters>>

\* A request to GitHub fails for good; what it asked for may have been done
\* nonetheless.  Where nothing catches the failure the run just dies, which
\* is Crash.
RequestFails ==
    /\ run.pc \in {"claim", "begin", "write", "status", "floor"}
    /\ run.catch = "fail"
    /\ Fault
    /\ GoTo("fail")
    /\ \/ UNCHANGED <<checkpoint, leaseLeft, status>>
       \/ At("claim") /\ leaseLeft = 0 /\ leaseLeft' = LeaseTime
          /\ UNCHANGED <<checkpoint, status>>
       \/ At("write") /\ checkpoint' = run.cp
          /\ UNCHANGED <<leaseLeft, status>>
       \/ At("status") /\ current /\ status' = run.st
          /\ UNCHANGED <<checkpoint, leaseLeft>>
    /\ UNCHANGED <<current, sessions, pending, overtakings, duplicates, crashes,
                   retries>>

-----------------------------------------------------------------------------
\* The provider, the rest of the controller, and the runner.

SessionEnds(s) ==
    /\ sessions[s] = "active"
    /\ sessions' = [sessions EXCEPT ![s] = "stopped"]
    /\ UNCHANGED <<checkpoint, leaseLeft, status, current, pending, run, counters>>

\* The PR gate merges a session's pull request and makes another task current.
MoveOn ==
    /\ current
    /\ sessions # <<>>
    /\ current' = FALSE
    /\ UNCHANGED <<checkpoint, leaseLeft, status, sessions, pending, run, counters>>

Crash ==
    /\ ~At("idle")
    /\ crashes < MaxCrash
    /\ crashes' = crashes + 1
    /\ EndRun
    /\ UNCHANGED <<checkpoint, leaseLeft, status, current, sessions, pending,
                   overtakings, duplicates, faults, retries>>

RunStep ==
    \/ Claim \/ CreatePaused \/ CreateSession \/ CreateFails
    \/ CreateUnauthorized \/ BeginMonitor \/ Poll \/ PollPaused
    \/ PollUnauthorized \/ PollFails \/ WriteCheckpoint \/ SetStatus \/ Fail
    \/ PreserveFloor \/ RequestFails

CycleNext ==
    \/ CronArrives \/ DuplicateArrives \/ StartCycle \/ StartResume \/ SkipResume
    \/ TimePasses
    \/ RunStep
    \/ \E s \in 1 .. Len(sessions) : SessionEnds(s)
    \/ MoveOn
    \/ Crash

CycleSpec == CycleInit /\ [][CycleNext]_cycleVars

\* A run goes on, the schedule fires, time passes and a session ends; a
\* provider that is asked again and again is available at some point.
FairCycleSpec ==
    /\ CycleSpec
    /\ WF_cycleVars(RunStep) /\ SF_cycleVars(CreateSession) /\ SF_cycleVars(Poll)
    /\ WF_cycleVars(CronArrives) /\ SF_cycleVars(StartCycle) /\ SF_cycleVars(StartResume)
    /\ SF_cycleVars(TimePasses)
    /\ \A s \in 1 .. MaxSession : WF_cycleVars(s \in DOMAIN sessions /\ SessionEnds(s))

-----------------------------------------------------------------------------
StopState == {"COMPLETED", "HUMAN_WAIT", "REPLAN"}

ProjectStatus ==
    {"READY", "RUNNING", "PAUSED_QUOTA", "HUMAN_WAIT", "FAILED", "BLOCKED"}

CheckpointType ==
    [state : {"NONE", "RUNNING", "PAUSED_QUOTA", "FAILED"} \cup StopState,
     session : 0 .. MaxSession, attempt : 0 .. MaxRetries,
     kind : {"NONE", "PROVIDER_ERROR", "PROVIDER_QUOTA", "HUMAN_INPUT",
             "CYCLE_FAILED", "CYCLE_TIMEOUT"}]

RunType ==
    [pc : {"idle", "claim", "create", "begin", "monitor", "write", "status",
           "floor", "fail"},
     kind : {"none", "cycle", "resume"}, attempt : 0 .. MaxRetries,
     retrying : BOOLEAN, session : 0 .. MaxSession, left : 0 .. JobTime,
     cp : CheckpointType, st : ProjectStatus \cup {"NONE"},
     next : {"idle", "begin", "floor"}, catch : {"idle", "fail"}]

\* The checkpoint is one that the resume watch can act upon, with an attempt
\* that its retry budget allows.
CycleTypeOK ==
    /\ checkpoint \in CheckpointType
    /\ checkpoint.state = "RUNNING" => checkpoint.session # 0
    /\ leaseLeft \in 0 .. TTL
    /\ status \in ProjectStatus
    /\ current \in BOOLEAN
    /\ sessions \in Seq({"active", "stopped"})
    /\ pending \subseteq {"cycle", "resume"}
    /\ overtakings \in 0 .. duplicates
    /\ run \in RunType
    /\ retries \in Nat /\ faults \in 0 .. MaxFault
    /\ crashes \in 0 .. MaxCrash /\ duplicates \in 0 .. MaxDuplicate

\* Each provider session beyond the first answers for a failed request, a
\* killed run, or a repeated dispatch that waited for so long that a resume
\* run overtook it; no other run, whenever it starts, creates one more.
SessionsAreAccountedFor == Len(sessions) <= 1 + faults + crashes + overtakings

\* A provider error is retried MaxRetries times, once more for a run that was
\* killed before it could record its attempt; only a dispatch that a resume run
\* overtook, and that fails, begins the count anew.
RetriesAreBounded == retries <= MaxRetries * (1 + overtakings) + crashes

\* No dispatch was overtaken, and no run was killed while a dispatch that was
\* repeated twice still waits: a repetition that fails to take the lease, and
\* dies once the lease is out, leaves the next one as if nothing had run.
Undisturbed == overtakings = 0 /\ (crashes = 0 \/ duplicates <= 1)

\* Once the checkpoint says COMPLETED, HUMAN_WAIT or REPLAN no further session
\* is created for the task while the runs are undisturbed, and the verdict is
\* only ever replaced by FAILED (by the run that recorded it, when its next
\* write fails, or by a repeated one that fails to take the lease).
StopHolds ==
    [][ Undisturbed /\ checkpoint.state \in StopState =>
           /\ Len(sessions') = Len(sessions)
           /\ checkpoint'.state \in {checkpoint.state, "FAILED"} ]_cycleVars

\* The checkpoint names the session that was created last, or none, unless
\* the last one has stopped and an older one is taken again: undisturbed runs
\* leave no session behind that is still at work.
CheckpointIsLatest ==
    Undisturbed => checkpoint.session \in {0} \cup Reusable

\* Between runs, and unless one has failed or was killed, the project status
\* says what the checkpoint says, though they are two files.
StatusFollows ==
    At("idle") /\ current /\ faults = 0 /\ crashes = 0 =>
        status = CASE checkpoint.state = "NONE" -> "READY"
                   [] checkpoint.state \in {"RUNNING", "COMPLETED"} -> "RUNNING"
                   [] checkpoint.state = "REPLAN" -> "BLOCKED"
                   [] OTHER -> checkpoint.state

\* Checkpoint, project status and retry count account for the sessions there
\* are, though each is written by itself and any write may be the last.
RecordsFollowSessions ==
    CycleTypeOK /\ RetriesAreBounded /\ CheckpointIsLatest /\ StatusFollows

\* The task is not left hanging: it ends in a state that a human or the
\* campaign acts upon, or another task has become current.  A run that was
\* killed before its first checkpoint leaves nothing to resume, and a dispatch
\* that was overtaken may be left waiting for its lease.
Stopped ==
    \/ checkpoint.state \in StopState
    \/ checkpoint.state = "FAILED" /\ ~Retryable(checkpoint)
    \/ ~current

Settles == <>[]Stopped \/ <>(crashes + duplicates > 0)

\* The claim of the specification document: a session that is at work and
\* checkpointed can be monitored again by a later run, so the checkpoint keeps
\* its id until it stops.
SessionIsKept ==
    [][ LET s == checkpoint.session
        IN  s # 0 /\ sessions[s] = "active" => checkpoint'.session = s ]_cycleVars

\* Checkpoint, status and retries stay within what the sessions explain, and a
\* recorded end of the task stands, as long as the runs are undisturbed.
RecordsHold == []RecordsFollowSessions /\ StopHolds

=============================================================================
