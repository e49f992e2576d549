-------------------------- MODULE RoutedExecution --------------------------
(***************************************************************************)
(* The execution engine of the package (src/ade): run_routed_cycle routes  *)
(* a task to a provider, run_checkpointed_cycle starts or monitors its     *)
(* session, plans a repair of each failure and writes a checkpoint after   *)
(* each step.  Whoever calls it calls it again and again for the task, one *)
(* call at a time; a call may be killed anywhere.                          *)
(*                                                                         *)
(* A call that only answers (WAIT, REPLAN, NO_PROVIDER or an exception)    *)
(* changes nothing and is no action.  A provider that is not registered is *)
(* like one without an availability record.  Providers are numbered in the *)
(* order of their ids.  No caller gives a checkpoint a resume_after.       *)
(***************************************************************************)
EXTENDS Naturals, Sequences, FiniteSets

CONSTANTS
    Providers,      \* the registered providers
    Descriptors,    \* each one's ProviderDescriptor
    Request,        \* the RoutingRequest of the tasks
    Reusers,        \* those whose adapter takes an earlier session again
    MaxRetries, MaxReplans,     \* RepairPolicy
    Upserts,        \* what may be recorded of a provider's availability
    MaxTime,        \* bound: the clock
    MaxChanges,     \* bound: records of availability
    MaxFaults,      \* bound: failed requests and writes
    MaxKills,       \* bound: calls killed
    None

VARIABLES
    checkpoint,     \* checkpoint.json
    availability,   \* provider-availability.json: a record or None for each
    now,
    sessions,       \* the providers' sessions, oldest first
    run,            \* the call under way, or None
    pauses,         \* quota errors of a session that is monitored
    changes, faults, kills

vars == <<checkpoint, availability, now, sessions, run, pauses, changes, faults,
          kills>>

world == <<availability, now, changes>>
counters == <<pauses, faults, kills>>

-----------------------------------------------------------------------------
\* Records.

Capabilities == {"GITHUB_SOURCE", "AUTO_CREATE_PR", "PLAN_APPROVAL",
                 "INTERACTIVE_MESSAGE", "RESUME_SESSION", "HOSTED_EXECUTION",
                 "LOCAL_EXECUTION"}

ProviderDescriptor ==
    [capabilities : SUBSET Capabilities, priority : Nat, enabled : BOOLEAN]

\* preferred is an order of preference, and all of it is allowed.
RoutingRequest ==
    {r \in [required : SUBSET Capabilities, allowed : SUBSET Providers,
            preferred : Seq(Providers)] :
        /\ \A i, j \in DOMAIN r.preferred :
              i # j => r.preferred[i] # r.preferred[j]
        /\ \A i \in DOMAIN r.preferred : r.preferred[i] \in r.allowed}

\* A record has a resume_after exactly when the provider is to come back.
Cooling == {"QUOTA_PAUSED", "TEMPORARILY_UNAVAILABLE"}

AvailabilityRecord ==
    [availability : Cooling, resume : Nat]
    \cup [availability : {"AVAILABLE", "UNAUTHORIZED", "DISABLED"}, resume : {None}]

Final == {"HUMAN_WAIT", "FAILED", "COMPLETED"}

TaskCheckpoint ==
    [task : {"this", "earlier"},
     state : {"RUNNING", "PAUSED_QUOTA", "REPLAN"} \cup Final,
     attempt : Nat, replan : Nat,
     session : Nat \cup {None}, provider : Providers \cup {None}]

\* A call of run_checkpointed_cycle: its local variables.
Runs ==
    [pc : {"start", "save", "monitor"}, provider : Providers,
     attempt : 0 .. MaxRetries, replan : 0 .. MaxReplans, session : Nat \cup {None}]

ASSUME EngineAssumption ==
    /\ Providers \subseteq Nat /\ Reusers \subseteq Providers
    /\ Descriptors \in [Providers -> ProviderDescriptor]
    /\ \A i \in DOMAIN Request.preferred : Request.preferred[i] \in Request.allowed
    /\ Upserts \subseteq AvailabilityRecord
    /\ MaxRetries \in Nat /\ MaxReplans \in Nat
    /\ MaxTime \in Nat /\ MaxChanges \in Nat /\ MaxFaults \in Nat /\ MaxKills \in Nat
    /\ None \notin Nat \cup TaskCheckpoint \cup AvailabilityRecord \cup Runs

\* An earlier task may have left its checkpoint in the file, and its session.
Init ==
    /\ \/ checkpoint = None /\ sessions = <<>>
       \/ \E p \in Providers :
             /\ checkpoint = [task |-> "earlier", state |-> "COMPLETED", attempt |-> 0,
                              replan |-> 0, session |-> 1, provider |-> p]
             /\ sessions = <<[task |-> "earlier", provider |-> p, state |-> "COMPLETED"]>>
    /\ availability \in [Providers -> {[availability |-> "AVAILABLE", resume |-> None]}]
    /\ now = 0 /\ run = None
    /\ pauses = 0 /\ changes = 0 /\ faults = 0 /\ kills = 0

-----------------------------------------------------------------------------
\* Routing.

\* A provider is available again once its cooldown has expired.
Usable(p) ==
    /\ availability[p] # None
    /\ \/ availability[p].availability = "AVAILABLE"
       \/ availability[p].availability \in Cooling /\ now >= availability[p].resume

Candidates ==
    {p \in Providers : /\ Descriptors[p].enabled
                       /\ p \in Request.allowed
                       /\ Request.required \subseteq Descriptors[p].capabilities}

PreferredRank(p) ==
    LET places == {i \in DOMAIN Request.preferred : Request.preferred[i] = p}
    IN  IF places = {} THEN Len(Request.preferred) + 1 ELSE CHOOSE i \in places : TRUE

\* Candidates are tried by preference, then priority, then id.
Before(p, q) ==
    \/ PreferredRank(p) < PreferredRank(q)
    \/ PreferredRank(p) = PreferredRank(q)
       /\ \/ Descriptors[p].priority < Descriptors[q].priority
          \/ Descriptors[p].priority = Descriptors[q].priority /\ p < q

\* The provider that is routed to: none, or one.
Routed ==
    {p \in Candidates : /\ Usable(p)
                        /\ \A q \in Candidates \ {p} : Usable(q) => Before(p, q)}

-----------------------------------------------------------------------------
\* Repair.

\* The exceptions of a start and of the monitoring, as they are classified.
StartFailures == {"PROVIDER_QUOTA", "PROVIDER_ERROR", "VALIDATION_ERROR", "UNKNOWN"}

Transient == {"CYCLE_TIMEOUT", "CYCLE_FAILED", "PROVIDER_ERROR"}

\* Mutant of Disposition: a replan is not a matter of its budget.
DispositionReplans(kind, attempt, replan) ==
    IF kind = "PROVIDER_QUOTA" THEN "PAUSE_QUOTA"
    ELSE IF kind = "HUMAN_INPUT" THEN "HUMAN_WAIT"
    ELSE IF kind \in Transient /\ attempt < MaxRetries THEN "RETRY"
    ELSE IF kind \in Transient \cup {"VALIDATION_ERROR"} /\ replan <= MaxReplans THEN "REPLAN"
    ELSE "FAIL"

\* decide_repair
Disposition(kind, attempt, replan) ==
    IF kind = "PROVIDER_QUOTA" THEN "PAUSE_QUOTA"
    ELSE IF kind = "HUMAN_INPUT" THEN "HUMAN_WAIT"
    ELSE IF kind \in Transient /\ attempt < MaxRetries THEN "RETRY"
    ELSE IF kind \in Transient \cup {"VALIDATION_ERROR"} /\ replan < MaxReplans THEN "REPLAN"
    ELSE "FAIL"

\* The checkpoint's state after a disposition that ends the call.
StateAfter ==
    [PAUSE_QUOTA |-> "PAUSED_QUOTA", HUMAN_WAIT |-> "HUMAN_WAIT",
     REPLAN |-> "REPLAN", FAIL |-> "FAILED"]

\* plan_repair counts what it decides.
NextAttempt(d) == run.attempt + IF d = "RETRY" THEN 1 ELSE 0
NextReplan(d) == run.replan + IF d = "REPLAN" THEN 1 ELSE 0

\* The checkpoints of run_checkpointed_cycle.
CheckpointFor(state, attempt, replan, session, provider) ==
    [task |-> "this", state |-> state, attempt |-> attempt, replan |-> replan,
     session |-> session, provider |-> provider]

\* The except clauses: a retry goes on in the same call, without the session;
\* anything else ends it.  A retry after the monitoring does not record its
\* provider, unlike one after a start.
Repair(kind, session) ==
    LET d == Disposition(kind, run.attempt, run.replan)
        a == NextAttempt(d)
        r == NextReplan(d)
    IN  IF d = "RETRY"
        THEN /\ checkpoint' = CheckpointFor("RUNNING", a, r, None,
                                  IF session = None THEN run.provider ELSE None)
             /\ run' = [run EXCEPT !.pc = "start", !.attempt = a, !.session = None]
        ELSE /\ checkpoint' = CheckpointFor(StateAfter[d], a, r, session, run.provider)
             /\ run' = None

-----------------------------------------------------------------------------
\* A call begins.

\* The checkpoint of another task is as good as none.
Known ==
    IF checkpoint # None /\ checkpoint.task = "this" THEN checkpoint ELSE None

\* Mutants of Resumable: a checkpoint that waits for a human is resumed; the
\* provider of a checkpoint without a session is not compared.
ResumesHuman(c, p) ==
    c # None => c.provider \in {None, p} /\ c.state \notin {"FAILED", "COMPLETED"}

ResumesElsewhere(c, p) == c # None => c.state \notin Final

\* What run_checkpointed_cycle accepts to go on from, with provider p.
Resumable(c, p) == c # None => c.provider \in {None, p} /\ c.state \notin Final

\* Only a RUNNING session is monitored again; a paused one is replaced.
Monitors(c) == c # None /\ c.state = "RUNNING" /\ c.session # None

Enter(c, p) ==
    /\ Resumable(c, p)
    /\ run' = [pc |-> IF Monitors(c) THEN "monitor" ELSE "start",
               provider |-> p,
               attempt |-> IF c = None THEN 0 ELSE c.attempt,
               replan |-> IF c = None THEN 0 ELSE c.replan,
               session |-> IF Monitors(c) THEN c.session ELSE None]

\* A checkpoint with a session is for its provider only.
Stuck(c) == c # None /\ c.session # None

BeginSticky ==
    /\ run = None /\ Stuck(Known)
    /\ Known.provider # None /\ Usable(Known.provider)
    /\ Enter(Known, Known.provider)
    /\ UNCHANGED <<checkpoint, sessions, world, counters>>

BeginRouted ==
    /\ run = None /\ ~Stuck(Known)
    /\ Known # None => Known.state \notin Final
    /\ \E p \in Routed : Enter(Known, p)
    /\ UNCHANGED <<checkpoint, sessions, world, counters>>

-----------------------------------------------------------------------------
\* The loop of run_checkpointed_cycle.

At(pc) == run # None /\ run.pc = pc

\* The adapter's own search: the newest session of the task that has not
\* failed; a completed one only if it has a pull request.
Reusable ==
    {s \in DOMAIN sessions :
        /\ run.provider \in Reusers
        /\ sessions[s].task = "this" /\ sessions[s].provider = run.provider
        /\ sessions[s].state # "FAILED"
        /\ \A t \in DOMAIN sessions :
              t > s /\ sessions[t].provider = run.provider
                 => sessions[t].state \in {"FAILED", "COMPLETED"}}

NewSession ==
    sessions' = Append(sessions, [task |-> "this", provider |-> run.provider, state |-> "OPEN"])

\* It finds none that is older than SESSION_REUSE_WINDOW.
Start ==
    /\ At("start")
    /\ \E s \in Reusable \cup {Len(sessions) + 1} :
          /\ IF s \in Reusable THEN UNCHANGED sessions ELSE NewSession
          /\ run' = [run EXCEPT !.pc = "save", !.session = s]
    /\ UNCHANGED <<checkpoint, world, counters>>

\* The request fails; unless it was refused for the quota, the session may
\* have been created nonetheless.
StartFails ==
    /\ At("start") /\ faults < MaxFaults
    /\ \E kind \in StartFailures :
          /\ Repair(kind, None)
          /\ \/ UNCHANGED sessions
             \/ kind # "PROVIDER_QUOTA" /\ NewSession
    /\ faults' = faults + 1
    /\ UNCHANGED <<world, pauses, kills>>

SaveSession ==
    /\ At("save")
    /\ checkpoint' = CheckpointFor("RUNNING", run.attempt, run.replan, run.session,
                                   run.provider)
    /\ run' = [run EXCEPT !.pc = "monitor"]
    /\ UNCHANGED <<sessions, world, counters>>

Completed ==
    /\ At("monitor") /\ sessions[run.session].state = "COMPLETED"
    /\ checkpoint' = CheckpointFor("COMPLETED", run.attempt, run.replan, run.session,
                                   run.provider)
    /\ run' = None
    /\ UNCHANGED <<sessions, world, counters>>

\* What the monitoring raises for a session that has stopped, or is still at
\* work at the deadline.  A paused one has no kind of its own.
RaisedFor(state) ==
    CASE state = "FAILED" -> "CYCLE_FAILED"
      [] state = "AWAITING_USER_FEEDBACK" -> "HUMAN_INPUT"
      [] state = "PAUSED" -> "UNKNOWN"
      [] state = "OPEN" -> "CYCLE_TIMEOUT"

Stopped ==
    /\ At("monitor") /\ sessions[run.session].state # "COMPLETED"
    /\ Repair(RaisedFor(sessions[run.session].state), run.session)
    /\ UNCHANGED <<sessions, world, counters>>

\* A request fails, or the write of the completed checkpoint does, which the
\* same clause catches.
MonitorFails ==
    /\ At("monitor") /\ faults < MaxFaults
    /\ \E kind \in StartFailures :
          /\ Repair(kind, run.session)
          /\ pauses' = pauses + IF kind = "PROVIDER_QUOTA" THEN 1 ELSE 0
    /\ faults' = faults + 1
    /\ UNCHANGED <<sessions, world, kills>>

Kill ==
    /\ run # None /\ kills < MaxKills
    /\ run' = None /\ kills' = kills + 1
    /\ UNCHANGED <<checkpoint, sessions, world, pauses, faults>>

-----------------------------------------------------------------------------
\* Around the engine.

\* A session ends; when is seen only while it is monitored.
SessionEnds ==
    /\ At("monitor") /\ sessions[run.session].state = "OPEN"
    /\ \E state \in {"COMPLETED", "FAILED", "AWAITING_USER_FEEDBACK", "PAUSED"} :
          sessions' = [sessions EXCEPT ![run.session].state = state]
    /\ UNCHANGED <<checkpoint, run, world, counters>>

\* ProviderAvailabilityState.upsert.  Records and clock are read where a call
\* begins, so it is enough that they change between calls.
Upsert(p) ==
    /\ run = None /\ changes < MaxChanges /\ changes' = changes + 1
    /\ \E r \in Upserts : availability' = [availability EXCEPT ![p] = r]
    /\ UNCHANGED <<checkpoint, now, sessions, run, counters>>

Tick ==
    /\ run = None /\ now < MaxTime /\ now' = now + 1
    /\ UNCHANGED <<checkpoint, availability, changes, sessions, run, counters>>

\* decide_resume: what becomes of a checkpoint by itself.
ResumeAction(c) ==
    CASE c.state \in {"PAUSED_QUOTA", "HUMAN_WAIT"} -> "WAIT"
      [] c.state = "REPLAN" -> "REPLAN"
      [] c.state = "RUNNING" -> IF c.session # None THEN "RESUME" ELSE "WAIT"
      [] OTHER -> "NOOP"

Settled(c) == c # None /\ (ResumeAction(c) = "NOOP" \/ c.state = "HUMAN_WAIT")

Begin == BeginSticky \/ BeginRouted

RunStep ==
    Start \/ StartFails \/ SaveSession \/ Completed \/ Stopped \/ MonitorFails

Next ==
    \/ Begin \/ RunStep \/ Kill \/ SessionEnds \/ Tick
    \/ \E p \in Providers : Upsert(p)

Spec == Init /\ [][Next]_vars

\* The engine is called again, a call goes on, and time passes.  A session
\* need not end.
FairSpec == Spec /\ WF_vars(RunStep) /\ WF_vars(Begin) /\ WF_vars(Tick)

-----------------------------------------------------------------------------
\* Properties.

TypeOK ==
    /\ checkpoint \in TaskCheckpoint \cup {None}
    /\ availability \in [Providers -> AvailabilityRecord \cup {None}]
    /\ now \in 0 .. MaxTime
    /\ sessions \in Seq([task : {"this", "earlier"}, provider : Providers,
                         state : {"OPEN", "COMPLETED", "FAILED",
                                  "AWAITING_USER_FEEDBACK", "PAUSED"}])
    /\ run \in Runs \cup {None}
    /\ pauses \in 0 .. faults /\ faults \in 0 .. MaxFaults
    /\ kills \in 0 .. MaxKills /\ changes \in 0 .. MaxChanges

\* The counters of a task survive every kill: its budget is never exceeded.
BudgetHolds ==
    checkpoint # None => checkpoint.attempt <= MaxRetries /\ checkpoint.replan <= MaxReplans

\* A checkpoint that names a session names one of its task, with the provider
\* that has it, and COMPLETED is said of a completed one.
CheckpointIsTrue ==
    checkpoint # None /\ checkpoint.session # None =>
        LET s == sessions[checkpoint.session]
        IN  /\ s.task = checkpoint.task /\ s.provider = checkpoint.provider
            /\ checkpoint.state = "COMPLETED" => s.state = "COMPLETED"

\* The checkpoint can be trusted by the call that reads it next, whatever
\* happened to the one that wrote it.
RecordsAreTrue == TypeOK /\ BudgetHolds /\ CheckpointIsTrue

Sessions == {s \in DOMAIN sessions : sessions[s].task = "this"}

\* ACCEPTANCE.md: sessions are sticky across crash and resume, and never
\* silently migrated.  The task gets a session of a second provider only after
\* a call was killed; and each of its sessions beyond the first answers for a
\* retry, a replan, a quota pause or a kill.
SessionsAreExplained ==
    /\ kills = 0 =>
         \A s, t \in Sessions : sessions[s].provider = sessions[t].provider
    /\ Known # None =>
         Cardinality(Sessions) <= 1 + Known.attempt + Known.replan + pauses + kills

\* A task that has ended, or waits for a human, is not touched again.
FinalStands == [][Settled(Known) => checkpoint' = checkpoint]_vars

\* A call would do something.
MayBegin ==
    IF Stuck(Known)
    THEN Usable(Known.provider)
    ELSE \E p \in Routed : Known # None => Known.provider \in {None, p}

\* The task ends, unless from some time on no call finds it a provider: its
\* own has gone, or routing prefers another to the one of its checkpoint.
TaskEnds == <>Settled(Known) \/ <>[](run = None /\ ~MayBegin)

\* Both at once: the task ends, in calls however often killed, and stays so.
TaskEndsOnce == FinalStands /\ TaskEnds

=============================================================================
