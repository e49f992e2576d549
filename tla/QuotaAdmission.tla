--------------------------- MODULE QuotaAdmission ---------------------------
(***************************************************************************)
(* Projects that share one provider account.  Nobody holds the account's   *)
(* budget: before a run creates a session it reads the control branches of *)
(* the other projects, one by one, lists the sessions of the rolling       *)
(* window, and decides for itself whether it may go ahead.  Other runs do  *)
(* the same in between.                                                    *)
(*                                                                         *)
(* A project that is refused stores the time at which the oldest session   *)
(* leaves the window, and the resume watch starts it again when that time  *)
(* has come.                                                               *)
(*                                                                         *)
(* Abstracted: the planner's and the implementation's run of a project are *)
(* one, since planning comes first; the evidence file; failing requests,   *)
(* kills and the session's fate, which ProviderCycle models; the fallback  *)
(* provider, which is off unless it is paid for.                           *)
(***************************************************************************)
EXTENDS Integers, FiniteSets, Sequences

CONSTANTS
    Project,        \* control refs that use the account
    Managed,        \* those that the quota policy lists
    Nobody,         \* the owner of a session that carries no project's tag
    Allocation,     \* their soft allocation
    Precedence,     \* their order by priority (higher first), then key
    Limit,          \* daily_limit
    Window,         \* rolling_window_hours, in units of time
    Grace,          \* grace_minutes, likewise
    RetryDelay,     \* PROVIDER_RETRY_DELAY, likewise
    MaxForeign      \* bound: sessions of unmanaged projects and of people

\* GlobalQuotaPolicy.__post_init__, but for the sum of the allocations.
PolicyAssumption ==
    /\ IsFiniteSet(Project)
    /\ Managed \subseteq Project
    /\ Nobody \notin Project
    /\ Allocation \in [Managed -> Nat \ {0}]
    /\ Precedence \in [Managed -> Nat]
    /\ \A p, q \in Managed : Precedence[p] = Precedence[q] => p = q
    /\ Limit \in Nat \ {0}
    /\ Window \in Nat \ {0}
    /\ Grace \in Nat
    /\ RetryDelay \in Nat
    /\ MaxForeign \in Nat

ASSUME QuotaAssumption == PolicyAssumption

VARIABLES
    phase,          \* what each project is doing
    unread,         \* the branches its run has still to read
    seen,           \* the projects that its run found active
    wait,           \* time left until the checkpoint's resume_after
    recent,         \* the account's sessions in the window, oldest first
    foreign,        \* sessions of unmanaged projects and people so far
    overtaken       \* history: the runs whose assessment does not count on
                    \* what others do (see AdmittedFindRoom)

vars == <<phase, unread, seen, wait, recent, foreign, overtaken>>

\* idle: no current task.  ready: it has one, and its cycle was dispatched.
\* reading: the run assesses its admission.  create: admitted, no session
\* yet.  running: it has a session.  paused: PAUSED_QUOTA without a session.
Phase == {"idle", "ready", "reading", "create", "running", "paused"}

Session == [owner : Project \cup {Nobody}, age : 0 .. Window]

Init ==
    /\ phase = [p \in Project |-> "idle"]
    /\ unread = [p \in Project |-> {}]
    /\ seen = [p \in Project |-> {}]
    /\ wait = [p \in Project |-> 0]
    /\ recent = <<>>
    /\ foreign = 0
    /\ overtaken = {}

-----------------------------------------------------------------------------
\* evaluate_quota_admission.

Used(p) == Cardinality({i \in DOMAIN recent : recent[i].owner = p})

HasCapacity == Len(recent) < Limit

\* _fair_rank: the lower fill ratio first, then the order of the policy.
Ahead(q, p) ==
    LET fq == Used(q) * Allocation[p]
        fp == Used(p) * Allocation[q]
    IN  fq < fp \/ (fq = fp /\ Precedence[q] < Precedence[p])

UnderShare(active) == {q \in Managed \cap active : Used(q) < Allocation[q]}

\* p is among the first as many of the ranked projects as there are slots.
Selected(p, active) ==
    Cardinality({q \in UnderShare(active) : Ahead(q, p)}) < Limit - Len(recent)

\* An unmanaged project needs capacity only; one under its share has to be
\* selected; one at its share borrows what no active project is entitled to.
\* Mutant: a borrower does not look at the limit.
AdmitsBorrower(p, active) ==
    \/ HasCapacity /\ (p \notin Managed \/ (p \in UnderShare(active) /\ Selected(p, active)))
    \/ p \in Managed /\ UnderShare(active) = {}

Admits(p, active) ==
    /\ HasCapacity
    /\ \/ p \notin Managed
       \/ p \in UnderShare(active) /\ Selected(p, active)
       \/ p \in Managed /\ UnderShare(active) = {}

\* The sessions whose departure may change the answer: the project's own when
\* it is at its share and others are entitled, else all.
Awaited(p) ==
    LET own == {i \in DOMAIN recent : recent[i].owner = p}
    IN  IF HasCapacity /\ Used(p) >= Allocation[p] THEN own ELSE DOMAIN recent

-----------------------------------------------------------------------------
\* A project's run.

\* _project_has_demand.  Mutant: a paused project does not count.
HasDemandUnlessPaused(p) == phase[p] \notin {"idle", "paused"}

HasDemand(p) == phase[p] # "idle"

Reading == {p \in Project : phase[p] = "reading"}
InFlight == {p \in Project : phase[p] = "create"}

OvertakeAll == overtaken' = Reading \cup InFlight

SetPhase(p, s) == phase' = [phase EXCEPT ![p] = s]

Pause(p, time) ==
    /\ SetPhase(p, "paused")
    /\ wait' = [wait EXCEPT ![p] = time]

\* The project gets a task, and its cycle is dispatched.
Demand(p) ==
    /\ phase[p] = "idle"
    /\ p \notin Managed => foreign < MaxForeign
    /\ SetPhase(p, "ready")
    /\ foreign' = IF p \in Managed THEN foreign ELSE foreign + 1
    /\ IF p \in Managed THEN OvertakeAll ELSE UNCHANGED overtaken
    /\ UNCHANGED <<unread, seen, wait, recent>>

\* The dispatched run, or the resume watch that finds resume_after due,
\* begins to assess the admission.
StartRun(p) ==
    /\ phase[p] = "ready" \/ (phase[p] = "paused" /\ wait[p] = 0)
    /\ SetPhase(p, "reading")
    /\ unread' = [unread EXCEPT ![p] = Managed \ {p}]
    /\ seen' = [seen EXCEPT ![p] = {p}]
    /\ UNCHANGED <<wait, recent, foreign, overtaken>>

\* What a run makes of a branch that it cannot read.  Mutant: not active.
UnreadableIsIdle(active, q) == active

Unreadable(active, q) == active \cup {q}

ReadBranch(p, q) ==
    /\ phase[p] = "reading"
    /\ q \in unread[p]
    /\ unread' = [unread EXCEPT ![p] = @ \ {q}]
    /\ \/ seen' = [seen EXCEPT ![p] = IF HasDemand(q) THEN @ \cup {q} ELSE @]
       \/ seen' = [seen EXCEPT ![p] = Unreadable(@, q)]
    /\ UNCHANGED <<phase, wait, recent, foreign, overtaken>>

\* The sessions are listed and the decision is made; a refusal is stored.
Decide(p) ==
    /\ phase[p] = "reading"
    /\ unread[p] = {}
    /\ seen' = [seen EXCEPT ![p] = {}]
    /\ IF Admits(p, seen[p])
       THEN /\ SetPhase(p, "create")
            /\ overtaken' = IF p \in UnderShare(seen[p]) THEN overtaken
                                                       ELSE overtaken \cup {p}
            /\ UNCHANGED wait
       ELSE /\ \/ \E i \in Awaited(p) :
                    /\ \A j \in Awaited(p) : i <= j
                    /\ Pause(p, Window + Grace - recent[i].age)
               \/ Awaited(p) = {} /\ Pause(p, RetryDelay)
            /\ overtaken' = overtaken \ {p}
    /\ UNCHANGED <<unread, recent, foreign>>

\* The provider creates the session, or refuses when its own limit, the same,
\* is used up; the admission has no resume_after then.
Create(p) ==
    /\ phase[p] = "create"
    /\ \/ /\ recent' = Append(recent, [owner |-> p, age |-> 0])
          /\ SetPhase(p, "running")
          /\ overtaken' = (IF p \in overtaken THEN overtaken \cup InFlight
                                              ELSE overtaken) \ {p}
          /\ UNCHANGED wait
       \/ /\ ~HasCapacity
          /\ Pause(p, RetryDelay)
          /\ overtaken' = overtaken \ {p}
          /\ UNCHANGED recent
    /\ UNCHANGED <<unread, seen, foreign>>

\* The task ends; the next one of the campaign may follow at once.
Finish(p) ==
    /\ phase[p] = "running"
    /\ \/ SetPhase(p, "idle") /\ UNCHANGED overtaken
       \/ p \in Managed /\ SetPhase(p, "ready") /\ OvertakeAll
    /\ UNCHANGED <<unread, seen, wait, recent, foreign>>

\* Somebody uses the account by hand.
UseByHand ==
    /\ foreign < MaxForeign
    /\ HasCapacity
    /\ recent' = Append(recent, [owner |-> Nobody, age |-> 0])
    /\ foreign' = foreign + 1
    /\ overtaken' = overtaken \cup InFlight
    /\ UNCHANGED <<phase, unread, seen, wait>>

\* collect_session_usage drops what was created before the cutoff.
Outdated(age) == age > Window

Tick ==
    LET gone == Cardinality({i \in DOMAIN recent : Outdated(recent[i].age + 1)})
    IN  /\ recent' = [i \in 1 .. (Len(recent) - gone) |->
                        [recent[i + gone] EXCEPT !.age = @ + 1]]
        /\ wait' = [p \in Project |-> IF wait[p] > 0 THEN wait[p] - 1 ELSE 0]
        /\ UNCHANGED <<phase, unread, seen, foreign, overtaken>>

Next ==
    \/ \E p \in Project :
         \/ Demand(p) \/ StartRun(p) \/ Decide(p) \/ Create(p) \/ Finish(p)
         \/ \E q \in Managed : ReadBranch(p, q)
    \/ UseByHand
    \/ Tick

Spec == Init /\ [][Next]_vars

\* A dispatched run starts and goes on, the resume watch is on a schedule,
\* and time passes.
Fairness ==
    /\ WF_vars(Tick)
    /\ \A p \in Project :
         /\ WF_vars(StartRun(p))
         /\ WF_vars(\E q \in Managed : ReadBranch(p, q))
         /\ WF_vars(Decide(p))
         /\ WF_vars(Create(p))

FairSpec == Spec /\ Fairness

-----------------------------------------------------------------------------
\* Properties.

\* Every variable has its type; what the window holds is not older than it.
TypeOK ==
    /\ phase \in [Project -> Phase]
    /\ unread \in [Project -> SUBSET Managed]
    /\ seen \in [Project -> SUBSET Project]
    /\ wait \in [Project -> 0 .. (Window + Grace + RetryDelay)]
    /\ recent \in Seq(Session)
    /\ foreign \in 0 .. MaxForeign
    /\ overtaken \subseteq Reading \cup InFlight

\* However the assessments of the projects interleave, the window never holds
\* more sessions than the limit and one for each project.
OvershootIsBounded == Len(recent) <= Limit + Cardinality(Project)

\* Admission needs no lock as long as it selects by rank.  Take the admitted
\* runs that have no session yet, except borrowers, unmanaged projects and
\* those overtaken by an event that ranking cannot foresee: another project's
\* next task since they began to read, or a session created meanwhile by hand
\* or by one of the excepted.  There is room for all of them together, whatever was
\* created and whatever left the window since each of them looked.
AdmittedFindRoom ==
    LET sound == InFlight \ overtaken
    IN  sound # {} => Len(recent) + Cardinality(sound) <= Limit

\* Every managed project that has a task gets a session for it, whatever the
\* other managed projects do, and although each refusal lets it sleep.
EveryProjectIsServed ==
    \A p \in Managed : phase[p] = "ready" ~> phase[p] = "running"

=============================================================================
