-------------------------- MODULE ImprovementLoop --------------------------
(***************************************************************************)
(* The continuous improvement loop of one verified release: trusted        *)
(* signals gather in a ledger, the resolution makes at most one of them    *)
(* CURRENT, a bridge turns it into a backlog candidate, the backlog's own  *)
(* resolution and selection choose it, the successor run freezes that      *)
(* chain in a receipt, submits the planning goal and arms the state, and   *)
(* the finalizer retires the signal's lineage when the goal's campaign is  *)
(* verified.  v1_9_improvement_successor.py and _finalize.py run cycle 1;  *)
(* the module runs their steps for every cycle the cycle policy allows.    *)
(*                                                                         *)
(* A value is its own fingerprint: two records are equal exactly when      *)
(* their digests are.  A signal is the rank of its id.                     *)
(***************************************************************************)
EXTENDS Integers, FiniteSets

CONSTANTS Signals,        \* the signals extraction can build, 1 .. n
          About,            \* what each one says
          MaxGeneration,    \* the resolution policy's max_generation
          MaxCycles,        \* the cycle policy's max_cycles
          MaxKills          \* bound: runs of the successor killed midway

Root == 0                \* the parent of a signal of generation 0
None == [file |-> "absent"]    \* a file that is not there
Kinds == {"RUNTIME_GAP", "RELIABILITY_GAP", "QUALITY_GAP", "PERFORMANCE_GAP",
          "OPERABILITY_GAP", "RELEASE_FOLLOWUP"}
Priority == [RUNTIME_GAP |-> 10, RELIABILITY_GAP |-> 20, QUALITY_GAP |-> 30,
             PERFORMANCE_GAP |-> 40, OPERABILITY_GAP |-> 50, RELEASE_FOLLOWUP |-> 100]
Descriptions ==
    [kind : Kinds, statement : STRING, parent : Signals \cup {Root}, generation : Nat]

ASSUME LoopConstants ==
    /\ Signals \subseteq Nat \ {0} /\ IsFiniteSet(Signals)
    /\ MaxGeneration \in Nat /\ MaxCycles \in Nat \ {0} /\ MaxKills \in Nat
    /\ DOMAIN About = Signals
    /\ \A s \in Signals :
          /\ About[s] \in Descriptions
          /\ IF About[s].parent = Root THEN About[s].generation = 0
             ELSE About[s].generation = About[About[s].parent].generation + 1

VARIABLES
    ledger,        \* the ImprovementSignalLedger
    backlog,       \* the candidates bridged so far
    receipts,      \* by cycle: the frozen activation, or None
    successor,     \* the run of the successor
    goal,          \* .autodev/planning-goal.json: the candidate it asks for
    project,       \* the state file: the running task, the cycles armed
    planned,       \* candidates a campaign was planned for
    outcomes,      \* how those campaigns ended
    retirements,   \* the ImprovementLineageRetirements
    mission,       \* the projection that is published for people
    kills

loopVars == <<ledger, backlog, receipts, successor, goal, project, planned,
          outcomes, retirements, mission, kills>>

Cycles == 1 .. MaxCycles

(***************************************************************************)
(* Resolution of the ledger                                                *)
(***************************************************************************)
Subject(s) == <<About[s].kind, About[s].statement>>

(* Mutant of Retired: only the ids of the retired lineage. *)
RetiredIdsOnly(l, rets) == l \cap UNION {r.lineage : r \in rets}

Retired(l, rets) ==
    {s \in l : \E r \in rets : s \in r.lineage \/ Subject(s) = r.subject}

Unsettled(l, rets) ==
    {s \in l \ Retired(l, rets) : About[s].generation <= MaxGeneration}

ActiveChildren(p, active) == {s \in active : About[s].parent = p}

Conflicted(l, rets) ==
    LET active == Unsettled(l, rets)
    IN  {s \in active : /\ About[s].parent # Root
                        /\ Cardinality(ActiveChildren(About[s].parent, active)) > 1}

Superseded(l, rets) ==
    LET active == Unsettled(l, rets)
    IN  {s \in active : Cardinality(ActiveChildren(s, active)) = 1} \ Conflicted(l, rets)

Deliverable(l, rets) ==
    Unsettled(l, rets) \ (Conflicted(l, rets) \cup Superseded(l, rets))

Actionable(l, rets) ==
    {s \in Deliverable(l, rets) : About[s].kind # "RELEASE_FOLLOWUP"}

(* Ranked by priority, then generation, then id. *)
Outranks(s, t) ==
    LET p == Priority[About[s].kind]    q == Priority[About[t].kind]
        g == About[s].generation        h == About[t].generation
    IN  \/ p < q
        \/ p = q /\ g < h
        \/ p = q /\ g = h /\ s < t

(* At most one signal of the release; the others cool down. *)
Current(l, rets) ==
    LET ranked == Actionable(l, rets)
    IN  {s \in ranked : \A t \in ranked \ {s} : Outranks(s, t)}

(* What resolve_improvement_signals calls each of the ledger's signals. *)
Resolution(l, rets) ==
    [RETIRED          |-> Retired(l, rets),
     CYCLE_LIMIT      |-> (l \ Retired(l, rets)) \ Unsettled(l, rets),
     CONFLICTED       |-> Conflicted(l, rets),
     SUPERSEDED       |-> Superseded(l, rets),
     OBSERVATION_ONLY |-> Deliverable(l, rets) \ Actionable(l, rets),
     CURRENT          |-> Current(l, rets),
     COOLDOWN         |-> Actionable(l, rets) \ Current(l, rets)]

(* A ledger holds each signal with its parents. *)
Ledgers == {l \in SUBSET Signals : \A s \in l : About[s].parent \in l \cup {Root}}

(* A signal and its parents, up to the root: what every ledger that has the *)
(* signal holds.                                                           *)
Lineage == [s \in Signals |-> {t \in Signals : \A l \in Ledgers : s \in l => t \in l}]

(***************************************************************************)
(* Bridge, backlog, receipt                                                *)
(***************************************************************************)

(* The candidate's id digests the signal and the resolution it was CURRENT *)
(* in; its statement names the signal.                                     *)
Bridge(s, l, rets) == [signal |-> s, ledger |-> l, retirements |-> rets]

KindOf(c) == About[c.signal].kind

Open(pool, rets) == pool \ {r.candidate : r \in rets}

(* The backlog ranks RUNTIME_GAP, VERIFIED_REMEDIATION, REPOSITORY_HYGIENE. *)
BacklogRank(kind) ==
    CASE kind = "RUNTIME_GAP" -> 10 [] kind = "OPERABILITY_GAP" -> 40 [] OTHER -> 30

(* Candidates of one kind have one subject, its tags hold the signal's kind: *)
(* different statements conflict.                                            *)
InConflict(c, pool, rets) ==
    \E d \in Open(pool, rets) : KindOf(d) = KindOf(c) /\ d.signal # c.signal

Eligible(pool, rets) == {c \in Open(pool, rets) : ~InConflict(c, pool, rets)}

(* Equal statements keep the smallest id, and equal priorities choose it:   *)
(* ids are digests, so which one that is is not determined here.            *)
Selections(pool, rets) ==
    {c \in Eligible(pool, rets) : \A d \in Eligible(pool, rets) :
        BacklogRank(KindOf(c)) <= BacklogRank(KindOf(d))}

Settled(c) ==
    /\ c \in project.armed
    /\ \/ \E r \in retirements : r.cycle = c
       \/ [candidate |-> receipts[c], result |-> "FAILED"] \in outcomes

(* build_activation: the candidates the stored ledgers hand off. *)
Handoffs(pool, l, rets) ==
    {b \in {Bridge(s, l, rets) : s \in Current(l, rets)} :
        b \in Selections(pool \cup {b}, rets)}

(* A cycle whose proof is frozen rebuilds the same chain. *)
Activations(c) ==
    IF receipts[c] # None THEN {receipts[c]}
    ELSE Handoffs(backlog, ledger, retirements)

(* The candidate leaves the backlog, the signal and its parents the ledger. *)
BacklogRetirement(c) == receipts[c]

LineageRetirement(c) ==
    [cycle     |-> c,
     candidate |-> BacklogRetirement(c),
     subject   |-> Subject(receipts[c].signal),
     lineage   |-> Lineage[receipts[c].signal]]

(* build_improvement_observability_snapshot: the cycle of chain b as it is    *)
(* shown, over the resolution of its frozen ledger.                           *)
CycleState(b, rets) ==
    IF \E r \in rets : b.signal \in r.lineage THEN "VERIFIED_RETIRED" ELSE "HANDED_OFF"

Snapshot(c, b, rets) == [cycle |-> c, state |-> CycleState(b, rets), retirements |-> rets]

(* The signals behind the counts of the snapshot. *)
Shown(m) ==
    LET b == receipts[m.cycle]
    IN  Resolution(b.ledger, b.retirements \cup m.retirements)

(***************************************************************************)
(* Initial state                                                           *)
(***************************************************************************)
Idle == [pc |-> "idle", cycle |-> 0, activation |-> None]

LoopInit ==
    /\ ledger = {} /\ backlog = {} /\ retirements = {} /\ planned = {} /\ outcomes = {}
    /\ receipts = [c \in Cycles |-> None]
    /\ successor = Idle
    /\ goal = None
    /\ project = [task |-> None, armed |-> {}]
    /\ mission = None
    /\ kills = 0

(***************************************************************************)
(* Signals                                                                 *)
(***************************************************************************)

(* Extraction appends a signal; a successor's parent is in the ledger. *)
Extract(s) ==
    /\ s \notin ledger
    /\ About[s].parent \in ledger \cup {Root}
    /\ ledger' = ledger \cup {s}
    /\ UNCHANGED <<backlog, receipts, successor, goal, project, planned, outcomes,
                   retirements, mission, kills>>

(***************************************************************************)
(* The successor run                                                       *)
(***************************************************************************)

(* Mutant of NextWrite: the goal before its receipt. *)
NextWriteGoalFirst(pc) ==
    CASE pc = "begin" -> "goal" [] pc = "goal" -> "receipt" [] pc = "receipt" -> "state"
      [] pc = "state" -> "idle"

(* The order of the writes of main. *)
NextWrite(pc) ==
    CASE pc = "begin" -> "receipt" [] pc = "receipt" -> "goal" [] pc = "goal" -> "state"
      [] pc = "state" -> "idle"

Advance ==
    successor' = IF NextWrite(successor.pc) = "idle" THEN Idle
                 ELSE [successor EXCEPT !.pc = NextWrite(@)]

(* The run reads the state: READY, without a task, the cycle not armed. *)
Begin(c) ==
    /\ successor.pc = "idle"
    /\ project.task = None /\ c \notin project.armed
    /\ \A d \in 1 .. c - 1 : Settled(d)
    /\ \E b \in Activations(c) :
          successor' = [pc |-> NextWrite("begin"), cycle |-> c, activation |-> b]
    /\ UNCHANGED <<ledger, backlog, receipts, goal, project, planned, outcomes,
                   retirements, mission, kills>>

(* The proof files, each written once, and the projection.  The receipt is  *)
(* HANDED_OFF in them.                                                      *)
WriteReceipt ==
    /\ successor.pc = "receipt"
    /\ receipts' = [receipts EXCEPT ![successor.cycle] = successor.activation]
    /\ backlog' = backlog \cup {successor.activation}
    /\ Advance
    /\ mission' = Snapshot(successor.cycle, successor.activation, {})
    /\ UNCHANGED <<ledger, goal, project, planned, outcomes, retirements, kills>>

SubmitGoal ==
    /\ successor.pc = "goal"
    /\ goal' = successor.activation
    /\ Advance
    /\ UNCHANGED <<ledger, backlog, receipts, project, planned, outcomes, retirements,
                   mission, kills>>

(* The state file is replaced by what the run read, READY and without a task. *)
ArmState ==
    /\ successor.pc = "state"
    /\ project' = [task |-> None, armed |-> project.armed \cup {successor.cycle}]
    /\ Advance
    /\ UNCHANGED <<ledger, backlog, receipts, goal, planned, outcomes, retirements,
                   mission, kills>>

KillSuccessor ==
    /\ successor.pc # "idle" /\ kills < MaxKills
    /\ successor' = Idle
    /\ kills' = kills + 1
    /\ UNCHANGED <<ledger, backlog, receipts, goal, project, planned, outcomes,
                   retirements, mission>>

(***************************************************************************)
(* Planner, campaign, finalizer                                            *)
(***************************************************************************)

(* The planner accepts a request once, and its first task starts. *)
Plan ==
    /\ goal # None /\ goal \notin planned /\ project.task = None
    /\ planned' = planned \cup {goal}
    /\ project' = [project EXCEPT !.task = goal]
    /\ UNCHANGED <<ledger, backlog, receipts, successor, goal, outcomes, retirements,
                   mission, kills>>

(* The campaign completes and its merge is verified, or it ends otherwise. *)
Finish(result) ==
    /\ project.task # None
    /\ outcomes' = outcomes \cup {[candidate |-> project.task, result |-> result]}
    /\ project' = [project EXCEPT !.task = None]
    /\ UNCHANGED <<ledger, backlog, receipts, successor, goal, planned, retirements,
                   mission, kills>>

(* The frozen chain is rebuilt: its signal was CURRENT in its own ledger, and *)
(* its candidate was handed off.                                              *)
ChainRebuilt(b) == b \in Handoffs({}, b.ledger, b.retirements)

(* The campaign of the request is COMPLETED, its merge VERIFIED. *)
CampaignVerified(b) == [candidate |-> b, result |-> "VERIFIED"] \in outcomes

(* With the retirement nothing of the chain is left to be done: neither the  *)
(* signal in its ledger nor the candidate in its backlog.  (The ledger of    *)
(* cycle 1 holds no other that could be CURRENT.)                            *)
LoopCloses(c) ==
    LET b == receipts[c]
        after == b.retirements \cup {LineageRetirement(c)}
    IN  /\ b.signal \in Resolution(b.ledger, after).RETIRED
        /\ b \notin Open({b}, after)

(* Mutant of Proves: the chain rebuilt on the live ledger. *)
ProvesLiveLedger(c) ==
    /\ receipts[c] # None /\ receipts[c].ledger = ledger
    /\ CampaignVerified(receipts[c])

(* build_final_proof *)
Proves(c) ==
    /\ receipts[c] # None
    /\ CampaignVerified(receipts[c])
    /\ ChainRebuilt(receipts[c])
    /\ LoopCloses(c)

(* The final proof of a cycle: the retirement, and the projection with it. *)
FinalProof(c) ==
    [retirement |-> LineageRetirement(c),
     mission    |-> Snapshot(c, receipts[c], {LineageRetirement(c)})]

(* The cycle is armed, and not verified yet. *)
RetireDue(c) == c \in project.armed /\ \A r \in retirements : r.cycle # c

(* The finalizer's files are one step here.  The state it writes back is     *)
(* READY and without a task.                                                 *)
Retire(c) ==
    /\ RetireDue(c) /\ Proves(c)
    /\ retirements' = retirements \cup {FinalProof(c).retirement}
    /\ mission' = FinalProof(c).mission
    /\ project' = [project EXCEPT !.task = None]
    /\ UNCHANGED <<ledger, backlog, receipts, successor, goal, planned, outcomes,
                   kills>>

(***************************************************************************)
(* scripts/v1_9_improvement_audit.py, run by CI on every later commit: the   *)
(* final proof is rebuilt from the frozen files and must be the frozen one.  *)
(***************************************************************************)
AuditRebuilds(c) == Proves(c) /\ FinalProof(c).retirement \in retirements

(* In the rebuilt proof the signal is no longer CURRENT, its candidate not   *)
(* selectable, and the cycle is shown VERIFIED_RETIRED.                      *)
AuditCloses(c) ==
    LET b == receipts[c]
        after == b.retirements \cup {FinalProof(c).retirement}
    IN  /\ FinalProof(c).mission.state = "VERIFIED_RETIRED"
        /\ b.signal \notin Resolution(b.ledger, after).CURRENT
        /\ b \notin Selections({b}, after)

Audited(c) == c \in project.armed /\ AuditRebuilds(c) /\ AuditCloses(c)

(***************************************************************************)
(* Specification                                                           *)
(***************************************************************************)
Step == WriteReceipt \/ SubmitGoal \/ ArmState

LoopNext ==
    \/ \E s \in Signals : Extract(s)
    \/ \E c \in Cycles : Begin(c) \/ Retire(c)
    \/ Step \/ KillSuccessor \/ Plan
    \/ \E result \in {"VERIFIED", "FAILED"} : Finish(result)

(* The successor, the planner and the finalizer are scheduled every quarter *)
(* of an hour, and a run that is not killed goes on.                        *)
Fairness ==
    /\ WF_loopVars(\E c \in Cycles : Begin(c))
    /\ WF_loopVars(Step)
    /\ WF_loopVars(Plan)
    /\ WF_loopVars(\E c \in Cycles : Retire(c))

LoopSpec == LoopInit /\ [][LoopNext]_loopVars
FairLoopSpec == LoopSpec /\ Fairness

(***************************************************************************)
(* Properties                                                              *)
(***************************************************************************)
Candidates == {receipts[c] : c \in Cycles} \ {None}

(* A retirement is of a frozen chain, for the lineage of its own signal. *)
Retirements ==
    {LineageRetirement(c) : c \in {d \in Cycles : receipts[d] # None}}

Snapshots ==
    [cycle : Cycles, state : {"HANDED_OFF", "VERIFIED_RETIRED"},
     retirements : {{}} \cup {{r} : r \in Retirements}]

(* A candidate names a signal of its ledger; its bundle is of what was observed. *)
IsCandidate(b) == b.ledger \in Ledgers /\ b.signal \in b.ledger

IsBundle(b) == IsCandidate(b) /\ b.ledger \subseteq ledger

(* A receipt that is stored is HANDED_OFF, its candidate in the backlog. *)
IsReceipt(b) == b # None => IsBundle(b) /\ b \in backlog

(* What a run of the successor carries. *)
IsActivation(job) ==
    IF job.pc = "idle" THEN job = Idle
    ELSE /\ job.pc \in {"receipt", "goal", "state"} /\ job.cycle \in Cycles
         /\ IsBundle(job.activation)

LoopTypeOK ==
    /\ ledger \in Ledgers
    /\ backlog = Candidates
    /\ retirements \subseteq Retirements
    /\ DOMAIN receipts = Cycles /\ \A c \in Cycles : IsReceipt(receipts[c])
    /\ IsActivation(successor)
    /\ project.armed \subseteq {c \in Cycles : receipts[c] # None}
    /\ mission \in Snapshots \cup {None}
    /\ kills \in 0 .. MaxKills

(* Every campaign the loop starts has the receipt its retirement needs,      *)
(* wherever the successor was killed: the receipt is written before the goal *)
(* it is for.                                                                *)
CampaignHasReceipt == planned \cup ({goal} \ {None}) \subseteq Candidates

(* What is retired was handed off as CURRENT and verified, and takes only    *)
(* what its own ledger holds with it: no lineage leaves for a signal that was *)
(* held back itself, or that a failed campaign alone stands for.             *)
RetirementIsEarned ==
    \A r \in retirements :
        /\ [candidate |-> r.candidate, result |-> "VERIFIED"] \in outcomes
        /\ r.candidate.signal \in Current(r.candidate.ledger, r.candidate.retirements)
        /\ r.candidate.signal \in r.lineage /\ r.lineage \subseteq r.candidate.ledger

(* ROADMAP.md: competing children fail closed as CONFLICTED.  With more than *)
(* one generation of successors this does not keep them: a child of a        *)
(* conflicted signal has no rival, and its verification retires its parents. *)
ConflictedStays ==
    \A r \in retirements :
        r.lineage \cap Conflicted(r.candidate.ledger, r.candidate.retirements) = {}

(* ROADMAP.md: the state counts must reconcile exactly.  The projection      *)
(* puts each signal of the frozen ledger in one state, at most one of them   *)
(* CURRENT, and says VERIFIED_RETIRED of a retired cycle only.               *)
MissionReconciles ==
    mission # None =>
        LET shown == Shown(mission)
            n == [k \in DOMAIN shown |-> Cardinality(shown[k])]
        IN  /\ n.RETIRED + n.CYCLE_LIMIT + n.CONFLICTED + n.SUPERSEDED
                  + n.OBSERVATION_ONLY + n.CURRENT + n.COOLDOWN
                = Cardinality(receipts[mission.cycle].ledger)
            /\ n.CURRENT <= 1
            /\ mission.state = "VERIFIED_RETIRED" => mission.retirements \subseteq retirements

(* "Graduation markers must carry forward forever" (the audit's own words):  *)
(* the audit of a retired cycle passes ever after.  It needs nothing that    *)
(* later signals, cycles, campaigns or retirements change.                   *)
AuditHolds == \A c \in Cycles : (\E r \in retirements : r.cycle = c) => Audited(c)

(* What the loop keeps agrees, at any step of a successor and after a kill. *)
LoopConsistent ==
    LoopTypeOK /\ CampaignHasReceipt /\ RetirementIsEarned /\ MissionReconciles /\ AuditHolds

(* An improvement that was verified is never asked for again, however it is  *)
(* observed anew: with other evidence, as a successor, in a later cycle.     *)
NoRecurrence ==
    [][\A b \in planned' \ planned :
          Subject(b.signal) \notin {r.subject : r \in retirements}]_loopVars

(* The projection never goes back to an earlier cycle, nor from             *)
(* VERIFIED_RETIRED to HANDED_OFF, whichever run publishes it last.         *)
MissionGoesForward ==
    [][mission # None =>
          \/ mission'.cycle > mission.cycle
          \/ /\ mission'.cycle = mission.cycle
             /\ mission.state = "VERIFIED_RETIRED" => mission' = mission]_loopVars

(* What is retired or published is not taken back by a later run. *)
LoopGoesForward == NoRecurrence /\ MissionGoesForward

(* Nothing the loop has begun is left midway: a frozen candidate that no      *)
(* campaign was planned for, or a verified one whose lineage is not retired.  *)
NothingMidway ==
    \A c \in Cycles : receipts[c] # None =>
        /\ receipts[c] \in planned
        /\ CampaignVerified(receipts[c]) => \E r \in retirements : r.cycle = c

(* A cycle that has begun goes all the way, from the frozen receipt to the    *)
(* plan, and from its verification to the retirement of the signal, whatever  *)
(* is killed or observed in between: again and again nothing is left midway.  *)
CyclesComplete == []<>NothingMidway

=============================================================================
