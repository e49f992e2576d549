-------------------------- MODULE DevelopmentMemory --------------------------
(***************************************************************************)
(* Development memory and the two proofs that graduated it and the backlog *)
(* built on it: the store .autodev/development-memory.json, to which a     *)
(* runtime verification appends what it found; the planner that reads it;  *)
(* the successor that freezes proof 1 and submits proof 2 (v1.5); the      *)
(* finalizer that audits proof 2; the successor that freezes a chain of    *)
(* artifacts from the store and submits proof 3 (v1.6); and its finalizer. *)
(*                                                                         *)
(* Tasks 1, 2 and 3 are v15mem1-001, v15mem2-001 and the task of the v1.6  *)
(* candidate; the request, the campaign and the goal of a task have its    *)
(* number.  The planner, the start, the merge and the verification of a    *)
(* task are jobs of one group, ade-project-state, and run one at a time;   *)
(* the successors and finalizers have groups of their own, so each runs    *)
(* beside the others.  Any of them may be killed between two writes.       *)
(*                                                                         *)
(* A commit of the target repository is its number on main.  Planning,     *)
(* start, merge and verdict are single actions: PlanningStart,             *)
(* CampaignController and RuntimeVerification have their steps.  The       *)
(* contents of contract, report and remote receipt, the workflow run ids   *)
(* and the dispatch counts that the audits compare are taken to agree, as  *)
(* are policy and templates, which are constant.  The event that asks for  *)
(* the planner is not kept: the planner may run whenever a goal waits, and *)
(* nothing obliges it to, as the schedule of its workflow leaves main out. *)
(***************************************************************************)
EXTENDS Integers, Sequences, FiniteSets

CONSTANTS
    MaxKills,       \* bound: runs killed or events delivered twice
    MaxErrors,      \* bound: requests that fail for good
    MaxForeign      \* bound: commits on main by others than ADE

DevelopmentMemoryAssumption == MaxKills \in Nat /\ MaxErrors \in Nat /\ MaxForeign \in Nat

ASSUME DevelopmentMemoryConstants == DevelopmentMemoryAssumption

VARIABLES
    head,           \* the target's main: its last commit
    store,          \* the records of .autodev/development-memory.json
    project,        \* .autodev/state.json
    goal,           \* .autodev/planning-goal.json
    task,           \* task[t]: plan, evidence of the planner, pull request
    receipt,        \* receipt[t]: the runtime verification receipt's status
    provenance,     \* provenance[t]: provenance.json of the verification
    recovery,       \* the task .autodev/runtime/recovery.json is about, or 0
    bootstrap,      \* the evidence of proof 1 is frozen
    evidence,       \* the graduation evidence of proof 2 is frozen
    chain,          \* the artifacts of proof 3 frozen by its successor: for
                    \* each of them the store it was derived from
    proof,          \* the artifacts of its finalizer frozen: for each of them
                    \* the project state it was derived from
    events,         \* pending ade_runtime_verification events
    verifier, successor, armer, finalizer,      \* the runs
    kills, errors, foreign

vars == <<head, store, project, goal, task, receipt, provenance, recovery,
          bootstrap, evidence, chain, proof, events,
          verifier, successor, armer, finalizer, kills, errors, foreign>>

target == <<head, foreign>>
memory == <<store, receipt, provenance, recovery, verifier>>
delivery == <<task, receipt>>
frozen == <<bootstrap, evidence, chain, proof>>
runs == <<verifier, successor, armer, finalizer>>
bounds == <<kills, errors, foreign>>

Task == 1..3
Artifacts == 6      \* source store, backlog, resolution, selection, policy, handoff
Proofs == 10        \* goal, plan, campaign, state, remote receipt, provenance,
                    \* retirement, resolution and selection after it, evidence

Kinds == {"VERIFIED_OUTCOME", "FAILURE"}
Record == [task : 0..3, kind : Kinds, sha : Nat]
Stores == SUBSET Record

\* build_verified_runtime_feedback_record and extract_recovery_memory: what
\* they derive from the files of a verification is the same on every run.
Outcome(t) == [task |-> t, kind |-> "VERIFIED_OUTCOME", sha |-> task[t].merge]
Lesson(t) == [task |-> t, kind |-> "FAILURE", sha |-> task[t].merge]

\* What an earlier project may have left in the store, and the record that
\* the planner extracts from the evidence of v1.4.
OldLesson == [task |-> 0, kind |-> "FAILURE", sha |-> 0]
OldOutcome == [task |-> 0, kind |-> "VERIFIED_OUTCOME", sha |-> 0]

Idle == [pc |-> "idle"]
NoPlan == [at |-> "none"]
NoProvenance == [feedback |-> "none"]

Init ==
    /\ head = 0
    /\ store \in {{}, {OldLesson}}
    /\ project = [phase |-> "v1.5", request |-> 1, current |-> 0, status |-> "READY",
                  graduated |-> 4, armed |-> 0]
    /\ goal = [request |-> 1, from |-> {}]
    /\ task = [t \in Task |-> NoPlan]
    /\ receipt = [t \in Task |-> "none"]
    /\ provenance = [t \in Task |-> NoProvenance]
    /\ recovery = 0
    /\ bootstrap = FALSE /\ evidence = FALSE
    /\ chain = <<>> /\ proof = <<>>
    /\ events = {}
    /\ verifier = Idle /\ successor = Idle /\ armer = Idle /\ finalizer = Idle
    /\ kills = 0 /\ errors = 0 /\ foreign = 0

Failing(failed) ==
    IF failed THEN errors < MaxErrors /\ errors' = errors + 1 ELSE errors' = errors

\* ProjectState is terminal: READY, without a task, nothing failed.
Terminal(p) == p.status = "READY" /\ p.current = 0
Merged(t) == task[t].at = "merged"
Planned(t) == task[t].at # "none"

-----------------------------------------------------------------------------
(* Planner, start and merge.                                               *)

\* resolve_development_memory: a verified outcome about another commit is
\* STALE and dropped; a lesson is HISTORICAL.
Live(records, sha) ==
    {r \in records : r.kind = "VERIFIED_OUTCOME" => r.sha = sha}

\* retrieve_development_memory: the current outcomes; a lesson of the
\* recovery has no tag that the query asks for.
Retrieved(records, sha) == {r \in Live(records, sha) : r.kind = "VERIFIED_OUTCOME"}

\* DevelopmentMemoryPlanningBundle, as the planner's evidence keeps it.
Bundle(source, records, sha) ==
    [from |-> source, known |-> records, reused |-> Retrieved(records, sha)]

\* _collect_development_memory: the store if it has a record, else the
\* evidence of v1.4.
PlanningMemory(sha) ==
    IF store # {} THEN Bundle("store", store, sha) ELSE Bundle("v1.4", {OldOutcome}, sha)

Plan(t) ==
    /\ verifier = Idle
    /\ goal.request = t /\ ~Planned(t)
    /\ Terminal(project)
    /\ task' = [task EXCEPT ![t] = [at |-> "planned", sha |-> head,
                                    memory |-> PlanningMemory(head), goal |-> goal.from]]
    /\ project' = [project EXCEPT !.request = t]
    /\ UNCHANGED <<head, store, goal, receipt, provenance, recovery, frozen, events, runs, bounds>>

\* Zero-touch start and the session: the pull request is based on main.
Start(t) ==
    /\ verifier = Idle
    /\ task[t].at = "planned"
    /\ Terminal(project) /\ project.request = t
    /\ task' = [task EXCEPT ![t] = [at |-> "started", sha |-> @.sha, memory |-> @.memory,
                                    goal |-> @.goal, base |-> head]]
    /\ project' = [project EXCEPT !.current = t, !.status = "RUNNING"]
    /\ UNCHANGED <<head, store, goal, receipt, provenance, recovery, frozen, events, runs, bounds>>

\* The merge, the armed receipt, the campaign's completion and the event.
Merge(t) ==
    /\ verifier = Idle
    /\ task[t].at = "started" /\ project.current = t
    /\ head' = head + 1
    /\ task' = [task EXCEPT ![t] = [at |-> "merged", sha |-> @.sha, memory |-> @.memory,
                                    goal |-> @.goal, base |-> @.base, merge |-> head + 1]]
    /\ receipt' = [receipt EXCEPT ![t] = "ARMED"]
    /\ project' = [project EXCEPT !.current = 0, !.status = "READY"]
    /\ events' = events \cup {[task |-> t, bound |-> TRUE]}
    /\ UNCHANGED <<store, goal, provenance, recovery, frozen, runs, bounds>>

ForeignCommit ==
    /\ foreign < MaxForeign
    /\ foreign' = foreign + 1
    /\ head' = head + 1
    /\ UNCHANGED <<store, project, goal, task, receipt, provenance, recovery,
                   frozen, events, runs, kills, errors>>

-----------------------------------------------------------------------------
(* Runtime verification and its memory feedback.                           *)

\* validate_dispatch_payload: the event must carry the trusted merge, the
\* head of the pull request, its number and the run of the monitor.
Accepted(e) == e.bound

\* The monitor was killed before it recorded the dispatch, and repeats it.
Consumed(e) ==
    \/ events' = events \ {e} /\ UNCHANGED kills
    \/ kills < MaxKills /\ kills' = kills + 1 /\ UNCHANGED events

Refuse(e) ==
    /\ verifier = Idle
    /\ e \in events /\ ~Accepted(e)
    /\ events' = events \ {e}
    /\ UNCHANGED <<head, store, project, goal, task, receipt, provenance, recovery,
                   frozen, runs, bounds>>

\* The run up to its verdict and, after a failure, the containment.
Verify(e, t) ==
    /\ verifier = Idle
    /\ e \in events /\ Accepted(e) /\ e.task = t
    /\ Consumed(e)
    /\ \/ /\ receipt[t] = "ARMED"
          /\ receipt' = [receipt EXCEPT ![t] = "VERIFIED"]
          /\ verifier' = [pc |-> "feedback", task |-> t, fresh |-> TRUE]
          /\ UNCHANGED <<project, recovery>>
       \/ /\ receipt[t] = "ARMED"
          /\ receipt' = [receipt EXCEPT ![t] = "HUMAN_WAIT"]
          /\ recovery' = t
          /\ project' = [project EXCEPT !.status = "HUMAN_WAIT"]
          /\ verifier' = [pc |-> "lesson", task |-> t]
       \/ /\ receipt[t] = "VERIFIED"        \* the fast path
          /\ verifier' = [pc |-> "feedback", task |-> t, fresh |-> FALSE]
          /\ UNCHANGED <<receipt, project, recovery>>
       \/ /\ receipt[t] = "HUMAN_WAIT"
          /\ verifier' = [pc |-> "lesson", task |-> t]
          /\ UNCHANGED <<receipt, project, recovery>>
    /\ UNCHANGED <<head, store, goal, task, provenance, frozen,
                   successor, armer, finalizer, errors, foreign>>

\* load_memory_store: the stores a run may go on with; a failing request
\* raises, and there is none.
\* Mutant of Loaded: any error is taken for a missing file.
LoadedOrEmpty(failed) == IF failed THEN {{}} ELSE {store}

Loaded(failed) == IF failed THEN {} ELSE {store}

\* merge_memory_records: a record that is there already changes nothing.
WithRecord(records, record) == records \cup {record}

\* _persist_record inside _persist_verified_feedback_safely: a failure is
\* noted, not raised.
Persist(record, failed, outcome) ==
    /\ Failing(failed)
    /\ IF Loaded(failed) = {} THEN store' = store /\ outcome = "FAILED"
       ELSE \E s \in Loaded(failed) : store' = WithRecord(s, record) /\ outcome = "STORED"

\* _runtime_provenance_required
NeedsProvenance(t) == t = 2 \/ project.phase = "v1.6"

Feedback(failed) ==
    /\ verifier.pc = "feedback"
    /\ LET t == verifier.task
       IN  \E outcome \in {"STORED", "FAILED"} :
             /\ Persist(Outcome(t), failed, outcome)
             /\ verifier' = IF verifier.fresh /\ NeedsProvenance(t)
                            THEN [pc |-> "provenance", task |-> t, feedback |-> outcome]
                            ELSE Idle
    /\ UNCHANGED <<head, project, goal, task, receipt, provenance, recovery, frozen,
                   events, successor, armer, finalizer, kills, foreign>>

LessonFeedback(failed) ==
    /\ verifier.pc = "lesson"
    /\ \E outcome \in {"STORED", "FAILED"} : Persist(Lesson(verifier.task), failed, outcome)
    /\ verifier' = Idle
    /\ UNCHANGED <<head, project, goal, task, receipt, provenance, recovery, frozen,
                   events, successor, armer, finalizer, kills, foreign>>

\* _persist_runtime_provenance; an error there is contained like a failed
\* verification, although the receipt says VERIFIED.
Provenance(failed) ==
    /\ verifier.pc = "provenance"
    /\ Failing(failed)
    /\ LET t == verifier.task
       IN  IF failed
           THEN /\ receipt' = [receipt EXCEPT ![t] = "HUMAN_WAIT"]
                /\ recovery' = t
                /\ project' = [project EXCEPT !.status = "HUMAN_WAIT"]
                /\ UNCHANGED provenance
           ELSE /\ provenance' = [provenance EXCEPT ![t] =
                      [feedback |-> verifier.feedback, store |-> store]]
                /\ UNCHANGED <<receipt, recovery, project>>
    /\ verifier' = Idle
    /\ UNCHANGED <<head, store, goal, task, frozen, events,
                   successor, armer, finalizer, kills, foreign>>

-----------------------------------------------------------------------------
(* v1.5: the successor of proof 1.                                         *)

\* evaluate_v1_5_bootstrap_successor.
Eligible ==
    /\ project.phase = "v1.5" /\ project.request = 1 /\ Terminal(project)
    /\ Merged(1) /\ receipt[1] = "VERIFIED"
    /\ task[1].memory.from = "v1.4" /\ task[1].memory.reused # {}
    /\ Outcome(1) \in store

\* The record is missing although everything else is there.
FeedbackMissing ==
    /\ Terminal(project)
    /\ Merged(1) /\ receipt[1] = "VERIFIED"
    /\ Outcome(1) \notin store
    /\ store # {} => task[1].memory.from = "v1.4" /\ task[1].memory.reused # {}

\* Mutant of ProofTwoActive: the flag in the state is taken for the goal.
ProofTwoArmed == project.armed = 2

ProofTwoActive == project.request = 2 \/ goal.request = 2

SuccessorRuns == project.phase = "v1.5" /\ ~ProofTwoActive /\ project.request = 1

SuccessorRead ==
    /\ successor = Idle
    /\ SuccessorRuns /\ Eligible
    /\ successor' = [pc |-> "evidence", project |-> project]
    /\ UNCHANGED <<head, store, project, goal, task, receipt, provenance, recovery, frozen,
                   events, verifier, armer, finalizer, bounds>>

\* _retry_verified_memory_feedback: an event with task, verification, source
\* and repository only.
RetryFeedback ==
    /\ successor = Idle
    /\ SuccessorRuns /\ FeedbackMissing
    /\ events' = events \cup {[task |-> 1, bound |-> FALSE]}
    /\ UNCHANGED <<head, store, project, goal, task, receipt, provenance, recovery, frozen,
                   runs, bounds>>

SuccessorEvidence ==
    /\ successor.pc = "evidence"
    /\ bootstrap' = TRUE
    /\ successor' = [successor EXCEPT !.pc = "state"]
    /\ UNCHANGED <<head, store, project, goal, task, receipt, provenance, recovery, evidence,
                   chain, proof, events, verifier, armer, finalizer, bounds>>

\* The state as it was read, with the flags of proof 2, over whatever the
\* file holds by now.
SuccessorState ==
    /\ successor.pc = "state"
    /\ project' = [successor.project EXCEPT !.armed = 2]
    /\ successor' = [pc |-> "goal"]
    /\ UNCHANGED <<head, store, goal, task, receipt, provenance, recovery, frozen,
                   events, verifier, armer, finalizer, bounds>>

SuccessorGoal ==
    /\ successor.pc = "goal"
    /\ goal' = [request |-> 2, from |-> {}]
    /\ successor' = Idle
    /\ UNCHANGED <<head, store, project, task, receipt, provenance, recovery, frozen,
                   events, verifier, armer, finalizer, bounds>>

-----------------------------------------------------------------------------
(* v1.5: the finalizer of proof 2 and the graduation by hand.              *)

\* Mutant of BaseAgrees: the pull request is not compared with the plan.
BaseOfBootstrap(t, sha) == task[t].sha = sha

\* The pull request is based on the commit that was planned for, and that is
\* the one the reused outcome is about.
BaseAgrees(t, sha) == task[t].base = task[t].sha /\ task[t].base = sha

\* What the planner of proof 2 knew is exactly what it reused, proof 1's
\* outcome among it, and it is all still there.
MemoryWasReused ==
    /\ task[2].memory.from = "store"
    /\ Outcome(1) \in task[2].memory.reused
    /\ task[2].memory.known = task[2].memory.reused
    /\ task[2].memory.reused \subseteq store

\* The store after the feedback of proof 2 was that and the new outcome.
MemoryGrew ==
    /\ provenance[2].feedback = "STORED"
    /\ provenance[2].store = task[2].memory.reused \cup {Outcome(2)}
    /\ {r \in store : r.task = 2} = {Outcome(2)}

\* audit of v1_5_development_memory_audit.
Audited ==
    /\ bootstrap
    /\ Merged(2) /\ receipt[2] = "VERIFIED"
    /\ BaseAgrees(2, task[1].merge)
    /\ MemoryWasReused
    /\ MemoryGrew

\* The checkout of the run is one commit, the evidence one write.
FreezeEvidence ==
    /\ project.request = 2 /\ Terminal(project)
    /\ recovery # 2
    /\ Audited
    /\ evidence' = TRUE
    /\ UNCHANGED <<head, store, project, goal, task, receipt, provenance, recovery, bootstrap,
                   chain, proof, events, runs, bounds>>

GraduateV15 ==
    /\ evidence /\ project.graduated = 4
    /\ project' = [project EXCEPT !.graduated = 5]
    /\ UNCHANGED <<head, store, goal, task, receipt, provenance, recovery, frozen,
                   events, runs, bounds>>

-----------------------------------------------------------------------------
(* v1.6: the successor that freezes the chain and submits proof 3.         *)

ArmedThree == project.phase = "v1.6" /\ project.armed = 3

\* The outcomes that extract_verified_memory_followup_candidate may start
\* from: proof 3 follows up the one of proof 2.
SourceOutcomes(records) == {r \in records : r.task = 2 /\ r.kind = "VERIFIED_OUTCOME"}

\* main and build_activation.
ArmerRead ==
    /\ armer = Idle
    /\ project.graduated = 5 /\ Audited
    /\ ~ArmedThree
    /\ Terminal(project)
    /\ Cardinality(SourceOutcomes(store)) = 1
    /\ armer' = [pc |-> "chain", next |-> 1, store |-> store, project |-> project]
    /\ UNCHANGED <<head, store, project, goal, task, receipt, provenance, recovery, frozen,
                   events, verifier, successor, finalizer, bounds>>

\* Mutant of Drifts: an artifact that exists is left as it is.
NeverDrifts(n) == FALSE

Drifts(n) == n <= Len(chain) /\ chain[n] # armer.store

\* _write_once_json: create, agree, or raise.
ArmerWrite ==
    /\ armer.pc = "chain"
    /\ LET n == armer.next
       IN  /\ chain' = IF n > Len(chain) THEN Append(chain, armer.store) ELSE chain
           /\ armer' = IF Drifts(n) THEN Idle
                       ELSE IF n < Artifacts THEN [armer EXCEPT !.next = n + 1]
                       ELSE [armer EXCEPT !.pc = "goal"]
    /\ UNCHANGED <<head, store, project, goal, task, receipt, provenance, recovery, bootstrap,
                   evidence, proof, events, verifier, successor, finalizer, bounds>>

ArmerGoal ==
    /\ armer.pc = "goal"
    /\ goal' = [request |-> 3, from |-> armer.store]
    /\ armer' = [armer EXCEPT !.pc = "state"]
    /\ UNCHANGED <<head, store, project, task, receipt, provenance, recovery, frozen,
                   events, verifier, successor, finalizer, bounds>>

ArmerState ==
    /\ armer.pc = "state"
    /\ project' = [armer.project EXCEPT !.phase = "v1.6", !.request = 3, !.armed = 3]
    /\ armer' = Idle
    /\ UNCHANGED <<head, store, goal, task, receipt, provenance, recovery, frozen,
                   events, verifier, successor, finalizer, bounds>>

-----------------------------------------------------------------------------
(* v1.6: the finalizer of proof 3 and the graduation by hand.              *)

\* _reconstruct_chain: the chain is complete and derives from its first
\* artifact.
ChainIsWhole ==
    /\ Len(chain) = Artifacts
    /\ \A n \in 1..Artifacts : chain[n] = chain[1]
    /\ Cardinality(SourceOutcomes(chain[1])) = 1

\* The goal and the plan are those of the chain.
ChainWasPlanned == goal = [request |-> 3, from |-> chain[1]] /\ task[3].goal = chain[1]

\* _target_observations: the pull request is based on the commit that the
\* source outcome is about.
BaseIsOfSource == \A r \in SourceOutcomes(chain[1]) : task[3].base = r.sha

ProofThreeVerified ==
    /\ Merged(3) /\ receipt[3] = "VERIFIED"
    /\ recovery # 3
    /\ provenance[3] # NoProvenance

\* The checks of main.
Finalizable ==
    /\ project.phase = "v1.6" /\ project.graduated = 5 /\ Terminal(project)
    /\ ChainIsWhole
    /\ ProofThreeVerified
    /\ ChainWasPlanned
    /\ BaseIsOfSource

FinalizerRead ==
    /\ finalizer = Idle
    /\ Finalizable
    /\ Len(proof) < Proofs
    /\ finalizer' = [pc |-> "proof", next |-> 1, project |-> project]
    /\ UNCHANGED <<head, store, project, goal, task, receipt, provenance, recovery, frozen,
                   events, verifier, successor, armer, bounds>>

Agrees(n) == n <= Len(proof) => proof[n] = finalizer.project

\* _write_once_json again, for each artifact in its order.
FinalizerWrite ==
    /\ finalizer.pc = "proof"
    /\ LET n == finalizer.next
       IN  /\ proof' = IF n > Len(proof) THEN Append(proof, finalizer.project) ELSE proof
           /\ finalizer' = IF Agrees(n) /\ n < Proofs THEN [finalizer EXCEPT !.next = n + 1]
                           ELSE Idle
    /\ UNCHANGED <<head, store, project, goal, task, receipt, provenance, recovery, bootstrap,
                   evidence, chain, events, verifier, successor, armer, bounds>>

\* audit of v1_6_autonomous_backlog_audit: the frozen chain derives the goal
\* that was planned;
AuditedChain == ChainIsWhole /\ task[3].goal = chain[1]

\* the retirement derives from the frozen state, which is terminal, and the
\* artifacts after it from the retirement;
AuditedRun ==
    /\ Terminal(proof[4]) /\ \A n \in 1..Proofs : proof[n] = proof[4]
    /\ Merged(3) /\ receipt[3] = "VERIFIED"

\* and the provenance names the pull request on the source commit.
AuditedV16 ==
    /\ Len(proof) = Proofs
    /\ AuditedChain /\ AuditedRun
    /\ provenance[3] # NoProvenance /\ BaseIsOfSource

\* The audit of the repository passes, and a person records it.
GraduateV16 ==
    /\ AuditedV16 /\ project.graduated = 5
    /\ project' = [project EXCEPT !.graduated = 6]
    /\ UNCHANGED <<head, store, goal, task, receipt, provenance, recovery, frozen,
                   events, runs, bounds>>

-----------------------------------------------------------------------------
Kill ==
    /\ kills < MaxKills
    /\ kills' = kills + 1
    /\ \/ verifier # Idle /\ verifier' = Idle /\ UNCHANGED <<successor, armer, finalizer>>
       \/ successor # Idle /\ successor' = Idle /\ UNCHANGED <<verifier, armer, finalizer>>
       \/ armer # Idle /\ armer' = Idle /\ UNCHANGED <<verifier, successor, finalizer>>
       \/ finalizer # Idle /\ finalizer' = Idle /\ UNCHANGED <<verifier, successor, armer>>
    /\ UNCHANGED <<head, store, project, goal, task, receipt, provenance, recovery, frozen,
                   events, errors, foreign>>

Verification ==
    \/ \E e \in events : Refuse(e) \/ \E t \in Task : Verify(e, t)
    \/ \E failed \in BOOLEAN : Feedback(failed) \/ LessonFeedback(failed) \/ Provenance(failed)

SuccessorStep ==
    \/ SuccessorRead \/ RetryFeedback \/ SuccessorEvidence \/ SuccessorState \/ SuccessorGoal

ArmerStep == ArmerRead \/ ArmerWrite \/ ArmerGoal \/ ArmerState

FinalizerStep == FinalizerRead \/ FinalizerWrite

Delivery == \E t \in Task : Plan(t) \/ Start(t) \/ Merge(t)

Next ==
    \/ Delivery \/ ForeignCommit \/ Verification
    \/ SuccessorStep \/ FreezeEvidence \/ GraduateV15
    \/ ArmerStep \/ FinalizerStep \/ GraduateV16
    \/ Kill

Spec == Init /\ [][Next]_vars

\* Events are delivered, and the successors and finalizers run on a
\* schedule.  No fairness of the planner, whose schedule leaves main out,
\* nor of sessions and people.
FairSpec ==
    /\ Spec
    /\ WF_vars(Verification)
    /\ WF_vars(SuccessorStep)
    /\ WF_vars(FreezeEvidence)
    /\ WF_vars(ArmerStep)
    /\ WF_vars(FinalizerStep)

-----------------------------------------------------------------------------
\* Every file and every run is in one of the forms that the code writes.
TypeOK ==
    /\ head \in Nat
    /\ store \in Stores
    /\ project \in [phase : {"v1.5", "v1.6"}, request : Task, current : 0..3,
                    status : {"READY", "RUNNING", "HUMAN_WAIT"}, graduated : 4..6, armed : {0, 2, 3}]
    /\ receipt \in [Task -> {"none", "ARMED", "VERIFIED", "HUMAN_WAIT"}]
    /\ recovery \in 0..3
    /\ Len(chain) <= Artifacts /\ Len(proof) <= Proofs
    /\ events \subseteq [task : Task, bound : BOOLEAN]

\* Failed reads, kills, repeated events and a second verification never cost
\* the store a record, nor change one: whatever the planner has been told
\* stays provable.
MemoryStands == [][store \subseteq store']_vars

\* What the two graduations rest on holds of the history, and not only of
\* the files the finalizers compared: task 2 was planned and built on the
\* very commit that task 1's verification was about, from a store that held
\* its outcome, and task 3 on task 2's; so no other commit came between one
\* verified merge and the start of the next, and every outcome is still in
\* the store, with no lesson of a recovery beside it.
GraduationIsEarned ==
    /\ evidence =>
         /\ Outcome(1) \in task[2].memory.known
         /\ task[2].base = task[1].merge /\ task[2].sha = task[1].merge
         /\ {Outcome(1), Outcome(2)} \subseteq store
         /\ Lesson(1) \notin store /\ Lesson(2) \notin store
    /\ proof # <<>> =>
         /\ evidence
         /\ task[3].base = task[2].merge
         /\ Outcome(2) \in chain[1]

\* The artifacts that are frozen derive from one store, although each run of
\* the successor reads the live one; the goal that was submitted and what
\* was planned from it are those of the chain.
ChainIsOne ==
    /\ \A n \in 1..Len(chain) : chain[n] = chain[1]
    /\ goal.request = 3 => Len(chain) = Artifacts /\ goal.from = chain[1]
    /\ Planned(3) => task[3].goal = chain[1]

\* Once proof 1's outcome is stored and the project is at rest, the goal of
\* proof 2 is submitted, wherever a run of the successor is killed.
ProofTwoFollows == Eligible ~> goal.request = 2

\* Once the finalizer of proof 3 finds its evidence, it freezes all of its
\* artifacts, in however many runs.
EvidenceFollows == Finalizable ~> Len(proof) = Proofs

\* ROADMAP.md: a verified outcome of proof 1 whose record is missing is sent
\* to the verification again and stored in the end.
FeedbackArrives == FeedbackMissing ~> ~FeedbackMissing

\* Both at once: each link of the proofs that may be made is made, wherever
\* the run that makes it is killed.
ProofsFollow == ProofTwoFollows /\ EvidenceFollows

=============================================================================
