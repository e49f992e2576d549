------------------------ MODULE DevelopmentMemoryProofs ------------------------
(***************************************************************************)
(* What the graduations of v1.5 and v1.6 rest on, for any number of kills, *)
(* repeated events, failing requests and foreign commits: no record of the *)
(* memory is ever lost, the frozen chain is of one store, and what the     *)
(* finalizers freeze holds of the history.                                 *)
(*                                                                         *)
(* The invariant follows the proofs in their order.  A record stands on a  *)
(* verdict; the goal of proof 2 on the record of proof 1, after which the  *)
(* verdict of task 1 is settled; the evidence of proof 2 on its own        *)
(* record, provenance and verdict; a state that counts it as graduated on  *)
(* that evidence, whoever keeps a copy; and the chain of proof 3 on a      *)
(* store that has the outcome of task 2.                                   *)
(***************************************************************************)
EXTENDS DevelopmentMemory, FiniteSetTheorems, TLAPS

-----------------------------------------------------------------------------
(* The forms of the files and of the runs.                                 *)

Projects ==
    [phase : {"v1.5", "v1.6"}, request : Task, current : 0..3,
     status : {"READY", "RUNNING", "HUMAN_WAIT"}, graduated : 4..6, armed : {0, 2, 3}]

Bundles == [from : {"store", "v1.4"}, known : Stores, reused : Stores]

Plans ==
    {NoPlan}
    \cup [at : {"planned"}, sha : Nat, memory : Bundles, goal : Stores]
    \cup [at : {"started"}, sha : Nat, memory : Bundles, goal : Stores, base : Nat]
    \cup [at : {"merged"}, sha : Nat, memory : Bundles, goal : Stores, base : Nat, merge : Nat]

Verifiers ==
    {Idle}
    \cup [pc : {"feedback"}, task : Task, fresh : BOOLEAN]
    \cup [pc : {"lesson"}, task : Task]
    \cup [pc : {"provenance"}, task : Task, feedback : {"STORED", "FAILED"}]

Successors == {Idle} \cup [pc : {"evidence", "state"}, project : Projects] \cup [pc : {"goal"}]

Armers ==
    {Idle} \cup [pc : {"chain", "goal", "state"}, next : 1..Artifacts, store : Stores,
                 project : Projects]

Finalizers == {Idle} \cup [pc : {"proof"}, next : 1..Proofs, project : Projects]

FilesTyped ==
    /\ head \in Nat
    /\ store \in Stores
    /\ project \in Projects
    /\ goal \in [request : Task, from : Stores]
    /\ task \in [Task -> Plans]
    /\ receipt \in [Task -> {"none", "ARMED", "VERIFIED", "HUMAN_WAIT"}]
    /\ provenance \in [Task -> {NoProvenance} \cup
                                [feedback : {"STORED", "FAILED"}, store : Stores]]
    /\ chain \in Seq(Stores) /\ Len(chain) <= Artifacts
    /\ proof \in Seq(Projects) /\ Len(proof) <= Proofs

RunsTyped ==
    /\ verifier \in Verifiers
    /\ successor \in Successors
    /\ armer \in Armers
    /\ finalizer \in Finalizers

Typed == FilesTyped /\ RunsTyped

-----------------------------------------------------------------------------
(* A verdict stands on a merge, a record on a verdict: an outcome or the   *)
(* lesson of the very merge.                                               *)
Verdicts ==
    /\ \A t \in Task : receipt[t] # "none" => Merged(t)
    /\ verifier.pc = "feedback" => receipt[verifier.task] = "VERIFIED"
    /\ verifier.pc = "lesson" => receipt[verifier.task] = "HUMAN_WAIT"
    /\ verifier.pc = "provenance" => receipt[verifier.task] = "VERIFIED"

Records ==
    \A r \in store :
        r.task # 0 =>
            /\ receipt[r.task] \in {"VERIFIED", "HUMAN_WAIT"}
            /\ r.sha = task[r.task].merge
            /\ r.kind = "FAILURE" => receipt[r.task] = "HUMAN_WAIT"

(* A run that was the first to see its verdict has yet to make its record  *)
(* and its provenance.                                                     *)
Fresh ==
    /\ verifier.pc = "feedback" /\ verifier.fresh =>
         \A r \in store : r.task # verifier.task
    /\ verifier.pc = "provenance" \/ (verifier.pc = "feedback" /\ verifier.fresh) =>
         provenance[verifier.task] = NoProvenance
    /\ \A t \in Task : provenance[t] # NoProvenance => receipt[t] \in {"VERIFIED", "HUMAN_WAIT"}

(* The goals follow each other, and the successor is done before the next. *)
Goals ==
    /\ successor # Idle => goal.request = 1
    /\ goal.request = 1 => ~Planned(2) /\ ~Planned(3)
    /\ goal.request = 2 => ~Planned(3)
    /\ goal.request = 3 => Planned(2)
    /\ Planned(2) => project.request # 1 /\ goal.request # 1
    /\ armer # Idle => Planned(2) /\ armer.project.request # 1
    /\ project.phase = "v1.6" => goal.request = 3
    /\ successor.pc \in {"evidence", "state"} => successor.project.phase = "v1.5"
    /\ armer.pc = "state" => goal.request = 3
    /\ verifier.pc = "provenance" /\ verifier.task # 2 => goal.request = 3

(* Proof 2 is asked for once the outcome of task 1 is on record, and that  *)
(* verdict is not touched any more.                                        *)
FirstVerified ==
    successor # Idle \/ goal.request # 1 =>
        /\ receipt[1] = "VERIFIED"
        /\ Outcome(1) \in store
        /\ ~(verifier.pc = "provenance" /\ verifier.task = 1)

(* What the audit of proof 2 found stays as it was. *)
SecondVerified ==
    evidence =>
        /\ receipt[2] = "VERIFIED" /\ provenance[2] # NoProvenance
        /\ Outcome(1) \in task[2].memory.known
        /\ task[2].base = task[1].merge /\ task[2].sha = task[1].merge
        /\ Outcome(2) \in store

(* Whoever keeps a copy of the state, it does not run ahead of the proof. *)
Graduated ==
    /\ project.graduated # 4 => evidence
    /\ successor.pc \in {"evidence", "state"} => (successor.project.graduated # 4 => evidence)
    /\ armer # Idle => (armer.project.graduated # 4 => evidence)

(* The chain so far is what the run has written or agreed with. *)
ChainSoFar ==
    /\ armer.pc = "chain" =>
         /\ armer.next <= Len(chain) + 1
         /\ \A n \in 1..(armer.next - 1) : chain[n] = armer.store
    /\ armer.pc \in {"goal", "state"} => Len(chain) = Artifacts /\ chain[1] = armer.store

(* Its source is a store of the past, of which the memory kept everything. *)
ChainKept ==
    /\ armer # Idle => armer.store \subseteq store
    /\ chain # <<>> => chain[1] \subseteq store

(* The finalizer begins when it has found the evidence of proof 3. *)
ThirdFound ==
    finalizer # Idle \/ proof # <<>> =>
        /\ evidence /\ chain # <<>>
        /\ Merged(3) /\ task[3].base = task[2].merge
        /\ Outcome(2) \in chain[1]

IInv ==
    /\ Typed /\ Verdicts /\ Records /\ Fresh /\ Goals /\ FirstVerified
    /\ SecondVerified /\ Graduated
    /\ ChainIsOne /\ ChainSoFar /\ ChainKept /\ ThirdFound

USE DEF frozen, runs, bounds, Idle, NoPlan, NoProvenance

-----------------------------------------------------------------------------
(* The forms are kept.                                                     *)

(* Initially nothing has been planned. *)
LEMMA InitInv == Init => IInv
<1> SUFFICES ASSUME Init PROVE IInv
  OBVIOUS
<1>1. FilesTyped
  <2>1. store \in Stores
    BY DEF Init, Stores, Record, Kinds, OldLesson
  <2>2. project \in Projects
    BY DEF Init, Projects, Task
  <2>3. goal \in [request : Task, from : Stores]
    BY DEF Init, Stores, Task
  <2>4. task \in [Task -> Plans]
    BY DEF Init, Plans
  <2>5. /\ chain \in Seq(Stores) /\ Len(chain) <= Artifacts
        /\ proof \in Seq(Projects) /\ Len(proof) <= Proofs
    BY DEF Init, Artifacts, Proofs
  <2>6. receipt \in [Task -> {"none", "ARMED", "VERIFIED", "HUMAN_WAIT"}]
    BY DEF Init
  <2>7. provenance \in [Task -> {NoProvenance} \cup
                                  [feedback : {"STORED", "FAILED"}, store : Stores]]
    BY DEF Init
  <2>8. QED BY <2>1, <2>2, <2>3, <2>4, <2>5, <2>6, <2>7 DEF Init, FilesTyped
<1>2. RunsTyped
  BY DEF Init, RunsTyped, Verifiers, Successors, Armers, Finalizers
<1>3. \A t \in Task : ~Planned(t) /\ ~Merged(t)
  BY DEF Init, Planned, Merged, Task
<1>4. QED
  BY <1>1, <1>2, <1>3
     DEF Init, IInv, Typed, Verdicts, Records, Fresh, Goals, FirstVerified, SecondVerified,
         Graduated, ChainIsOne, ChainSoFar, ChainKept, ThirdFound, OldLesson, Task

(* The steps, one disjunct for each. *)
LEMMA Actions ==
    [Next]_vars =>
           \/ \E t \in Task : Plan(t)
           \/ \E t \in Task : Start(t)
           \/ \E t \in Task : Merge(t)
           \/ ForeignCommit
           \/ \E e \in events : Refuse(e)
           \/ \E e \in events, t \in Task : Verify(e, t)
           \/ \E failed \in BOOLEAN : Feedback(failed)
           \/ \E failed \in BOOLEAN : LessonFeedback(failed)
           \/ \E failed \in BOOLEAN : Provenance(failed)
           \/ SuccessorRead
           \/ RetryFeedback
           \/ SuccessorEvidence
           \/ SuccessorState
           \/ SuccessorGoal
           \/ FreezeEvidence
           \/ GraduateV15
           \/ ArmerRead
           \/ ArmerWrite
           \/ ArmerGoal
           \/ ArmerState
           \/ FinalizerRead
           \/ FinalizerWrite
           \/ GraduateV16
           \/ Kill
           \/ UNCHANGED vars
<1>1. Delivery =>
          (\E t \in Task : Plan(t)) \/ (\E t \in Task : Start(t)) \/ (\E t \in Task : Merge(t))
  BY Zenon DEF Delivery
<1>2. Verification =>
          \/ \E e \in events : Refuse(e)
          \/ \E e \in events, t \in Task : Verify(e, t)
          \/ \E failed \in BOOLEAN : Feedback(failed)
          \/ \E failed \in BOOLEAN : LessonFeedback(failed)
          \/ \E failed \in BOOLEAN : Provenance(failed)
  BY Zenon DEF Verification
<1>3. QED BY <1>1, <1>2 DEF Next, SuccessorStep, ArmerStep, FinalizerStep

(* Who writes what. *)
LEMMA Writers ==
    ASSUME [Next]_vars
    PROVE  /\ head' # head => (\E t \in Task : Merge(t)) \/ ForeignCommit
           /\ store' # store => \/ \E failed \in BOOLEAN : Feedback(failed)
                                \/ \E failed \in BOOLEAN : LessonFeedback(failed)
           /\ project' # project => \/ \E t \in Task : Plan(t)
                                    \/ \E t \in Task : Start(t)
                                    \/ \E t \in Task : Merge(t)
                                    \/ \E e \in events, t \in Task : Verify(e, t)
                                    \/ \E failed \in BOOLEAN : Provenance(failed)
                                    \/ SuccessorState
                                    \/ GraduateV15
                                    \/ ArmerState
                                    \/ GraduateV16
           /\ goal' # goal => SuccessorGoal \/ ArmerGoal
           /\ task' # task => \/ \E t \in Task : Plan(t)
                              \/ \E t \in Task : Start(t)
                              \/ \E t \in Task : Merge(t)
           /\ receipt' # receipt => \/ \E t \in Task : Merge(t)
                                    \/ \E e \in events, t \in Task : Verify(e, t)
                                    \/ \E failed \in BOOLEAN : Provenance(failed)
           /\ provenance' # provenance => (\E failed \in BOOLEAN : Provenance(failed))
           /\ evidence' # evidence => FreezeEvidence
           /\ chain' # chain => ArmerWrite
           /\ proof' # proof => FinalizerWrite
           /\ verifier' # verifier => \/ \E e \in events, t \in Task : Verify(e, t)
                                      \/ \E failed \in BOOLEAN : Feedback(failed)
                                      \/ \E failed \in BOOLEAN : LessonFeedback(failed)
                                      \/ \E failed \in BOOLEAN : Provenance(failed)
                                      \/ Kill
           /\ successor' # successor => \/ SuccessorRead
                                        \/ SuccessorEvidence
                                        \/ SuccessorState
                                        \/ SuccessorGoal
                                        \/ Kill
           /\ armer' # armer => \/ ArmerRead
                                \/ ArmerWrite
                                \/ ArmerGoal
                                \/ ArmerState
                                \/ Kill
           /\ finalizer' # finalizer => FinalizerRead \/ FinalizerWrite \/ Kill
<1>1. head' # head => (\E t \in Task : Merge(t)) \/ ForeignCommit
  BY Actions DEF Plan, Start, Refuse, Verify, Feedback, LessonFeedback, Provenance,
     SuccessorRead, RetryFeedback, SuccessorEvidence, SuccessorState, SuccessorGoal,
     FreezeEvidence, GraduateV15, ArmerRead, ArmerWrite, ArmerGoal, ArmerState,
     FinalizerRead, FinalizerWrite, GraduateV16, Kill, vars
<1>2. store' # store => \/ \E failed \in BOOLEAN : Feedback(failed)
                        \/ \E failed \in BOOLEAN : LessonFeedback(failed)
  BY Actions DEF Plan, Start, Merge, ForeignCommit, Refuse, Verify, Provenance,
     SuccessorRead, RetryFeedback, SuccessorEvidence, SuccessorState, SuccessorGoal,
     FreezeEvidence, GraduateV15, ArmerRead, ArmerWrite, ArmerGoal, ArmerState,
     FinalizerRead, FinalizerWrite, GraduateV16, Kill, vars
<1>3. project' # project => \/ \E t \in Task : Plan(t)
                            \/ \E t \in Task : Start(t)
                            \/ \E t \in Task : Merge(t)
                            \/ \E e \in events, t \in Task : Verify(e, t)
                            \/ \E failed \in BOOLEAN : Provenance(failed)
                            \/ SuccessorState
                            \/ GraduateV15
                            \/ ArmerState
                            \/ GraduateV16
  BY Actions DEF ForeignCommit, Refuse, Feedback, LessonFeedback, SuccessorRead,
     RetryFeedback, SuccessorEvidence, SuccessorGoal, FreezeEvidence, ArmerRead, ArmerWrite,
     ArmerGoal, FinalizerRead, FinalizerWrite, Kill, vars
<1>4. goal' # goal => SuccessorGoal \/ ArmerGoal
  BY Actions DEF Plan, Start, Merge, ForeignCommit, Refuse, Verify, Feedback,
     LessonFeedback, Provenance, SuccessorRead, RetryFeedback, SuccessorEvidence,
     SuccessorState, FreezeEvidence, GraduateV15, ArmerRead, ArmerWrite, ArmerState,
     FinalizerRead, FinalizerWrite, GraduateV16, Kill, vars
<1>5. task' # task => \/ \E t \in Task : Plan(t)
                      \/ \E t \in Task : Start(t)
                      \/ \E t \in Task : Merge(t)
  BY Actions DEF ForeignCommit, Refuse, Verify, Feedback, LessonFeedback, Provenance,
     SuccessorRead, RetryFeedback, SuccessorEvidence, SuccessorState, SuccessorGoal,
     FreezeEvidence, GraduateV15, ArmerRead, ArmerWrite, ArmerGoal, ArmerState,
     FinalizerRead, FinalizerWrite, GraduateV16, Kill, vars
<1>6. receipt' # receipt => \/ \E t \in Task : Merge(t)
                            \/ \E e \in events, t \in Task : Verify(e, t)
                            \/ \E failed \in BOOLEAN : Provenance(failed)
  BY Actions DEF Plan, Start, ForeignCommit, Refuse, Feedback, LessonFeedback,
     SuccessorRead, RetryFeedback, SuccessorEvidence, SuccessorState, SuccessorGoal,
     FreezeEvidence, GraduateV15, ArmerRead, ArmerWrite, ArmerGoal, ArmerState,
     FinalizerRead, FinalizerWrite, GraduateV16, Kill, vars
<1>7. provenance' # provenance => (\E failed \in BOOLEAN : Provenance(failed))
  BY Actions DEF Plan, Start, Merge, ForeignCommit, Refuse, Verify, Feedback,
     LessonFeedback, SuccessorRead, RetryFeedback, SuccessorEvidence, SuccessorState,
     SuccessorGoal, FreezeEvidence, GraduateV15, ArmerRead, ArmerWrite, ArmerGoal,
     ArmerState, FinalizerRead, FinalizerWrite, GraduateV16, Kill, vars
<1>8. evidence' # evidence => FreezeEvidence
  BY Actions DEF Plan, Start, Merge, ForeignCommit, Refuse, Verify, Feedback,
     LessonFeedback, Provenance, SuccessorRead, RetryFeedback, SuccessorEvidence,
     SuccessorState, SuccessorGoal, GraduateV15, ArmerRead, ArmerWrite, ArmerGoal,
     ArmerState, FinalizerRead, FinalizerWrite, GraduateV16, Kill, vars
<1>9. chain' # chain => ArmerWrite
  BY Actions DEF Plan, Start, Merge, ForeignCommit, Refuse, Verify, Feedback,
     LessonFeedback, Provenance, SuccessorRead, RetryFeedback, SuccessorEvidence,
     SuccessorState, SuccessorGoal, FreezeEvidence, GraduateV15, ArmerRead, ArmerGoal,
     ArmerState, FinalizerRead, FinalizerWrite, GraduateV16, Kill, vars
<1>10. proof' # proof => FinalizerWrite
  BY Actions DEF Plan, Start, Merge, ForeignCommit, Refuse, Verify, Feedback,
     LessonFeedback, Provenance, SuccessorRead, RetryFeedback, SuccessorEvidence,
     SuccessorState, SuccessorGoal, FreezeEvidence, GraduateV15, ArmerRead, ArmerWrite,
     ArmerGoal, ArmerState, FinalizerRead, GraduateV16, Kill, vars
<1>11. verifier' # verifier => \/ \E e \in events, t \in Task : Verify(e, t)
                               \/ \E failed \in BOOLEAN : Feedback(failed)
                               \/ \E failed \in BOOLEAN : LessonFeedback(failed)
                               \/ \E failed \in BOOLEAN : Provenance(failed)
                               \/ Kill
  BY Actions DEF Plan, Start, Merge, ForeignCommit, Refuse, SuccessorRead, RetryFeedback,
     SuccessorEvidence, SuccessorState, SuccessorGoal, FreezeEvidence, GraduateV15,
     ArmerRead, ArmerWrite, ArmerGoal, ArmerState, FinalizerRead, FinalizerWrite,
     GraduateV16, vars
<1>12. successor' # successor => \/ SuccessorRead
                                 \/ SuccessorEvidence
                                 \/ SuccessorState
                                 \/ SuccessorGoal
                                 \/ Kill
  BY Actions DEF Plan, Start, Merge, ForeignCommit, Refuse, Verify, Feedback,
     LessonFeedback, Provenance, RetryFeedback, FreezeEvidence, GraduateV15, ArmerRead,
     ArmerWrite, ArmerGoal, ArmerState, FinalizerRead, FinalizerWrite, GraduateV16, vars
<1>13. armer' # armer => ArmerRead \/ ArmerWrite \/ ArmerGoal \/ ArmerState \/ Kill
  BY Actions DEF Plan, Start, Merge, ForeignCommit, Refuse, Verify, Feedback,
     LessonFeedback, Provenance, SuccessorRead, RetryFeedback, SuccessorEvidence,
     SuccessorState, SuccessorGoal, FreezeEvidence, GraduateV15, FinalizerRead,
     FinalizerWrite, GraduateV16, vars
<1>14. finalizer' # finalizer => FinalizerRead \/ FinalizerWrite \/ Kill
  BY Actions DEF Plan, Start, Merge, ForeignCommit, Refuse, Verify, Feedback,
     LessonFeedback, Provenance, SuccessorRead, RetryFeedback, SuccessorEvidence,
     SuccessorState, SuccessorGoal, FreezeEvidence, GraduateV15, ArmerRead, ArmerWrite,
     ArmerGoal, ArmerState, GraduateV16, vars
<1>15. QED
  BY <1>1, <1>2, <1>3, <1>4, <1>5, <1>6, <1>7, <1>8, <1>9, <1>10, <1>11, <1>12, <1>13,
     <1>14

(* What a verification adds to the store is a record. *)
LEMMA RecordTypes ==
    ASSUME Typed, NEW t \in Task, Merged(t)
    PROVE  Outcome(t) \in Record /\ Lesson(t) \in Record
BY DEF Typed, FilesTyped, Merged, Plans, Outcome, Lesson, Record, Kinds, Task

(* What a feedback does to the store. *)
LEMMA PersistStores ==
    ASSUME NEW record, NEW failed \in BOOLEAN, NEW outcome, Persist(record, failed, outcome)
    PROVE  store' = store \/ store' = store \cup {record}
BY DEF Persist, Loaded, WithRecord

(* A feedback stores the outcome of its task, a lesson its lesson. *)
LEMMA FeedbackStores ==
    ASSUME NEW failed \in BOOLEAN
    PROVE  /\ Feedback(failed) =>
                store' = store \/ store' = store \cup {Outcome(verifier.task)}
           /\ LessonFeedback(failed) =>
                store' = store \/ store' = store \cup {Lesson(verifier.task)}
BY PersistStores DEF Feedback, LessonFeedback

(* No step costs the store a record. *)
LEMMA StoreGrows ==
    ASSUME [Next]_vars
    PROVE  store \subseteq store'
BY Writers, FeedbackStores

(* Failed reads, kills, repeated events and a second verification never    *)
(* cost the store a record (_persist_record over load_memory_store).       *)
THEOREM MemoryKept == Spec => MemoryStands
<1>1. [Next]_vars => [store \subseteq store']_vars
  BY StoreGrows
<1>2. QED BY <1>1, PTL DEF Spec, MemoryStands

(* Only records come into the store. *)
LEMMA StoreTyped ==
    ASSUME Typed, Verdicts, [Next]_vars
    PROVE  store' \in Stores
<1>1. ASSUME NEW failed \in BOOLEAN, Feedback(failed) \/ LessonFeedback(failed)
      PROVE  store' \in Stores
  <2>1. verifier.task \in Task /\ Merged(verifier.task)
    BY <1>1 DEF Typed, FilesTyped, RunsTyped, Verifiers, Verdicts, Feedback, LessonFeedback
  <2>2. Outcome(verifier.task) \in Record /\ Lesson(verifier.task) \in Record
    BY <2>1, RecordTypes
  <2>3. QED BY <1>1, <2>2, FeedbackStores DEF Typed, FilesTyped, Stores
<1>2. CASE store' = store
  BY <1>2 DEF Typed, FilesTyped
<1>3. QED BY <1>1, <1>2, Writers

(* The updates of the project state. *)
LEMMA ProjectUpdates ==
    ASSUME NEW p \in Projects, NEW t \in Task
    PROVE  /\ [p EXCEPT !.request = t] \in Projects
           /\ [p EXCEPT !.current = t, !.status = "RUNNING"] \in Projects
           /\ [p EXCEPT !.current = 0, !.status = "READY"] \in Projects
           /\ [p EXCEPT !.status = "HUMAN_WAIT"] \in Projects
           /\ [p EXCEPT !.armed = 2] \in Projects
           /\ [p EXCEPT !.phase = "v1.6", !.request = 3, !.armed = 3] \in Projects
           /\ [p EXCEPT !.graduated = 5] \in Projects
           /\ [p EXCEPT !.graduated = 6] \in Projects
<1>1. t \in 0..3 /\ 3 \in Task /\ 0 \in 0..3 /\ 5 \in 4..6 /\ 6 \in 4..6
  BY DEF Task
<1>2. [p EXCEPT !.request = t] \in Projects
  BY DEF Projects
<1>3. [p EXCEPT !.current = t, !.status = "RUNNING"] \in Projects
  BY <1>1 DEF Projects
<1>4. [p EXCEPT !.current = 0, !.status = "READY"] \in Projects
  BY <1>1 DEF Projects
<1>5. [p EXCEPT !.status = "HUMAN_WAIT"] \in Projects /\ [p EXCEPT !.armed = 2] \in Projects
  BY DEF Projects
<1>6. [p EXCEPT !.phase = "v1.6", !.request = 3, !.armed = 3] \in Projects
  BY <1>1 DEF Projects
<1>7. [p EXCEPT !.graduated = 5] \in Projects
  BY <1>1 DEF Projects
<1>8. [p EXCEPT !.graduated = 6] \in Projects
  BY <1>1 DEF Projects
<1>9. QED BY <1>2, <1>3, <1>4, <1>5, <1>6, <1>7, <1>8

(* The project state keeps its form. *)
LEMMA ProjectTyped ==
    ASSUME Typed, [Next]_vars
    PROVE  project' \in Projects
<1>1. project \in Projects /\ 1 \in Task
  BY DEF Typed, FilesTyped, Task
<1>2. ASSUME NEW t \in Task, Plan(t) \/ Start(t) \/ Merge(t)
      PROVE  project' \in Projects
  <2>1. \/ project' = [project EXCEPT !.request = t]
        \/ project' = [project EXCEPT !.current = t, !.status = "RUNNING"]
        \/ project' = [project EXCEPT !.current = 0, !.status = "READY"]
    BY <1>2 DEF Plan, Start, Merge
  <2>2. QED BY <1>1, <1>2, <2>1, ProjectUpdates
<1>3. ASSUME \/ \E e \in events, t \in Task : Verify(e, t)
             \/ \E failed \in BOOLEAN : Provenance(failed)
      PROVE  project' \in Projects
  <2>1. project' = project \/ project' = [project EXCEPT !.status = "HUMAN_WAIT"]
    BY <1>3 DEF Verify, Provenance
  <2>2. QED BY <1>1, <2>1, ProjectUpdates
<1>4. CASE SuccessorState
  <2>1. successor.project \in Projects
    BY <1>4 DEF SuccessorState, Typed, RunsTyped, Successors
  <2>2. QED BY <1>1, <1>4, <2>1, ProjectUpdates DEF SuccessorState
<1>5. CASE ArmerState
  <2>1. armer.project \in Projects
    BY <1>5 DEF ArmerState, Typed, RunsTyped, Armers
  <2>2. QED BY <1>1, <1>5, <2>1, ProjectUpdates DEF ArmerState
<1>6. CASE GraduateV15 \/ GraduateV16
  BY <1>1, <1>6, ProjectUpdates DEF GraduateV15, GraduateV16
<1>7. CASE project' = project
  BY <1>1, <1>7
<1>8. QED BY <1>2, <1>3, <1>4, <1>5, <1>6, <1>7, Writers

(* The goal keeps its form. *)
LEMMA GoalTyped ==
    ASSUME Typed, [Next]_vars
    PROVE  goal' \in [request : Task, from : Stores]
<1>1. CASE SuccessorGoal
  BY <1>1 DEF Typed, FilesTyped, SuccessorGoal, Task, Stores
<1>2. CASE ArmerGoal
  BY <1>2 DEF Typed, FilesTyped, ArmerGoal, RunsTyped, Armers, Task
<1>3. CASE UNCHANGED <<goal>>
  BY <1>3 DEF Typed, FilesTyped
<1>4. QED
  BY <1>1, <1>2, <1>3, Writers

(* The plans and their deliveries keep their forms. *)
LEMMA TaskTyped ==
    ASSUME Typed, [Next]_vars
    PROVE  head' \in Nat /\ task' \in [Task -> Plans]
<1>1. CASE \E t \in Task : Plan(t)
  BY <1>1 DEF Typed, FilesTyped, Plan, Plans, Bundles, PlanningMemory, Bundle, Retrieved,
     Live, Stores, OldOutcome, Record, Kinds
<1>2. CASE \E t \in Task : Start(t)
  BY <1>2 DEF Typed, FilesTyped, Start, Plans
<1>3. CASE \E t \in Task : Merge(t)
  BY <1>3 DEF Typed, FilesTyped, Merge, Plans
<1>4. CASE ForeignCommit
  BY <1>4 DEF Typed, FilesTyped, ForeignCommit
<1>5. CASE UNCHANGED <<head, task>>
  BY <1>5 DEF Typed, FilesTyped
<1>6. QED
  BY <1>1, <1>2, <1>3, <1>4, <1>5, Writers

(* The evidence of the verifications keeps its form. *)
LEMMA EvidenceTyped ==
    ASSUME Typed, [Next]_vars
    PROVE  /\ receipt' \in [Task -> {"none", "ARMED", "VERIFIED", "HUMAN_WAIT"}]
           /\ provenance' \in [Task -> {NoProvenance} \cup
                                      [feedback : {"STORED", "FAILED"}, store : Stores]]
<1>1. CASE \E t \in Task : Merge(t)
  BY <1>1 DEF Typed, FilesTyped, Merge
<1>2. CASE \E e \in events, t \in Task : Verify(e, t)
  BY <1>2 DEF Typed, FilesTyped, Verify
<1>3. CASE \E failed \in BOOLEAN : Provenance(failed)
  <2>1. PICK failed \in BOOLEAN : Provenance(failed)
    BY <1>3
  <2>2. /\ verifier.task \in Task /\ verifier.feedback \in {"STORED", "FAILED"}
        /\ store \in Stores
    BY <2>1 DEF Typed, FilesTyped, Provenance, RunsTyped, Verifiers
  <2>3. CASE failed
    <3>1. /\ receipt' = [receipt EXCEPT ![verifier.task] = "HUMAN_WAIT"]
          /\ UNCHANGED provenance
      BY <2>1, <2>3 DEF Provenance
    <3>2. QED BY <2>2, <3>1 DEF Typed, FilesTyped
  <2>4. CASE ~failed
    <3>1. /\ UNCHANGED receipt
          /\ provenance' = [provenance EXCEPT ![verifier.task] =
                               [feedback |-> verifier.feedback, store |-> store]]
      BY <2>1, <2>4 DEF Provenance
    <3>2. QED BY <2>2, <3>1 DEF Typed, FilesTyped
  <2>5. QED BY <2>3, <2>4
<1>4. CASE UNCHANGED <<receipt, provenance>>
  BY <1>4 DEF Typed, FilesTyped
<1>5. QED
  BY <1>1, <1>2, <1>3, <1>4, Writers

(* The frozen artifacts keep their form. *)
LEMMA FrozenTyped ==
    ASSUME Typed, [Next]_vars
    PROVE  /\ chain' \in Seq(Stores) /\ Len(chain') <= Artifacts
           /\ proof' \in Seq(Projects) /\ Len(proof') <= Proofs
<1>1. CASE ArmerWrite
  BY <1>1 DEF Typed, FilesTyped, ArmerWrite, RunsTyped, Armers, Artifacts
<1>2. CASE FinalizerWrite
  BY <1>2 DEF Typed, FilesTyped, FinalizerWrite, RunsTyped, Finalizers, Proofs
<1>3. CASE UNCHANGED <<chain, proof>>
  BY <1>3 DEF Typed, FilesTyped
<1>4. QED
  BY <1>1, <1>2, <1>3, Writers

(* The verification run. *)
LEMMA VerifierTyped ==
    ASSUME Typed, [Next]_vars
    PROVE  verifier' \in Verifiers
<1>1. CASE \E e \in events, t \in Task : Verify(e, t)
  <2>1. PICK e \in events, t \in Task : Verify(e, t) BY <1>1
  <2>2. \/ verifier' = [pc |-> "feedback", task |-> t, fresh |-> TRUE]
        \/ verifier' = [pc |-> "lesson", task |-> t]
        \/ verifier' = [pc |-> "feedback", task |-> t, fresh |-> FALSE]
    BY <2>1 DEF Verify
  <2>3. [pc |-> "lesson", task |-> t] \in Verifiers
    BY <2>1 DEF Verifiers
  <2>4. \A b \in BOOLEAN :
            [pc |-> "feedback", task |-> t, fresh |-> b] \in
                [pc : {"feedback"}, task : Task, fresh : BOOLEAN]
    BY <2>1, Zenon
  <2>5. QED BY <2>2, <2>3, <2>4 DEF Verifiers
<1>2. CASE \E failed \in BOOLEAN : Feedback(failed)
  BY <1>2 DEF Typed, RunsTyped, Verifiers, Feedback
<1>3. CASE \E failed \in BOOLEAN : LessonFeedback(failed)
  BY <1>3 DEF Typed, RunsTyped, Verifiers, LessonFeedback
<1>4. CASE \E failed \in BOOLEAN : Provenance(failed)
  BY <1>4 DEF Typed, RunsTyped, Verifiers, Provenance
<1>5. CASE Kill
  BY <1>5 DEF Typed, RunsTyped, Verifiers, Kill
<1>6. CASE UNCHANGED <<verifier>>
  BY <1>6 DEF Typed, RunsTyped, Verifiers
<1>7. QED
  BY <1>1, <1>2, <1>3, <1>4, <1>5, <1>6, Writers

(* The runs of the successors. *)
LEMMA SuccessorTyped ==
    ASSUME Typed, [Next]_vars
    PROVE  successor' \in Successors /\ armer' \in Armers
<1>1. CASE SuccessorRead
  BY <1>1 DEF Typed, FilesTyped, RunsTyped, SuccessorRead, Successors
<1>2. CASE SuccessorEvidence
  BY <1>2 DEF Typed, FilesTyped, RunsTyped, SuccessorEvidence, Successors
<1>3. CASE SuccessorState
  BY <1>3 DEF Typed, FilesTyped, RunsTyped, SuccessorState, Successors
<1>4. CASE SuccessorGoal
  BY <1>4 DEF Typed, FilesTyped, RunsTyped, SuccessorGoal, Successors
<1>5. CASE ArmerRead
  BY <1>5 DEF Typed, FilesTyped, RunsTyped, ArmerRead, Armers, Artifacts
<1>6. CASE ArmerWrite
  <2>1. armer \in [pc : {"chain", "goal", "state"}, next : 1..Artifacts, store : Stores,
                   project : Projects]
    BY <1>6 DEF ArmerWrite, Typed, RunsTyped, Armers
  <2>2. \/ armer' = Idle
        \/ armer.next < Artifacts /\ armer' = [armer EXCEPT !.next = armer.next + 1]
        \/ armer' = [armer EXCEPT !.pc = "goal"]
    BY <1>6 DEF ArmerWrite
  <2>3. armer.next < Artifacts => armer.next + 1 \in 1..Artifacts
    BY <2>1 DEF Artifacts
  <2>4. armer' \in Armers BY <2>1, <2>2, <2>3 DEF Armers
  <2>5. QED BY <1>6, <2>4 DEF ArmerWrite, Typed, RunsTyped
<1>7. CASE ArmerGoal
  <2>1. armer \in [pc : {"chain", "goal", "state"}, next : 1..Artifacts, store : Stores,
                   project : Projects]
    BY <1>7 DEF ArmerGoal, Typed, RunsTyped, Armers
  <2>2. armer' = [armer EXCEPT !.pc = "state"] /\ successor' = successor
    BY <1>7 DEF ArmerGoal
  <2>3. armer' \in Armers BY <2>1, <2>2 DEF Armers
  <2>4. QED BY <2>2, <2>3 DEF Typed, RunsTyped
<1>8. CASE ArmerState
  BY <1>8 DEF Typed, FilesTyped, RunsTyped, ArmerState, Armers, Artifacts
<1>9. CASE Kill
  BY <1>9 DEF Typed, FilesTyped, RunsTyped, Kill, Successors, Armers
<1>10. CASE UNCHANGED <<successor, armer>>
  BY <1>10 DEF Typed, FilesTyped, RunsTyped
<1>11. QED
  BY <1>1, <1>2, <1>3, <1>4, <1>5, <1>6, <1>7, <1>8, <1>9, <1>10, Writers

(* The run of the finalizer. *)
LEMMA FinalizerTyped ==
    ASSUME Typed, [Next]_vars
    PROVE  finalizer' \in Finalizers
<1>1. CASE FinalizerRead
  BY <1>1 DEF Typed, FilesTyped, RunsTyped, Finalizers, Proofs, FinalizerRead
<1>2. CASE FinalizerWrite
  BY <1>2 DEF Typed, FilesTyped, RunsTyped, Finalizers, Proofs, FinalizerWrite
<1>3. CASE Kill
  BY <1>3 DEF Typed, FilesTyped, RunsTyped, Finalizers, Proofs, Kill
<1>4. CASE UNCHANGED <<finalizer>>
  BY <1>4 DEF Typed, FilesTyped, RunsTyped, Finalizers, Proofs
<1>5. QED
  BY <1>1, <1>2, <1>3, <1>4, Writers

(* Every file and run keeps its form. *)
LEMMA TypedStep ==
    ASSUME Typed, Verdicts, [Next]_vars
    PROVE  Typed'
BY StoreTyped, ProjectTyped, GoalTyped, TaskTyped, EvidenceTyped, FrozenTyped,
   VerifierTyped, SuccessorTyped, FinalizerTyped DEF Typed, FilesTyped, RunsTyped

-----------------------------------------------------------------------------
(* The invariant is kept.                                                  *)

(* A plan is made once, from the goal, and keeps what it was made from; a  *)
(* merge is final.                                                         *)
TaskMoves ==
    /\ \A t \in Task : Merged(t) => task'[t] = task[t]
    /\ \A t \in Task : Planned(t) => Planned(t)' /\ task'[t].goal = task[t].goal
    /\ \A t \in Task :
          ~Planned(t) /\ Planned(t)' =>
              /\ goal.request = t /\ task'[t].goal = goal.from
              /\ project'.request = t
              /\ UNCHANGED <<goal, chain, armer, successor, receipt, verifier, evidence>>
              /\ \A u \in Task \ {t} : task'[u] = task[u]

(* Every step treats the plans like that. *)
LEMMA TaskSteps ==
    ASSUME Typed, [Next]_vars
    PROVE  TaskMoves
<1>1. CASE \E t \in Task : Plan(t)
  BY <1>1 DEF TaskMoves, Typed, FilesTyped, Merged, Planned, Plans, Task, Plan, Projects
<1>2. CASE \E t \in Task : Start(t)
  BY <1>2 DEF TaskMoves, Typed, FilesTyped, Merged, Planned, Plans, Task, Start
<1>3. CASE \E t \in Task : Merge(t)
  BY <1>3 DEF TaskMoves, Typed, FilesTyped, Merged, Planned, Plans, Task, Merge
<1>4. CASE UNCHANGED <<task>>
  BY <1>4 DEF TaskMoves, Typed, FilesTyped, Merged, Planned, Plans, Task
<1>5. QED
  BY <1>1, <1>2, <1>3, <1>4, Writers

(* A verdict stays one, and HUMAN_WAIT stays. *)
LEMMA ReceiptSteps ==
    ASSUME Typed, Verdicts, [Next]_vars
    PROVE  \A t \in Task :
               /\ receipt[t] \in {"VERIFIED", "HUMAN_WAIT"} =>
                      receipt'[t] \in {"VERIFIED", "HUMAN_WAIT"}
               /\ receipt[t] = "HUMAN_WAIT" => receipt'[t] = "HUMAN_WAIT"
<1>1. CASE \E t \in Task : Merge(t)
  BY <1>1 DEF Verdicts, Typed, FilesTyped, Merged, Merge
<1>2. CASE \E e \in events, t \in Task : Verify(e, t)
  BY <1>2 DEF Verdicts, Typed, FilesTyped, Merged, Verify
<1>3. CASE \E failed \in BOOLEAN : Provenance(failed)
  BY <1>3 DEF Verdicts, Typed, FilesTyped, Merged, Provenance, RunsTyped, Verifiers
<1>4. CASE UNCHANGED <<receipt>>
  BY <1>4 DEF Verdicts, Typed, FilesTyped, Merged
<1>5. QED
  BY <1>1, <1>2, <1>3, <1>4, Writers

(* A verdict stands on a merge. *)
LEMMA VerdictsStep ==
    ASSUME Typed, Verdicts, [Next]_vars
    PROVE  Verdicts'
<1>1. CASE \E t \in Task : Plan(t)
  BY <1>1, TaskSteps DEF Plan, Start, Verdicts, TaskMoves, Merged
<1>2. CASE \E t \in Task : Start(t)
  BY <1>2, TaskSteps DEF Plan, Start, Verdicts, TaskMoves, Merged
<1>3. CASE \E t \in Task : Merge(t)
  BY <1>3 DEF Verdicts, Typed, FilesTyped, RunsTyped, Verifiers, Merged, Merge
<1>4. CASE \E e \in events, t \in Task : Verify(e, t)
  BY <1>4 DEF Verdicts, Typed, FilesTyped, RunsTyped, Verifiers, Merged, Verify
<1>5. CASE \E failed \in BOOLEAN : Feedback(failed)
  BY <1>5 DEF Verdicts, Typed, FilesTyped, RunsTyped, Verifiers, Merged, Feedback
<1>6. CASE \E failed \in BOOLEAN : LessonFeedback(failed)
  BY <1>6 DEF Verdicts, Typed, FilesTyped, RunsTyped, Verifiers, Merged, LessonFeedback
<1>7. CASE \E failed \in BOOLEAN : Provenance(failed)
  BY <1>7 DEF Verdicts, Typed, FilesTyped, RunsTyped, Verifiers, Merged, Provenance
<1>8. CASE Kill
  BY <1>8 DEF Verdicts, Typed, FilesTyped, RunsTyped, Verifiers, Merged, Kill
<1>9. CASE UNCHANGED <<task, receipt, verifier>>
  BY <1>9 DEF Verdicts, Typed, FilesTyped, RunsTyped, Verifiers, Merged
<1>10. QED
  BY <1>1, <1>2, <1>3, <1>4, <1>5, <1>6, <1>7, <1>8, <1>9, Writers

(* A record stands on a verdict. *)
LEMMA RecordsStep ==
    ASSUME Typed, Verdicts, Records, [Next]_vars
    PROVE  Records'
<1>1. ASSUME NEW r \in store, r.task # 0
      PROVE  /\ receipt'[r.task] \in {"VERIFIED", "HUMAN_WAIT"}
             /\ r.sha = task'[r.task].merge
             /\ r.kind = "FAILURE" => receipt'[r.task] = "HUMAN_WAIT"
  <2>1. r.task \in Task
    BY <1>1 DEF Typed, FilesTyped, Stores, Record, Task
  <2>2. Merged(r.task)
    BY <1>1, <2>1 DEF Records, Verdicts
  <2>3. QED BY <1>1, <2>1, <2>2, TaskSteps, ReceiptSteps DEF Records, TaskMoves
<1>2. ASSUME NEW failed \in BOOLEAN, Feedback(failed) \/ LessonFeedback(failed),
             NEW r \in store', r \notin store
      PROVE  /\ receipt'[r.task] \in {"VERIFIED", "HUMAN_WAIT"}
             /\ r.sha = task'[r.task].merge
             /\ r.kind = "FAILURE" => receipt'[r.task] = "HUMAN_WAIT"
  <2>1. UNCHANGED <<receipt, task>>
    BY <1>2 DEF Feedback, LessonFeedback
  <2>2. CASE Feedback(failed)
    BY <1>2, <2>1, <2>2, FeedbackStores DEF Feedback, Verdicts, Outcome
  <2>3. CASE LessonFeedback(failed)
    BY <1>2, <2>1, <2>3, FeedbackStores DEF LessonFeedback, Verdicts, Lesson
  <2>4. QED BY <1>2, <2>2, <2>3
<1>3. CASE store' = store
  BY <1>1, <1>3 DEF Records
<1>4. QED
  BY <1>1, <1>2, <1>3, Writers DEF Records

(* What is yet to be made is not there. *)
LEMMA FreshStep ==
    ASSUME Typed, Verdicts, Records, Fresh, [Next]_vars
    PROVE  Fresh'
<1>1. CASE \E t \in Task : Merge(t)
  BY <1>1, ReceiptSteps DEF Merge, Fresh
<1>2. CASE \E e \in events, t \in Task : Verify(e, t)
  <2>1. PICK e \in events, t \in Task : Verify(e, t)
    BY <1>2
  <2>2. \A r \in store : r.task # 0 => receipt[r.task] \in {"VERIFIED", "HUMAN_WAIT"}
    BY DEF Records
  <2>3. QED
    BY <2>1, <2>2, ReceiptSteps
       DEF Verify, Fresh, Verdicts, Typed, FilesTyped, RunsTyped, Verifiers, Task
<1>3. CASE \E failed \in BOOLEAN : Feedback(failed)
  <2>1. PICK failed \in BOOLEAN : Feedback(failed) \/ LessonFeedback(failed)
    BY <1>3
  <2>2. UNCHANGED <<provenance, receipt>> /\ (verifier'.pc # "feedback")
    BY <2>1 DEF Feedback, LessonFeedback
  <2>3. verifier'.pc = "provenance" =>
            verifier.pc = "feedback" /\ verifier.fresh /\ verifier'.task = verifier.task
    BY <2>1 DEF Feedback, LessonFeedback
  <2>4. QED BY <2>2, <2>3 DEF Fresh
<1>4. CASE \E failed \in BOOLEAN : LessonFeedback(failed)
  <2>1. PICK failed \in BOOLEAN : Feedback(failed) \/ LessonFeedback(failed)
    BY <1>4
  <2>2. UNCHANGED <<provenance, receipt>> /\ (verifier'.pc # "feedback")
    BY <2>1 DEF Feedback, LessonFeedback
  <2>3. verifier'.pc = "provenance" =>
            verifier.pc = "feedback" /\ verifier.fresh /\ verifier'.task = verifier.task
    BY <2>1 DEF Feedback, LessonFeedback
  <2>4. QED BY <2>2, <2>3 DEF Fresh
<1>5. CASE \E failed \in BOOLEAN : Provenance(failed)
  BY <1>5 DEF Fresh, Records, Verdicts, Typed, FilesTyped, RunsTyped, Verifiers, Stores,
     Record, Task, Provenance
<1>6. CASE Kill
  BY <1>6 DEF Fresh, Records, Verdicts, Typed, FilesTyped, RunsTyped, Verifiers, Stores,
     Record, Task, Kill
<1>7. CASE UNCHANGED <<verifier, store, provenance, receipt>>
  BY <1>7 DEF Fresh, Records, Verdicts, Typed, FilesTyped, RunsTyped, Verifiers, Stores,
     Record, Task
<1>8. QED
  BY <1>1, <1>2, <1>3, <1>4, <1>5, <1>6, <1>7, Writers

(* The goals follow each other. *)
LEMMA GoalsStep ==
    ASSUME Typed, Goals, [Next]_vars
    PROVE  Goals'
<1>1. CASE \E t \in Task : Plan(t)
  <2>1. PICK t \in Task : Plan(t)
    BY <1>1
  <2>2. project' = [project EXCEPT !.request = t] /\ goal.request = t /\ ~Planned(t)
        /\ verifier = Idle
    BY <2>1 DEF Plan
  <2>3. project'.request = t /\ project'.phase = project.phase
    BY <2>2 DEF Typed, FilesTyped, Projects
  <2>4. \A u \in Task : Planned(u)' => Planned(u) \/ u = t
    BY <2>1, <2>2, TaskSteps DEF TaskMoves
  <2>5. UNCHANGED <<goal, successor, armer, verifier>>
    BY <2>1 DEF Plan
  <2>6. 1 \in Task /\ 2 \in Task /\ 3 \in Task
    BY DEF Task
  <2>7. QED BY <2>2, <2>3, <2>4, <2>5, <2>6, TaskSteps DEF Goals, TaskMoves
<1>2. CASE \E t \in Task : Start(t)
  BY <1>2, TaskSteps DEF Goals, TaskMoves, Planned, Start, Merge, Typed, FilesTyped, Projects, Task
<1>3. CASE \E t \in Task : Merge(t)
  BY <1>3, TaskSteps DEF Goals, TaskMoves, Planned, Start, Merge, Typed, FilesTyped, Projects, Task
<1>4. CASE \E e \in events, t \in Task : Verify(e, t)
  BY <1>4 DEF Goals, Typed, FilesTyped, RunsTyped, Planned, Merged, Verify, Projects
<1>5. CASE \E failed \in BOOLEAN : Feedback(failed)
  <2>1. PICK failed \in BOOLEAN : Feedback(failed)
    BY <1>5
  <2>2. verifier'.pc = "provenance" /\ verifier'.task # 2 => project.phase = "v1.6"
    BY <2>1 DEF Feedback, NeedsProvenance
  <2>3. QED BY <2>1, <2>2 DEF Feedback, Goals, Planned
<1>6. CASE \E failed \in BOOLEAN : LessonFeedback(failed)
  BY <1>6 DEF Goals, Typed, FilesTyped, RunsTyped, Planned, Merged, LessonFeedback
<1>7. CASE \E failed \in BOOLEAN : Provenance(failed)
  BY <1>7 DEF Goals, Typed, FilesTyped, RunsTyped, Planned, Merged, Provenance,
     Verifiers, Projects
<1>8. CASE SuccessorRead
  BY <1>8 DEF Goals, Typed, FilesTyped, RunsTyped, Planned, Merged, SuccessorRead,
     SuccessorRuns, ProofTwoActive, Successors, Task
<1>9. CASE SuccessorEvidence
  BY <1>9 DEF Goals, Typed, FilesTyped, RunsTyped, Planned, Merged, SuccessorEvidence,
     Successors
<1>10. CASE SuccessorState
  BY <1>10 DEF Goals, Typed, FilesTyped, RunsTyped, Planned, Merged, SuccessorState,
     Projects, Successors
<1>11. CASE SuccessorGoal
  BY <1>11 DEF Goals, Typed, FilesTyped, RunsTyped, Planned, Merged, SuccessorGoal,
     Successors
<1>12. CASE GraduateV15
  BY <1>12 DEF Goals, Typed, FilesTyped, RunsTyped, Planned, Merged, GraduateV15,
     Projects
<1>13. CASE ArmerRead
  BY <1>13 DEF Goals, Typed, FilesTyped, RunsTyped, Planned, Merged, ArmerRead, Audited
<1>14. CASE ArmerWrite
  BY <1>14 DEF Goals, Typed, FilesTyped, RunsTyped, Planned, Merged, ArmerWrite, Armers,
     Artifacts
<1>15. CASE ArmerGoal
  BY <1>15 DEF Goals, Typed, FilesTyped, RunsTyped, Planned, Merged, ArmerGoal, Armers
<1>16. CASE ArmerState
  BY <1>16 DEF Goals, Typed, FilesTyped, RunsTyped, Planned, Merged, ArmerState,
     Projects, Armers
<1>17. CASE GraduateV16
  BY <1>17 DEF Goals, Typed, FilesTyped, RunsTyped, Planned, Merged, GraduateV16,
     Projects
<1>18. CASE Kill
  BY <1>18 DEF Goals, Typed, FilesTyped, RunsTyped, Planned, Merged, Kill
<1>19. CASE UNCHANGED <<successor, goal, task, project, armer, verifier>>
  BY <1>19 DEF Goals, Typed, FilesTyped, RunsTyped, Planned, Merged
<1>20. QED
  BY <1>1, <1>2, <1>3, <1>4, <1>5, <1>6, <1>7, <1>8, <1>9, <1>10, <1>11, <1>12, <1>13,
     <1>14, <1>15, <1>16, <1>17, <1>18, <1>19, Writers

(* The outcome of a merge stays what it was. *)
LEMMA OutcomeStays ==
    ASSUME Typed, NEW t \in Task, Merged(t), [Next]_vars
    PROVE  Merged(t)' /\ Outcome(t)' = Outcome(t)
BY TaskSteps DEF TaskMoves, Merged, Outcome

(* Once proof 2 is asked for, the verdict of task 1 is settled. *)
LEMMA FirstStep ==
    ASSUME Typed, Verdicts, Fresh, Goals, FirstVerified, [Next]_vars
    PROVE  FirstVerified'
<1> DEFINE Asked == successor # Idle \/ goal.request # 1
<1>0. 1 \in Task
  BY DEF Task
<1>1. CASE Asked
  <2>1. /\ receipt[1] = "VERIFIED" /\ Outcome(1) \in store
        /\ ~(verifier.pc = "provenance" /\ verifier.task = 1)
    BY <1>1 DEF FirstVerified
  <2>2. Outcome(1)' \in store'
    BY <1>0, <2>1, OutcomeStays, StoreGrows DEF Verdicts
  <2>3. receipt'[1] = "VERIFIED"
    <3>1. CASE \E t \in Task : Merge(t)
      BY <1>0, <2>1, <3>1 DEF Merge, Verdicts, Merged, Typed, FilesTyped
    <3>2. CASE \E e \in events, t \in Task : Verify(e, t)
      BY <1>0, <2>1, <3>2 DEF Verify, Typed, FilesTyped
    <3>3. CASE \E failed \in BOOLEAN : Provenance(failed)
      BY <1>0, <2>1, <3>3 DEF Provenance, Typed, FilesTyped
    <3>4. QED BY <2>1, <3>1, <3>2, <3>3, Writers
  <2>4. ~(verifier'.pc = "provenance" /\ verifier'.task = 1)
    <3>1. CASE \E failed \in BOOLEAN : Feedback(failed)
      <4>1. Outcome(1).task = 1 BY DEF Outcome
      <4>2. verifier.fresh => verifier.task # 1
        BY <2>1, <3>1, <4>1 DEF Feedback, Fresh
      <4>3. QED BY <3>1, <4>2 DEF Feedback
    <3>2. CASE \/ \E e \in events, t \in Task : Verify(e, t)
               \/ \E failed \in BOOLEAN : LessonFeedback(failed) \/ Provenance(failed)
               \/ Kill
      BY <2>1, <3>2 DEF Verify, LessonFeedback, Provenance, Kill
    <3>3. QED BY <2>1, <3>1, <3>2, Writers
  <2>5. QED BY <2>2, <2>3, <2>4 DEF FirstVerified
<1>2. ASSUME ~Asked, Asked'
      PROVE  FirstVerified'
  <2>1. SuccessorRead
    <3>1. successor = Idle /\ goal.request = 1 /\ armer = Idle
      BY <1>2 DEF Goals
    <3>2. ~SuccessorEvidence /\ ~SuccessorState /\ ~SuccessorGoal /\ ~ArmerGoal
      BY <3>1 DEF SuccessorEvidence, SuccessorState, SuccessorGoal, ArmerGoal
    <3>3. Kill => successor' = Idle
      BY <3>1 DEF Kill
    <3>4. QED BY <1>2, <3>1, <3>2, <3>3, Writers
  <2>2. receipt[1] = "VERIFIED" /\ Outcome(1) \in store /\ Merged(1)
    BY <2>1 DEF SuccessorRead, Eligible
  <2>3. ~(verifier.pc = "provenance" /\ verifier.task = 1)
    BY <1>2 DEF Goals
  <2>4. Outcome(1)' \in store'
    BY <1>0, <2>2, OutcomeStays, StoreGrows
  <2>5. QED BY <2>1, <2>2, <2>3, <2>4 DEF SuccessorRead, FirstVerified
<1>3. QED BY <1>1, <1>2 DEF FirstVerified

(* What the audit of proof 2 found stays. *)
LEMMA SecondStep ==
    ASSUME Typed, Verdicts, Fresh, Goals, FirstVerified, SecondVerified, [Next]_vars
    PROVE  SecondVerified'
<1>0. 1 \in Task /\ 2 \in Task
  BY DEF Task
<1>1. CASE evidence
  <2>1. receipt[2] = "VERIFIED" /\ Merged(2) /\ Planned(2) /\ goal.request # 1
    BY <1>0, <1>1 DEF SecondVerified, Verdicts, Goals, Merged, Planned
  <2>2. receipt[1] = "VERIFIED" /\ Merged(1)
    BY <1>0, <2>1 DEF FirstVerified, Verdicts
  <2>3. task'[1] = task[1] /\ task'[2] = task[2]
    BY <1>0, <2>1, <2>2, TaskSteps DEF TaskMoves
  <2>4. Outcome(2)' \in store'
    BY <1>0, <1>1, <2>1, OutcomeStays, StoreGrows DEF SecondVerified
  <2>5. Outcome(1)' = Outcome(1)
    BY <1>0, <2>2, OutcomeStays
  <2>6. receipt'[2] = "VERIFIED" /\ provenance'[2] # NoProvenance
    <3>1. CASE \E t \in Task : Merge(t)
      BY <1>0, <1>1, <2>1, <3>1 DEF Merge, SecondVerified, Merged, Typed, FilesTyped
    <3>2. CASE \E e \in events, t \in Task : Verify(e, t)
      BY <1>0, <1>1, <2>1, <3>2 DEF Verify, SecondVerified, Typed, FilesTyped
    <3>3. CASE \E failed \in BOOLEAN : Provenance(failed)
      BY <1>0, <1>1, <2>1, <3>3 DEF Provenance, SecondVerified, Fresh, Typed, FilesTyped
    <3>4. QED BY <1>1, <2>1, <3>1, <3>2, <3>3, Writers DEF SecondVerified
  <2>7. QED BY <1>1, <2>3, <2>4, <2>5, <2>6 DEF SecondVerified
<1>2. CASE FreezeEvidence
  <2>1. /\ Merged(2) /\ receipt[2] = "VERIFIED"
        /\ BaseAgrees(2, task[1].merge) /\ MemoryWasReused /\ MemoryGrew
        /\ UNCHANGED <<task, receipt, provenance, store>>
    BY <1>2 DEF FreezeEvidence, Audited
  <2>2. Outcome(2) \in store /\ provenance[2] # NoProvenance
    BY <2>1 DEF MemoryGrew
  <2>3. QED
    BY <2>1, <2>2 DEF SecondVerified, BaseAgrees, MemoryWasReused, Outcome
<1>3. CASE evidence' = evidence /\ ~evidence
  BY <1>3 DEF SecondVerified
<1>4. QED BY <1>1, <1>2, <1>3, Writers

(* No copy of the state runs ahead of the proof. *)
LEMMA GraduatedStep ==
    ASSUME Typed, Graduated, [Next]_vars
    PROVE  Graduated'
<1>1. CASE \E t \in Task : Plan(t)
  BY <1>1 DEF Graduated, Typed, FilesTyped, RunsTyped, Projects, Plan
<1>2. CASE \E t \in Task : Start(t)
  BY <1>2 DEF Graduated, Typed, FilesTyped, RunsTyped, Projects, Start
<1>3. CASE \E t \in Task : Merge(t)
  BY <1>3 DEF Graduated, Typed, FilesTyped, RunsTyped, Projects, Merge
<1>4. CASE \E e \in events, t \in Task : Verify(e, t)
  BY <1>4 DEF Graduated, Typed, FilesTyped, RunsTyped, Projects, Verify
<1>5. CASE \E failed \in BOOLEAN : Provenance(failed)
  BY <1>5 DEF Graduated, Typed, FilesTyped, RunsTyped, Projects, Provenance
<1>6. CASE SuccessorRead
  BY <1>6 DEF Graduated, Typed, FilesTyped, RunsTyped, Projects, SuccessorRead,
     Successors
<1>7. CASE SuccessorEvidence
  BY <1>7 DEF Graduated, Typed, FilesTyped, RunsTyped, Projects, SuccessorEvidence,
     Successors
<1>8. CASE SuccessorState
  BY <1>8 DEF Graduated, Typed, FilesTyped, RunsTyped, Projects, SuccessorState,
     Successors
<1>9. CASE SuccessorGoal
  BY <1>9 DEF Graduated, Typed, FilesTyped, RunsTyped, Projects, SuccessorGoal,
     Successors
<1>10. CASE FreezeEvidence
  BY <1>10 DEF Graduated, Typed, FilesTyped, RunsTyped, Projects, FreezeEvidence
<1>11. CASE GraduateV15
  BY <1>11 DEF Graduated, Typed, FilesTyped, RunsTyped, Projects, GraduateV15
<1>12. CASE ArmerRead
  BY <1>12 DEF Graduated, Typed, FilesTyped, RunsTyped, Projects, ArmerRead, Armers
<1>13. CASE ArmerWrite
  BY <1>13 DEF Graduated, Typed, FilesTyped, RunsTyped, Projects, ArmerWrite, Armers
<1>14. CASE ArmerGoal
  BY <1>14 DEF Graduated, Typed, FilesTyped, RunsTyped, Projects, ArmerGoal, Armers
<1>15. CASE ArmerState
  BY <1>15 DEF Graduated, Typed, FilesTyped, RunsTyped, Projects, ArmerState, Armers
<1>16. CASE GraduateV16
  BY <1>16 DEF Graduated, Typed, FilesTyped, RunsTyped, Projects, GraduateV16
<1>17. CASE Kill
  BY <1>17 DEF Graduated, Typed, FilesTyped, RunsTyped, Projects, Kill
<1>18. CASE UNCHANGED <<project, evidence, successor, armer>>
  BY <1>18 DEF Graduated, Typed, FilesTyped, RunsTyped, Projects
<1>19. QED
  BY <1>1, <1>2, <1>3, <1>4, <1>5, <1>6, <1>7, <1>8, <1>9, <1>10, <1>11, <1>12, <1>13,
     <1>14, <1>15, <1>16, <1>17, <1>18, Writers

(* A write extends the chain by one artifact, or leaves it. *)
LEMMA ArmerWrites ==
    ASSUME Typed, ChainSoFar, ArmerWrite
    PROVE  /\ \A n \in 1..Len(chain) : chain'[n] = chain[n]
           /\ \/ chain' = chain
              \/ /\ Len(chain) < Artifacts /\ Len(chain') = Len(chain) + 1
                 /\ armer.next = Len(chain) + 1
                 /\ \A n \in 1..Len(chain') : chain'[n] = armer.store
           /\ armer' # Idle =>
                /\ armer.next <= Len(chain')
                /\ \A n \in 1..armer.next : chain'[n] = armer.store
<1>1. /\ armer.pc = "chain" /\ armer.next \in 1..Artifacts /\ armer.store \in Stores
      /\ chain \in Seq(Stores) /\ Len(chain) \in Nat
  BY DEF ArmerWrite, Typed, FilesTyped, RunsTyped, Armers
<1>2. /\ armer.next <= Len(chain) + 1
      /\ \A n \in 1..(armer.next - 1) : chain[n] = armer.store
  BY <1>1 DEF ChainSoFar
<1>3. CASE armer.next > Len(chain)
  <2>1. chain' = Append(chain, armer.store) /\ armer.next = Len(chain) + 1
    BY <1>1, <1>2, <1>3 DEF ArmerWrite, Artifacts
  <2>2. /\ Len(chain') = Len(chain) + 1 /\ chain'[armer.next] = armer.store
        /\ \A n \in 1..Len(chain) : chain'[n] = chain[n]
    BY <1>1, <2>1
  <2>3. \A n \in 1..Len(chain') : chain'[n] = armer.store
    BY <1>1, <1>2, <2>1, <2>2
  <2>4. Len(chain) < Artifacts
    BY <1>1, <1>3 DEF Artifacts
  <2>5. QED BY <1>1, <2>1, <2>2, <2>3, <2>4
<1>4. CASE armer.next <= Len(chain)
  <2>1. chain' = chain
    BY <1>1, <1>4 DEF ArmerWrite, Artifacts
  <2>2. armer' # Idle => chain[armer.next] = armer.store
    BY <1>1, <1>4 DEF ArmerWrite, Drifts
  <2>3. QED BY <1>1, <1>2, <1>4, <2>1, <2>2 DEF Artifacts
<1>5. QED BY <1>1, <1>3, <1>4 DEF Artifacts

(* The chain is of one store. *)
LEMMA ChainOneStep ==
    ASSUME Typed, Goals, ChainSoFar, ChainIsOne, [Next]_vars
    PROVE  ChainIsOne'
<1>1. CASE \E t \in Task : Plan(t)
  BY <1>1 DEF ChainIsOne, ChainSoFar, Goals, Typed, FilesTyped, RunsTyped, Planned, Plan
<1>2. CASE \E t \in Task : Start(t)
  BY <1>2 DEF ChainIsOne, ChainSoFar, Goals, Typed, FilesTyped, RunsTyped, Planned, Start
<1>3. CASE \E t \in Task : Merge(t)
  BY <1>3 DEF ChainIsOne, ChainSoFar, Goals, Typed, FilesTyped, RunsTyped, Planned, Merge
<1>4. CASE SuccessorGoal
  BY <1>4 DEF ChainIsOne, ChainSoFar, Goals, Typed, FilesTyped, RunsTyped, Planned,
     SuccessorGoal
<1>5. CASE ArmerWrite
  <2>1. goal.request = 3 \/ Planned(3) => chain' = chain
    BY <1>5, ArmerWrites DEF ChainIsOne, Goals, Typed, FilesTyped, Task
  <2>2. \A n \in 1..Len(chain') : chain'[n] = chain'[1]
    BY <1>5, ArmerWrites DEF ChainIsOne, Typed, FilesTyped
  <2>3. UNCHANGED <<goal, task>>
    BY <1>5 DEF ArmerWrite
  <2>4. QED BY <2>1, <2>2, <2>3 DEF ChainIsOne, Planned
<1>6. CASE ArmerGoal
  BY <1>6 DEF ChainIsOne, ChainSoFar, Goals, Typed, FilesTyped, RunsTyped, Planned,
     ArmerGoal, Armers
<1>7. CASE UNCHANGED <<chain, goal, task>>
  BY <1>7 DEF ChainIsOne, ChainSoFar, Goals, Typed, FilesTyped, RunsTyped, Planned
<1>8. QED
  BY <1>1, <1>2, <1>3, <1>4, <1>5, <1>6, <1>7, Writers

(* The run keeps to the chain. *)
LEMMA ChainSoFarStep ==
    ASSUME Typed, ChainSoFar, [Next]_vars
    PROVE  ChainSoFar'
<1>1. CASE ArmerRead
  BY <1>1 DEF ChainSoFar, Typed, FilesTyped, RunsTyped, Armers, Artifacts, ArmerRead
<1>2. CASE ArmerWrite
  <2>1. armer \in [pc : {"chain", "goal", "state"}, next : 1..Artifacts, store : Stores,
                   project : Projects]
    BY <1>2 DEF ArmerWrite, Typed, RunsTyped, Armers
  <2>2. \/ armer' = Idle
        \/ armer' = [armer EXCEPT !.next = armer.next + 1]
        \/ armer.next = Artifacts /\ armer' = [armer EXCEPT !.pc = "goal"]
    BY <1>2, <2>1 DEF ArmerWrite, Artifacts
  <2>3. Len(chain') <= Artifacts /\ Len(chain') \in Nat
    BY FrozenTyped
  <2>4. CASE armer' = Idle
    BY <2>4 DEF ChainSoFar
  <2>5. CASE armer' # Idle
    <3>1. /\ armer.next <= Len(chain')
          /\ \A n \in 1..armer.next : chain'[n] = armer.store
          /\ armer.pc = "chain"
      BY <1>2, <2>5, ArmerWrites DEF ArmerWrite
    <3>2. CASE armer' = [armer EXCEPT !.next = armer.next + 1]
      <4>1. /\ armer'.pc = "chain" /\ armer'.next = armer.next + 1
            /\ armer'.store = armer.store
        BY <2>1, <3>1, <3>2
      <4>2. armer.next \in Nat /\ armer'.next - 1 = armer.next
        BY <2>1, <4>1 DEF Artifacts
      <4>3. QED BY <2>3, <3>1, <4>1, <4>2 DEF ChainSoFar
    <3>3. CASE armer.next = Artifacts /\ armer' = [armer EXCEPT !.pc = "goal"]
      <4>1. armer'.pc = "goal" /\ armer'.store = armer.store
        BY <2>1, <3>3
      <4>2. Len(chain') = Artifacts /\ 1 \in 1..armer.next
        <5>1. armer.next = 6 /\ armer.next <= Len(chain')
          BY <3>1, <3>3 DEF Artifacts
        <5>2. Len(chain') \in Nat /\ Len(chain') <= 6
          BY <2>3 DEF Artifacts
        <5>3. Len(chain') = 6
          <6>1. \A k \in Nat : k <= 6 /\ 6 <= k => k = 6
            OBVIOUS
          <6>2. 6 <= Len(chain')
            BY <5>1
          <6>3. QED BY <5>2, <6>1, <6>2
        <5>4. QED BY <5>1, <5>3 DEF Artifacts
      <4>3. chain'[1] = armer.store
        BY <3>1, <4>2
      <4>4. QED BY <4>1, <4>2, <4>3 DEF ChainSoFar
    <3>4. QED BY <2>2, <2>5, <3>2, <3>3
  <2>6. QED BY <2>4, <2>5
<1>3. CASE ArmerGoal
  BY <1>3 DEF ChainSoFar, Typed, FilesTyped, RunsTyped, Armers, Artifacts, ArmerGoal
<1>4. CASE ArmerState
  BY <1>4 DEF ChainSoFar, Typed, FilesTyped, RunsTyped, Armers, Artifacts, ArmerState
<1>5. CASE Kill
  BY <1>5 DEF ChainSoFar, Typed, FilesTyped, RunsTyped, Armers, Artifacts, Kill
<1>6. CASE UNCHANGED <<armer, chain>>
  BY <1>6 DEF ChainSoFar, Typed, FilesTyped, RunsTyped, Armers, Artifacts
<1>7. QED
  BY <1>1, <1>2, <1>3, <1>4, <1>5, <1>6, Writers

(* The source of the chain is a store of the past. *)
LEMMA ChainKeptStep ==
    ASSUME Typed, ChainSoFar, ChainKept, [Next]_vars
    PROVE  ChainKept'
<1>1. CASE \E failed \in BOOLEAN : Feedback(failed)
  BY <1>1, StoreGrows DEF ChainKept, ChainSoFar, Typed, FilesTyped, RunsTyped, Armers,
     Feedback
<1>2. CASE \E failed \in BOOLEAN : LessonFeedback(failed)
  BY <1>2, StoreGrows DEF ChainKept, ChainSoFar, Typed, FilesTyped, RunsTyped, Armers,
     LessonFeedback
<1>3. CASE ArmerRead
  BY <1>3, StoreGrows DEF ChainKept, ChainSoFar, Typed, FilesTyped, RunsTyped, Armers,
     ArmerRead
<1>4. CASE ArmerWrite
  BY <1>4, StoreGrows DEF ChainKept, ChainSoFar, Typed, FilesTyped, RunsTyped, Armers,
     ArmerWrite
<1>5. CASE ArmerGoal
  BY <1>5, StoreGrows DEF ChainKept, ChainSoFar, Typed, FilesTyped, RunsTyped, Armers,
     ArmerGoal
<1>6. CASE ArmerState
  BY <1>6, StoreGrows DEF ChainKept, ChainSoFar, Typed, FilesTyped, RunsTyped, Armers,
     ArmerState
<1>7. CASE Kill
  BY <1>7, StoreGrows DEF ChainKept, ChainSoFar, Typed, FilesTyped, RunsTyped, Armers,
     Kill
<1>8. CASE UNCHANGED <<armer, chain, store>>
  BY <1>8 DEF ChainKept, ChainSoFar, Typed, FilesTyped, RunsTyped, Armers
<1>9. QED
  BY <1>1, <1>2, <1>3, <1>4, <1>5, <1>6, <1>7, <1>8, Writers

(* The empty set has no elements to count. *)
LEMMA EmptyIsZero == Cardinality({}) = 0
BY FS_EmptySet

(* What the finalizer of proof 3 begins with stays. *)
LEMMA ThirdStep ==
    ASSUME IInv, [Next]_vars
    PROVE  ThirdFound'
<1>0. 2 \in Task /\ 3 \in Task
  BY DEF Task
<1>1. CASE finalizer # Idle \/ proof # <<>>
  <2>1. /\ evidence /\ chain # <<>> /\ Merged(3) /\ task[3].base = task[2].merge
        /\ Outcome(2) \in chain[1]
    BY <1>1 DEF IInv, ThirdFound
  <2>2. Merged(2)
    BY <1>0, <2>1 DEF IInv, SecondVerified, Verdicts
  <2>3. task'[2] = task[2] /\ task'[3] = task[3] /\ Outcome(2)' = Outcome(2)
    BY <1>0, <2>1, <2>2, TaskSteps, OutcomeStays DEF IInv, TaskMoves
  <2>4. chain'[1] = chain[1] /\ chain' # <<>>
    <3>1. CASE chain' = chain
      BY <2>1, <3>1
    <3>2. CASE ArmerWrite
      <4>1. chain \in Seq(Stores) /\ 1 \in 1..Len(chain)
        BY <2>1 DEF IInv, Typed, FilesTyped
      <4>2. chain' \in Seq(Stores) /\ Len(chain') >= Len(chain)
        BY <3>2, <4>1, ArmerWrites, FrozenTyped DEF IInv
      <4>3. QED BY <3>2, <4>1, <4>2, ArmerWrites DEF IInv
    <3>3. QED BY <3>1, <3>2, Writers
  <2>5. evidence'
    BY <2>1, Writers DEF FreezeEvidence
  <2>6. QED BY <2>1, <2>3, <2>4, <2>5 DEF ThirdFound, Merged
<1>2. CASE FinalizerRead
  <2>1. /\ project.graduated = 5 /\ ChainIsWhole /\ Merged(3) /\ BaseIsOfSource
        /\ UNCHANGED <<evidence, chain, task>>
    BY <1>2 DEF FinalizerRead, Finalizable, ProofThreeVerified
  <2>2. evidence
    BY <2>1 DEF IInv, Graduated
  <2>3. PICK r \in chain[1] : r.task = 2 /\ r.kind = "VERIFIED_OUTCOME" /\ task[3].base = r.sha
    <3>1. SourceOutcomes(chain[1]) # {}
      BY <2>1, EmptyIsZero DEF ChainIsWhole
    <3>2. QED BY <2>1, <3>1 DEF BaseIsOfSource, SourceOutcomes
  <2>4. chain # <<>>
    BY <2>1 DEF ChainIsWhole, Artifacts
  <2>5. r \in store /\ r \in Record
    BY <2>3, <2>4 DEF IInv, ChainKept, Typed, FilesTyped, Stores
  <2>6. r = Outcome(2) /\ r.sha = task[2].merge
    BY <2>3, <2>5 DEF IInv, Records, Record, Outcome
  <2>7. QED BY <2>1, <2>2, <2>3, <2>4, <2>6 DEF ThirdFound, Merged, Outcome
<1>3. CASE finalizer' = Idle /\ proof' = <<>>
  BY <1>3 DEF ThirdFound
<1>4. QED
  BY <1>1, <1>2, <1>3, Writers DEF FinalizerWrite, Kill

(* The invariant is inductive. *)
LEMMA StepInv ==
    ASSUME IInv, [Next]_vars
    PROVE  IInv'
BY TypedStep, VerdictsStep, RecordsStep, FreshStep, GoalsStep, FirstStep, SecondStep,
   GraduatedStep, ChainOneStep, ChainSoFarStep, ChainKeptStep, ThirdStep DEF IInv

(* It says of the history what the graduations claim. *)
LEMMA InvEarned == IInv => GraduationIsEarned
<1> SUFFICES ASSUME IInv PROVE GraduationIsEarned
  OBVIOUS
<1>0. 1 \in Task /\ 2 \in Task
  BY DEF Task
<1>1. ASSUME evidence
      PROVE  /\ {Outcome(1), Outcome(2)} \subseteq store
             /\ Lesson(1) \notin store /\ Lesson(2) \notin store
  <2>1. receipt[2] = "VERIFIED" /\ Outcome(2) \in store
    BY <1>1 DEF IInv, SecondVerified
  <2>2. goal.request # 1
    BY <1>0, <2>1 DEF IInv, Verdicts, Goals, Merged, Planned
  <2>3. receipt[1] = "VERIFIED" /\ Outcome(1) \in store
    BY <2>2 DEF IInv, FirstVerified
  <2>4. \A t \in {1, 2} : Lesson(t) \in store => receipt[t] = "HUMAN_WAIT"
    BY DEF IInv, Records, Lesson
  <2>5. QED BY <2>1, <2>3, <2>4
<1>2. QED BY <1>1 DEF IInv, SecondVerified, ThirdFound, GraduationIsEarned

(* The graduations of v1.5 and v1.6 rest on what happened: each proof was  *)
(* planned and built on the commit that the verification before it was     *)
(* about, and every outcome is on record (the audits of                    *)
(* v1_5_graduation_finalize.py and v1_6_backlog_finalize.py, which compare *)
(* files only).                                                            *)
THEOREM GraduationsEarned == Spec => []GraduationIsEarned
<1>1. QED BY InitInv, StepInv, InvEarned, PTL DEF Spec

(* The frozen artifacts of proof 3 derive from one store, and the goal and *)
(* the plan are theirs (_write_once_json in v1_6_backlog_successor.py,     *)
(* which every run enters with the live store).                            *)
THEOREM OneChain == Spec => []ChainIsOne
<1>1. IInv => ChainIsOne
  BY DEF IInv
<1>2. QED BY <1>1, InitInv, StepInv, PTL DEF Spec

=============================================================================
