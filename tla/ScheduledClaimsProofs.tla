------------------------ MODULE ScheduledClaimsProofs ------------------------
(***************************************************************************)
(* Proofs about the scheduler, the lease and their composition, for every  *)
(* graph that satisfies GraphAssumption and any number of runs, tasks and  *)
(* instants.                                                               *)
(*                                                                         *)
(* The scheduler's three invariants are inductive together; the work is in *)
(* ActivationSound, which says what one activation preserves, because      *)
(* every operation is a change of one task followed by it.                 *)
(*                                                                         *)
(* The lease's invariant relates the file to the grants: a grant of the    *)
(* current epoch is the lease in the file or an earlier attempt that       *)
(* expired before the file's lease began; and a run about to write holds a *)
(* successor of the file it read, which the compare-and-swap makes a       *)
(* successor of the file that it replaces.                                 *)
(*                                                                         *)
(* The composition implements both, so that what is proved of one side     *)
(* holds however the other interferes.                                     *)
(*                                                                         *)
(* The second part is about what gives the scheduler its graph: planning,  *)
(* for any number of concurrency groups, requests, faults and proposals.   *)
(* A planner run acts on what it read when it began, and a run of another  *)
(* group may have written since.  The invariant has two layers: what holds *)
(* of every run (AlwaysInv), in which a run that no other has overtaken    *)
(* (Fresh) still sees the current task it saw; and, until a run has        *)
(* written over what it had not read, how the requests follow each other   *)
(* and how much of an activation is in the files at each of its writes     *)
(* (OrderInv).  A write leaves no other run fresh, so that only the        *)
(* writer's own part has to be looked at.                                  *)
(***************************************************************************)
EXTENDS ScheduledClaims, PlanningStart, TLAPS

-----------------------------------------------------------------------------
\* The scheduler.

\* The invariants as predicates of a payload, so that they can be stated of
\* the intermediate payload between a status change and the activation.
Typed(g) == g \in [Task -> Status]

DepsDone(g) ==
    \A t \in Task : g[t] # "PENDING" => \A d \in Deps[t] : g[d] = "COMPLETED"

OneRunning(g) ==
    \A t, u \in Task : g[t] = "RUNNING" /\ g[u] = "RUNNING" => t = u

NothingIdle(g) ==
    (\A t \in Task : g[t] # "RUNNING") => Runnable(g) = {}

Sound(g) == Typed(g) /\ DepsDone(g) /\ OneRunning(g)

GraphInv == Sound(graph) /\ NothingIdle(graph)

\* Activation keeps the dependency and single-runner rules of the payload it
\* is applied to, and leaves no safe work idle.
LEMMA ActivationSound ==
    ASSUME NEW g, Sound(g), NEW n, Selected(g, n)
    PROVE  Sound(Activated(g, n)) /\ NothingIdle(Activated(g, n))
<1>1. CASE n = NoTask
  <2>1. Activated(g, n) = g
    BY <1>1 DEF Activated
  <2>2. (\E t \in Task : g[t] = "RUNNING") \/ Runnable(g) = {}
    <3>1. CASE \E t \in Task : g[t] = "RUNNING"
      BY <3>1
    <3>2. CASE ~ \E t \in Task : g[t] = "RUNNING"
      <4>1. n \notin Runnable(g)
        BY <1>1, DagGraphAssumption DEF GraphAssumption, Runnable
      <4>2. QED
        BY <3>2, <4>1 DEF Selected
    <3>3. QED
      BY <3>1, <3>2
  <2>3. QED
    BY <2>1, <2>2 DEF NothingIdle
<1>2. CASE n # NoTask
  <2>1. /\ \A t \in Task : g[t] # "RUNNING"
        /\ n \in Runnable(g)
    BY <1>2 DEF Selected
  <2>2. /\ n \in Task
        /\ g[n] = "PENDING"
        /\ \A d \in Deps[n] : g[d] = "COMPLETED"
    BY <2>1 DEF Runnable
  <2> DEFINE h == Activated(g, n)
  <2>3. h = [g EXCEPT ![n] = "RUNNING"]
    BY <1>2 DEF Activated
  <2>4. Typed(h)
    BY <2>2, <2>3 DEF Sound, Typed, Status
  <2>5. \A t \in Task : h[t] = IF t = n THEN "RUNNING" ELSE g[t]
    BY <2>3 DEF Sound, Typed
  <2>6. DepsDone(h)
    <3> SUFFICES ASSUME NEW t \in Task, h[t] # "PENDING", NEW d \in Deps[t]
                 PROVE  h[d] = "COMPLETED"
      BY DEF DepsDone
    <3>1. d \in Task
      BY DagGraphAssumption DEF GraphAssumption
    <3>2. g[d] = "COMPLETED"
      BY <2>2, <2>5 DEF Sound, DepsDone
    <3>3. d # n
      BY <2>2, <3>2
    <3>4. QED
      BY <2>5, <3>1, <3>2, <3>3
  <2>7. OneRunning(h)
    BY <2>1, <2>5 DEF OneRunning
  <2>8. NothingIdle(h)
    BY <2>2, <2>5 DEF NothingIdle
  <2>9. QED
    BY <2>4, <2>6, <2>7, <2>8 DEF Sound
<1>3. QED
  BY <1>1, <1>2

\* Moving a running task out of RUNNING, or completing a parked one, keeps
\* the payload sound: nothing that depends on it has started.
LEMMA StatusChangeSound ==
    ASSUME NEW g, Sound(g), NEW t \in Task,
           NEW s \in {"WAITING_REVIEW", "COMPLETED"},
           g[t] \in {"RUNNING", "WAITING_REVIEW"}
    PROVE  Sound(WithStatus(g, t, s))
<1> DEFINE h == WithStatus(g, t, s)
<1>1. Typed(h)
  BY DEF Sound, Typed, Status, WithStatus
<1>2. \A u \in Task : h[u] = IF u = t THEN s ELSE g[u]
  BY DEF Sound, Typed, WithStatus
<1>3. DepsDone(h)
  <2> SUFFICES ASSUME NEW u \in Task, h[u] # "PENDING", NEW d \in Deps[u]
               PROVE  h[d] = "COMPLETED"
    BY DEF DepsDone
  <2>1. d \in Task
    BY DagGraphAssumption DEF GraphAssumption
  <2>2. g[u] # "PENDING"
    BY <1>2
  <2>3. g[d] = "COMPLETED"
    BY <2>2 DEF Sound, DepsDone
  <2>4. QED
    BY <1>2, <2>1, <2>3
<1>4. OneRunning(h)
  BY <1>2 DEF Sound, OneRunning
<1>5. QED
  BY <1>1, <1>3, <1>4 DEF Sound

\* A fresh plan is sound.
LEMMA InitSound == Init => GraphInv
<1> SUFFICES ASSUME Init PROVE GraphInv
  OBVIOUS
<1>1. PICK first \in Task :
        /\ Deps[first] = {}
        /\ graph = [t \in Task |-> IF t = first THEN "RUNNING" ELSE "PENDING"]
  BY DEF Init
<1>2. Sound(graph)
  BY <1>1 DEF Sound, Typed, DepsDone, OneRunning, Status
<1>3. NothingIdle(graph)
  BY <1>1 DEF NothingIdle
<1>4. QED
  BY <1>2, <1>3 DEF GraphInv

\* Every operation keeps the graph sound.
LEMMA StepSound == GraphInv /\ [Next]_graph => GraphInv'
<1> SUFFICES ASSUME GraphInv, [Next]_graph PROVE GraphInv'
  OBVIOUS
<1>1. ASSUME NEW t \in Task, Advance(t) PROVE GraphInv'
  <2>1. PICK n \in Task \cup {NoTask} : AdvanceResult(graph, t, graph', n)
    BY <1>1 DEF Advance
  <2>2. Sound(WithStatus(graph, t, "COMPLETED"))
    BY <2>1, StatusChangeSound DEF AdvanceResult, GraphInv
  <2>3. QED
    BY <2>1, <2>2, ActivationSound DEF AdvanceResult, GraphInv
<1>2. ASSUME NEW t \in Task, ParkForReview(t) PROVE GraphInv'
  <2>1. PICK n \in Task \cup {NoTask} : ParkResult(graph, t, graph', n)
    BY <1>2 DEF ParkForReview
  <2>2. Sound(WithStatus(graph, t, "WAITING_REVIEW"))
    BY <2>1, StatusChangeSound DEF ParkResult, GraphInv
  <2>3. QED
    BY <2>1, <2>2, ActivationSound DEF ParkResult, GraphInv
<1>3. ASSUME NEW t \in Task, ReconcileReview(t) PROVE GraphInv'
  <2>1. PICK n \in Task \cup {NoTask} : ReconcileResult(graph, t, graph', n)
    BY <1>3 DEF ReconcileReview
  <2>2. CASE graph[t] = "COMPLETED" /\ graph' = graph
    BY <2>2 DEF GraphInv, Sound, Typed, DepsDone, OneRunning, NothingIdle, Runnable
  <2>3. CASE /\ graph[t] = "WAITING_REVIEW"
             /\ Selected(WithStatus(graph, t, "COMPLETED"), n)
             /\ graph' = Activated(WithStatus(graph, t, "COMPLETED"), n)
    <3>1. Sound(WithStatus(graph, t, "COMPLETED"))
      BY <2>3, StatusChangeSound DEF GraphInv
    <3>2. QED
      BY <2>3, <3>1, ActivationSound DEF GraphInv
  <2>4. QED
    BY <2>1, <2>2, <2>3 DEF ReconcileResult
<1>4. CASE UNCHANGED graph
  BY <1>4 DEF GraphInv, Sound, Typed, DepsDone, OneRunning, NothingIdle, Runnable
<1>5. QED
  BY <1>1, <1>2, <1>3, <1>4 DEF Next

\* So it is in every reachable state.
LEMMA GraphInvariant == Spec => []GraphInv
<1>1. QED
  BY InitSound, StepSound, PTL DEF Spec

\* The graph file always holds a well-formed status map.
THEOREM DagTypeCorrect == Spec => []TypeOK
<1>1. GraphInv => TypeOK
  BY DEF GraphInv, Sound, Typed, TypeOK
<1>2. QED
  BY <1>1, GraphInvariant, PTL

\* No dependent of an unfinished task is ever started, by any operation of
\* dag_controller in any order.
THEOREM DagDependencySafety == Spec => []DependencySafety
<1>1. GraphInv => DependencySafety
  BY DEF GraphInv, Sound, DepsDone, DependencySafety
<1>2. QED
  BY <1>1, GraphInvariant, PTL

\* The controllers never have two RUNNING nodes.
THEOREM DagOneRunning == Spec => []AtMostOneRunning
<1>1. GraphInv => AtMostOneRunning
  BY DEF GraphInv, Sound, OneRunning, AtMostOneRunning
<1>2. QED
  BY <1>1, GraphInvariant, PTL

\* When nothing runs, nothing is runnable: no operation forgets to activate.
THEOREM DagWorkConserving == Spec => []WorkConserving
<1>1. GraphInv => WorkConserving
  BY DEF GraphInv, NothingIdle, WorkConserving
<1>2. QED
  BY <1>1, GraphInvariant, PTL

\* Activation changes no task but a pending one, and NoTask is none.
LEMMA ActivationQuiet ==
    ASSUME NEW g, Typed(g), NEW n, Selected(g, n),
           NEW u \in Task, g[u] # "PENDING"
    PROVE  Activated(g, n)[u] = g[u]
<1>1. CASE n = NoTask
  BY <1>1 DEF Activated
<1>2. CASE n # NoTask
  <2>1. n \in Task /\ g[n] = "PENDING"
    BY <1>2 DEF Selected, Runnable
  <2>2. QED
    BY <1>2, <2>1 DEF Activated, Typed
<1>3. QED
  BY <1>1, <1>2

\* What one step does to the tasks that have left PENDING: at most one of them
\* changes, out of RUNNING or out of WAITING_REVIEW, and a parked one only to
\* COMPLETED.
LEMMA StepIsOrderly ==
    ASSUME GraphInv, [Next]_graph
    PROVE  \A u \in Task :
             /\ graph[u] = "COMPLETED" => graph'[u] = "COMPLETED"
             /\ graph[u] = "WAITING_REVIEW" =>
                   graph'[u] \in {"WAITING_REVIEW", "COMPLETED"}
             /\ graph[u] = "RUNNING" /\ graph'[u] # "RUNNING" =>
                   \A t \in Task : graph[t] = "WAITING_REVIEW" =>
                                     graph'[t] = "WAITING_REVIEW"
<1> DEFINE Orderly ==
      \A u \in Task :
        /\ graph[u] = "COMPLETED" => graph'[u] = "COMPLETED"
        /\ graph[u] = "WAITING_REVIEW" =>
              graph'[u] \in {"WAITING_REVIEW", "COMPLETED"}
        /\ graph[u] = "RUNNING" /\ graph'[u] # "RUNNING" =>
              \A t \in Task : graph[t] = "WAITING_REVIEW" =>
                                graph'[t] = "WAITING_REVIEW"
<1>1. ASSUME NEW t \in Task, NEW n, NEW s \in {"WAITING_REVIEW", "COMPLETED"},
             \/ graph[t] = "RUNNING"
             \/ graph[t] = "WAITING_REVIEW",
             Selected(WithStatus(graph, t, s), n),
             graph' = Activated(WithStatus(graph, t, s), n)
      PROVE  Orderly
  <2> DEFINE c == WithStatus(graph, t, s)
  <2>1. Typed(graph)
    BY DEF GraphInv, Sound
  <2>2. Typed(c) /\ \A u \in Task : c[u] = IF u = t THEN s ELSE graph[u]
    BY <2>1 DEF Typed, WithStatus, Status
  <2>3. \A u \in Task : c[u] # "PENDING" => graph'[u] = c[u]
    BY <1>1, <2>2, ActivationQuiet
  <2>4. \A u \in Task : graph[u] # "PENDING" =>
          graph'[u] = IF u = t THEN s ELSE graph[u]
    BY <2>2, <2>3
  <2>5. QED
    BY <1>1, <2>4
<1>2. ASSUME NEW t \in Task, Advance(t) PROVE Orderly
  BY <1>1, <1>2 DEF Advance, AdvanceResult
<1>3. ASSUME NEW t \in Task, ParkForReview(t) PROVE Orderly
  BY <1>1, <1>3 DEF ParkForReview, ParkResult
<1>4. ASSUME NEW t \in Task, ReconcileReview(t) PROVE Orderly
  BY <1>1, <1>4 DEF ReconcileReview, ReconcileResult
<1>5. CASE UNCHANGED graph
  BY <1>5
<1>6. QED
  BY <1>2, <1>3, <1>4, <1>5 DEF Next

\* A completed task is never reopened and a parked one is only ever completed,
\* whatever is merged, parked or activated meanwhile.
THEOREM DagReviewIsFinal == Spec => ReviewIsFinal
<1>1. GraphInv /\ [Next]_graph =>
        [ \A t \in Task :
            /\ graph[t] = "COMPLETED" => graph'[t] = "COMPLETED"
            /\ graph[t] = "WAITING_REVIEW" =>
                  graph'[t] \in {"WAITING_REVIEW", "COMPLETED"} ]_graph
  BY StepIsOrderly
<1>2. QED
  BY <1>1, GraphInvariant, PTL DEF Spec, ReviewIsFinal

\* A late merge completes its own task and does not stop the running one.
THEOREM DagLateMergeIsQuiet == Spec => LateMergeIsQuiet
<1>1. GraphInv /\ [Next]_graph =>
        [ \A t, u \in Task :
            /\ graph[t] = "WAITING_REVIEW"
            /\ graph'[t] = "COMPLETED"
            /\ graph[u] = "RUNNING"
            => graph'[u] = "RUNNING" ]_graph
  BY StepIsOrderly
<1>2. QED
  BY <1>1, GraphInvariant, PTL DEF Spec, LateMergeIsQuiet


-----------------------------------------------------------------------------
\* The lease.

\* n may follow l in the file within an epoch.
Follows(n, l) == n.attempt = l.attempt + 1 /\ l.until <= n.from

WriteInv ==
    \A o \in Owner :
        run[o].pc = "write" =>
            /\ run[o].new.from < run[o].new.until
            /\ run[o].seen # NoLease /\ run[o].seen.task = run[o].new.task
                 => Follows(run[o].new, run[o].seen)

FileInv ==
    /\ lease # NoLease => lease.from < lease.until
    /\ lease = NoLease => grants = {}
    /\ \A g \in grants :
         /\ g.epoch <= epoch
         /\ g.epoch = epoch =>
              \/ g.lease = lease
              \/ /\ g.lease.attempt < lease.attempt
                 /\ g.lease.until <= lease.from

LeaseInv == Claims!TypeOK /\ WriteInv /\ FileInv /\ Claims!LeaseExclusive

\* What acquire_lease returns is a lease, is not empty, and follows an expired
\* lease on the same task.
LEMMA AcquiredSound ==
    ASSUME NEW cur \in Claims!Lease \cup {NoLease}, NEW t \in LeaseTask,
           NEW o \in Owner, NEW now \in Nat,
           Claims!Acquired(cur, t, o, now) # cur
    PROVE  /\ Claims!Acquired(cur, t, o, now) \in Claims!Lease
           /\ Claims!Acquired(cur, t, o, now).task = t
           /\ Claims!Acquired(cur, t, o, now).from < Claims!Acquired(cur, t, o, now).until
           /\ cur # NoLease /\ cur.task = t
                => Follows(Claims!Acquired(cur, t, o, now), cur)
BY ExecutionLeaseAssumption
   DEF LeaseAssumption, Claims!Lease, Claims!Acquired, Claims!NewLease,
       Claims!IsLive, Follows

\* Initially nothing is granted.
LEMMA LeaseInit == Claims!Init => LeaseInv
BY ExecutionLeaseAssumption
   DEF LeaseAssumption, Claims!Init, LeaseInv, Claims!TypeOK, WriteInv, FileInv,
       Claims!LeaseExclusive, Claims!Idle

\* A successful write keeps every grant of the epoch apart from the new one.
LEMMA WriteSound ==
    ASSUME LeaseInv, NEW o \in Owner, Claims!Write(o)
    PROVE  LeaseInv'
<1>1. /\ run[o].pc = "write" /\ run[o].new \in Claims!Lease
      /\ run[o].seen \in Claims!Lease \cup {NoLease}
      /\ run[o].new.from < run[o].new.until
  BY DEF LeaseInv, Claims!TypeOK, WriteInv, Claims!Write
<1>2. /\ run' = [run EXCEPT ![o] = Claims!Done] /\ clock' = clock
      /\ WriteInv'
  BY DEF LeaseInv, Claims!TypeOK, WriteInv, Claims!Write, Claims!Done
<1>3. CASE ~Claims!SameLease(o)
  BY <1>2, <1>3
    DEF LeaseInv, Claims!TypeOK, Claims!Write, FileInv, Claims!LeaseExclusive,
        Claims!Done
<1>4. CASE Claims!SameLease(o)
  <2> DEFINE new == run[o].new
  <2> DEFINE e == IF lease # NoLease /\ lease.task # new.task
                  THEN epoch + 1 ELSE epoch
  <2>1. /\ lease' = new /\ epoch' = e
        /\ grants' = grants \cup {[lease |-> new, epoch |-> e]}
    BY <1>4 DEF Claims!Write, Claims!Grant
  <2>2. new \in Claims!Lease /\ NoLease \notin Claims!Lease /\ e \in Nat /\ epoch \in Nat
    BY <1>1, ExecutionLeaseAssumption
       DEF LeaseInv, Claims!TypeOK, LeaseAssumption, Claims!Lease
  <2>3. Claims!TypeOK'
    BY <1>2, <2>1, <2>2 DEF LeaseInv, Claims!TypeOK, Claims!Done
  <2>4. \A g \in grants :
          g.epoch = e => /\ g.lease.attempt < new.attempt
                         /\ g.lease.until <= new.from
    <3> SUFFICES ASSUME NEW g \in grants, g.epoch = e
                 PROVE  g.lease.attempt < new.attempt /\ g.lease.until <= new.from
      OBVIOUS
    <3>1. g.lease \in Claims!Lease /\ g.epoch \in Nat
      BY DEF LeaseInv, Claims!TypeOK
    <3>2. lease # NoLease /\ lease \in Claims!Lease /\ lease.from < lease.until
      BY DEF LeaseInv, Claims!TypeOK, FileInv
    <3>3. lease.task = new.task /\ g.epoch = epoch
      BY <2>2, <3>1, <3>2 DEF LeaseInv, FileInv
    <3>4. new.attempt = lease.attempt + 1 /\ lease.until <= new.from
      BY <1>1, <1>4, <3>2, <3>3 DEF LeaseInv, WriteInv, Claims!SameLease, Follows
    <3>5. \/ g.lease = lease
          \/ g.lease.attempt < lease.attempt /\ g.lease.until <= lease.from
      BY <3>3 DEF LeaseInv, FileInv
    <3> HIDE DEF new
    <3> QED
      BY <2>2, <3>1, <3>2, <3>4, <3>5 DEF Claims!Lease
  <2>5. FileInv'
    <3>1. lease' # NoLease /\ lease'.from < lease'.until
      BY <1>1, <2>1, <2>2
    <3>2. \A g \in grants' :
            g \in grants \/ g = [lease |-> new, epoch |-> e]
      BY <2>1
    <3>3. \A g \in grants : g.epoch <= e /\ g.epoch \in Nat
      BY <2>2 DEF LeaseInv, Claims!TypeOK, FileInv
    <3> HIDE DEF new, e
    <3> QED
      BY <2>1, <2>2, <2>4, <3>1, <3>2, <3>3 DEF FileInv
  <2>6. Claims!LeaseExclusive'
    <3>1. \A g \in grants : g.lease \in Claims!Lease
      BY DEF LeaseInv, Claims!TypeOK
    <3>2. Claims!LeaseExclusive
      BY DEF LeaseInv
    <3> HIDE DEF new, e
    <3> QED
      BY <2>1, <2>2, <2>4, <3>1, <3>2 DEF Claims!LeaseExclusive, Claims!Lease
  <2> QED
    BY <1>2, <2>3, <2>5, <2>6 DEF LeaseInv
<1> QED
  BY <1>3, <1>4

\* Every step of every run keeps the invariant.
LEMMA LeaseStep == LeaseInv /\ [Claims!Next]_(Claims!vars) => LeaseInv'
<1> SUFFICES ASSUME LeaseInv, [Claims!Next]_(Claims!vars) PROVE LeaseInv'
  OBVIOUS
<1>1. ASSUME NEW o \in Owner, NEW t \in LeaseTask, Claims!Call(o, t)
      PROVE  LeaseInv'
  BY <1>1
    DEF LeaseInv, Claims!TypeOK, WriteInv, FileInv, Claims!LeaseExclusive,
        Claims!Call
<1>2. ASSUME NEW o \in Owner, Claims!Read(o)
      PROVE  LeaseInv'
  <2> DEFINE t == run[o].task
  <2> DEFINE new == Claims!Acquired(lease, t, o, run[o].now)
  <2>1. t \in LeaseTask /\ run[o].now \in Nat /\ lease \in Claims!Lease \cup {NoLease}
    BY <1>2 DEF Claims!Read, LeaseInv, Claims!TypeOK
  <2>2. \/ run' = [run EXCEPT ![o] = Claims!Done]
        \/ /\ new # lease
           /\ run' = [run EXCEPT ![o] = [pc |-> "write", seen |-> lease, new |-> new]]
    BY <1>2 DEF Claims!Read
  <2>3. new # lease => /\ new \in Claims!Lease /\ new.task = t /\ new.from < new.until
                       /\ lease # NoLease /\ lease.task = t => Follows(new, lease)
    BY <2>1, AcquiredSound
  <2>4. UNCHANGED <<lease, clock, epoch, grants>>
    BY <1>2 DEF Claims!Read
  <2> HIDE DEF t, new
  <2>5. Claims!TypeOK'
    BY <2>1, <2>2, <2>3, <2>4 DEF LeaseInv, Claims!TypeOK, Claims!Done
  <2>6. WriteInv'
    BY <2>1, <2>2, <2>3, <2>4 DEF LeaseInv, Claims!TypeOK, WriteInv, Claims!Done
  <2> QED
    BY <2>4, <2>5, <2>6 DEF LeaseInv, FileInv, Claims!LeaseExclusive
<1>3. ASSUME NEW o \in Owner, Claims!Write(o)
      PROVE  LeaseInv'
  BY <1>3, WriteSound
<1>4. CASE Claims!Tick
  BY <1>4
    DEF LeaseInv, Claims!TypeOK, WriteInv, FileInv, Claims!LeaseExclusive,
        Claims!Tick
<1>5. CASE UNCHANGED Claims!vars
  BY <1>5
    DEF LeaseInv, Claims!TypeOK, WriteInv, FileInv, Claims!LeaseExclusive,
        Claims!vars
<1> QED
  BY <1>1, <1>2, <1>3, <1>4, <1>5 DEF Claims!Next

\* The lease file and the runs keep their types, whatever they claim.
LEMMA LeaseInvariant == Claims!Spec => []LeaseInv
<1>1. QED
  BY LeaseInit, LeaseStep, PTL DEF Claims!Spec

-----------------------------------------------------------------------------
\* The composition.

\* The runs that race for the lease do not touch the graph: it changes only as
\* the scheduler changes it.
THEOREM SchedulerIsImplemented == ComposedSpec => Spec
<1>1. ComposedInit => Init
  BY DEF ComposedInit
<1>2. [ComposedNext]_<<graph, claims>> => [Next]_graph
  BY DEF ComposedNext, Schedule, Claim, Dispatched, Time
<1>3. QED
  BY <1>1, <1>2, PTL DEF ComposedSpec, Spec

\* Runs that are dispatched for the running task only, as it changes under
\* them, are runs of the lease's own specification: nothing that was proved of
\* the lease depends on when the scheduler dispatches.
THEOREM ClaimsAreImplemented == ComposedSpec => Claims!Spec
<1>1. ComposedInit => Claims!Init
  BY DEF ComposedInit
<1>2. [ComposedNext]_<<graph, claims>> => [Claims!Next]_(Claims!vars)
  <2> SUFFICES ASSUME ComposedNext \/ UNCHANGED <<graph, claims>>
               PROVE  Claims!Next \/ UNCHANGED Claims!vars
    OBVIOUS
  <2>1. CASE Schedule \/ UNCHANGED <<graph, claims>>
    BY <2>1 DEF Schedule, claims, Claims!vars
  <2>2. ASSUME NEW o \in Owner, Claim(o) PROVE Claims!Next
    BY <2>2 DEF Claim, Claims!Next
  <2>3. ASSUME NEW o \in Owner, NEW t \in Task, Dispatched(o, t) PROVE Claims!Next
    BY <2>3, ScheduledClaimsAssumption
      DEF Dispatched, Claims!Next, CompositionAssumption
  <2>4. CASE Time
    BY <2>4 DEF Time, Claims!Next
  <2>5. QED
    BY <2>1, <2>2, <2>3, <2>4 DEF ComposedNext
<1>3. QED
  BY <1>1, <1>2, PTL DEF ComposedSpec, Claims!Spec

\* However runs of the current, of parked and of completed tasks interleave
\* with the scheduler: while the claims of one task follow each other, an
\* attempt is granted once and the next starts no earlier than it expires.
THEOREM LeaseIsExclusive == ComposedSpec => []LeaseExclusive
<1>1. LeaseInv => LeaseExclusive
  BY DEF LeaseInv, LeaseExclusive
<1>2. QED
  BY <1>1, LeaseInvariant, ClaimsAreImplemented, PTL

\* With runs at work on the lease, no dependent of an unfinished task starts.
THEOREM ComposedDependencySafety == ComposedSpec => []DependencySafety
BY SchedulerIsImplemented, DagDependencySafety

\* With runs at work on the lease, the scheduler leaves no safe work idle.
THEOREM ComposedWorkConserving == ComposedSpec => []WorkConserving
BY SchedulerIsImplemented, DagWorkConserving

-----------------------------------------------------------------------------
\* A planner run at work whose copies no other run has written over.
Fresh(g) == planner[g].pc # "idle" /\ ~planner[g].overtaken

\* What any run is, whatever the others have done: an unsettled one has an
\* attempt left, one that activates has its plan and saw no current task;
Ahead == {"campaign", "graph", "cycle", "state"}
RunSound(g) ==
    /\ planner[g].pc # "idle" => planner[g].req \in Requests
    /\ planner[g].pc # "idle" /\ ~planner[g].settled => planner[g].prev < MaxAttempts
    /\ planner[g].pc \notin {"idle", "completion"} => ~planner[g].settled
    /\ planner[g].pc \in Ahead \cup {"status", "accepted"} =>
           planner[g].plan \in Plans /\ planner[g].plan.req = planner[g].req
    /\ planner[g].pc \in Ahead => planner[g].free

\* and while it is fresh, what it saw of the current task is still so.
RunFree(g) ==
    Fresh(g) /\ planner[g].pc \in {"completion", "propose"} \cup Ahead /\ planner[g].free
        => state.cur = None

\* The status says nothing of no request and leaves a retry an attempt; a
\* session is of a plan.
StatusSound ==
    /\ status.state \in {"REPLAN", "PAUSED_QUOTA"} => status.attempt < MaxAttempts
    /\ status.state = "NONE" => status.req = 0
SessionSound == session.st # "NONE" => session.plan # None

\* What always holds.
AlwaysInv ==
    /\ PlanningTypeOK /\ StatusSound /\ SessionSound
    /\ \A g \in Groups : RunSound(g) /\ RunFree(g)

\* Goal, status and accepted plan go from request to request: a request is
\* accepted after those before it, and its campaign is at work or has ended.
FilesInOrder ==
    /\ goal = used /\ status.req <= goal
    /\ \A r \in Requests : successor[r] # 0 => r < goal
    /\ accepted # None =>
           \/ accepted.req < status.req
           \/ accepted.req = status.req /\ status.state = "ACCEPTED"
    /\ status.state = "ACCEPTED" =>
           status.req \in finished \/ (state.cur # None /\ state.cur.req = status.req)
    /\ AcceptedPlanReconciles

\* A run plans for a request no older than the status, ...
RequestInOrder(g) ==
    /\ planner[g].req <= goal /\ status.req <= planner[g].req
    /\ planner[g].pc = "completion" =>
           /\ successor[planner[g].req] = 0
           /\ planner[g].eligible => planner[g].req \in finished

\* ... whose failures it has read, ...
AttemptInOrder(g) ==
    /\ ~planner[g].settled /\ status.req = planner[g].req =>
           IF planner[g].pc \in {"accepted", "dispatch"} THEN status.state = "ACCEPTED"
           ELSE status.state \in {"REPLAN", "PAUSED_QUOTA"} /\ status.attempt <= planner[g].prev
    /\ planner[g].pc = "accepted" =>
           status.req = planner[g].req /\ status.attempt = planner[g].prev + 1
    /\ ~planner[g].settled /\ planner[g].pc # "dispatch" /\ accepted # None =>
           accepted.req < planner[g].req

\* ... and what it has activated so far is in the files.
ActivatedSoFar(g) ==
    /\ planner[g].pc \in {"graph", "cycle", "state", "status", "accepted"} =>
           files["campaign"] = planner[g].plan
    /\ planner[g].pc \in {"cycle", "state", "status", "accepted"} =>
           files["graph"] = planner[g].plan
    /\ planner[g].pc \in {"state", "status", "accepted"} => files["cycle"] = planner[g].plan
    /\ planner[g].pc = "status" => planner[g].req \in finished \/ state.cur = planner[g].plan

RunInOrder(g) == RequestInOrder(g) /\ AttemptInOrder(g) /\ ActivatedSoFar(g)

\* What holds until a run has written over what it had not read.
OrderInv == FilesInOrder /\ \A g \in Groups : Fresh(g) => RunInOrder(g)

\* The inductive invariant.
PlanningInv == AlwaysInv /\ (~mixed => OrderInv)

-----------------------------------------------------------------------------
\* The effects of the steps on what the invariant is about.

core == <<goal, used, status, files, state, accepted, successor, finished>>

\* A step of the run of group p that writes nothing leaves the other runs
\* alone; one that writes a file overtakes those at work.
Quiet(p) ==
    /\ \A q \in Groups \ {p} : planner'[q] = planner[q]
    /\ mixed' = mixed

Marked(r) == IF r.pc # "idle" THEN [r EXCEPT !.overtaken = TRUE] ELSE r

Overtook(p) ==
    /\ \A q \in Groups \ {p} : planner'[q] = Marked(planner[q])
    /\ mixed' = (mixed \/ planner[p].overtaken)

\* What a run has read, and what it has made of it, stay.
Reads(p) ==
    /\ planner'[p].req = planner[p].req /\ planner'[p].prev = planner[p].prev
    /\ planner'[p].settled = planner[p].settled /\ planner'[p].free = planner[p].free
    /\ planner'[p].eligible = planner[p].eligible
    /\ planner'[p].overtaken = planner[p].overtaken
Stays(p) == Reads(p) /\ planner'[p].plan = planner[p].plan

\* Nothing of it changes: control command, zero-touch start, cycle and session.
Elsewhere == UNCHANGED <<core, planner, mixed>>

\* A goal is submitted.
NewGoal ==
    /\ used < MaxRequests /\ used' = used + 1 /\ goal' = used + 1
    /\ UNCHANGED <<status, files, state, accepted, planner, successor, mixed, finished>>

\* The campaign of the current task ends.
CampaignEnded ==
    /\ session.st # "NONE" /\ state.cur = session.plan
    /\ state' = [cur |-> None, status |-> "READY", exhausted |-> TRUE]
    /\ finished' = finished \cup {session.plan.req}
    /\ UNCHANGED <<goal, used, status, files, accepted, planner, successor, mixed>>

\* A planner run begins,
Begins(p) ==
    /\ goal # 0
    /\ planner'[p].pc = "completion" /\ planner'[p].req = goal
    /\ planner'[p].prev = PreviousAttempt(goal, status)
    /\ planner'[p].settled = Terminal(goal, status)
    /\ planner'[p].free = MayActivate(state)
    /\ planner'[p].eligible = EligibleForSuccessor(goal, state, status, target)
    /\ Quiet(p) /\ UNCHANGED core

\* stops,
Halts(p) == planner'[p].pc = "idle" /\ Quiet(p) /\ UNCHANGED core

\* plans for its request,
Enters(p) ==
    /\ planner[p].pc = "completion" /\ ~planner[p].settled
    /\ planner'[p].pc = "propose" /\ Stays(p)
    /\ Quiet(p) /\ UNCHANGED core

\* or arms its successor,
Arms(p) ==
    /\ planner[p].pc = "completion" /\ planner[p].eligible
    /\ goal' \in Successors(planner[p].req)
    /\ used' = IF goal' > used THEN goal' ELSE used
    /\ successor' = [successor EXCEPT ![planner[p].req] = goal']
    /\ planner'[p].pc = "propose" /\ planner'[p].req = goal' /\ planner'[p].prev = 0
    /\ planner'[p].settled = FALSE /\ planner'[p].free = planner[p].free
    /\ planner'[p].overtaken = planner[p].overtaken
    /\ Overtook(p) /\ UNCHANGED <<status, files, state, accepted, finished>>

\* ends with a pause, a wait for a human or a failed attempt,
Ends(p) ==
    /\ planner[p].pc \in {"propose", "status", "accepted"} \cup Ahead
    /\ planner'[p].pc = "idle"
    /\ status'.req = planner[p].req
    /\ \/ status'.state = "PAUSED_QUOTA" /\ status'.attempt = planner[p].prev
          /\ planner[p].pc = "propose"
       \/ status'.state = "HUMAN_WAIT" /\ status'.attempt = planner[p].prev + 1
       \/ /\ status'.state = "REPLAN" /\ status'.attempt = planner[p].prev + 1
          /\ planner[p].prev + 1 < MaxAttempts
    /\ Overtook(p) /\ UNCHANGED <<goal, used, files, state, accepted, successor, finished>>

\* begins to activate a plan,
Activates(p) ==
    /\ planner[p].pc = "propose" /\ planner[p].free
    /\ planner'[p].pc = "campaign" /\ Reads(p)
    /\ planner'[p].plan \in Plans /\ planner'[p].plan.req = planner[p].req
    /\ Quiet(p) /\ UNCHANGED core

\* and writes its files, one after the other.
WritesFile(p) ==
    /\ \/ planner[p].pc = "campaign" /\ planner'[p].pc = "graph"
       \/ planner[p].pc = "graph" /\ planner'[p].pc = "cycle"
       \/ planner[p].pc = "cycle" /\ planner'[p].pc = "state"
    /\ files'[planner[p].pc] = planner[p].plan
    /\ \A f \in Files \ {planner[p].pc} : files'[f] = files[f]
    /\ Stays(p)
    /\ Overtook(p) /\ UNCHANGED <<goal, used, status, state, accepted, successor, finished>>

WritesState(p) ==
    /\ planner[p].pc = "state" /\ planner'[p].pc = "status" /\ Stays(p)
    /\ state'.cur = planner[p].plan
    /\ Overtook(p) /\ UNCHANGED <<goal, used, status, files, accepted, successor, finished>>

WritesStatus(p) ==
    /\ planner[p].pc = "status" /\ planner'[p].pc = "accepted" /\ Stays(p)
    /\ status'.req = planner[p].plan.req /\ status'.state = "ACCEPTED"
    /\ status'.attempt = planner[p].prev + 1
    /\ Overtook(p) /\ UNCHANGED <<goal, used, files, state, accepted, successor, finished>>

WritesPlan(p) ==
    /\ planner[p].pc = "accepted" /\ planner'[p].pc = "dispatch" /\ Stays(p)
    /\ accepted' = planner[p].plan
    /\ Overtook(p) /\ UNCHANGED <<goal, used, status, files, state, successor, finished>>

RunEffect(p) ==
    \/ Begins(p) \/ Halts(p) \/ Enters(p) \/ Arms(p) \/ Ends(p) \/ Activates(p)
    \/ WritesFile(p) \/ WritesState(p) \/ WritesStatus(p) \/ WritesPlan(p)

\* The files keep their types.
FilesTyped ==
    /\ goal \in 0..MaxRequests /\ used \in 0..MaxRequests
    /\ status \in [req : 0..MaxRequests, attempt : 0..MaxAttempts,
                   state : {"NONE", "ACCEPTED", "HUMAN_WAIT", "PAUSED_QUOTA", "REPLAN"}]
    /\ files \in [Files -> MaybePlan] /\ accepted \in MaybePlan
    /\ state \in [cur : MaybePlan, status : {"READY"}, exhausted : BOOLEAN]
    /\ mixed \in BOOLEAN /\ successor \in [Requests -> 0..MaxRequests]
    /\ finished \subseteq Requests
RunsTyped == planner \in [Groups -> PlannerRuns]

\* A run's own step, quiet
LEMMA QuietRuns ==
    ASSUME RunsTyped, NEW p \in Groups, NEW R \in PlannerRuns,
           planner' = [planner EXCEPT ![p] = R], mixed' = mixed
    PROVE  RunsTyped' /\ Quiet(p) /\ planner'[p] = R
BY DEF RunsTyped, Quiet

\* or with a write.
LEMMA WritingRuns ==
    ASSUME RunsTyped, NEW p \in Groups, NEW R \in PlannerRuns,
           planner' = Overtaking(p, [planner EXCEPT ![p] = R]), Mixing(p)
    PROVE  RunsTyped' /\ Overtook(p) /\ planner'[p] = R
<1>1. planner' = [h \in Groups |-> IF h = p THEN R ELSE Marked(planner[h])]
  BY DEF RunsTyped, Overtaking, Marked
<1>2. \A h \in Groups : Marked(planner[h]) \in PlannerRuns
  BY DEF RunsTyped, Marked, PlannerRuns
<1> QED
  BY <1>1, <1>2 DEF RunsTyped, Overtook, Mixing

\* Every step of a planner run has one of these effects and keeps the types.
LEMMA RunEffects ==
    ASSUME AlwaysInv, NEW p \in Groups, PlannerAction(p) \/ WriteRefused(p) \/ KillPlanner(p)
    PROVE  RunEffect(p) /\ FilesTyped' /\ RunsTyped'
<1> USE PlanningConstants DEF PlanningAssumption, files_, world, history
<1>1. /\ FilesTyped /\ RunsTyped /\ RunSound(p) /\ StatusSound
      /\ DOMAIN planner = Groups
  BY DEF AlwaysInv, PlanningTypeOK, FilesTyped, RunsTyped
<1>2. /\ planner[p] \in PlannerRuns /\ planner[p].req \in 0..MaxRequests
      /\ planner[p].prev \in 0..MaxAttempts
      /\ planner[p].pc \notin {"idle", "completion"} =>
            planner[p].req \in Requests /\ planner[p].prev + 1 \in 0..MaxAttempts
      /\ planner[p].pc \in Ahead \cup {"status", "accepted"} =>
            planner[p].plan \in Plans /\ planner[p].plan.req = planner[p].req
  BY <1>1 DEF RunsTyped, PlannerRuns, RunSound
<1>3. NoPlanning \in PlannerRuns /\ NoPlanning.pc = "idle"
  BY DEF NoPlanning, PlannerRuns, PlannerPCs, AfterWrite, MaybePlan
<1>4. {"completion", "propose", "campaign", "graph", "cycle", "state", "status", "accepted",
       "dispatch"} \subseteq PlannerPCs
      /\ DOMAIN AfterWrite = Ahead \cup {"status", "accepted"} /\ Files \subseteq Ahead
      /\ AfterWrite["campaign"] = "graph" /\ AfterWrite["graph"] = "cycle"
      /\ AfterWrite["cycle"] = "state" /\ AfterWrite["state"] = "status"
      /\ AfterWrite["status"] = "accepted" /\ AfterWrite["accepted"] = "dispatch"
  BY DEF PlannerPCs, AfterWrite, Ahead, Files
<1>5. CASE BeginPlanning(p)
  <2> DEFINE R == [pc |-> "completion", req |-> goal, prev |-> PreviousAttempt(goal, status),
               settled |-> Terminal(goal, status), plan |-> None, free |-> MayActivate(state),
               eligible |-> EligibleForSuccessor(goal, state, status, target),
               overtaken |-> FALSE]
  <2>1. PreviousAttempt(goal, status) \in 0..MaxAttempts
    BY <1>1 DEF PreviousAttempt, FilesTyped
  <2>2. /\ Terminal(goal, status) \in BOOLEAN /\ MayActivate(state) \in BOOLEAN
        /\ EligibleForSuccessor(goal, state, status, target) \in BOOLEAN
    BY DEF Terminal, MayActivate, EligibleForSuccessor
  <2>3. R \in PlannerRuns
    BY <1>1, <1>4, <2>1, <2>2 DEF PlannerRuns, FilesTyped, MaybePlan
  <2>4. /\ goal # 0 /\ planner' = [planner EXCEPT ![p] = R]
        /\ mixed' = mixed /\ UNCHANGED core
    BY <1>5 DEF BeginPlanning, core
  <2>5. RunsTyped' /\ Quiet(p) /\ planner'[p] = R
    <3> HIDE DEF R
    <3> QED
      BY <1>1, <2>3, <2>4, QuietRuns
  <2>6. Begins(p)
    BY <2>4, <2>5 DEF Begins
  <2> QED
    BY <1>1, <2>4, <2>5, <2>6 DEF RunEffect, FilesTyped, core
<1>6. ASSUME planner' = [planner EXCEPT ![p] = NoPlanning], UNCHANGED core, mixed' = mixed
      PROVE  Halts(p) /\ FilesTyped' /\ RunsTyped'
  BY <1>1, <1>3, <1>6, QuietRuns DEF Halts, FilesTyped, core
<1>7. CASE Graduate(p) \/ EndActivation(p) \/ KillPlanner(p)
  BY <1>6, <1>7 DEF Graduate, EndActivation, KillPlanner, core, RunEffect
<1>8. CASE EnterPlanner(p)
  <2>1. CASE planner[p].settled
    BY <1>6, <1>8, <2>1 DEF EnterPlanner, core, RunEffect
  <2>2. CASE ~planner[p].settled
    <3> DEFINE R == [planner[p] EXCEPT !.pc = "propose"]
    <3>1. R \in PlannerRuns
      BY <1>2, <1>4 DEF PlannerRuns
    <3>2. planner' = [planner EXCEPT ![p] = R] /\ planner[p].pc = "completion"
          /\ UNCHANGED core /\ mixed' = mixed
      BY <1>8, <2>2 DEF EnterPlanner, core
    <3>3. RunsTyped' /\ Quiet(p) /\ planner'[p] = R
      <4> HIDE DEF R
      <4> QED
        BY <1>1, <3>1, <3>2, QuietRuns
    <3>4. planner'[p].pc = "propose" /\ Stays(p)
      BY <1>2, <3>3 DEF PlannerRuns, Stays, Reads
    <3> QED
      BY <1>1, <2>2, <3>2, <3>3, <3>4 DEF Enters, RunEffect, FilesTyped, core
  <2> QED
    BY <2>1, <2>2
<1>9. CASE ArmSuccessor(p)
  <2>1. PICK n \in Successors(planner[p].req) :
           /\ goal' = n
           /\ used' = IF n > used THEN n ELSE used
           /\ successor' = [successor EXCEPT ![planner[p].req] = n]
           /\ planner' = Overtaking(p, [planner EXCEPT ![p].pc = "propose", ![p].req = n,
                                                      ![p].prev = 0, ![p].settled = FALSE])
    BY <1>9 DEF ArmSuccessor
  <2>2. /\ planner[p].pc = "completion" /\ planner[p].eligible /\ Mixing(p)
        /\ UNCHANGED <<status, files, state, accepted, finished>>
    BY <1>9 DEF ArmSuccessor
  <2>3. planner[p].req \in Requests /\ n \in Requests
    <3>1. planner[p].req \in Requests
      BY <1>1, <2>2 DEF RunSound
    <3> QED
      BY <1>1, <2>1, <3>1 DEF Successors, FilesTyped, Requests
  <2> DEFINE R == [planner[p] EXCEPT !.pc = "propose", !.req = n, !.prev = 0, !.settled = FALSE]
  <2>4. R \in PlannerRuns
    <3>1. n \in 0..MaxRequests /\ 0 \in 0..MaxAttempts /\ "propose" \in PlannerPCs
      BY <1>4, <2>3, PlanningConstants DEF Requests, PlanningAssumption
    <3> QED
      BY <1>2, <3>1 DEF PlannerRuns
  <2>5. [planner EXCEPT ![p].pc = "propose", ![p].req = n, ![p].prev = 0, ![p].settled = FALSE]
        = [planner EXCEPT ![p] = R]
    BY <1>1 DEF RunsTyped
  <2>6. RunsTyped' /\ Overtook(p) /\ planner'[p] = R
    <3> HIDE DEF R
    <3> QED
      BY <1>1, <2>1, <2>2, <2>4, <2>5, WritingRuns
  <2>7. /\ planner'[p].pc = "propose" /\ planner'[p].req = n /\ planner'[p].prev = 0
        /\ planner'[p].settled = FALSE /\ planner'[p].free = planner[p].free
        /\ planner'[p].overtaken = planner[p].overtaken
    BY <1>2, <2>6 DEF PlannerRuns
  <2>8. Arms(p)
    BY <2>1, <2>2, <2>6, <2>7 DEF Arms
  <2>9. FilesTyped'
    <3>1. goal' \in 0..MaxRequests /\ used' \in 0..MaxRequests
      BY <1>1, <2>1, <2>3 DEF FilesTyped, Requests
    <3>2. successor' \in [Requests -> 0..MaxRequests]
      BY <1>1, <2>1, <2>3 DEF FilesTyped, Requests
    <3>3. mixed' \in BOOLEAN
      BY <1>1, <1>2, <2>2 DEF FilesTyped, Mixing, PlannerRuns
    <3> QED
      BY <1>1, <2>2, <3>1, <3>2, <3>3 DEF FilesTyped
  <2> QED
    BY <2>6, <2>8, <2>9 DEF RunEffect
<1>10. ASSUME planner' = Overtaking(p, [planner EXCEPT ![p] = NoPlanning]), Mixing(p),
              planner[p].pc \in {"propose", "status", "accepted"} \cup Ahead,
              UNCHANGED <<goal, used, files, state, accepted, successor, finished>>,
              NEW s \in {"PAUSED_QUOTA", "HUMAN_WAIT", "REPLAN"}, NEW a,
              status' = [req |-> planner[p].req, state |-> s, attempt |-> a],
              s = "PAUSED_QUOTA" => a = planner[p].prev /\ planner[p].pc = "propose",
              s \in {"HUMAN_WAIT", "REPLAN"} => a = planner[p].prev + 1,
              s = "REPLAN" => a < MaxAttempts
       PROVE  RunEffect(p) /\ FilesTyped' /\ RunsTyped'
  <2>1. RunsTyped' /\ Overtook(p) /\ planner'[p] = NoPlanning
    BY <1>1, <1>3, <1>10, WritingRuns
  <2>2. Ends(p)
    BY <1>3, <1>10, <2>1 DEF Ends
  <2>3. a \in 0..MaxAttempts /\ planner[p].req \in 0..MaxRequests /\ mixed' \in BOOLEAN
    BY <1>1, <1>2, <1>10 DEF Ahead, Mixing, FilesTyped, PlannerRuns
  <2>4. FilesTyped'
    BY <1>1, <1>10, <2>3 DEF FilesTyped
  <2> QED
    BY <2>1, <2>2, <2>4 DEF RunEffect
<1>11. CASE QuotaPause(p)
  BY <1>10, <1>11 DEF QuotaPause, SetStatus
<1>12. ASSUME planner[p].pc = "propose", SetStatus(p, "HUMAN_WAIT", planner[p].prev + 1)
       PROVE  RunEffect(p) /\ FilesTyped' /\ RunsTyped'
  BY <1>10, <1>12 DEF SetStatus
<1>13. ASSUME planner[p].pc = "propose", FailAttempt(p)
       PROVE  RunEffect(p) /\ FilesTyped' /\ RunsTyped'
  <2>1. CASE planner[p].prev + 1 >= MaxAttempts
    BY <1>12, <1>13, <2>1 DEF FailAttempt
  <2>2. CASE planner[p].prev + 1 < MaxAttempts
    <3>1. SetStatus(p, "REPLAN", planner[p].prev + 1)
      BY <1>2, <1>13, <2>2 DEF FailAttempt
    <3> QED
      BY <1>10, <1>13, <2>2, <3>1 DEF SetStatus
  <2> QED
    BY <1>2, <2>1, <2>2
<1>14. CASE WriteRefused(p)
  <2> DEFINE a == planner[p].prev + 1
             s == IF a >= MaxAttempts THEN "HUMAN_WAIT" ELSE "REPLAN"
  <2>1. /\ planner[p].pc \in {"propose", "status", "accepted"} \cup Ahead
        /\ status' = [req |-> planner[p].req, state |-> s, attempt |-> a]
        /\ planner' = Overtaking(p, [planner EXCEPT ![p] = NoPlanning]) /\ Mixing(p)
        /\ UNCHANGED <<goal, used, files, state, accepted, successor, finished>>
    BY <1>4, <1>14 DEF WriteRefused, Writing
  <2>2. s \in {"HUMAN_WAIT", "REPLAN"} /\ (s = "REPLAN" => a < MaxAttempts)
    BY <1>2
  <2> QED
    BY <1>10, <2>1, <2>2
<1>15. ASSUME NEW x \in ProposalIds, Propose(p, x)
       PROVE  RunEffect(p) /\ FilesTyped' /\ RunsTyped'
  <2>1. CASE Disposition(Proposals[x], "goal", Known) = "HUMAN_WAIT"
    BY <1>12, <1>15, <2>1 DEF Propose, Acceptable
  <2>2. CASE /\ Disposition(Proposals[x], "goal", Known) # "HUMAN_WAIT"
             /\ Acceptable(x) /\ planner[p].free
    <3> DEFINE P == [req |-> planner[p].req, prop |-> x]
               R == [planner[p] EXCEPT !.pc = "campaign", !.plan = P]
    <3>1. /\ planner[p].pc = "propose" /\ UNCHANGED core /\ mixed' = mixed
          /\ planner' = [planner EXCEPT ![p].pc = "campaign", ![p].plan = P]
      BY <1>15, <2>2 DEF Propose, core
    <3>2. P \in Plans /\ P \in MaybePlan /\ P.req = planner[p].req
      BY <1>2, <3>1 DEF Plans, MaybePlan
    <3>3. R \in PlannerRuns
      <4> HIDE DEF P
      <4> QED
        BY <1>2, <1>4, <3>2 DEF PlannerRuns
    <3>4. planner' = [planner EXCEPT ![p] = R]
      BY <1>1, <3>1 DEF RunsTyped
    <3>5. RunsTyped' /\ Quiet(p) /\ planner'[p] = R
      <4> HIDE DEF R
      <4> QED
        BY <1>1, <3>1, <3>3, <3>4, QuietRuns
    <3>6. planner'[p].pc = "campaign" /\ planner'[p].plan = P /\ Reads(p)
      <4> HIDE DEF P
      <4> QED
        BY <1>2, <3>5 DEF PlannerRuns, Reads
    <3>7. Activates(p)
      BY <2>2, <3>1, <3>2, <3>5, <3>6 DEF Activates
    <3> QED
      BY <1>1, <3>1, <3>5, <3>7 DEF RunEffect, FilesTyped, core
  <2>3. CASE /\ Disposition(Proposals[x], "goal", Known) # "HUMAN_WAIT"
             /\ ~(Acceptable(x) /\ planner[p].free)
    BY <1>13, <1>15, <2>3 DEF Propose
  <2> QED
    BY <2>1, <2>2, <2>3
<1>16. CASE PersistActivation(p)
  <2> DEFINE w == planner[p].pc
             R == [planner[p] EXCEPT !.pc = AfterWrite[w]]
  <2>1. /\ w \in Ahead \cup {"status", "accepted"} /\ Mixing(p)
        /\ planner' = Overtaking(p, [planner EXCEPT ![p].pc = AfterWrite[w]])
        /\ UNCHANGED <<goal, used, successor, finished>>
    BY <1>4, <1>16 DEF PersistActivation, Writing
  <2>2. AfterWrite[w] \in PlannerPCs /\ R \in PlannerRuns
    <3>1. AfterWrite[w] \in PlannerPCs
      BY <1>4, <2>1 DEF Ahead
    <3> QED
      BY <1>2, <3>1 DEF PlannerRuns
  <2>3. [planner EXCEPT ![p].pc = AfterWrite[w]] = [planner EXCEPT ![p] = R]
    BY <1>1 DEF RunsTyped
  <2>4. RunsTyped' /\ Overtook(p) /\ planner'[p] = R
    <3> HIDE DEF R
    <3> QED
      BY <1>1, <2>1, <2>2, <2>3, WritingRuns
  <2>5. planner'[p].pc = AfterWrite[w] /\ Stays(p)
    BY <1>2, <2>4 DEF PlannerRuns, Stays, Reads
  <2>6. planner[p].plan \in Plans /\ planner[p].plan \in MaybePlan
        /\ planner[p].plan.req \in 0..MaxRequests /\ planner[p].prev + 1 \in 0..MaxAttempts
        /\ mixed' \in BOOLEAN
    BY <1>1, <1>2, <2>1 DEF Ahead, MaybePlan, Mixing, FilesTyped, PlannerRuns
  <2>7. CASE w \in Files
    <3>1. /\ files' = [files EXCEPT ![w] = planner[p].plan]
          /\ UNCHANGED <<status, state, accepted>>
      BY <1>16, <2>7 DEF PersistActivation, Files
    <3>2. files'[w] = planner[p].plan /\ \A f \in Files \ {w} : files'[f] = files[f]
      BY <1>1, <2>7, <3>1 DEF FilesTyped
    <3>3. WritesFile(p)
      BY <1>4, <2>1, <2>4, <2>5, <2>7, <3>1, <3>2 DEF WritesFile, Files
    <3> QED
      BY <1>1, <2>1, <2>4, <2>6, <3>1, <3>3 DEF RunEffect, FilesTyped
  <2>8. CASE w = "state"
    <3>1. /\ state' = [cur |-> planner[p].plan, status |-> "READY", exhausted |-> FALSE]
          /\ UNCHANGED <<status, files, accepted>>
      BY <1>16, <2>8 DEF PersistActivation, Files
    <3>2. WritesState(p)
      BY <1>4, <2>1, <2>4, <2>5, <2>8, <3>1 DEF WritesState
    <3> QED
      BY <1>1, <2>1, <2>4, <2>6, <3>1, <3>2 DEF RunEffect, FilesTyped
  <2>9. CASE w = "status"
    <3>1. /\ status' = [req |-> planner[p].plan.req, state |-> "ACCEPTED",
                        attempt |-> planner[p].prev + 1]
          /\ UNCHANGED <<state, files, accepted>>
      BY <1>16, <2>9 DEF PersistActivation, Files
    <3>2. WritesStatus(p)
      BY <1>4, <2>1, <2>4, <2>5, <2>9, <3>1 DEF WritesStatus
    <3> QED
      BY <1>1, <2>1, <2>4, <2>6, <3>1, <3>2 DEF RunEffect, FilesTyped
  <2>10. CASE w = "accepted"
    <3>1. accepted' = planner[p].plan /\ UNCHANGED <<state, files, status>>
      BY <1>16, <2>10 DEF PersistActivation, Files
    <3>2. WritesPlan(p)
      BY <1>4, <2>1, <2>4, <2>5, <2>10, <3>1 DEF WritesPlan
    <3> QED
      BY <1>1, <2>1, <2>4, <2>6, <3>1, <3>2 DEF RunEffect, FilesTyped
  <2> QED
    BY <2>1, <2>7, <2>8, <2>9, <2>10 DEF Ahead, Files
<1>17. CASE ProviderRefuses(p) \/ ProviderFails(p)
  BY <1>12, <1>13, <1>17 DEF ProviderRefuses, ProviderFails
<1> QED
  BY <1>5, <1>7, <1>8, <1>9, <1>11, <1>14, <1>15, <1>16, <1>17 DEF PlannerAction

\* What the zero-touch start, the control command, cycle and session keep of
\* the types.
RestTyped ==
    /\ receipt.plan \in MaybePlan /\ receipt.count \in 0..MaxRetries
    /\ receipt.recent \in BOOLEAN
    /\ starter \in [Groups -> [pc : {"idle", "dispatch", "receipt"}, plan : MaybePlan]]
    /\ submit \in {"idle", "put"} /\ cycle \in BOOLEAN
    /\ session \in [plan : MaybePlan,
                    st : {"NONE", "RUNNING", "COMPLETED", "PROVIDER_ERROR", "FAILED"}]
    /\ target \in {"open", "waits", "complete"} /\ faults \in 0..MaxFaults

\* A job's begin and a fault stay within the bound on faults.
LEMMA FaultsTyped ==
    ASSUME faults \in 0..MaxFaults, NEW g \in Groups,
           Begin(g) \/ faults' = faults \/ (faults < MaxFaults /\ faults' = faults + 1)
    PROVE  faults' \in 0..MaxFaults
<1>1. MaxFaults \in Nat
  BY PlanningConstants DEF PlanningAssumption
<1>2. faults' = faults \/ (faults < MaxFaults /\ faults' = faults + 1)
  BY DEF Begin
<1> QED
  BY <1>1, <1>2

\* A planner run's own steps change of these at most the faults,
LEMMA PlannerRest ==
    ASSUME RestTyped, NEW p \in Groups, PlannerAction(p) \/ WriteRefused(p) \/ KillPlanner(p)
    PROVE  RestTyped' /\ UNCHANGED session
<1> USE DEF files_, world
<1>1. UNCHANGED <<starter, submit, cycle, session, target, receipt>>
      /\ (Begin(p) \/ faults' = faults \/ (faults < MaxFaults /\ faults' = faults + 1))
  <2>1. CASE BeginPlanning(p)
    BY <2>1 DEF BeginPlanning
  <2>2. CASE Graduate(p) \/ ArmSuccessor(p) \/ EnterPlanner(p) \/ EndActivation(p)
    BY <2>2 DEF Graduate, ArmSuccessor, EnterPlanner, EndActivation
  <2>3. CASE QuotaPause(p) \/ ProviderRefuses(p) \/ ProviderFails(p)
    BY <2>3 DEF QuotaPause, ProviderRefuses, ProviderFails, FailAttempt, SetStatus
  <2>4. ASSUME NEW x \in ProposalIds, Propose(p, x)
        PROVE  UNCHANGED <<starter, submit, cycle, session, target, receipt, faults>>
    <3>1. CASE Disposition(Proposals[x], "goal", Known) = "HUMAN_WAIT"
      BY <2>4, <3>1 DEF Propose, SetStatus, Acceptable
    <3>2. CASE /\ Disposition(Proposals[x], "goal", Known) # "HUMAN_WAIT"
               /\ Acceptable(x) /\ planner[p].free
      BY <2>4, <3>2 DEF Propose
    <3>3. CASE /\ Disposition(Proposals[x], "goal", Known) # "HUMAN_WAIT"
               /\ ~(Acceptable(x) /\ planner[p].free)
      BY <2>4, <3>3 DEF Propose, FailAttempt, SetStatus
    <3> QED
      BY <3>1, <3>2, <3>3
  <2>5. CASE PersistActivation(p) \/ WriteRefused(p) \/ KillPlanner(p)
    BY <2>5 DEF PersistActivation, WriteRefused, KillPlanner
  <2> QED
    BY <2>1, <2>2, <2>3, <2>4, <2>5 DEF PlannerAction
<1>2. faults' \in 0..MaxFaults
  BY <1>1, FaultsTyped DEF RestTyped
<1> QED
  BY <1>1, <1>2 DEF RestTyped

\* and the others nothing of the planner's but by a new goal or an end.
OtherStep ==
    \/ CheckIdle \/ PutGoal \/ External
    \/ \E g \in Groups : StarterAction(g) \/ KillStarter(g)

LEMMA OtherEffects ==
    ASSUME OtherStep
    PROVE  Elsewhere \/ NewGoal \/ CampaignEnded
<1> USE DEF files_, world, history
<1>1. CASE CheckIdle
  BY <1>1 DEF CheckIdle, Elsewhere, core
<1>2. CASE PutGoal
  BY <1>2 DEF PutGoal, NewGoal
<1>3. CASE ReceiptAges \/ CycleStarts \/ SessionEnds \/ ReviewsResolve
  BY <1>3 DEF ReceiptAges, CycleStarts, SessionEnds, ReviewsResolve, Elsewhere, core
<1>4. CASE CampaignEnds
  BY <1>4 DEF CampaignEnds, CampaignEnded
<1>5. ASSUME NEW g \in Groups, StarterAction(g) \/ KillStarter(g)
      PROVE  Elsewhere
  BY <1>5 DEF StarterAction, BeginStart, DispatchCycle, WriteReceipt, KillStarter, Elsewhere, core
<1> QED
  BY <1>1, <1>2, <1>3, <1>4, <1>5 DEF OtherStep, External

LEMMA OtherRest ==
    ASSUME AlwaysInv, OtherStep
    PROVE  RestTyped' /\ SessionSound'
<1> USE DEF files_, world, history
<1>1. /\ RestTyped /\ SessionSound /\ None \in MaybePlan /\ state.cur \in MaybePlan
      /\ files["cycle"] \in MaybePlan
  BY DEF AlwaysInv, PlanningTypeOK, MaybePlan, Files, RestTyped
<1>2. MaxFaults \in Nat
  BY PlanningConstants DEF PlanningAssumption
<1>3. CASE CheckIdle \/ PutGoal \/ CampaignEnds \/ ReviewsResolve
  <2>1. UNCHANGED <<receipt, starter, cycle, session, faults>>
        /\ submit' \in {"idle", "put"} /\ target' \in {"open", "waits", "complete"}
    BY <1>1, <1>3 DEF CheckIdle, PutGoal, CampaignEnds, ReviewsResolve, RestTyped
  <2> QED
    BY <1>1, <2>1 DEF RestTyped, SessionSound
<1>4. CASE CycleStarts
  <2>1. cycle' = FALSE /\ UNCHANGED <<receipt, starter, submit, target, faults>>
    BY <1>4 DEF CycleStarts
  <2>2. \/ session' = session
        \/ session' = [plan |-> files["cycle"], st |-> "RUNNING"] /\ files["cycle"] # None
    BY <1>4 DEF CycleStarts
  <2>3. session' \in [plan : MaybePlan,
                      st : {"NONE", "RUNNING", "COMPLETED", "PROVIDER_ERROR", "FAILED"}]
    BY <1>1, <2>2 DEF RestTyped
  <2>4. SessionSound'
    <3>1. CASE session' = session
      BY <1>1, <3>1 DEF SessionSound
    <3>2. CASE session' = [plan |-> files["cycle"], st |-> "RUNNING"] /\ files["cycle"] # None
      BY <3>2 DEF SessionSound
    <3> QED
      BY <2>2, <3>1, <3>2
  <2>5. cycle' \in BOOLEAN
    BY <2>1
  <2> QED
    BY <1>1, <2>1, <2>3, <2>4, <2>5 DEF RestTyped
<1>5. CASE SessionEnds
  <2>1. PICK st \in {"COMPLETED", "PROVIDER_ERROR", "FAILED"} :
           /\ st = "COMPLETED" \/ faults < MaxFaults
           /\ faults' = IF st = "COMPLETED" THEN faults ELSE faults + 1
           /\ session' = [session EXCEPT !.st = st]
    BY <1>5 DEF SessionEnds
  <2>2. UNCHANGED <<receipt, starter, submit, cycle, target>> /\ session.st = "RUNNING"
    BY <1>5 DEF SessionEnds
  <2>3. faults' \in 0..MaxFaults
    BY <1>1, <1>2, <2>1 DEF RestTyped
  <2>4. /\ session' \in [plan : MaybePlan,
                      st : {"NONE", "RUNNING", "COMPLETED", "PROVIDER_ERROR", "FAILED"}]
        /\ session'.plan = session.plan
    BY <1>1, <2>1 DEF RestTyped
  <2> QED
    BY <1>1, <2>2, <2>3, <2>4 DEF RestTyped, SessionSound
<1>6. CASE ReceiptAges
  BY <1>1, <1>6 DEF ReceiptAges, RestTyped, SessionSound
<1>7. ASSUME NEW g \in Groups, BeginStart(g) \/ KillStarter(g)
      PROVE  RestTyped' /\ SessionSound'
  <2>1. UNCHANGED <<receipt, submit, cycle, session, target>>
        /\ (Begin(g) \/ (faults < MaxFaults /\ faults' = faults + 1))
    BY <1>7 DEF BeginStart, KillStarter
  <2>2. \/ starter' = [starter EXCEPT ![g] = [pc |-> "dispatch", plan |-> state.cur]]
        \/ starter' = [starter EXCEPT ![g] = NotStarting]
    BY <1>7 DEF BeginStart, KillStarter
  <2>3. starter' \in [Groups -> [pc : {"idle", "dispatch", "receipt"}, plan : MaybePlan]]
    BY <1>1, <2>2 DEF RestTyped, NotStarting
  <2>4. faults' \in 0..MaxFaults
    BY <1>1, <2>1, FaultsTyped DEF RestTyped
  <2> QED
    BY <1>1, <2>1, <2>3, <2>4 DEF RestTyped, SessionSound
<1>8. ASSUME NEW g \in Groups, DispatchCycle(g)
      PROVE  RestTyped' /\ SessionSound'
  <2>1. UNCHANGED <<receipt, submit, session, target>> /\ cycle' \in BOOLEAN
    BY <1>1, <1>8 DEF DispatchCycle, RestTyped
  <2>2. starter' = [starter EXCEPT ![g].pc = "receipt"] \/ starter' = [starter EXCEPT ![g] = NotStarting]
    BY <1>8 DEF DispatchCycle
  <2>3. starter' \in [Groups -> [pc : {"idle", "dispatch", "receipt"}, plan : MaybePlan]]
    <3>1. [starter[g] EXCEPT !.pc = "receipt"] \in
              [pc : {"idle", "dispatch", "receipt"}, plan : MaybePlan]
      BY <1>1 DEF RestTyped
    <3>2. starter' = [starter EXCEPT ![g] = [starter[g] EXCEPT !.pc = "receipt"]]
          \/ starter' = [starter EXCEPT ![g] = NotStarting]
      BY <2>2
    <3> QED
      BY <1>1, <3>1, <3>2 DEF RestTyped, NotStarting
  <2>4. faults' = faults \/ (faults < MaxFaults /\ faults' = faults + 1)
    BY <1>8 DEF DispatchCycle
  <2>5. faults' \in 0..MaxFaults
    BY <1>1, <2>4, FaultsTyped DEF RestTyped
  <2> QED
    BY <1>1, <2>1, <2>3, <2>5 DEF RestTyped, SessionSound
<1>9. ASSUME NEW g \in Groups, WriteReceipt(g)
      PROVE  RestTyped' /\ SessionSound'
  <2> DEFINE P == starter[g].plan
  <2>1. P \in MaybePlan /\ ReceiptFor(P).count \in 0..MaxRetries
    BY <1>1 DEF ReceiptFor, RestTyped, MaxRetries
  <2>2. /\ receipt' = [plan |-> P, recent |-> TRUE,
                       count |-> IF ReceiptFor(P).count < MaxRetries
                                 THEN ReceiptFor(P).count + 1 ELSE MaxRetries]
        /\ starter' = [starter EXCEPT ![g] = NotStarting]
        /\ UNCHANGED <<submit, cycle, session, target, faults>>
    BY <1>9 DEF WriteReceipt
  <2>3. starter' \in [Groups -> [pc : {"idle", "dispatch", "receipt"}, plan : MaybePlan]]
    BY <1>1, <2>2 DEF RestTyped, NotStarting
  <2>4. receipt'.plan \in MaybePlan /\ receipt'.recent \in BOOLEAN
        /\ receipt'.count \in 0..MaxRetries
    BY <2>1, <2>2 DEF MaxRetries
  <2> QED
    BY <1>1, <2>2, <2>3, <2>4 DEF RestTyped, SessionSound
<1> QED
  BY <1>3, <1>4, <1>5, <1>6, <1>7, <1>8, <1>9 DEF OtherStep, External, StarterAction

-----------------------------------------------------------------------------
\* What the invariant is about, flat.
PlanningFields ==
    /\ goal \in Nat /\ used \in Nat /\ status.req \in Nat /\ status.attempt \in Nat
    /\ MaxAttempts \in Nat \ {0}
    /\ status.state \in {"NONE", "ACCEPTED", "HUMAN_WAIT", "PAUSED_QUOTA", "REPLAN"}
    /\ accepted.req \in Nat /\ mixed \in BOOLEAN
    /\ \A r \in Requests : r \in Nat /\ successor[r] \in Nat
    /\ \A p \in Groups :
           /\ planner[p].req \in Nat /\ planner[p].prev \in Nat
           /\ planner[p].settled \in BOOLEAN /\ planner[p].free \in BOOLEAN
           /\ planner[p].eligible \in BOOLEAN /\ planner[p].overtaken \in BOOLEAN
           /\ planner[p].plan.req \in Nat

LEMMA PlanningFlat ==
    ASSUME PlanningTypeOK
    PROVE  PlanningFields
<1> USE PlanningConstants DEF PlanningAssumption
<1>1. \A P \in MaybePlan : P.req \in Nat
  BY DEF MaybePlan, Plans, Requests, None
<1>2. /\ goal \in Nat /\ used \in Nat /\ status.req \in Nat /\ status.attempt \in Nat
      /\ status.state \in {"NONE", "ACCEPTED", "HUMAN_WAIT", "PAUSED_QUOTA", "REPLAN"}
      /\ accepted.req \in Nat /\ mixed \in BOOLEAN
      /\ \A r \in Requests : r \in Nat /\ successor[r] \in Nat
  BY <1>1 DEF PlanningTypeOK, Requests
<1>3. \A p \in Groups : planner[p] \in PlannerRuns
  BY DEF PlanningTypeOK
<1> QED
  BY <1>1, <1>2, <1>3 DEF PlanningFields, PlannerRuns

\* A run that another overtakes stays the run it was, but for the mark.
LEMMA OvertakenRun ==
    ASSUME PlanningTypeOK, NEW p \in Groups, Overtook(p), NEW q \in Groups \ {p}
    PROVE  /\ planner'[q].pc = planner[q].pc /\ planner'[q].plan = planner[q].plan
           /\ Reads(q) \/ planner'[q].overtaken
           /\ planner'[q].req = planner[q].req /\ planner'[q].prev = planner[q].prev
           /\ planner'[q].settled = planner[q].settled /\ planner'[q].free = planner[q].free
           /\ ~Fresh(q)'
<1>1. planner[q] \in PlannerRuns /\ planner'[q] = Marked(planner[q])
  BY DEF PlanningTypeOK, Overtook
<1>2. CASE planner[q].pc = "idle"
  BY <1>1, <1>2 DEF Marked, Reads, Fresh
<1>3. CASE planner[q].pc # "idle"
  BY <1>1, <1>3 DEF Marked, PlannerRuns, Fresh
<1> QED
  BY <1>2, <1>3

\* What always holds is kept by a run's step
LEMMA RunKeepsAlways ==
    ASSUME AlwaysInv, NEW p \in Groups, RunEffect(p)
    PROVE  StatusSound' /\ \A q \in Groups : RunSound(q)' /\ RunFree(q)'
<1>1. PlanningFields /\ PlanningTypeOK /\ StatusSound /\ RunSound(p) /\ RunFree(p)
      /\ \A q \in Groups : RunSound(q) /\ RunFree(q)
  BY PlanningFlat DEF AlwaysInv
<1>2. ASSUME Quiet(p), UNCHANGED core, RunSound(p)', RunFree(p)'
      PROVE  StatusSound' /\ \A q \in Groups : RunSound(q)' /\ RunFree(q)'
  <2>1. StatusSound' /\ state' = state
    BY <1>1, <1>2 DEF StatusSound, core
  <2>2. \A q \in Groups \ {p} : RunSound(q)' /\ RunFree(q)'
    BY <1>1, <1>2, <2>1 DEF Quiet, RunSound, RunFree, Fresh
  <2> QED
    BY <1>2, <2>1, <2>2
<1>3. ASSUME Overtook(p), StatusSound', RunSound(p)', RunFree(p)'
      PROVE  StatusSound' /\ \A q \in Groups : RunSound(q)' /\ RunFree(q)'
  <2>1. \A q \in Groups \ {p} : RunSound(q)' /\ RunFree(q)'
    BY <1>1, <1>3, OvertakenRun DEF RunSound, RunFree
  <2> QED
    BY <1>3, <2>1
<1>4. CASE Begins(p)
  <2>1. planner'[p].pc = "completion" /\ planner'[p].req = goal /\ goal \in Requests
    BY <1>1, <1>4 DEF Begins, PlanningTypeOK, Requests
  <2>2. ~planner'[p].settled => planner'[p].prev < MaxAttempts
    <3>1. SUFFICES ASSUME ~Terminal(goal, status)
                   PROVE  PreviousAttempt(goal, status) < MaxAttempts
      BY <1>4 DEF Begins
    <3>2. goal # 0
      BY <1>4 DEF Begins
    <3> QED
      BY <1>1, <3>1, <3>2 DEF Terminal, PreviousAttempt, StatusSound, PlanningFields
  <2>3. planner'[p].free => state'.cur = None
    BY <1>4 DEF Begins, MayActivate, core
  <2>4. RunSound(p)' /\ RunFree(p)'
    BY <2>1, <2>2, <2>3 DEF RunSound, RunFree, Ahead
  <2> QED
    BY <1>2, <1>4, <2>4 DEF Begins
<1>5. CASE Halts(p)
  <2>1. RunSound(p)' /\ RunFree(p)'
    BY <1>5 DEF Halts, RunSound, RunFree, Fresh, Ahead
  <2> QED
    BY <1>2, <1>5, <2>1 DEF Halts
<1>6. CASE Enters(p)
  <2>1. RunSound(p)' /\ RunFree(p)'
    BY <1>1, <1>6 DEF Enters, Stays, Reads, core, RunSound, RunFree, Fresh, Ahead
  <2> QED
    BY <1>2, <1>6, <2>1 DEF Enters
<1>7. CASE Arms(p)
  <2>1. RunSound(p)'
    BY <1>1, <1>7 DEF Arms, RunSound, Ahead, Successors, PlanningTypeOK, PlanningFields, Requests
  <2>2. RunFree(p)' /\ StatusSound'
    BY <1>1, <1>7 DEF Arms, RunFree, Fresh, Ahead, StatusSound
  <2> QED
    BY <1>3, <1>7, <2>1, <2>2 DEF Arms
<1>8. CASE Ends(p)
  <2>1. StatusSound'
    BY <1>1, <1>8 DEF Ends, StatusSound, PlanningFields, RunSound, Ahead
  <2>2. RunSound(p)' /\ RunFree(p)'
    BY <1>8 DEF Ends, RunSound, RunFree, Fresh, Ahead
  <2> QED
    BY <1>3, <1>8, <2>1, <2>2 DEF Ends
<1>9. CASE Activates(p)
  <2>1. RunSound(p)' /\ RunFree(p)'
    BY <1>1, <1>9 DEF Activates, Reads, core, RunSound, RunFree, Fresh, Ahead
  <2> QED
    BY <1>2, <1>9, <2>1 DEF Activates
<1>10. CASE WritesFile(p)
  <2>1. RunSound(p)' /\ RunFree(p)' /\ StatusSound'
    BY <1>1, <1>10 DEF WritesFile, Stays, Reads, RunSound, RunFree, Fresh, Ahead, StatusSound
  <2> QED
    BY <1>3, <1>10, <2>1 DEF WritesFile
<1>11. CASE WritesState(p)
  <2>1. RunSound(p)' /\ RunFree(p)' /\ StatusSound'
    BY <1>1, <1>11 DEF WritesState, Stays, Reads, RunSound, RunFree, Fresh, Ahead, StatusSound
  <2> QED
    BY <1>3, <1>11, <2>1 DEF WritesState
<1>12. CASE WritesStatus(p)
  <2>1. RunSound(p)' /\ RunFree(p)' /\ StatusSound'
    BY <1>1, <1>12 DEF WritesStatus, Stays, Reads, RunSound, RunFree, Fresh, Ahead, StatusSound
  <2> QED
    BY <1>3, <1>12, <2>1 DEF WritesStatus
<1>13. CASE WritesPlan(p)
  <2>1. RunSound(p)' /\ RunFree(p)' /\ StatusSound'
    BY <1>1, <1>13 DEF WritesPlan, Stays, Reads, RunSound, RunFree, Fresh, Ahead, StatusSound
  <2> QED
    BY <1>3, <1>13, <2>1 DEF WritesPlan
<1> QED
  BY <1>4, <1>5, <1>6, <1>7, <1>8, <1>9, <1>10, <1>11, <1>12, <1>13 DEF RunEffect

\* and by the others.
LEMMA OtherKeepsAlways ==
    ASSUME AlwaysInv, Elsewhere \/ NewGoal \/ CampaignEnded
    PROVE  FilesTyped' /\ RunsTyped' /\ StatusSound' /\ \A q \in Groups : RunSound(q)' /\ RunFree(q)'
<1>1. /\ FilesTyped /\ RunsTyped /\ StatusSound /\ SessionSound /\ session.plan \in MaybePlan
      /\ \A q \in Groups : RunSound(q) /\ RunFree(q)
  BY DEF AlwaysInv, PlanningTypeOK, FilesTyped, RunsTyped
<1>2. planner' = planner /\ status' = status /\ (state'.cur = state.cur \/ state'.cur = None)
  BY DEF Elsewhere, core, NewGoal, CampaignEnded
<1>3. RunsTyped' /\ StatusSound' /\ \A q \in Groups : RunSound(q)' /\ RunFree(q)'
  BY <1>1, <1>2 DEF RunsTyped, StatusSound, RunSound, RunFree, Fresh
<1>4. CASE Elsewhere
  BY <1>1, <1>3, <1>4 DEF FilesTyped, Elsewhere, core
<1>5. CASE NewGoal
  BY <1>1, <1>3, <1>5, PlanningConstants DEF FilesTyped, NewGoal, PlanningAssumption
<1>6. CASE CampaignEnded
  <2>1. session.plan.req \in Requests /\ None \in MaybePlan
    BY <1>1, <1>6 DEF CampaignEnded, SessionSound, MaybePlan, Plans
  <2> QED
    BY <1>1, <1>3, <1>6, <2>1 DEF FilesTyped, CampaignEnded
<1> QED
  BY <1>4, <1>5, <1>6

-----------------------------------------------------------------------------
\* The order of requests and files is kept by a quiet step, if it is for the
\* run itself,
LEMMA QuietKeepsOrder ==
    ASSUME OrderInv, NEW p \in Groups, Quiet(p), UNCHANGED core, Fresh(p)' => RunInOrder(p)'
    PROVE  OrderInv'
<1>1. FilesInOrder'
  BY DEF OrderInv, FilesInOrder, core, AcceptedPlanReconciles
<1>2. \A q \in Groups \ {p} : Fresh(q)' => RunInOrder(q)'
  <2>1. SUFFICES ASSUME NEW q \in Groups \ {p}, Fresh(q)'
                 PROVE  RunInOrder(q)'
    OBVIOUS
  <2>2. planner'[q] = planner[q] /\ Fresh(q)
    BY <2>1 DEF Quiet, Fresh
  <2>3. RunInOrder(q)
    BY <2>2 DEF OrderInv
  <2>4. RequestInOrder(q)'
    BY <2>2, <2>3 DEF RunInOrder, RequestInOrder, core
  <2>5. AttemptInOrder(q)'
    BY <2>2, <2>3 DEF RunInOrder, AttemptInOrder, core
  <2>6. ActivatedSoFar(q)'
    BY <2>2, <2>3 DEF RunInOrder, ActivatedSoFar, core
  <2> QED
    BY <2>4, <2>5, <2>6 DEF RunInOrder
<1> QED
  BY <1>1, <1>2 DEF OrderInv

\* and by a write, after which no other run is fresh.
LEMMA WriteKeepsOrder ==
    ASSUME PlanningTypeOK, NEW p \in Groups, Overtook(p), FilesInOrder',
           Fresh(p)' => RunInOrder(p)'
    PROVE  OrderInv'
BY OvertakenRun DEF OrderInv

\* A fresh run's step keeps the order,
LEMMA RunKeepsOrder ==
    ASSUME AlwaysInv, OrderInv, NEW p \in Groups, RunEffect(p),
           Begins(p) \/ Halts(p) \/ Fresh(p) \/ (Enters(p) \/ Activates(p))
    PROVE  OrderInv'
<1>1. /\ PlanningFields /\ PlanningTypeOK /\ StatusSound /\ RunSound(p) /\ RunFree(p)
      /\ FilesInOrder
  BY PlanningFlat DEF AlwaysInv, OrderInv
<1>2. Fresh(p) => RequestInOrder(p) /\ AttemptInOrder(p) /\ ActivatedSoFar(p)
  BY DEF OrderInv, RunInOrder
<1>3. CASE Begins(p)
  <2>1. /\ planner'[p].pc = "completion" /\ planner'[p].req = goal /\ goal \in Requests
        /\ UNCHANGED <<goal, status, successor, accepted, finished>>
    BY <1>1, <1>3 DEF Begins, PlanningTypeOK, Requests, core
  <2>2. planner'[p].eligible => goal \in finished
    BY <1>1, <1>3 DEF Begins, EligibleForSuccessor, FilesInOrder
  <2>3. RequestInOrder(p)'
    BY <1>1, <2>1, <2>2 DEF FilesInOrder, RequestInOrder, PlanningFields
  <2>4. ASSUME ~planner'[p].settled
        PROVE  /\ status.req = goal =>
                     status.state \in {"REPLAN", "PAUSED_QUOTA"} /\ status.attempt <= planner'[p].prev
               /\ accepted # None => accepted.req < goal
    <3>1. ~Terminal(goal, status) /\ planner'[p].prev = PreviousAttempt(goal, status) /\ goal # 0
      BY <1>3, <2>4 DEF Begins
    <3>2. status.req = goal =>
              status.state \in {"REPLAN", "PAUSED_QUOTA"} /\ status.attempt <= planner'[p].prev
      BY <1>1, <3>1 DEF Terminal, PreviousAttempt, PlanningFields, StatusSound
    <3>3. accepted # None => accepted.req < goal
      BY <1>1, <3>1 DEF Terminal, FilesInOrder, PlanningFields
    <3> QED
      BY <3>2, <3>3
  <2>5. AttemptInOrder(p)'
    BY <2>1, <2>4 DEF AttemptInOrder
  <2>6. ActivatedSoFar(p)'
    BY <2>1 DEF ActivatedSoFar
  <2> QED
    BY <1>3, <2>3, <2>5, <2>6, QuietKeepsOrder DEF Begins, RunInOrder
<1>4. CASE Halts(p)
  BY <1>4, QuietKeepsOrder DEF Halts, Fresh
<1>5. CASE Enters(p)
  <2>1. ASSUME Fresh(p)'
        PROVE  RunInOrder(p)'
    <3>1. Fresh(p)
      BY <1>5, <2>1 DEF Enters, Stays, Reads, Fresh
    <3>2. RequestInOrder(p)' /\ ActivatedSoFar(p)'
      BY <1>2, <1>5, <3>1 DEF Enters, Stays, Reads, core, RequestInOrder, ActivatedSoFar
    <3>3. AttemptInOrder(p)'
      BY <1>2, <1>5, <3>1 DEF Enters, Stays, Reads, core, AttemptInOrder
    <3> QED
      BY <3>2, <3>3 DEF RunInOrder
  <2> QED
    BY <1>5, <2>1, QuietKeepsOrder DEF Enters
<1>6. CASE Activates(p)
  <2>1. ASSUME Fresh(p)'
        PROVE  RunInOrder(p)'
    <3>1. Fresh(p)
      BY <1>6, <2>1 DEF Activates, Reads, Fresh
    <3>2. RequestInOrder(p)' /\ ActivatedSoFar(p)'
      BY <1>2, <1>6, <3>1 DEF Activates, Reads, core, RequestInOrder, ActivatedSoFar
    <3>3. AttemptInOrder(p)'
      BY <1>2, <1>6, <3>1 DEF Activates, Reads, core, AttemptInOrder
    <3> QED
      BY <3>2, <3>3 DEF RunInOrder
  <2> QED
    BY <1>6, <2>1, QuietKeepsOrder DEF Activates
<1>7. CASE Fresh(p) /\ Arms(p)
  <2> DEFINE n == goal'
             r == planner[p].req
  <2>1. /\ r \in Requests /\ r <= goal /\ successor[r] = 0 /\ status.req <= r /\ goal = used
        /\ n \in Successors(r) /\ used' = (IF n > used THEN n ELSE used)
        /\ successor' = [successor EXCEPT ![r] = n]
        /\ UNCHANGED <<status, files, state, accepted, finished>>
    BY <1>1, <1>2, <1>7 DEF Arms, RunSound, Fresh, RequestInOrder, FilesInOrder
  <2>2. n = used + 1 /\ used' = n /\ goal' = n
    BY <1>1, <2>1 DEF Successors, PlanningFields
  <2>3. \A t \in Requests : successor'[t] # 0 => t < goal'
    BY <1>1, <2>1, <2>2 DEF FilesInOrder, PlanningFields, PlanningTypeOK
  <2>4. FilesInOrder'
    BY <1>1, <2>1, <2>2, <2>3 DEF FilesInOrder, PlanningFields, AcceptedPlanReconciles
  <2>5. planner'[p].pc = "propose" /\ planner'[p].req = n
    BY <1>7 DEF Arms
  <2>6. RequestInOrder(p)' /\ ActivatedSoFar(p)'
    BY <1>1, <2>1, <2>2, <2>5 DEF RequestInOrder, ActivatedSoFar, PlanningFields
  <2>7. AttemptInOrder(p)'
    BY <1>1, <2>1, <2>2, <2>5 DEF AttemptInOrder, PlanningFields, FilesInOrder
  <2> QED
    BY <1>1, <1>7, <2>4, <2>6, <2>7, WriteKeepsOrder DEF Arms, RunInOrder
<1>8. CASE Fresh(p) /\ Ends(p)
  <2>1. /\ ~planner[p].settled /\ planner[p].pc # "dispatch" /\ status'.req = planner[p].req
        /\ status'.state # "ACCEPTED" /\ planner'[p].pc = "idle"
        /\ UNCHANGED <<goal, used, files, state, accepted, successor, finished>>
    BY <1>1, <1>8 DEF Ends, RunSound, Ahead
  <2>2. /\ planner[p].req <= goal
        /\ accepted # None => accepted.req < planner[p].req
    BY <1>2, <1>8, <2>1 DEF RequestInOrder, AttemptInOrder
  <2>3. FilesInOrder'
    BY <1>1, <2>1, <2>2 DEF FilesInOrder, AcceptedPlanReconciles
  <2> QED
    BY <1>1, <1>8, <2>1, <2>3, WriteKeepsOrder DEF Ends, Fresh
<1>9. CASE Fresh(p) /\ WritesFile(p)
  <2>1. /\ ~planner[p].settled
        /\ planner[p].plan.req = planner[p].req
        /\ planner[p].pc \in {"graph", "cycle"} => files["campaign"] = planner[p].plan
        /\ planner[p].pc = "cycle" => files["graph"] = planner[p].plan
    BY <1>1, <1>2, <1>9 DEF WritesFile, RunSound, Ahead, ActivatedSoFar
  <2>2. accepted # None => accepted.req < planner[p].req
    BY <1>2, <1>9, <2>1 DEF WritesFile, AttemptInOrder
  <2>3. files'["campaign"] = planner[p].plan
    BY <1>9, <2>1 DEF WritesFile, Files
  <2>4. planner'[p].pc \in {"cycle", "state"} => files'["graph"] = planner[p].plan
    BY <1>9, <2>1 DEF WritesFile, Files
  <2>5. planner'[p].pc = "state" => files'["cycle"] = planner[p].plan
    BY <1>9 DEF WritesFile
  <2>6. FilesInOrder'
    BY <1>1, <1>9, <2>1, <2>2, <2>3 DEF WritesFile, FilesInOrder, AcceptedPlanReconciles,
       PlanningFields
  <2>7. ActivatedSoFar(p)'
    BY <1>9, <2>3, <2>4, <2>5 DEF ActivatedSoFar, WritesFile, Stays
  <2>8. RequestInOrder(p)'
    BY <1>2, <1>9 DEF RequestInOrder, WritesFile, Stays, Reads
  <2>9. AttemptInOrder(p)'
    BY <1>2, <1>9 DEF AttemptInOrder, WritesFile, Stays, Reads
  <2> QED
    BY <1>1, <1>9, <2>6, <2>7, <2>8, <2>9, WriteKeepsOrder DEF WritesFile, RunInOrder
<1>10. CASE Fresh(p) /\ WritesState(p)
  <2>1. state.cur = None /\ state'.cur = planner[p].plan
        /\ UNCHANGED <<goal, used, status, files, accepted, successor, finished>>
    BY <1>1, <1>10 DEF WritesState, RunSound, RunFree, Ahead
  <2>2. FilesInOrder'
    BY <1>1, <2>1 DEF FilesInOrder, AcceptedPlanReconciles
  <2>3. RequestInOrder(p)' /\ AttemptInOrder(p)'
    BY <1>2, <1>10, <2>1 DEF RequestInOrder, AttemptInOrder, WritesState, Stays, Reads
  <2>4. ActivatedSoFar(p)'
    BY <1>2, <1>10, <2>1 DEF ActivatedSoFar, WritesState, Stays, Reads
  <2> QED
    BY <1>1, <1>10, <2>2, <2>3, <2>4, WriteKeepsOrder DEF WritesState, RunInOrder
<1>11. CASE Fresh(p) /\ WritesStatus(p)
  <2>1. /\ planner[p].plan \in Plans /\ status'.req = planner[p].req
        /\ status'.state = "ACCEPTED" /\ ~planner[p].settled
        /\ UNCHANGED <<goal, used, files, state, accepted, successor, finished>>
    BY <1>1, <1>11 DEF WritesStatus, RunSound, Ahead
  <2>2. /\ planner[p].req \in finished \/ state.cur = planner[p].plan
        /\ planner[p].plan # None /\ planner[p].plan.req = planner[p].req
        /\ planner[p].req <= goal
        /\ accepted # None => accepted.req < planner[p].req
    <3>1. None \notin Plans
      BY DEF Plans, None, Requests
    <3> QED
      BY <1>1, <1>2, <1>11, <2>1, <3>1 DEF WritesStatus, ActivatedSoFar, RequestInOrder,
         AttemptInOrder, RunSound
  <2>3. FilesInOrder'
    BY <1>1, <2>1, <2>2 DEF FilesInOrder, AcceptedPlanReconciles
  <2>4. RequestInOrder(p)' /\ AttemptInOrder(p)'
    BY <1>1, <1>2, <1>11, <2>1, <2>2 DEF RequestInOrder, AttemptInOrder, WritesStatus, Stays,
       Reads, PlanningFields
  <2>5. ActivatedSoFar(p)'
    BY <1>2, <1>11 DEF ActivatedSoFar, WritesStatus, Stays, Reads
  <2> QED
    BY <1>1, <1>11, <2>3, <2>4, <2>5, WriteKeepsOrder DEF WritesStatus, RunInOrder
<1>12. CASE Fresh(p) /\ WritesPlan(p)
  <2>1. /\ accepted' = planner[p].plan /\ planner[p].plan.req = planner[p].req
        /\ status.req = planner[p].req /\ ~planner[p].settled
        /\ \A f \in Files : files[f] = planner[p].plan
        /\ UNCHANGED <<goal, used, status, files, state, successor, finished>>
    BY <1>1, <1>2, <1>12 DEF WritesPlan, RunSound, AttemptInOrder, ActivatedSoFar, Files
  <2>2. status.state = "ACCEPTED"
    BY <1>2, <1>12, <2>1 DEF WritesPlan, AttemptInOrder
  <2>3. FilesInOrder'
    BY <1>1, <2>1, <2>2 DEF FilesInOrder, AcceptedPlanReconciles
  <2>4. RequestInOrder(p)' /\ AttemptInOrder(p)' /\ ActivatedSoFar(p)'
    BY <1>2, <1>12, <2>1, <2>2 DEF RequestInOrder, AttemptInOrder, ActivatedSoFar, WritesPlan,
       Stays, Reads
  <2> QED
    BY <1>1, <1>12, <2>3, <2>4, WriteKeepsOrder DEF WritesPlan, RunInOrder
<1> QED
  BY <1>3, <1>4, <1>5, <1>6, <1>7, <1>8, <1>9, <1>10, <1>11, <1>12 DEF RunEffect

\* and so do the other steps.
LEMMA OtherKeepsOrder ==
    ASSUME AlwaysInv, OrderInv, Elsewhere \/ NewGoal \/ CampaignEnded
    PROVE  OrderInv'
<1>1. /\ PlanningFields /\ FilesInOrder /\ SessionSound
      /\ \A q \in Groups : RunSound(q)
  BY PlanningFlat DEF AlwaysInv, OrderInv
<1>2. CASE Elsewhere
  BY <1>2 DEF OrderInv, Elsewhere, core, FilesInOrder, AcceptedPlanReconciles, Fresh, RunInOrder,
     RequestInOrder, AttemptInOrder, ActivatedSoFar
<1>3. CASE NewGoal
  <2>1. goal' = goal + 1 /\ used' = goal'
        /\ UNCHANGED <<status, files, state, accepted, planner, successor, finished>>
    BY <1>1, <1>3 DEF NewGoal, FilesInOrder
  <2>2. FilesInOrder'
    BY <1>1, <2>1 DEF FilesInOrder, AcceptedPlanReconciles, PlanningFields
  <2>3. ASSUME NEW q \in Groups, Fresh(q)'
        PROVE  RunInOrder(q)'
    <3>1. Fresh(q) /\ RequestInOrder(q) /\ AttemptInOrder(q) /\ ActivatedSoFar(q)
      BY <2>1, <2>3 DEF OrderInv, RunInOrder, Fresh
    <3>2. RequestInOrder(q)'
      BY <1>1, <2>1, <3>1 DEF RequestInOrder, PlanningFields
    <3>3. AttemptInOrder(q)' /\ ActivatedSoFar(q)'
      BY <2>1, <3>1 DEF AttemptInOrder, ActivatedSoFar
    <3> QED
      BY <3>2, <3>3 DEF RunInOrder
  <2> QED
    BY <2>2, <2>3 DEF OrderInv
<1>4. CASE CampaignEnded
  <2>1. /\ state'.cur = None /\ state.cur # None /\ finished' = finished \cup {state.cur.req}
        /\ UNCHANGED <<goal, used, status, files, accepted, planner, successor>>
    BY <1>1, <1>4 DEF CampaignEnded, SessionSound
  <2>2. FilesInOrder'
    BY <1>1, <2>1 DEF FilesInOrder, AcceptedPlanReconciles
  <2>3. ASSUME NEW q \in Groups, Fresh(q)'
        PROVE  RunInOrder(q)'
    <3>1. Fresh(q) /\ RequestInOrder(q) /\ AttemptInOrder(q) /\ ActivatedSoFar(q) /\ RunSound(q)
      BY <1>1, <2>1, <2>3 DEF OrderInv, RunInOrder, Fresh
    <3>2. RequestInOrder(q)' /\ AttemptInOrder(q)'
      BY <2>1, <3>1 DEF RequestInOrder, AttemptInOrder
    <3>3. ActivatedSoFar(q)'
      BY <2>1, <3>1 DEF ActivatedSoFar, RunSound
    <3> QED
      BY <3>2, <3>3 DEF RunInOrder
  <2> QED
    BY <2>2, <2>3 DEF OrderInv
<1> QED
  BY <1>2, <1>3, <1>4

-----------------------------------------------------------------------------
\* The invariant holds at the start,
LEMMA PlanningInvInit ==
    PlanningInit => PlanningInv
<1> SUFFICES ASSUME PlanningInit
             PROVE  PlanningInv
  OBVIOUS
<1> USE PlanningConstants DEF PlanningAssumption, PlanningInit
<1>1. /\ First \in 0..MaxRequests /\ None \in MaybePlan /\ None.req = 0
      /\ First # 0 => First \in Requests
  BY DEF MaybePlan, None, Requests
<1>2. FirstPlan \in MaybePlan /\ FirstPlan.req = First /\ (First # 0 => FirstPlan # None)
  <2>1. CASE First = 0
    BY <1>1, <2>1 DEF FirstPlan
  <2>2. CASE First # 0
    <3>1. (CHOOSE x \in ProposalIds : Acceptable(x)) \in ProposalIds
      BY <2>2
    <3>2. FirstPlan \in Plans /\ FirstPlan.req = First
      BY <1>1, <2>2, <3>1 DEF FirstPlan, Plans
    <3> QED
      BY <1>1, <2>2, <3>2 DEF MaybePlan
  <2> QED
    BY <2>1, <2>2
<1>3. \A p \in Groups : planner[p] = NoPlanning /\ planner[p].pc = "idle"
  BY DEF NoPlanning
<1>4. FilesTyped
  <2>1. /\ goal \in 0..MaxRequests /\ used \in 0..MaxRequests /\ accepted \in MaybePlan
        /\ status.req = First /\ mixed = FALSE
    BY <1>1, <1>2
  <2>2. /\ (IF First = 0 THEN "NONE" ELSE "ACCEPTED") \in
               {"NONE", "ACCEPTED", "HUMAN_WAIT", "PAUSED_QUOTA", "REPLAN"}
        /\ (IF First = 0 THEN 0 ELSE 1) \in 0..MaxAttempts
    OBVIOUS
  <2>3. status \in [req : 0..MaxRequests, attempt : 0..MaxAttempts,
                   state : {"NONE", "ACCEPTED", "HUMAN_WAIT", "PAUSED_QUOTA", "REPLAN"}]
    BY <1>1, <2>2
  <2>4. files \in [Files -> MaybePlan]
    BY <1>2
  <2>5. state \in [cur : MaybePlan, status : {"READY"}, exhausted : BOOLEAN]
    BY <1>1
  <2>6. successor \in [Requests -> 0..MaxRequests] /\ finished \subseteq Requests
    BY <1>1 DEF Requests
  <2> QED
    BY <2>1, <2>3, <2>4, <2>5, <2>6 DEF FilesTyped
<1>5. RunsTyped
  BY <1>1 DEF RunsTyped, PlannerRuns, PlannerPCs, NoPlanning
<1>6. RestTyped
  <2>1. /\ receipt.plan \in MaybePlan /\ receipt.count \in 0..MaxRetries
        /\ receipt.recent \in BOOLEAN
    BY <1>2 DEF MaxRetries
  <2>2. starter \in [Groups -> [pc : {"idle", "dispatch", "receipt"}, plan : MaybePlan]]
    BY <1>1 DEF NotStarting
  <2>3. session \in [plan : MaybePlan,
                     st : {"NONE", "RUNNING", "COMPLETED", "PROVIDER_ERROR", "FAILED"}]
    <3>1. session = [plan |-> FirstPlan, st |-> "NONE"]
          \/ session = [plan |-> FirstPlan, st |-> "COMPLETED"]
      OBVIOUS
    <3> QED
      BY <1>2, <3>1
  <2>4. submit \in {"idle", "put"} /\ target \in {"open", "waits", "complete"}
    OBVIOUS
  <2>5. cycle \in BOOLEAN
    OBVIOUS
  <2>6. faults \in 0..MaxFaults
    OBVIOUS
  <2> QED
    BY <2>1, <2>2, <2>3, <2>4, <2>5, <2>6 DEF RestTyped
<1>7. PlanningTypeOK
  BY <1>4, <1>5, <1>6 DEF PlanningTypeOK, FilesTyped, RunsTyped, RestTyped
<1>8. StatusSound /\ SessionSound /\ \A p \in Groups : RunSound(p) /\ RunFree(p)
  BY <1>2, <1>3 DEF StatusSound, SessionSound, RunSound, RunFree, Fresh, Ahead
<1>9. FilesInOrder
  <2>1. AcceptedPlanReconciles
    BY DEF AcceptedPlanReconciles
  <2>2. status.req = First /\ (status.state = "ACCEPTED" => First # 0)
    BY <1>1
  <2>3. accepted # None => accepted.req = status.req /\ status.state = "ACCEPTED"
    BY <1>1, <1>2, <2>2 DEF FirstPlan
  <2>4. status.state = "ACCEPTED" => status.req \in finished
    BY <1>1, <2>2
  <2>5. goal = used /\ status.req <= goal /\ \A r \in Requests : successor[r] = 0
    BY <1>1
  <2> QED
    BY <2>1, <2>3, <2>4, <2>5 DEF FilesInOrder
<1> QED
  BY <1>3, <1>7, <1>8, <1>9 DEF PlanningInv, AlwaysInv, OrderInv, Fresh

\* and every step keeps it.
LEMMA PlanningInvStep ==
    ASSUME PlanningInv, [PlanningNext]_planningVars
    PROVE  PlanningInv'
<1>1. AlwaysInv /\ (~mixed => OrderInv) /\ RestTyped /\ PlanningTypeOK /\ PlanningFields
  BY PlanningFlat DEF PlanningInv, AlwaysInv, PlanningTypeOK, RestTyped
<1>2. ASSUME NEW p \in Groups, PlannerAction(p) \/ WriteRefused(p) \/ KillPlanner(p)
      PROVE  PlanningInv'
  <2>1. RunEffect(p) /\ FilesTyped' /\ RunsTyped'
    BY <1>1, <1>2, RunEffects
  <2>2. RestTyped' /\ SessionSound'
    BY <1>1, <1>2, PlannerRest DEF AlwaysInv, SessionSound
  <2>3. PlanningTypeOK'
    BY <2>1, <2>2 DEF PlanningTypeOK, FilesTyped, RunsTyped, RestTyped
  <2>4. AlwaysInv'
    BY <1>1, <2>1, <2>2, <2>3, RunKeepsAlways DEF AlwaysInv
  <2>5. ASSUME ~mixed'
        PROVE  OrderInv'
    <3>1. CASE Begins(p) \/ Halts(p) \/ Enters(p) \/ Activates(p)
      <4>1. ~mixed
        BY <2>5, <3>1 DEF Begins, Halts, Enters, Activates, Quiet
      <4> QED
        BY <1>1, <2>1, <3>1, <4>1, RunKeepsOrder
    <3>2. CASE Arms(p) \/ Ends(p) \/ WritesFile(p) \/ WritesState(p) \/ WritesStatus(p)
               \/ WritesPlan(p)
      <4>1. ~mixed /\ ~planner[p].overtaken
        BY <2>5, <3>2 DEF Arms, Ends, WritesFile, WritesState, WritesStatus, WritesPlan, Overtook
      <4>2. Fresh(p)
        BY <3>2, <4>1 DEF Arms, Ends, WritesFile, WritesState, WritesStatus, WritesPlan, Fresh,
           Ahead
      <4> QED
        BY <1>1, <2>1, <4>1, <4>2, RunKeepsOrder
    <3> QED
      BY <2>1, <3>1, <3>2 DEF RunEffect
  <2> QED
    BY <2>4, <2>5 DEF PlanningInv
<1>3. CASE OtherStep
  <2>1. Elsewhere \/ NewGoal \/ CampaignEnded
    BY <1>3, OtherEffects
  <2>2. FilesTyped' /\ RunsTyped' /\ StatusSound' /\ \A q \in Groups : RunSound(q)' /\ RunFree(q)'
    BY <1>1, <2>1, OtherKeepsAlways
  <2>3. RestTyped' /\ SessionSound'
    BY <1>1, <1>3, OtherRest
  <2>4. PlanningTypeOK'
    BY <2>2, <2>3 DEF PlanningTypeOK, FilesTyped, RunsTyped, RestTyped
  <2>5. mixed' = mixed
    BY <2>1 DEF Elsewhere, NewGoal, CampaignEnded
  <2>6. ~mixed => OrderInv'
    BY <1>1, <2>1, OtherKeepsOrder
  <2> QED
    BY <2>2, <2>3, <2>4, <2>5, <2>6 DEF PlanningInv, AlwaysInv
<1>4. CASE UNCHANGED planningVars
  <2>1. Elsewhere /\ UNCHANGED <<receipt, starter, submit, cycle, session, target, faults>>
    BY <1>4 DEF planningVars, Elsewhere, core
  <2>2. FilesTyped' /\ RunsTyped' /\ StatusSound' /\ \A q \in Groups : RunSound(q)' /\ RunFree(q)'
    BY <1>1, <2>1, OtherKeepsAlways
  <2>3. RestTyped' /\ SessionSound'
    BY <1>1, <2>1 DEF RestTyped, SessionSound, AlwaysInv
  <2>4. PlanningTypeOK'
    BY <2>2, <2>3 DEF PlanningTypeOK, FilesTyped, RunsTyped, RestTyped
  <2>5. mixed' = mixed
    BY <2>1 DEF Elsewhere
  <2>6. ~mixed => OrderInv'
    BY <1>1, <2>1, OtherKeepsOrder
  <2> QED
    BY <2>2, <2>3, <2>4, <2>5, <2>6 DEF PlanningInv, AlwaysInv
<1> QED
  BY <1>2, <1>3, <1>4 DEF PlanningNext, OtherStep

(* A fresh planner run sees the current task as it is, and until a run has   *)
(* written over what it had not read, goal, status, accepted plan and the    *)
(* files of an activation go from one request to the next, for any groups,   *)
(* requests and faults.                                                     *)
THEOREM PlanningInvariant == PlanningSpec => []PlanningInv
<1>1. PlanningInit => PlanningInv
  BY PlanningInvInit
<1>2. PlanningInv /\ [PlanningNext]_planningVars => PlanningInv'
  BY PlanningInvStep
<1> QED
  BY <1>1, <1>2, PTL DEF PlanningSpec

\* A step that leaves the files unmixed counts the failures.
LEMMA StepCountsFailures ==
    ASSUME PlanningInv, [PlanningNext]_planningVars, ~mixed'
    PROVE  FailuresAreCounted \/ UNCHANGED planningVars
<1>1. AlwaysInv /\ PlanningFields /\ (~mixed => OrderInv)
  BY PlanningFlat DEF PlanningInv, AlwaysInv
<1>2. ASSUME status' = status
      PROVE  FailuresAreCounted
  BY <1>1, <1>2 DEF FailuresAreCounted, PlanningFields
<1>3. CASE OtherStep
  BY <1>2, <1>3, OtherEffects DEF Elsewhere, core, NewGoal, CampaignEnded
<1>4. ASSUME NEW p \in Groups, PlannerAction(p) \/ WriteRefused(p) \/ KillPlanner(p)
      PROVE  FailuresAreCounted
  <2>1. RunEffect(p)
    BY <1>1, <1>4, RunEffects
  <2>2. CASE Begins(p) \/ Halts(p) \/ Enters(p) \/ Activates(p)
    BY <1>2, <2>2 DEF Begins, Halts, Enters, Activates, core
  <2>3. CASE Arms(p) \/ WritesFile(p) \/ WritesState(p) \/ WritesPlan(p)
    BY <1>2, <2>3 DEF Arms, WritesFile, WritesState, WritesPlan
  <2>4. CASE Ends(p) \/ WritesStatus(p)
    <3>1. ~mixed /\ Fresh(p)
      BY <2>4 DEF Ends, WritesStatus, Overtook, Fresh, Ahead
    <3>2. /\ RequestInOrder(p) /\ AttemptInOrder(p) /\ ~planner[p].settled
          /\ planner[p].pc = "status" => planner[p].plan.req = planner[p].req
      BY <1>1, <2>4, <3>1 DEF OrderInv, RunInOrder, AlwaysInv, RunSound, Ends, WritesStatus, Ahead
    <3>3. status'.req = planner[p].req /\ status.req <= planner[p].req
      BY <2>4, <3>2 DEF Ends, WritesStatus, RequestInOrder
    <3>4. CASE planner[p].pc = "accepted"
      <4>1. /\ status.req = planner[p].req /\ status.state = "ACCEPTED"
            /\ status.attempt = planner[p].prev + 1
        BY <3>2, <3>4 DEF AttemptInOrder
      <4>2. status'.attempt = planner[p].prev + 1
        BY <2>4, <3>4 DEF Ends, WritesStatus
      <4> QED
        BY <1>1, <3>3, <4>1, <4>2 DEF FailuresAreCounted, PlanningFields
    <3>5. CASE planner[p].pc # "accepted"
      <4>1. planner[p].pc # "dispatch"
        BY <2>4 DEF Ends, WritesStatus, Ahead
      <4>2. status.req = planner[p].req =>
               status.state \in {"REPLAN", "PAUSED_QUOTA"} /\ status.attempt <= planner[p].prev
        BY <3>2, <3>5, <4>1 DEF AttemptInOrder
      <4>3. /\ status'.attempt \in {planner[p].prev, planner[p].prev + 1}
            /\ status'.state = "REPLAN" => status'.attempt = planner[p].prev + 1
        BY <2>4 DEF Ends, WritesStatus
      <4> QED
        BY <1>1, <3>3, <4>2, <4>3 DEF FailuresAreCounted, PlanningFields
    <3> QED
      BY <3>4, <3>5
  <2> QED
    BY <2>1, <2>2, <2>3, <2>4 DEF RunEffect
<1> QED
  BY <1>3, <1>4 DEF PlanningNext, OtherStep

(* However a planner run is killed, its writes refused or its dispatches     *)
(* lost, and whatever the other group's runs do meanwhile: until one of them *)
(* has written over what it had not read, the accepted plan agrees with the  *)
(* files it was activated with, or a later request's activation has begun,   *)
(* and each failure of a request is counted.                                *)
THEOREM PlanningIsConsistent == PlanningSpec => PlanningConsistent
<1>1. PlanningInv => PlanningTypeOK /\ (~mixed => AcceptedPlanReconciles)
  BY DEF PlanningInv, AlwaysInv, OrderInv, FilesInOrder
<1>2. ASSUME PlanningInv, [PlanningNext]_planningVars
      PROVE  [~mixed' => FailuresAreCounted]_planningVars
  BY <1>2, StepCountsFailures
<1>3. PlanningSpec => []PlanningInv
  BY PlanningInvariant
<1>4. PlanningSpec => [][~mixed' => FailuresAreCounted]_planningVars
  BY <1>2, <1>3, PTL DEF PlanningSpec
<1>5. PlanningSpec => []PlanningTypeOK /\ [](~mixed => AcceptedPlanReconciles)
  BY <1>1, <1>3, PTL
<1> QED
  BY <1>4, <1>5 DEF PlanningConsistent

(* A planner run decides on files it has read many writes earlier, and takes *)
(* the place of a current task only if a run of the other group has written  *)
(* a file since, and of a goal whose campaign has not ended only then, or if *)
(* the goal was submitted since, or after such writes.                      *)
THEOREM PlanningDisplacesNothing == PlanningSpec => NothingIsDisplaced
<1> DEFINE TaskKept == state.cur # None /\ state'.cur \notin {None, state.cur} =>
                          \E g \in Groups : /\ planner[g].pc = "state"
                                            /\ planner'[g].pc = "status"
                                            /\ planner[g].overtaken
           GoalKept == \A g \in Groups :
                          planner[g].pc = "completion" /\ planner'[g].pc = "propose"
                             /\ goal' # goal =>
                             \/ goal \in finished
                             \/ planner[g].req # goal \/ planner[g].overtaken \/ mixed
<1>1. ASSUME PlanningInv, [PlanningNext]_planningVars
      PROVE  [TaskKept /\ GoalKept]_planningVars
  <2>1. AlwaysInv /\ PlanningTypeOK /\ (~mixed => OrderInv)
    BY <1>1 DEF PlanningInv, AlwaysInv
  <2>2. CASE OtherStep
    <3>1. planner' = planner /\ state'.cur \in {None, state.cur}
      BY <2>2, OtherEffects DEF Elsewhere, core, NewGoal, CampaignEnded
    <3> QED
      BY <3>1
  <2>3. ASSUME NEW p \in Groups, PlannerAction(p) \/ WriteRefused(p) \/ KillPlanner(p)
        PROVE  TaskKept /\ GoalKept
    <3>1. RunEffect(p)
      BY <2>1, <2>3, RunEffects
    <3>2. CASE WritesState(p)
      <4>1. planner[p].pc = "state" /\ planner'[p].pc = "status" /\ goal' = goal
        BY <3>2 DEF WritesState
      <4>2. ~planner[p].overtaken => state.cur = None
        BY <2>1, <4>1 DEF AlwaysInv, RunSound, RunFree, Fresh, Ahead
      <4> QED
        BY <4>1, <4>2
    <3>3. CASE Arms(p)
      <4>1. state' = state /\ planner[p].pc = "completion" /\ planner[p].eligible
        BY <3>3 DEF Arms
      <4>2. \A q \in Groups \ {p} : planner'[q].pc = planner[q].pc
        BY <2>1, <3>3, OvertakenRun DEF Arms
      <4>3. ~planner[p].overtaken /\ ~mixed => planner[p].req \in finished
        BY <2>1, <4>1 DEF OrderInv, RunInOrder, RequestInOrder, Fresh
      <4> QED
        BY <4>1, <4>2, <4>3
    <3>4. CASE ~(WritesState(p) \/ Arms(p))
      <4>1. state' = state /\ goal' = goal
        BY <3>1, <3>4 DEF RunEffect, Begins, Halts, Enters, Ends, Activates, WritesFile,
           WritesStatus, WritesPlan, core
      <4> QED
        BY <4>1
    <3> QED
      BY <3>2, <3>3, <3>4
  <2> QED
    BY <1>1, <2>2, <2>3 DEF PlanningNext, OtherStep
<1>2. PlanningSpec => []PlanningInv
  BY PlanningInvariant
<1>3. ASSUME PlanningInv, [PlanningNext]_planningVars
      PROVE  [state.cur # None /\ state'.cur \notin {None, state.cur} =>
                 \E g \in Groups : /\ planner[g].pc = "state" /\ planner'[g].pc = "status"
                                   /\ planner[g].overtaken]_planningVars
  BY <1>1, <1>3
<1>4. ASSUME PlanningInv, [PlanningNext]_planningVars
      PROVE  [\A g \in Groups :
                 planner[g].pc = "completion" /\ planner'[g].pc = "propose" /\ goal' # goal =>
                    \/ goal \in finished
                    \/ planner[g].req # goal \/ planner[g].overtaken \/ mixed]_planningVars
  BY <1>1, <1>4
<1>5. PlanningSpec => TaskDisplacedUnread
  BY <1>2, <1>3, PTL DEF PlanningSpec, TaskDisplacedUnread
<1>6. PlanningSpec => GoalDisplacedUnread
  BY <1>2, <1>4, PTL DEF PlanningSpec, GoalDisplacedUnread
<1> QED
  BY <1>5, <1>6 DEF NothingIsDisplaced

=============================================================================
