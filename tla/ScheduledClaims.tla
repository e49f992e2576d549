--------------------------- MODULE ScheduledClaims ---------------------------
(***************************************************************************)
(* The scheduler and the lease together: a run is dispatched for the task  *)
(* that the graph has RUNNING at that moment (ade_provider_cycle, from     *)
(* .github/trusted/review_wait_controller.py and ade_pr_gate.py), and      *)
(* claims the execution lease for it at its own pace, while the task is    *)
(* completed or parked and the next one takes the file over.               *)
(*                                                                         *)
(* Neither side looks at the other again: a run does not read the graph    *)
(* before it writes the lease, and the scheduler never reads the lease.    *)
(***************************************************************************)
EXTENDS DagScheduler, ExecutionLease

CONSTANT MaxTime

VARIABLES lease, clock, run, epoch, grants

Claims == INSTANCE LeaseClaims

claims == <<lease, clock, run, epoch, grants>>

CompositionAssumption == LeaseTask = Task

ASSUME ScheduledClaimsAssumption == CompositionAssumption

ComposedInit == Init /\ Claims!Init

Schedule == Next /\ UNCHANGED claims

\* A run of owner o is dispatched for t.
Dispatched(o, t) == graph[t] = "RUNNING" /\ Claims!Call(o, t) /\ UNCHANGED graph

Claim(o) == (Claims!Read(o) \/ Claims!Write(o)) /\ UNCHANGED graph

Time == Claims!Tick /\ UNCHANGED graph

ComposedNext ==
    \/ Schedule
    \/ \E o \in Owner : Claim(o) \/ \E t \in Task : Dispatched(o, t)
    \/ Time

ComposedSpec ==
    /\ ComposedInit /\ [][ComposedNext]_<<graph, claims>>
    /\ \A t \in Task :
         WF_<<graph, claims>>(Advance(t) /\ UNCHANGED claims)
         /\ WF_<<graph, claims>>(ReconcileReview(t) /\ UNCHANGED claims)

-----------------------------------------------------------------------------
\* While claims for one task follow each other, an attempt is granted once
\* and the next starts no earlier than the one before expires, although runs
\* of tasks that were parked or completed meanwhile still claim.
LeaseExclusive == Claims!LeaseExclusive

=============================================================================
