---------------------------- MODULE LeaseClaims ----------------------------
(***************************************************************************)
(* Workflow runs that race for the execution lease with claim_execution    *)
(* (src/ade/execution_lease_store.py): read the clock, read the file, then *)
(* write the acquired lease against the blob SHA that was read.  A lease   *)
(* is never released: it is replaced by a claim for another task, or left  *)
(* to expire.                                                              *)
(*                                                                         *)
(* A run has its own owner id and makes one claim.  renew_lease and        *)
(* release_lease have no caller and are left out.                          *)
(***************************************************************************)
EXTENDS ExecutionLease

CONSTANT MaxTime        \* bound: the last instant

VARIABLES
    lease,      \* the file
    clock,
    run,        \* run[o]: where the run of owner o is and what it read
    epoch,      \* how often a lease on one task replaced one on another
    grants      \* the leases granted so far, each with its epoch

vars == <<lease, clock, run, epoch, grants>>

Idle == [pc |-> "idle"]
Done == [pc |-> "done"]

Init ==
    /\ lease = NoLease
    /\ clock = 0
    /\ run = [o \in Owner |-> Idle]
    /\ epoch = 0
    /\ grants = {}

\* The clock is read when claim_execution is called, before the file.
Call(o, t) ==
    /\ run[o].pc = "idle"
    /\ run' = [run EXCEPT ![o] = [pc |-> "read", task |-> t, now |-> clock]]
    /\ UNCHANGED <<lease, clock, epoch, grants>>

Grant(l, e) == grants' = grants \cup {[lease |-> l, epoch |-> e]}

\* The GET and acquire_lease.  A refusal ends the run; its own live lease is
\* returned without a write.
Read(o) ==
    /\ run[o].pc = "read"
    /\ LET t == run[o].task
           now == run[o].now
       IN  IF Refused(lease, t, o, now)
           THEN run' = [run EXCEPT ![o] = Done]
           ELSE run' = [run EXCEPT ![o] =
                    IF Acquired(lease, t, o, now) = lease THEN Done
                    ELSE [pc |-> "write", seen |-> lease,
                          new |-> Acquired(lease, t, o, now)]]
    /\ UNCHANGED <<lease, clock, epoch, grants>>

\* Mutant of SameLease: the SHA is not sent.
AnyLease(o) == TRUE

SameLease(o) == lease = run[o].seen

\* The PUT: refused (409, the run ends) unless the file is the one read.
Write(o) ==
    /\ run[o].pc = "write"
    /\ LET new == run[o].new
           e == IF lease # NoLease /\ lease.task # new.task
                THEN epoch + 1 ELSE epoch
       IN  IF SameLease(o)
           THEN /\ lease' = new
                /\ epoch' = e
                /\ Grant(new, e)
           ELSE UNCHANGED <<lease, epoch, grants>>
    /\ run' = [run EXCEPT ![o] = Done]
    /\ UNCHANGED clock

Tick ==
    /\ clock < MaxTime
    /\ clock' = clock + 1
    /\ UNCHANGED <<lease, run, epoch, grants>>

Next ==
    \/ \E o \in Owner :
         \/ \E t \in LeaseTask : Call(o, t)
         \/ Read(o)
         \/ Write(o)
    \/ Tick

Spec == Init /\ [][Next]_vars

-----------------------------------------------------------------------------
TypeOK ==
    /\ lease \in Lease \cup {NoLease}
    /\ clock \in Nat
    /\ run \in [Owner ->
                  [pc : {"idle", "done"}]
                  \cup [pc : {"read"}, task : LeaseTask, now : Nat]
                  \cup [pc : {"write"}, seen : Lease \cup {NoLease}, new : Lease]]
    /\ epoch \in Nat
    /\ grants \subseteq [lease : Lease, epoch : Nat]

\* While claims for one task follow each other, however the runs interleave
\* and however old the clock reading of a slow run is: an attempt is granted
\* once, and a later attempt starts no earlier than the one before expires.
LeaseExclusive ==
    \A g, h \in grants :
        /\ g.epoch = h.epoch
        /\ g # h
        => /\ g.lease.attempt # h.lease.attempt
           /\ g.lease.attempt < h.lease.attempt => g.lease.until <= h.lease.from

=============================================================================
