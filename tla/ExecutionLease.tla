--------------------------- MODULE ExecutionLease ---------------------------
(***************************************************************************)
(* The execution lease, .autodev/runtime/execution-lease.json: one file    *)
(* for the whole project, naming the task and the workflow run that may    *)
(* create a provider session for it.                                       *)
(*                                                                         *)
(* Time is a natural number and every runner reads the same clock.  A      *)
(* payload that _lease refuses to parse raises and changes nothing; it is  *)
(* left out.                                                               *)
(***************************************************************************)
EXTENDS Integers

CONSTANTS
    LeaseTask,      \* task ids
    Owner,          \* owner ids: one for each attempt of a workflow run
    TTL,            \* 50 minutes
    NoLease         \* no file: the GET answers 404

LeaseAssumption ==
    /\ TTL \in Nat \ {0}
    /\ NoLease \notin [task : LeaseTask, owner : Owner, attempt : Nat,
                       from : Nat, until : Nat]

ASSUME ExecutionLeaseAssumption == LeaseAssumption

Lease == [task : LeaseTask, owner : Owner, attempt : Nat \ {0},
          from : Nat, until : Nat]

\* ExecutionLease.is_live
IsLive(l, now) == now < l.until

NewLease(t, o, n, now) ==
    [task |-> t, owner |-> o, attempt |-> n, from |-> now, until |-> now + TTL]

\* acquire_lease raises: another owner holds a live lease on the task.
Refused(cur, t, o, now) ==
    cur # NoLease /\ cur.task = t /\ IsLive(cur, now) /\ cur.owner # o

\* acquire_lease returns, when it does not raise: the first lease on the
\* task, whatever lease on another task it replaces; the owner's own live
\* lease; or the next attempt after an expired one.
Acquired(cur, t, o, now) ==
    IF cur = NoLease \/ cur.task # t THEN NewLease(t, o, 1, now)
    ELSE IF IsLive(cur, now) THEN cur
    ELSE NewLease(t, o, cur.attempt + 1, now)

=============================================================================
