--------------------------- MODULE CampaignProofs ---------------------------
(***************************************************************************)
(* What any number of concurrency groups, killed and run again anywhere,   *)
(* do to the files of a campaign.                                          *)
(*   - A conditional write covers the completions that were there          *)
(*     (Standing), so none is undone.                                      *)
(*   - The gate grants no attempt beyond its budget (Bounded).             *)
(*   - A job stores in the graph one operation on what it read, and in the *)
(*     other files only what the graph has by then (Ahead): the graph is   *)
(*     never behind them, and moves as DagScheduler allows.                *)
(*   - The repairs of a self-hosted project are accounted for, since a     *)
(*     task with a session does not become current again (RecoveryInv).    *)
(*   - Every job makes sure of a merge before it completes a task in any   *)
(*     file, and activates a successor before it makes it current (Sound); *)
(*     the gate, which asks for the merge of the current task, has no      *)
(*     other to complete (Sole).                                           *)
(* And what one group does (OneGroup), where one job at a time moves the   *)
(* campaign (OneMoves):                                                    *)
(*   - What waits in the queue was never begun, so a completion is not     *)
(*     counted again (Once).                                               *)
(*   - What a write takes out of one file is in another, or completed      *)
(*     (Kept).                                                             *)
(*   - What a job has stored and what it is about to store agree, so that  *)
(*     the files do when it is done (InStep).                              *)
(***************************************************************************)
EXTENDS CampaignController, FiniteSetTheorems, SequenceTheorems, TLAPS

\* No write undoes a completion.

Fields == {"pc", "t", "cont", "rcpt", "todo", "led", "g0", "g1", "nxt",
           "blocked", "st", "fresh", "q0", "q1", "c0"}

StateFields == {"current", "status", "completed", "iteration"}

JobShape(r) ==
    DOMAIN r = Fields /\ r.fresh \in BOOLEAN /\ DOMAIN r.st = StateFields

Shape ==
    /\ DOMAIN job = Agent
    /\ \A a \in Agent : JobShape(job[a])
    /\ DOMAIN state = StateFields
    /\ DOMAIN campaign = {"completed", "status"}

\* What a job writes over a snapshot that is still fresh loses no completion.
Covers(r) == r.fresh => state.completed \subseteq r.st.completed

SnapshotsCover == \A a \in Agent : Covers(job[a])

Standing == Shape /\ SnapshotsCover

\* An idle job has the shape of a job, and no snapshot.
LEMMA IdleShape == JobShape(IdleJob) /\ ~IdleJob.fresh
  BY DEF JobShape, IdleJob, Fields, StateFields

\* A job may change to any record that covers what it may store.
LEMMA BecomeKeeps ==
    ASSUME Standing, NEW a \in Agent, NEW r, JobShape(r), Covers(r),
           Become(a, r), state' = state, DOMAIN campaign' = DOMAIN campaign
    PROVE  Standing'
<1>1. DOMAIN job' = Agent /\ \A b \in Agent : job'[b] = IF b = a THEN r ELSE job[b]
  BY DEF Standing, Shape, Become
<1>2. Shape'
  BY <1>1 DEF Standing, Shape, JobShape
<1>3. SnapshotsCover'
  BY <1>1 DEF Standing, SnapshotsCover, Covers
<1>4. QED
  BY <1>2, <1>3 DEF Standing

\* So it may go to another step,
LEMMA GotoKeeps ==
    ASSUME Standing, NEW a \in Agent, NEW pc,
           Goto(a, pc), state' = state, DOMAIN campaign' = DOMAIN campaign
    PROVE  Standing'
<1> DEFINE r == [job[a] EXCEPT !.pc = pc]
<1>1. JobShape(job[a]) /\ Covers(job[a])
  BY DEF Standing, Shape, SnapshotsCover
<1>2. JobShape(r) /\ Covers(r)
  BY <1>1 DEF JobShape, Covers, Fields
<1>3. QED
  BY <1>2, BecomeKeeps DEF Goto

\* or end.
LEMMA EndKeeps ==
    ASSUME Standing, NEW a \in Agent,
           EndJob(a), state' = state, DOMAIN campaign' = DOMAIN campaign
    PROVE  Standing'
<1>1. JobShape(IdleJob) /\ Covers(IdleJob)
  BY IdleShape DEF Covers
<1>2. QED
  BY <1>1, BecomeKeeps DEF EndJob

\* A write of state.json makes the snapshots of all other jobs stale.
LEMMA PutStateKeeps ==
    ASSUME Standing, NEW a \in Agent, NEW s, NEW r, JobShape(r),
           r.fresh => s.completed \subseteq r.st.completed,
           DOMAIN s = StateFields, PutState(a, s, r),
           DOMAIN campaign' = DOMAIN campaign
    PROVE  Standing'
<1>1. DOMAIN job' = Agent /\ state' = s
  BY DEF PutState
<1>2. \A b \in Agent : job'[b] = IF b = a THEN r ELSE [job[b] EXCEPT !.fresh = FALSE]
  BY DEF PutState
<1>3. \A b \in Agent : LET q == [job[b] EXCEPT !.fresh = FALSE]
                       IN  JobShape(q) /\ ~q.fresh
  BY DEF Standing, Shape, JobShape, Fields
<1>4. Shape'
  BY <1>1, <1>2, <1>3 DEF Standing, Shape, JobShape
<1>5. SnapshotsCover'
  BY <1>1, <1>2, <1>3 DEF SnapshotsCover, Covers
<1>6. QED
  BY <1>4, <1>5 DEF Standing

\* The steps that write, or end, with what was computed before.
LEMMA FileSteps ==
    ASSUME Standing, NEW a \in Agent,
           \/ AdvanceRefused(a) \/ AdvanceCampaign(a) \/ AdvanceCycle(a)
           \/ AfterAdvance(a) \/ PutQueueFile(a) \/ Dispatch(a)
           \/ PutCampaign(a) \/ PutCycle(a) \/ ParkRefused(a)
           \/ ReconcileClearCampaign(a) \/ SessionTimeout(a) \/ SessionPublish(a)
    PROVE  Standing'
<1> DOMAIN campaign = {"completed", "status"}
  BY DEF Standing, Shape
<1>1. CASE AdvanceRefused(a) \/ ParkRefused(a) \/ SessionTimeout(a) \/ SessionPublish(a)
  BY <1>1, EndKeeps DEF AdvanceRefused, ParkRefused, SessionTimeout, SessionPublish, files
<1>2. CASE AdvanceCampaign(a) \/ ReconcileClearCampaign(a)
  BY <1>2, GotoKeeps DEF AdvanceCampaign, ReconcileClearCampaign
<1>3. CASE AdvanceCycle(a)
  BY <1>3, EndKeeps, GotoKeeps DEF AdvanceCycle
<1>4. CASE AfterAdvance(a)
  BY <1>4, EndKeeps, GotoKeeps DEF AfterAdvance
<1>5. CASE PutQueueFile(a)
  BY <1>5, EndKeeps, GotoKeeps DEF PutQueueFile
<1>6. CASE Dispatch(a)
  BY <1>6, EndKeeps, GotoKeeps DEF Dispatch, files
<1>7. CASE PutCampaign(a)
  <2>1. DOMAIN campaign' = DOMAIN campaign
    BY <1>7 DEF PutCampaign
  <2>2. state' = state
    BY <1>7 DEF PutCampaign
  <2>3. EndJob(a) \/ Goto(a, "cycle") \/ Goto(a, "recLedger")
    BY <1>7 DEF PutCampaign
  <2>4. QED
    BY <2>1, <2>2, <2>3, EndKeeps, GotoKeeps
<1>8. CASE PutCycle(a)
  BY <1>8, GotoKeeps DEF PutCycle
<1>9. QED
  BY <1>1, <1>2, <1>3, <1>4, <1>5, <1>6, <1>7, <1>8

\* The steps that compute a new state from the one they read.
LEMMA PlanSteps ==
    ASSUME Standing, NEW a \in Agent,
           AdvanceRead(a) \/ ParkRead(a) \/ ReconcileState(a)
    PROVE  Standing'
<1> JobShape(job[a])
  BY DEF Standing, Shape
<1>1. CASE AdvanceRead(a)
  <2>1. \A h, n : JobShape(AdvancePlan(a, h, n)) /\ Covers(AdvancePlan(a, h, n))
    <3> TAKE h, n
    <3> DEFINE p == AdvancePlan(a, h, n)
    <3>1. DOMAIN p = Fields
      BY DEF AdvancePlan, JobShape
    <3>2. p.fresh = TRUE
      BY DEF AdvancePlan, JobShape, Fields
    <3>3. DOMAIN p.st = StateFields /\ p.st.completed = state.completed \cup {job[a].t}
      BY DEF AdvancePlan, JobShape, Fields, StateFields
    <3>4. QED
      BY <3>1, <3>2, <3>3 DEF JobShape, Covers
  <2>2. \E h, n : Become(a, AdvancePlan(a, h, n))
    BY <1>1 DEF AdvanceRead
  <2>3. QED
    BY <1>1, <2>1, <2>2, BecomeKeeps DEF AdvanceRead, files
<1>2. CASE ParkRead(a)
  <2> DEFINE r == [job[a] EXCEPT !.fresh = TRUE, !.st = state, !.g0 = graph]
  <2>1. JobShape(r) /\ r.st = state
    BY DEF JobShape, Fields, Standing, Shape
  <2>2. \A h, n : LET q == [r EXCEPT !.pc = "parkGraph", !.g1 = h, !.nxt = n]
                  IN  JobShape(q) /\ Covers(q)
    BY <2>1 DEF JobShape, Covers, Fields
  <2>3. \A l : LET q == [r EXCEPT !.pc = "parkLedger", !.led = l]
               IN  JobShape(q) /\ Covers(q)
    BY <2>1 DEF JobShape, Covers, Fields
  <2>4. \/ \E h, n : Become(a, [r EXCEPT !.pc = "parkGraph", !.g1 = h, !.nxt = n])
        \/ \E l : Become(a, [r EXCEPT !.pc = "parkLedger", !.led = l])
    BY <1>2 DEF ParkRead
  <2>5. QED
    BY <1>2, <2>2, <2>3, <2>4, BecomeKeeps DEF ParkRead, files
<1>3. CASE ReconcileState(a)
  <2> DEFINE patched(n, q, s) ==
               [job[a] EXCEPT !.pc = "putState", !.fresh = TRUE, !.nxt = n,
                              !.q0 = queue, !.q1 = q, !.st = s]
  <2>0. PICK n, q, current, status, iteration :
          Become(a, patched(n, q, [current |-> current, status |-> status,
                                   completed |-> state.completed \cup {job[a].t},
                                   iteration |-> iteration]))
    BY <1>3 DEF ReconcileState
  <2> DEFINE s == [current |-> current, status |-> status,
                   completed |-> state.completed \cup {job[a].t},
                   iteration |-> iteration]
             r == patched(n, q, s)
  <2>a. DOMAIN s = StateFields /\ s.completed = state.completed \cup {job[a].t}
    BY DEF StateFields
  <2> HIDE DEF s
  <2>b. DOMAIN r = Fields /\ r.fresh = TRUE /\ r.st = s
    BY DEF JobShape, Fields
  <2>1. Become(a, r) /\ JobShape(r) /\ r.st.completed = state.completed \cup {job[a].t}
    BY <2>0, <2>a, <2>b DEF JobShape, s
  <2>2. Covers(r)
    BY <2>1 DEF Covers
  <2>3. QED
    BY <1>3, <2>1, <2>2, BecomeKeeps DEF ReconcileState, files
<1>4. QED
  BY <1>1, <1>2, <1>3

\* The writes of state.json: each covers what was there.
LEMMA StateSteps ==
    ASSUME Standing, NEW a \in Agent,
           PutStateFile(a) \/ ReconcileClearState(a) \/ ProviderResume(a) \/ ProviderStart(a)
    PROVE  Standing' /\ state.completed \subseteq state'.completed
<1> JobShape(job[a]) /\ DOMAIN state = StateFields /\ Covers(job[a])
  BY DEF Standing, Shape, SnapshotsCover
<1>1. CASE PutStateFile(a)
  <2>1. CASE SameState(a)
    <3> DEFINE r == [job[a] EXCEPT !.pc = "putQueue", !.fresh = FALSE]
    <3>1. JobShape(r) /\ ~r.fresh
      BY DEF JobShape, Fields
    <3>2. PutState(a, job[a].st, r) /\ campaign' = campaign
      BY <1>1, <2>1 DEF PutStateFile
    <3>3. state.completed \subseteq job[a].st.completed /\ state' = job[a].st
      BY <2>1, <3>2 DEF SameState, Covers, PutState
    <3>4. QED
      BY <3>1, <3>2, <3>3, PutStateKeeps DEF JobShape
  <2>2. CASE ~SameState(a)
    BY <1>1, <2>2, EndKeeps DEF PutStateFile
  <2>3. QED
    BY <2>1, <2>2
<1>2. CASE ReconcileClearState(a)
  <2> DEFINE r == [job[a] EXCEPT !.pc = "recClearCampaign", !.st = state]
  <2>1. JobShape(r) /\ r.st = state
    BY DEF JobShape, Fields
  <2>2. PutState(a, state, r) /\ campaign' = campaign
    BY <1>2 DEF ReconcileClearState
  <2>3. QED
    BY <2>1, <2>2, PutStateKeeps DEF PutState
<1>3. CASE ProviderResume(a) \/ ProviderStart(a)
  <2> DEFINE s == [state EXCEPT !.status = "RUNNING"]
             r == [IdleJob EXCEPT !.pc = "session", !.t = cycle]
  <2>1. JobShape(r) /\ ~r.fresh
    BY IdleShape DEF JobShape, Fields
  <2>2. DOMAIN s = StateFields /\ s.completed = state.completed
    BY DEF StateFields
  <2>3. campaign' = campaign
    BY <1>3 DEF ProviderResume, ProviderStart
  <2>4. CASE PutState(a, s, r)
    BY <2>1, <2>2, <2>3, <2>4, PutStateKeeps DEF PutState
  <2>5. CASE UNCHANGED <<state, job>>
    BY <2>3, <2>5 DEF Standing, Shape, SnapshotsCover, Covers
  <2>6. QED
    BY <1>3, <2>4, <2>5 DEF ProviderResume, ProviderStart
<1>4. QED
  BY <1>1, <1>2, <1>3

\* The steps around the ledger and the graph.
LEMMA LedgerSteps ==
    ASSUME Standing, NEW a \in Agent,
           \/ ParkLedger(a) \/ ReviewSkip(a) \/ ReconcileRead(a)
           \/ ReconcileLedger(a) \/ PutGraph(a)
    PROVE  Standing'
<1> JobShape(job[a]) /\ Covers(job[a])
  BY DEF Standing, Shape, SnapshotsCover
<1>1. CASE ParkLedger(a)
  <2> DEFINE stored(c, x) == [job[a].st EXCEPT !.current = c, !.status = x]
             patched(l, q, c, x) ==
               [job[a] EXCEPT !.pc = "putState", !.led = l, !.q0 = queue, !.q1 = q,
                              !.st = stored(c, x)]
  <2>1. PICK l, q, c, x : Become(a, patched(l, q, c, x))
    BY <1>1 DEF ParkLedger
  <2>2. /\ DOMAIN stored(c, x) = StateFields
        /\ stored(c, x).completed = job[a].st.completed
    BY DEF JobShape, StateFields
  <2> HIDE DEF stored
  <2>3. JobShape(patched(l, q, c, x)) /\ Covers(patched(l, q, c, x))
    BY <2>2 DEF JobShape, Fields, Covers
  <2>4. QED
    BY <1>1, <2>1, <2>3, BecomeKeeps DEF ParkLedger
<1>2. CASE ReviewSkip(a)
  <2>1. \A x : JobShape([job[a] EXCEPT !.todo = x]) /\ Covers([job[a] EXCEPT !.todo = x])
    BY DEF JobShape, Fields, Covers
  <2>2. \E x : Become(a, [job[a] EXCEPT !.todo = x])
    BY <1>2 DEF ReviewSkip
  <2>3. QED
    BY <1>2, <2>1, <2>2, BecomeKeeps DEF ReviewSkip, files
<1>3. CASE ReconcileRead(a)
  <2> DEFINE r(t, l) == [job[a] EXCEPT !.t = t, !.led = l, !.nxt = NoTask, !.g0 = graph]
  <2>1. \A t, l : JobShape(r(t, l)) /\ Covers(r(t, l))
    BY DEF JobShape, Fields, Covers
  <2> HIDE DEF r
  <2>2. \A t, l, pc, c :
          LET q == [r(t, l) EXCEPT !.pc = pc, !.cont = c] IN JobShape(q) /\ Covers(q)
    BY <2>1 DEF JobShape, Fields, Covers
  <2>3. \A t, l, pc, c, n :
          LET q == [r(t, l) EXCEPT !.pc = pc, !.cont = c, !.nxt = n]
          IN  JobShape(q) /\ Covers(q)
    BY <2>1 DEF JobShape, Fields, Covers
  <2>4. \A t, l, pc, c, h, n :
          LET q == [r(t, l) EXCEPT !.pc = pc, !.cont = c, !.g1 = h, !.nxt = n]
          IN  JobShape(q) /\ Covers(q)
    BY <2>1 DEF JobShape, Fields, Covers
  <2>5. \/ EndJob(a)
        \/ \E t, l, pc, c : Become(a, [r(t, l) EXCEPT !.pc = pc, !.cont = c])
        \/ \E t, l, pc, c, n : Become(a, [r(t, l) EXCEPT !.pc = pc, !.cont = c, !.nxt = n])
        \/ \E t, l, pc, c, h, n :
             Become(a, [r(t, l) EXCEPT !.pc = pc, !.cont = c, !.g1 = h, !.nxt = n])
    BY <1>3 DEF ReconcileRead, r
  <2>6. UNCHANGED <<state, campaign>>
    BY <1>3 DEF ReconcileRead, files
  <2>7. CASE EndJob(a)
    BY <2>6, <2>7, EndKeeps
  <2>8. CASE \E t, l, pc, c : Become(a, [r(t, l) EXCEPT !.pc = pc, !.cont = c])
    BY <2>2, <2>6, <2>8, BecomeKeeps
  <2>9. CASE \E t, l, pc, c, n :
               Become(a, [r(t, l) EXCEPT !.pc = pc, !.cont = c, !.nxt = n])
    <3>1. PICK t, l, pc, c, n :
            Become(a, [r(t, l) EXCEPT !.pc = pc, !.cont = c, !.nxt = n])
      BY <2>9
    <3> DEFINE q == [r(t, l) EXCEPT !.pc = pc, !.cont = c, !.nxt = n]
    <3>2. JobShape(q) /\ Covers(q)
      BY <2>3
    <3> HIDE DEF q
    <3>3. Become(a, q)
      BY <3>1 DEF q
    <3>4. QED
      BY <2>6, <3>2, <3>3, BecomeKeeps
  <2>10. CASE \E t, l, pc, c, h, n :
                Become(a, [r(t, l) EXCEPT !.pc = pc, !.cont = c, !.g1 = h, !.nxt = n])
    <3>1. PICK t, l, pc, c, h, n :
            Become(a, [r(t, l) EXCEPT !.pc = pc, !.cont = c, !.g1 = h, !.nxt = n])
      BY <2>10
    <3> DEFINE q == [r(t, l) EXCEPT !.pc = pc, !.cont = c, !.g1 = h, !.nxt = n]
    <3>2. JobShape(q) /\ Covers(q)
      BY <2>4
    <3> HIDE DEF q
    <3>3. Become(a, q)
      BY <3>1 DEF q
    <3>4. QED
      BY <2>6, <3>2, <3>3, BecomeKeeps
  <2>11. QED
    BY <2>5, <2>7, <2>8, <2>9, <2>10
<1>4. CASE ReconcileLedger(a)
  <2>1. \A x, y : LET q == [IdleJob EXCEPT !.pc = "reviews", !.rcpt = x, !.todo = y]
                 IN  JobShape(q) /\ Covers(q)
    BY IdleShape DEF JobShape, Fields, Covers
  <2>2. \E x, y : Become(a, [IdleJob EXCEPT !.pc = "reviews", !.rcpt = x, !.todo = y])
    BY <1>4 DEF ReconcileLedger
  <2>3. QED
    BY <1>4, <2>1, <2>2, BecomeKeeps DEF ReconcileLedger
<1>5. CASE PutGraph(a)
  <2>1. \A l : LET q == [job[a] EXCEPT !.pc = "parkLedger", !.led = l]
               IN  JobShape(q) /\ Covers(q)
    BY DEF JobShape, Fields, Covers
  <2>2. \/ EndJob(a) \/ Goto(a, "advCampaign") \/ Goto(a, "recRead")
        \/ \E l : Become(a, [job[a] EXCEPT !.pc = "parkLedger", !.led = l])
    BY <1>5 DEF PutGraph
  <2>3. QED
    BY <1>5, <2>1, <2>2, BecomeKeeps, EndKeeps, GotoKeeps DEF PutGraph
<1>6. QED
  BY <1>1, <1>2, <1>3, <1>4, <1>5

\* The steps of the monitor, and a kill.
LEMMA MonitorSteps ==
    ASSUME Standing, NEW a \in Agent,
           MonitorStart(a) \/ MonitorReceipt(a) \/ MonitorPoll(a) \/ Crash(a)
    PROVE  Standing'
<1> JobShape(job[a]) /\ Covers(job[a])
  BY DEF Standing, Shape, SnapshotsCover
<1>1. CASE MonitorStart(a)
  <2>1. LET q == [IdleJob EXCEPT !.pc = "reviews", !.rcpt = receipt, !.todo = ledger]
        IN  JobShape(q) /\ Covers(q)
    BY IdleShape DEF JobShape, Fields, Covers
  <2>2. QED
    BY <1>1, <2>1, BecomeKeeps DEF MonitorStart, files
<1>2. CASE MonitorReceipt(a)
  <2>1. \A x : LET q == [job[a] EXCEPT !.pc = "poll", !.t = x]
               IN  JobShape(q) /\ Covers(q)
    BY DEF JobShape, Fields, Covers
  <2>2. EndJob(a) \/ \E x : Become(a, [job[a] EXCEPT !.pc = "poll", !.t = x])
    BY <1>2 DEF MonitorReceipt
  <2>3. QED
    BY <1>2, <2>1, <2>2, BecomeKeeps, EndKeeps DEF MonitorReceipt, files
<1>3. CASE MonitorPoll(a)
  <2>1. \A pc, c : LET q == [job[a] EXCEPT !.pc = pc, !.cont = c]
                  IN  JobShape(q) /\ Covers(q)
    BY DEF JobShape, Fields, Covers
  <2>2. \E pc, c : Become(a, [job[a] EXCEPT !.pc = pc, !.cont = c])
    BY <1>3 DEF MonitorPoll
  <2>3. QED
    BY <1>3, <2>1, <2>2, BecomeKeeps DEF MonitorPoll, files
<1>4. CASE Crash(a)
  BY <1>4, EndKeeps DEF Crash, files
<1>5. QED
  BY <1>1, <1>2, <1>3, <1>4

\* The steps of the gate.
LEMMA GateSteps ==
    ASSUME Standing,
           \/ \E t \in Task : GateStart(t) \/ GateRecover(t)
           \/ GateMerge \/ GateStatus \/ GateRepair
    PROVE  Standing' /\ state.completed \subseteq state'.completed
<1> Gate \in Agent
  BY DEF Agent
<1> JobShape(job[Gate]) /\ Covers(job[Gate]) /\ DOMAIN state = StateFields
  BY DEF Standing, Shape, SnapshotsCover
<1>1. CASE \E t \in Task : GateStart(t)
  <2>1. \A x, y : LET q == [IdleJob EXCEPT !.pc = "merge", !.t = x, !.rcpt = y]
                 IN  JobShape(q) /\ Covers(q)
    BY IdleShape DEF JobShape, Fields, Covers
  <2>2. /\ \E x, y : Become(Gate, [IdleJob EXCEPT !.pc = "merge", !.t = x, !.rcpt = y])
        /\ UNCHANGED files
    BY <1>1 DEF GateStart
  <2>3. QED
    BY <2>1, <2>2, BecomeKeeps DEF files
<1>2. CASE \E t \in Task : GateRecover(t)
  <2>1. \A x : LET q == [IdleJob EXCEPT !.pc = "status", !.t = x]
               IN  JobShape(q) /\ Covers(q)
    BY IdleShape DEF JobShape, Fields, Covers
  <2>2. /\ \E x : Become(Gate, [IdleJob EXCEPT !.pc = "status", !.t = x])
        /\ UNCHANGED files
    BY <1>2 DEF GateRecover
  <2>3. QED
    BY <2>1, <2>2, BecomeKeeps DEF files
<1>3. CASE GateMerge
  <2>1. LET q == [job[Gate] EXCEPT !.pc = "advance", !.cont = "gate"]
        IN  JobShape(q) /\ Covers(q)
    BY DEF JobShape, Fields, Covers
  <2>2. QED
    BY <1>3, <2>1, BecomeKeeps, EndKeeps DEF GateMerge, files
<1>4. CASE GateStatus
  <2> DEFINE s == [state EXCEPT !.status = StatusAfter(recovery.action)]
             r == [job[Gate] EXCEPT !.pc = "repair"]
  <2>1. DOMAIN s = StateFields /\ s.completed = state.completed
    BY DEF StateFields
  <2>2. JobShape(r) /\ r.fresh = job[Gate].fresh /\ r.st = job[Gate].st
    BY DEF JobShape, Fields
  <2>3. campaign' = campaign
    BY <1>4 DEF GateStatus
  <2>4. CASE PutState(Gate, s, r)
    BY <2>1, <2>2, <2>3, <2>4, PutStateKeeps DEF PutState, Covers
  <2>5. CASE PutState(Gate, s, IdleJob)
    BY <2>1, <2>3, <2>5, IdleShape, PutStateKeeps DEF PutState
  <2>6. CASE EndJob(Gate) /\ UNCHANGED state
    BY <2>3, <2>6, EndKeeps
  <2>7. QED
    BY <1>4, <2>4, <2>5, <2>6 DEF GateStatus
<1>5. CASE GateRepair
  BY <1>5, EndKeeps DEF GateRepair, files
<1>6. QED
  BY <1>1, <1>2, <1>3, <1>4, <1>5

\* No step of any job, of the gate or of the world leaves Standing.
LEMMA StandingKept == Standing /\ [Next]_vars => Standing'
<1> SUFFICES ASSUME Standing, [Next]_vars PROVE Standing'
  OBVIOUS
<1>1. ASSUME NEW a \in Agent, JobStep(a) PROVE Standing'
  BY <1>1, FileSteps, PlanSteps, StateSteps, LedgerSteps, MonitorSteps DEF JobStep
<1>2. ASSUME NEW a \in Agent, Crash(a) PROVE Standing'
  BY <1>2, MonitorSteps
<1>3. ASSUME NEW a \in Worker, MonitorStart(a) \/ ProviderStart(a) \/ ProviderResume(a)
      PROVE  Standing'
  BY <1>3, MonitorSteps, StateSteps DEF Agent
<1>4. CASE GateMerge \/ GateStatus \/ GateRepair
  BY <1>4, GateSteps
<1>5. ASSUME NEW t \in Task, GateStart(t) \/ GateRecover(t) PROVE Standing'
  BY <1>5, GateSteps
<1>6. ASSUME UNCHANGED <<files, job>> PROVE Standing'
  BY <1>6 DEF Standing, Shape, SnapshotsCover, Covers, files
<1>7. ASSUME NEW t \in Task, OpenPr(t) \/ MergePr(t) \/ ClosePr(t) \/ ReopenPr(t)
      PROVE  Standing'
  BY <1>6, <1>7 DEF OpenPr, MergePr, ClosePr, ReopenPr, SetPr
<1>8. ASSUME NEW e \in Task \X Worker, LoseRun(e) PROVE Standing'
  BY <1>6, <1>8 DEF LoseRun
<1>9. CASE UNCHANGED vars
  BY <1>6, <1>9 DEF vars
<1>10. QED
  BY <1>1, <1>2, <1>3, <1>4, <1>5, <1>7, <1>8, <1>9 DEF Next

\* At the start all jobs are idle.
LEMMA StandingInit == Init => Standing
<1> SUFFICES ASSUME Init PROVE Standing
  OBVIOUS
<1>1. job = [a \in Agent |-> IdleJob]
  BY DEF Init
<1>2. DOMAIN state = StateFields /\ DOMAIN campaign = {"completed", "status"}
  BY DEF Init, StateFields
<1>3. QED
  BY <1>1, <1>2, IdleShape DEF Standing, Shape, SnapshotsCover, Covers

\* campaign.json loses no completion:
LEMMA CampaignGrows ==
    ASSUME Standing, [Next]_vars
    PROVE  campaign.completed \subseteq campaign'.completed
<1> DOMAIN campaign = {"completed", "status"}
  BY DEF Standing, Shape
<1>1. ASSUME NEW a \in Agent, JobStep(a) PROVE campaign.completed \subseteq campaign'.completed
  <2>1. CASE AdvanceCampaign(a)
    BY <2>1 DEF AdvanceCampaign
  <2>2. CASE PutCampaign(a)
    BY <2>2 DEF PutCampaign
  <2>3. CASE ReconcileClearCampaign(a)
    BY <2>3 DEF ReconcileClearCampaign
  <2>4. CASE campaign' = campaign
    BY <2>4
  <2>5. QED
    BY <1>1, <2>1, <2>2, <2>3, <2>4
       DEF JobStep, AdvanceRefused, AdvanceRead, AdvanceCycle, AfterAdvance, PutGraph,
           PutStateFile, PutQueueFile, Dispatch, PutCycle, ParkRefused, ParkRead,
           ParkLedger, ReviewSkip, ReconcileRead, ReconcileState, ReconcileClearState,
           ReconcileLedger, MonitorReceipt, MonitorPoll, SessionPublish, SessionTimeout,
           files
<1>2. ASSUME NEW a \in Agent, Crash(a) PROVE campaign' = campaign
  BY <1>2 DEF Crash, files
<1>3. ASSUME NEW a \in Worker, MonitorStart(a) \/ ProviderStart(a) \/ ProviderResume(a)
      PROVE  campaign' = campaign
  BY <1>3 DEF MonitorStart, ProviderStart, ProviderResume, files
<1>4. CASE GateMerge \/ GateStatus \/ GateRepair
  BY <1>4 DEF GateMerge, GateStatus, GateRepair, files
<1>5. ASSUME NEW t \in Task,
             \/ GateStart(t) \/ GateRecover(t) \/ OpenPr(t)
             \/ MergePr(t) \/ ClosePr(t) \/ ReopenPr(t)
      PROVE  campaign' = campaign
  BY <1>5 DEF GateStart, GateRecover, OpenPr, MergePr, ClosePr, ReopenPr, SetPr, files
<1>6. ASSUME NEW e \in Task \X Worker, LoseRun(e) PROVE campaign' = campaign
  BY <1>6 DEF LoseRun, files
<1>7. CASE UNCHANGED vars
  BY <1>7 DEF vars, files
<1>8. QED
  BY <1>1, <1>2, <1>3, <1>4, <1>5, <1>6, <1>7 DEF Next

\* nor does state.json, whose every write is against a fresh snapshot.
LEMMA StateGrows ==
    ASSUME Standing, [Next]_vars
    PROVE  state.completed \subseteq state'.completed
<1>1. ASSUME NEW a \in Agent, JobStep(a) PROVE state.completed \subseteq state'.completed
  <2>1. CASE PutStateFile(a) \/ ReconcileClearState(a)
    BY <2>1, StateSteps
  <2>2. CASE state' = state
    BY <2>2
  <2>3. QED
    BY <1>1, <2>1, <2>2
       DEF JobStep, AdvanceRefused, AdvanceRead, AdvanceCampaign, AdvanceCycle,
           AfterAdvance, PutGraph, PutQueueFile, Dispatch, PutCampaign, PutCycle,
           ParkRefused, ParkRead, ParkLedger, ReviewSkip, ReconcileRead, ReconcileState,
           ReconcileClearCampaign, ReconcileLedger, MonitorReceipt, MonitorPoll,
           SessionPublish, SessionTimeout, files
<1>2. ASSUME NEW a \in Agent, Crash(a) PROVE state' = state
  BY <1>2 DEF Crash, files
<1>3. ASSUME NEW a \in Worker, MonitorStart(a) PROVE state' = state
  BY <1>3 DEF MonitorStart, files
<1>4. ASSUME NEW a \in Worker, ProviderStart(a) \/ ProviderResume(a)
      PROVE  state.completed \subseteq state'.completed
  BY <1>4, StateSteps DEF Agent
<1>5. ASSUME GateMerge \/ GateStatus \/ GateRepair
      PROVE  state.completed \subseteq state'.completed
  BY <1>5, GateSteps
<1>6. ASSUME NEW t \in Task,
             \/ GateStart(t) \/ GateRecover(t) \/ OpenPr(t)
             \/ MergePr(t) \/ ClosePr(t) \/ ReopenPr(t)
      PROVE  state' = state
  BY <1>6 DEF GateStart, GateRecover, OpenPr, MergePr, ClosePr, ReopenPr, SetPr, files
<1>7. ASSUME NEW e \in Task \X Worker, LoseRun(e) PROVE state' = state
  BY <1>7 DEF LoseRun, files
<1>8. CASE UNCHANGED vars
  BY <1>8 DEF vars, files
<1>9. QED
  BY <1>1, <1>2, <1>3, <1>4, <1>5, <1>6, <1>7, <1>8 DEF Next

\* However the jobs of any number of groups interleave, die and rerun, no
\* write undoes a completion recorded in state.json or campaign.json: the
\* conditional write of put_json_file is enough.
THEOREM CompletionsAreKept == Spec => CompletionsStand
<1>1. Standing /\ [Next]_vars =>
        [ /\ state.completed \subseteq state'.completed
          /\ campaign.completed \subseteq campaign'.completed ]_vars
  BY StateGrows, CampaignGrows
<1>2. Spec => []Standing
  BY StandingInit, StandingKept, PTL DEF Spec
<1>3. QED
  BY <1>1, <1>2, PTL DEF Spec, CompletionsStand

-----------------------------------------------------------------------------
\* Recovery.

Bounded ==
    /\ recovery.used \in [Policy!Attempt -> Nat]
    /\ \A x \in Policy!Attempt : recovery.used[x] <= Budget[x]

\* The policy only chooses an attempt that has budget left.
LEMMA ChosenIsLeft ==
    ASSUME NEW kind \in Policy!Failure, NEW used, NEW repeated,
           NEW x \in Policy!Attempt, x = Policy!Chosen(kind, used, repeated)
    PROVE  used[x] < Budget[x]
<1>1. x \in Policy!Tried(kind)
  BY DEF Policy!Chosen, Policy!Ending, Policy!Tried, Policy!Preferred, Policy!Attempt,
         Policy!Failure
<1>2. QED
  BY <1>1 DEF Policy!Chosen, Policy!Ending, Policy!Tried, Policy!Preferred,
              Policy!Attempt, Policy!Failure

\* So the record stays within the budget, as another task starts anew.
LEMMA AdvancedIsBounded ==
    ASSUME Bounded, NEW t, NEW kind \in Policy!Failure, NEW again,
           recovery' = Policy!Advanced(recovery, t, kind, again)
    PROVE  Bounded'
<1> DEFINE prior == Policy!Prior(recovery, t)
<1>1. /\ prior.used \in [Policy!Attempt -> Nat]
      /\ \A x \in Policy!Attempt : prior.used[x] <= Budget[x]
  BY RecoveryAssumption DEF Policy!Prior, Policy!NoRecovery, Bounded, Policy!PolicyAssumption
<1> HIDE DEF prior
<1>2. PICK repeated : LET action == Policy!Chosen(kind, prior.used, repeated)
                      IN  recovery'.used = [x \in Policy!Attempt |->
                            IF x = action THEN prior.used[x] + 1 ELSE prior.used[x]]
  BY DEF Policy!Advanced, prior
<1>3. ASSUME NEW x \in Policy!Attempt PROVE recovery'.used[x] \in Nat /\ recovery'.used[x] <= Budget[x]
  <2>1. CASE x = Policy!Chosen(kind, prior.used, repeated)
    <3>1. prior.used[x] < Budget[x]
      BY <2>1, ChosenIsLeft
    <3>2. recovery'.used[x] = prior.used[x] + 1
      BY <1>2, <2>1
    <3>3. Budget[x] \in Nat /\ prior.used[x] \in Nat
      BY <1>1, RecoveryAssumption DEF Policy!PolicyAssumption
    <3>4. QED
      BY <3>1, <3>2, <3>3
  <2>2. CASE x # Policy!Chosen(kind, prior.used, repeated)
    BY <1>1, <1>2, <2>2
  <2>3. QED
    BY <2>1, <2>2
<1>4. recovery'.used \in [Policy!Attempt -> Nat]
  <2>1. \A x \in Policy!Attempt : recovery'.used[x] \in Nat
    BY <1>3
  <2>2. DOMAIN recovery'.used = Policy!Attempt
    BY <1>2
  <2>3. recovery'.used = [x \in Policy!Attempt |-> recovery'.used[x]]
    BY <1>2
  <2>4. QED
    BY <2>1, <2>3
<1>5. QED
  BY <1>3, <1>4 DEF Bounded

\* Nothing but the gate writes the record.
LEMMA BoundedKept == Bounded /\ [Next]_vars => Bounded'
<1> SUFFICES ASSUME Bounded, [Next]_vars PROVE Bounded'
  OBVIOUS
<1>1. ASSUME NEW t \in Task, GateRecover(t) PROVE Bounded'
  <2>1. \E again : recovery' = Policy!Advanced(recovery, t, "CI_FAILURE", again)
    BY <1>1 DEF GateRecover
  <2>2. "CI_FAILURE" \in Policy!Failure
    BY DEF Policy!Failure
  <2>3. QED
    BY <2>1, <2>2, AdvancedIsBounded
<1>2. ASSUME recovery' = recovery PROVE Bounded'
  BY <1>2 DEF Bounded
<1>3. ASSUME NEW a \in Agent, JobStep(a) \/ Crash(a) PROVE recovery' = recovery
  BY <1>3
     DEF JobStep, AdvanceRefused, AdvanceRead, AdvanceCampaign, AdvanceCycle,
         AfterAdvance, PutGraph, PutStateFile, PutQueueFile, Dispatch, PutCampaign,
         PutCycle, ParkRefused, ParkRead, ParkLedger, ReviewSkip, ReconcileRead,
         ReconcileState, ReconcileClearState, ReconcileClearCampaign, ReconcileLedger,
         MonitorReceipt, MonitorPoll, SessionPublish, SessionTimeout, Crash, world,
         ciRecovery
<1>4. ASSUME NEW a \in Worker, MonitorStart(a) \/ ProviderStart(a) \/ ProviderResume(a)
      PROVE  recovery' = recovery
  BY <1>4 DEF MonitorStart, ProviderStart, ProviderResume, world, ciRecovery
<1>5. ASSUME GateMerge \/ GateStatus \/ GateRepair PROVE recovery' = recovery
  BY <1>5 DEF GateMerge, GateStatus, GateRepair, world, ciRecovery
<1>6. ASSUME NEW t \in Task,
             GateStart(t) \/ OpenPr(t) \/ MergePr(t) \/ ClosePr(t) \/ ReopenPr(t)
      PROVE  recovery' = recovery
  BY <1>6 DEF GateStart, OpenPr, MergePr, ClosePr, ReopenPr, SetPr, world, ciRecovery
<1>7. ASSUME NEW e \in Task \X Worker, LoseRun(e) PROVE recovery' = recovery
  BY <1>7 DEF LoseRun, ciRecovery
<1>8. CASE UNCHANGED vars
  BY <1>2, <1>8 DEF vars, world, ciRecovery
<1>9. QED
  BY <1>1, <1>2, <1>3, <1>4, <1>5, <1>6, <1>7, <1>8 DEF Next

\* For every budget and limit, and however the gate is killed and run again: no
\* retry, repair, rebase or replan of a task is granted beyond its budget.
THEOREM AttemptsWithinBudget ==
    Spec => [](\A x \in Policy!Attempt : recovery.used[x] <= Budget[x])
<1>1. Init => Bounded
  BY RecoveryAssumption DEF Init, Bounded, Policy!NoRecovery, Policy!PolicyAssumption
<1>2. Bounded => \A x \in Policy!Attempt : recovery.used[x] <= Budget[x]
  BY DEF Bounded
<1>3. QED
  BY <1>1, <1>2, BoundedKept, PTL DEF Spec

-----------------------------------------------------------------------------
\* The graph is ahead of the files.

Done(t) == t \in Managed => graph[t] = "COMPLETED"

GraphWrite == {"advGraph", "parkGraph", "recGraph"}

\* What job r stores in the graph is the result of one operation on the
\* payload that it read.
Planned(r) ==
    /\ r.pc \in GraphWrite => r.t \in Managed
    /\ r.pc = "advGraph" =>
         \E n \in Managed \cup {NoTask} : Dag!AdvanceResult(r.g0, r.t, r.g1, n)
    /\ r.pc = "parkGraph" =>
         \E n \in Managed \cup {NoTask} : Dag!ParkResult(r.g0, r.t, r.g1, n)
    /\ r.pc = "recGraph" =>
         \E n \in Managed \cup {NoTask} : Dag!ReconcileResult(r.g0, r.t, r.g1, n)

\* What job r is about to store in state.json or campaign.json, the graph has
\* already, or has it once the job's own write of the graph succeeds.
JobAhead(r) ==
    /\ Planned(r)
    /\ r.pc \in {"park", "parkGraph", "parkLedger"} => r.cont # "review"
    /\ \/ r.pc \in {"advCampaign", "recRead"}
       \/ r.pc \in {"putState", "putQueue", "campaign"} /\ r.cont = "review"
       => Done(r.t)
    /\ r.pc \in {"advCampaign", "putState", "parkGraph", "parkLedger"} =>
         \A u \in r.st.completed : Done(u)
    /\ r.pc = "advGraph" => \A u \in r.st.completed \ {r.t} : Done(u)

Ahead ==
    /\ graph \in [Managed -> Dag!Status]
    /\ \A u \in state.completed \cup campaign.completed : Done(u)
    /\ \A a \in Agent : JobAhead(job[a])

\* No COMPLETED node is reopened.
Monotone == \A m \in Managed : graph[m] = "COMPLETED" => graph'[m] = "COMPLETED"

\* A job may change to any record that is not ahead of the graph.
LEMMA JobChange ==
    ASSUME Standing, Ahead, NEW a \in Agent, NEW r, Become(a, r), JobAhead(r)',
           Monotone, graph' \in [Managed -> Dag!Status],
           \A u \in state'.completed \cup campaign'.completed : Done(u)'
    PROVE  Ahead'
<1>1. \A b \in Agent : job'[b] = IF b = a THEN r ELSE job[b]
  BY DEF Become, Standing, Shape
<1>2. \A b \in Agent : JobAhead(job[b])'
  <2> TAKE b \in Agent
  <2>1. CASE b = a
    BY <1>1, <2>1 DEF JobAhead, Done
  <2>2. CASE b # a
    BY <1>1, <2>2 DEF JobAhead, Done, Ahead, Monotone
  <2>3. QED
    BY <2>1, <2>2
<1>3. QED
  BY <1>2 DEF Ahead

\* Where a job stores nothing that the graph must have.
Quiet == {"idle", "advance", "after", "advCycle", "cycle", "dispatch", "recLedger",
          "reviews", "recClear", "recClearCampaign", "poll", "merge", "session",
          "status", "repair"}

\* Where nothing is about to be stored nothing can be ahead.
LEMMA QuietAhead == ASSUME NEW r, r.pc \in Quiet PROVE JobAhead(r) /\ JobAhead(r)'
  BY DEF Quiet, JobAhead, Planned, GraphWrite

\* What is not ahead stays so while the files do not change.
LEMMA SameFiles ==
    ASSUME Ahead, graph' = graph, state' = state, campaign' = campaign
    PROVE  /\ Monotone /\ graph' \in [Managed -> Dag!Status]
           /\ \A u \in state'.completed \cup campaign'.completed : Done(u)'
           /\ \A r : JobAhead(r) => JobAhead(r)'
  BY DEF Ahead, Monotone, Done, JobAhead

\* The operations of the graph reopen nothing.
LEMMA ActivationReopensNone ==
    ASSUME NEW g \in [Managed -> Dag!Status], NEW n, Dag!Selected(g, n)
    PROVE  /\ Dag!Activated(g, n) \in [Managed -> Dag!Status]
           /\ \A m \in Managed : g[m] = "COMPLETED" => Dag!Activated(g, n)[m] = "COMPLETED"
<1>1. CASE n = NoTask
  BY <1>1 DEF Dag!Activated
<1>2. CASE n # NoTask
  <2>1. n \in Managed /\ g[n] = "PENDING"
    BY <1>2 DEF Dag!Selected, Dag!Runnable
  <2>2. Dag!Activated(g, n) = [g EXCEPT ![n] = "RUNNING"]
    BY <1>2 DEF Dag!Activated
  <2>3. QED
    BY <2>1, <2>2 DEF Dag!Status
<1>3. QED
  BY <1>1, <1>2

\* No operation of the graph reopens a completed node.
LEMMA OperationReopensNone ==
    ASSUME NEW g \in [Managed -> Dag!Status], NEW t \in Managed, NEW h, NEW n
    PROVE  /\ Dag!AdvanceResult(g, t, h, n) \/ Dag!ReconcileResult(g, t, h, n) =>
                h[t] = "COMPLETED"
           /\ \/ Dag!AdvanceResult(g, t, h, n) \/ Dag!ReconcileResult(g, t, h, n)
              \/ Dag!ParkResult(g, t, h, n)
              => /\ h \in [Managed -> Dag!Status]
                 /\ \A m \in Managed : g[m] = "COMPLETED" => h[m] = "COMPLETED"
<1> DEFINE c == Dag!WithStatus(g, t, "COMPLETED")
           w == Dag!WithStatus(g, t, "WAITING_REVIEW")
<1>1. /\ c \in [Managed -> Dag!Status] /\ c[t] = "COMPLETED"
      /\ \A m \in Managed : g[m] = "COMPLETED" => c[m] = "COMPLETED"
  BY DEF Dag!WithStatus, Dag!Status
<1>2. /\ w \in [Managed -> Dag!Status]
      /\ g[t] # "COMPLETED" => \A m \in Managed : g[m] = "COMPLETED" => w[m] = "COMPLETED"
  BY DEF Dag!WithStatus, Dag!Status
<1> HIDE DEF c, w
<1>3. CASE Dag!AdvanceResult(g, t, h, n) \/ Dag!ReconcileResult(g, t, h, n)
  <2>1. CASE Dag!Selected(c, n) /\ h = Dag!Activated(c, n)
    BY <1>1, <2>1, ActivationReopensNone
  <2>2. CASE g[t] = "COMPLETED" /\ h = g
    BY <2>2
  <2>3. QED
    BY <1>3, <2>1, <2>2 DEF Dag!AdvanceResult, Dag!ReconcileResult, c
<1>4. CASE Dag!ParkResult(g, t, h, n)
  <2>1. Dag!Selected(w, n) /\ h = Dag!Activated(w, n) /\ g[t] # "COMPLETED"
    BY <1>4 DEF Dag!ParkResult, w
  <2>2. /\ h \in [Managed -> Dag!Status]
        /\ \A m \in Managed : g[m] = "COMPLETED" => h[m] = "COMPLETED"
    BY <1>2, <2>1, ActivationReopensNone
  <2>3. g[t] \in {"RUNNING", "WAITING_REVIEW"}
    BY <1>4 DEF Dag!ParkResult
  <2>4. ~Dag!AdvanceResult(g, t, h, n) \/ h[t] = "COMPLETED"
    BY <1>3
  <2>5. QED
    BY <1>3, <2>2
<1>5. QED
  BY <1>3, <1>4

\* Steps that end in a quiet place.
LEMMA QuietSteps ==
    ASSUME Standing, Ahead, NEW a \in Agent,
           \/ AdvanceRefused(a) \/ AdvanceCycle(a) \/ AfterAdvance(a) \/ Dispatch(a)
           \/ PutCycle(a) \/ ParkRefused(a) \/ ReviewSkip(a) \/ ReconcileLedger(a)
           \/ MonitorStart(a) \/ MonitorReceipt(a) \/ MonitorPoll(a)
           \/ SessionPublish(a) \/ SessionTimeout(a) \/ Crash(a)
    PROVE  Ahead'
<1> JobShape(job[a])
  BY DEF Standing, Shape
<1>0. UNCHANGED <<graph, state, campaign>>
  BY DEF AdvanceRefused, AdvanceCycle, AfterAdvance, Dispatch, PutCycle, ParkRefused,
         ReviewSkip, ReconcileLedger, MonitorStart, MonitorReceipt, MonitorPoll,
         SessionPublish, SessionTimeout, Crash, files
<1>1. ASSUME NEW r, Become(a, r), r.pc \in Quiet PROVE Ahead'
  BY <1>0, <1>1, QuietAhead, SameFiles, JobChange
<1>2. IdleJob.pc = "idle" /\ DOMAIN IdleJob = Fields
  BY DEF IdleJob, Fields
<1>3. CASE EndJob(a)
  BY <1>1, <1>2, <1>3 DEF EndJob, Quiet
<1>4. CASE \E pc \in Quiet : Goto(a, pc)
  BY <1>1, <1>4 DEF Goto, JobShape, Fields
<1>5. CASE AdvanceCycle(a) \/ AfterAdvance(a) \/ Dispatch(a) \/ PutCycle(a)
  BY <1>3, <1>4, <1>5 DEF AdvanceCycle, AfterAdvance, Dispatch, PutCycle, Quiet
<1>6. CASE ReviewSkip(a)
  <2>1. \A x : [job[a] EXCEPT !.todo = x].pc = job[a].pc
    BY DEF JobShape, Fields
  <2>2. \E x : Become(a, [job[a] EXCEPT !.todo = x])
    BY <1>6 DEF ReviewSkip
  <2>3. QED
    BY <1>1, <1>6, <2>1, <2>2 DEF ReviewSkip, At, Quiet
<1>7. CASE ReconcileLedger(a) \/ MonitorStart(a)
  <2>1. \A x, y : [IdleJob EXCEPT !.pc = "reviews", !.rcpt = x, !.todo = y].pc = "reviews"
    BY <1>2 DEF Fields
  <2>2. \E x, y : Become(a, [IdleJob EXCEPT !.pc = "reviews", !.rcpt = x, !.todo = y])
    BY <1>7 DEF ReconcileLedger, MonitorStart
  <2>3. QED
    BY <1>1, <2>1, <2>2 DEF Quiet
<1>8. CASE MonitorReceipt(a)
  <2>1. \A x : [job[a] EXCEPT !.pc = "poll", !.t = x].pc = "poll"
    BY DEF JobShape, Fields
  <2>2. EndJob(a) \/ \E x : Become(a, [job[a] EXCEPT !.pc = "poll", !.t = x])
    BY <1>8 DEF MonitorReceipt
  <2>3. QED
    BY <1>1, <1>3, <2>1, <2>2 DEF Quiet
<1>9. CASE MonitorPoll(a)
  <2>1. LET q == [job[a] EXCEPT !.pc = "advance", !.cont = "receipt"] IN q.pc = "advance"
    BY DEF JobShape, Fields
  <2>2. LET q == [job[a] EXCEPT !.pc = "park", !.cont = "park"]
        IN  q.pc = "park" /\ q.cont = "park"
    BY DEF JobShape, Fields
  <2>3. ASSUME NEW r, r.pc = "park", r.cont = "park" PROVE JobAhead(r)'
    BY <2>3 DEF JobAhead, Planned, GraphWrite
  <2>4. QED
    BY <1>0, <1>1, <1>9, <2>1, <2>2, <2>3, SameFiles, JobChange DEF MonitorPoll, Quiet
<1>10. QED
  BY <1>3, <1>5, <1>6, <1>7, <1>8, <1>9
     DEF AdvanceRefused, ParkRefused, SessionPublish, SessionTimeout, Crash

\* The reads that plan what a job writes.
LEMMA PlanAhead ==
    ASSUME Standing, Ahead, NEW a \in Agent,
           AdvanceRead(a) \/ ParkRead(a) \/ ReconcileState(a) \/ ReconcileRead(a)
    PROVE  Ahead'
<1> JobShape(job[a]) /\ JobAhead(job[a])
  BY DEF Standing, Shape, Ahead
<1>0. UNCHANGED <<graph, state, campaign>>
  BY DEF AdvanceRead, ParkRead, ReconcileState, ReconcileRead, files
<1>1. ASSUME NEW r, Become(a, r), JobAhead(r) PROVE Ahead'
  BY <1>0, <1>1, SameFiles, JobChange
<1>2. ASSUME NEW r, Become(a, r), r.pc \in Quiet PROVE Ahead'
  BY <1>1, <1>2, QuietAhead
<1>3. \A u \in state.completed : Done(u)
  BY DEF Ahead
<1>4. CASE AdvanceRead(a)
  <2> DEFINE t == job[a].t
  <2>1. ASSUME NEW h, NEW n, Become(a, AdvancePlan(a, h, n)),
               t \in Managed =>
                 \E m \in Managed \cup {NoTask} : Dag!AdvanceResult(graph, t, h, m)
        PROVE  Ahead'
    <3> DEFINE p == AdvancePlan(a, h, n)
    <3>1. /\ p.pc = FirstWrite(t) /\ p.t = t /\ p.g0 = graph /\ p.g1 = h
          /\ p.st.completed = state.completed \cup {t}
      BY DEF AdvancePlan, JobShape, Fields
    <3> HIDE DEF p
    <3>2. JobAhead(p)
      BY <1>3, <2>1, <3>1 DEF JobAhead, Planned, GraphWrite, FirstWrite, Done
    <3>3. QED
      BY <1>1, <2>1, <3>2 DEF p
  <2>2. \/ /\ t \notin Managed
           /\ Become(a, AdvancePlan(a, graph, NoTask))
        \/ \E n \in Managed \cup {NoTask} : \E h :
             Dag!AdvanceResult(graph, t, h, n) /\ Become(a, AdvancePlan(a, h, n))
    BY <1>4 DEF AdvanceRead
  <2>3. QED
    BY <2>1, <2>2
<1>5. CASE ParkRead(a)
  <2> DEFINE t == job[a].t
             r == [job[a] EXCEPT !.fresh = TRUE, !.st = state, !.g0 = graph]
  <2>1. /\ DOMAIN r = Fields /\ r.st = state /\ r.g0 = graph /\ r.t = t
        /\ r.cont = job[a].cont /\ r.cont # "review"
    BY <1>5 DEF JobShape, Fields, ParkRead, At, JobAhead
  <2> HIDE DEF r
  <2>2. ASSUME NEW l, Become(a, [r EXCEPT !.pc = "parkLedger", !.led = l])
        PROVE  Ahead'
    <3> DEFINE q == [r EXCEPT !.pc = "parkLedger", !.led = l]
    <3>1. q.pc = "parkLedger" /\ q.st = state /\ q.cont # "review"
      BY <2>1 DEF Fields
    <3> HIDE DEF q
    <3>2. JobAhead(q)
      BY <1>3, <3>1 DEF JobAhead, Planned, GraphWrite
    <3>3. QED
      BY <1>1, <2>2, <3>2 DEF q
  <2>3. ASSUME NEW h, NEW n \in Managed \cup {NoTask}, t \in Managed,
               Dag!ParkResult(graph, t, h, n),
               Become(a, [r EXCEPT !.pc = "parkGraph", !.g1 = h, !.nxt = n])
        PROVE  Ahead'
    <3> DEFINE q == [r EXCEPT !.pc = "parkGraph", !.g1 = h, !.nxt = n]
    <3>1. /\ q.pc = "parkGraph" /\ q.st = state /\ q.cont # "review"
          /\ q.t = t /\ q.g0 = graph /\ q.g1 = h
      BY <2>1 DEF Fields
    <3> HIDE DEF q
    <3>2. JobAhead(q)
      BY <1>3, <2>3, <3>1 DEF JobAhead, Planned, GraphWrite
    <3>3. QED
      BY <1>1, <2>3, <3>2 DEF q
  <2>4. \/ \E l : Become(a, [r EXCEPT !.pc = "parkLedger", !.led = l])
        \/ /\ t \in Managed
           /\ \E n \in Managed \cup {NoTask} : \E h :
                /\ Dag!ParkResult(graph, t, h, n)
                /\ Become(a, [r EXCEPT !.pc = "parkGraph", !.g1 = h, !.nxt = n])
    BY <1>5 DEF ParkRead, r
  <2>5. QED
    BY <2>2, <2>3, <2>4
<1>6. CASE ReconcileState(a)
  <2> DEFINE t == job[a].t
             patched(n, q, s) ==
               [job[a] EXCEPT !.pc = "putState", !.fresh = TRUE, !.nxt = n,
                              !.q0 = queue, !.q1 = q, !.st = s]
  <2>1. PICK n, q, current, status, iteration :
          Become(a, patched(n, q, [current |-> current, status |-> status,
                                   completed |-> state.completed \cup {t},
                                   iteration |-> iteration]))
    BY <1>6 DEF ReconcileState
  <2> DEFINE s == [current |-> current, status |-> status,
                   completed |-> state.completed \cup {t}, iteration |-> iteration]
             r == patched(n, q, s)
  <2>2. s.completed = state.completed \cup {t}
    OBVIOUS
  <2> HIDE DEF s
  <2>3. r.pc = "putState" /\ r.t = t /\ r.st = s
    BY DEF JobShape, Fields
  <2>4. Done(t)
    BY <1>6 DEF ReconcileState, At, JobAhead
  <2> HIDE DEF r
  <2>5. JobAhead(r)
    BY <1>3, <2>2, <2>3, <2>4 DEF JobAhead, Planned, GraphWrite
  <2>6. QED
    BY <1>1, <2>1, <2>5 DEF r, s
<1>7. CASE ReconcileRead(a)
  <2> DEFINE r(t, l) == [job[a] EXCEPT !.t = t, !.led = l, !.nxt = NoTask, !.g0 = graph]
  <2>1. \A t, l : DOMAIN r(t, l) = Fields /\ r(t, l).t = t /\ r(t, l).g0 = graph
    BY DEF JobShape, Fields
  <2> HIDE DEF r
  <2>2. ASSUME NEW t \in Managed, NEW l, NEW h, NEW n \in Managed \cup {NoTask},
               Dag!ReconcileResult(graph, t, h, n),
               Become(a, [r(t, l) EXCEPT !.pc = "recGraph", !.cont = "review",
                                         !.g1 = h, !.nxt = n])
        PROVE  Ahead'
    <3> DEFINE q == [r(t, l) EXCEPT !.pc = "recGraph", !.cont = "review",
                                    !.g1 = h, !.nxt = n]
    <3>1. q.pc = "recGraph" /\ q.t = t /\ q.g0 = graph /\ q.g1 = h
      BY <2>1 DEF Fields
    <3> HIDE DEF q
    <3>2. JobAhead(q)
      BY <2>2, <3>1 DEF JobAhead, Planned, GraphWrite
    <3>3. QED
      BY <1>1, <2>2, <3>2 DEF q
  <2>3. ASSUME NEW t, NEW l, NEW n, graph[t] = "COMPLETED",
               Become(a, [r(t, l) EXCEPT !.pc = "recRead", !.cont = "review", !.nxt = n])
        PROVE  Ahead'
    <3> DEFINE q == [r(t, l) EXCEPT !.pc = "recRead", !.cont = "review", !.nxt = n]
    <3>1. q.pc = "recRead" /\ q.t = t
      BY <2>1 DEF Fields
    <3> HIDE DEF q
    <3>2. JobAhead(q)
      BY <2>3, <3>1 DEF JobAhead, Planned, GraphWrite, Done
    <3>3. QED
      BY <1>1, <2>3, <3>2 DEF q
  <2>4. ASSUME NEW t, NEW l, NEW pc \in Quiet,
               Become(a, [r(t, l) EXCEPT !.pc = pc, !.cont = "legacy"])
        PROVE  Ahead'
    <3>1. [r(t, l) EXCEPT !.pc = pc, !.cont = "legacy"].pc = pc
      BY <2>1 DEF Fields
    <3>2. QED
      BY <1>2, <2>4, <3>1
  <2>5. CASE EndJob(a)
    BY <1>2, <2>5 DEF EndJob, IdleJob, Quiet
  <2>6. \/ EndJob(a)
        \/ \E t \in Managed : \E l, h : \E n \in Managed \cup {NoTask} :
             /\ Dag!ReconcileResult(graph, t, h, n)
             /\ Become(a, [r(t, l) EXCEPT !.pc = "recGraph", !.cont = "review",
                                          !.g1 = h, !.nxt = n])
        \/ \E t, l, n :
             /\ graph[t] = "COMPLETED"
             /\ Become(a, [r(t, l) EXCEPT !.pc = "recRead", !.cont = "review",
                                          !.nxt = n])
        \/ \E t, l : \E pc \in {"recClear", "advance"} :
             Become(a, [r(t, l) EXCEPT !.pc = pc, !.cont = "legacy"])
    BY <1>7 DEF ReconcileRead, r
  <2>7. QED
    BY <2>2, <2>3, <2>4, <2>5, <2>6 DEF Quiet
<1>8. QED
  BY <1>4, <1>5, <1>6, <1>7

\* Parking prepares a state with the completions that it read.
LEMMA LedgerAhead ==
    ASSUME Standing, Ahead, NEW a \in Agent, ParkLedger(a)
    PROVE  Ahead'
<1> JobShape(job[a]) /\ JobAhead(job[a])
  BY DEF Standing, Shape, Ahead
<1>1. UNCHANGED <<graph, state, campaign>>
  BY DEF ParkLedger
<1> DEFINE stored(c, x) == [job[a].st EXCEPT !.current = c, !.status = x]
           patched(l, q, c, x) ==
             [job[a] EXCEPT !.pc = "putState", !.led = l, !.q0 = queue, !.q1 = q,
                            !.st = stored(c, x)]
<1>2. PICK l, q, c, x : Become(a, patched(l, q, c, x))
  BY DEF ParkLedger
<1>3. stored(c, x).completed = job[a].st.completed
  BY DEF JobShape, StateFields
<1> HIDE DEF stored
<1> DEFINE r == patched(l, q, c, x)
<1>4. r.pc = "putState" /\ r.cont = job[a].cont /\ r.st = stored(c, x)
  BY DEF JobShape, Fields
<1> HIDE DEF r
<1>5. JobAhead(r)
  BY <1>3, <1>4 DEF ParkLedger, At, JobAhead, Planned, GraphWrite
<1>6. Become(a, r)
  BY <1>2 DEF r
<1>7. QED
  BY <1>1, <1>5, <1>6, SameFiles, JobChange

\* A write of the graph that succeeds is one operation on the graph.
LEMMA WriteIsOperation ==
    ASSUME Ahead, NEW a \in Agent, PutGraph(a)
    PROVE  graph' = graph \/ Dag!Next
<1>1. CASE ~SameGraph(a)
  BY <1>1 DEF PutGraph
<1>2. CASE SameGraph(a)
  <2> DEFINE t == job[a].t
  <2>1. graph = job[a].g0 /\ graph' = job[a].g1 /\ job[a].pc \in GraphWrite
    BY <1>2 DEF PutGraph, SameGraph, GraphWrite
  <2>2. Planned(job[a])
    BY DEF Ahead, JobAhead
  <2>3. t \in Managed
    BY <2>1, <2>2 DEF Planned
  <2>4. Dag!Advance(t) \/ Dag!ParkForReview(t) \/ Dag!ReconcileReview(t)
    BY <2>1, <2>2 DEF Planned, GraphWrite, Dag!Advance, Dag!ParkForReview,
                      Dag!ReconcileReview
  <2>5. QED
    BY <2>3, <2>4 DEF Dag!Next
<1>3. QED
  BY <1>1, <1>2

\* The graph's write completes the node that the job stores next.
LEMMA GraphAhead ==
    ASSUME Standing, Ahead, NEW a \in Agent, PutGraph(a)
    PROVE  Ahead'
<1> PICK t : t = job[a].t
  OBVIOUS
<1> JobShape(job[a]) /\ JobAhead(job[a]) /\ graph \in [Managed -> Dag!Status]
  BY DEF Standing, Shape, Ahead
<1>0. UNCHANGED <<state, campaign>>
  BY DEF PutGraph
<1>1. CASE ~SameGraph(a)
  <2>1. EndJob(a) /\ graph' = graph
    BY <1>1 DEF PutGraph
  <2>2. IdleJob.pc \in Quiet
    BY DEF IdleJob, Quiet
  <2>3. QED
    BY <1>0, <2>1, <2>2, QuietAhead, SameFiles, JobChange DEF EndJob
<1>2. CASE SameGraph(a)
  <2>1. graph = job[a].g0 /\ graph' = job[a].g1 /\ job[a].pc \in GraphWrite
    BY <1>2 DEF PutGraph, SameGraph, GraphWrite
  <2>2. /\ t \in Managed
        /\ \E n \in Managed \cup {NoTask} :
             \/ Dag!AdvanceResult(graph, t, graph', n)
             \/ Dag!ParkResult(graph, t, graph', n)
             \/ Dag!ReconcileResult(graph, t, graph', n)
        /\ job[a].pc \in {"advGraph", "recGraph"} =>
             \E n \in Managed \cup {NoTask} :
               \/ Dag!AdvanceResult(graph, t, graph', n)
               \/ Dag!ReconcileResult(graph, t, graph', n)
    BY <2>1 DEF JobAhead, Planned, GraphWrite
  <2>3. /\ graph' \in [Managed -> Dag!Status] /\ Monotone
        /\ job[a].pc \in {"advGraph", "recGraph"} => graph'[t] = "COMPLETED"
    BY <2>2, OperationReopensNone DEF Monotone
  <2>4. \A u : Done(u) => Done(u)'
    BY <2>3 DEF Done, Monotone
  <2>5. \A u \in state'.completed \cup campaign'.completed : Done(u)'
    BY <1>0, <2>4 DEF Ahead
  <2>6. ASSUME NEW r, Become(a, r), JobAhead(r)' PROVE Ahead'
    BY <2>3, <2>5, <2>6, JobChange
  <2>7. CASE At(a, "advGraph") /\ Goto(a, "advCampaign")
    <3> PICK r : r = [job[a] EXCEPT !.pc = "advCampaign"]
      OBVIOUS
    <3>1. r.pc = "advCampaign" /\ r.t = t /\ r.st = job[a].st
      BY DEF JobShape, Fields
    <3>2. Done(t)' /\ \A u \in r.st.completed : Done(u)'
      BY <2>3, <2>4, <2>7, <3>1 DEF At, Done, JobAhead
    <3>3. JobAhead(r)'
      BY <3>1, <3>2 DEF JobAhead, Planned, GraphWrite
    <3>4. QED
      BY <2>6, <2>7, <3>3 DEF Goto
  <2>8. CASE /\ At(a, "parkGraph")
             /\ Become(a, [job[a] EXCEPT !.pc = "parkLedger", !.led = ledger])
    <3> PICK r : r = [job[a] EXCEPT !.pc = "parkLedger", !.led = ledger]
      OBVIOUS
    <3>1. r.pc = "parkLedger" /\ r.cont = job[a].cont /\ r.st = job[a].st
      BY DEF JobShape, Fields
    <3>2. r.cont # "review" /\ \A u \in r.st.completed : Done(u)'
      BY <2>4, <2>8, <3>1 DEF At, JobAhead
    <3>3. JobAhead(r)'
      BY <3>1, <3>2 DEF JobAhead, Planned, GraphWrite
    <3>4. QED
      BY <2>6, <2>8, <3>3
  <2>9. CASE At(a, "recGraph") /\ Goto(a, "recRead")
    <3> PICK r : r = [job[a] EXCEPT !.pc = "recRead"]
      OBVIOUS
    <3>1. r.pc = "recRead" /\ r.t = t
      BY DEF JobShape, Fields
    <3>2. Done(t)'
      BY <2>3, <2>9 DEF At, Done
    <3>3. JobAhead(r)'
      BY <3>1, <3>2 DEF JobAhead, Planned, GraphWrite
    <3>4. QED
      BY <2>6, <2>9, <3>3 DEF Goto
  <2>10. QED
    BY <1>2, <2>7, <2>8, <2>9 DEF PutGraph
<1>3. QED
  BY <1>1, <1>2

\* The writes of campaign.json and of the queue.
LEMMA CampaignAhead ==
    ASSUME Standing, Ahead, NEW a \in Agent,
           \/ AdvanceCampaign(a) \/ PutCampaign(a) \/ PutQueueFile(a)
           \/ ReconcileClearCampaign(a)
    PROVE  Ahead'
<1> DEFINE t == job[a].t
<1> JobShape(job[a]) /\ JobAhead(job[a]) /\ DOMAIN campaign = {"completed", "status"}
  BY DEF Standing, Shape, Ahead
<1>0. UNCHANGED <<graph, state>>
  BY DEF AdvanceCampaign, PutCampaign, PutQueueFile, ReconcileClearCampaign
<1>1. /\ Monotone /\ graph' \in [Managed -> Dag!Status]
      /\ \A u : Done(u)' <=> Done(u)
  BY <1>0 DEF Ahead, Monotone, Done
<1>2. ASSUME \A u \in campaign'.completed : Done(u), NEW r, Become(a, r), JobAhead(r)
      PROVE  Ahead'
  <2>1. \A u \in state'.completed \cup campaign'.completed : Done(u)'
    BY <1>0, <1>1, <1>2 DEF Ahead
  <2>2. JobAhead(r)'
    BY <1>1, <1>2 DEF JobAhead
  <2>3. QED
    BY <1>1, <1>2, <2>1, <2>2, JobChange
<1>3. ASSUME \A u \in campaign'.completed : Done(u), NEW pc \in Quiet, Goto(a, pc)
      PROVE  Ahead'
  <2>1. [job[a] EXCEPT !.pc = pc].pc \in Quiet
    BY DEF JobShape, Fields
  <2>2. QED
    BY <1>2, <1>3, <2>1, QuietAhead DEF Goto
<1>4. ASSUME \A u \in campaign'.completed : Done(u), EndJob(a) PROVE Ahead'
  <2>1. IdleJob.pc \in Quiet
    BY DEF IdleJob, Quiet
  <2>2. QED
    BY <1>2, <1>4, <2>1, QuietAhead DEF EndJob
<1>5. \A u \in campaign.completed : Done(u)
  BY DEF Ahead
<1>6. CASE AdvanceCampaign(a)
  <2>1. Done(t) /\ \A u \in job[a].st.completed : Done(u)
    BY <1>6 DEF AdvanceCampaign, At, JobAhead
  <2>2. campaign'.completed \subseteq campaign.completed \cup {t}
    BY <1>6 DEF AdvanceCampaign
  <2> DEFINE r == [job[a] EXCEPT !.pc = "putState"]
  <2>3. r.pc = "putState" /\ r.t = t /\ r.st = job[a].st
    BY DEF JobShape, Fields
  <2> HIDE DEF r
  <2>4. JobAhead(r)
    BY <2>1, <2>3 DEF JobAhead, Planned, GraphWrite
  <2>5. QED
    BY <1>2, <1>5, <1>6, <2>1, <2>2, <2>4 DEF AdvanceCampaign, Goto, r
<1>7. CASE PutCampaign(a)
  <2>1. job[a].cont = "review" => Done(t)
    BY <1>7 DEF PutCampaign, At, JobAhead
  <2>2. campaign'.completed \subseteq
          campaign.completed \cup (IF job[a].cont = "review" THEN {t} ELSE {})
    BY <1>7 DEF PutCampaign
  <2>3. \A u \in campaign'.completed : Done(u)
    BY <1>5, <2>1, <2>2
  <2>4. Goto(a, "cycle") \/ EndJob(a) \/ Goto(a, "recLedger")
    BY <1>7 DEF PutCampaign
  <2>5. QED
    BY <1>3, <1>4, <2>3, <2>4 DEF Quiet
<1>8. CASE PutQueueFile(a)
  <2>1. \A u \in campaign'.completed : Done(u)
    BY <1>5, <1>8 DEF PutQueueFile
  <2>2. /\ At(a, "putQueue")
        /\ EndJob(a) \/ \E pc \in {"campaign", "advCycle"} : Goto(a, pc)
    BY <1>8, Zenon DEF PutQueueFile
  <2>3. ASSUME At(a, "putQueue"), Goto(a, "campaign") PROVE Ahead'
    <3> DEFINE r == [job[a] EXCEPT !.pc = "campaign"]
    <3>1. r.pc = "campaign" /\ r.t = t /\ r.cont = job[a].cont
      BY DEF JobShape, Fields
    <3> HIDE DEF r
    <3>2. JobAhead(r)
      BY <2>3, <3>1 DEF JobAhead, Planned, GraphWrite, At
    <3>3. QED
      BY <1>2, <2>1, <2>3, <3>2 DEF Goto, r
  <2>4. QED
    BY <1>3, <1>4, <2>1, <2>2, <2>3 DEF Quiet
<1>9. CASE ReconcileClearCampaign(a)
  <2>1. \A u \in campaign'.completed : Done(u)
    BY <1>5, <1>9 DEF ReconcileClearCampaign
  <2>2. QED
    BY <1>3, <1>9, <2>1 DEF ReconcileClearCampaign, Quiet
<1>10. QED
  BY <1>6, <1>7, <1>8, <1>9

\* A write of state.json.
LEMMA PutStateAhead ==
    ASSUME Standing, Ahead, NEW a \in Agent, NEW s, NEW r, PutState(a, s, r),
           UNCHANGED <<graph, campaign>>, JobAhead(r),
           \A u \in s.completed : Done(u)
    PROVE  Ahead'
<1>1. \A u : Done(u)' <=> Done(u)
  BY DEF Done
<1>2. \A q : JobAhead(q) => JobAhead(q)'
  BY <1>1 DEF JobAhead
<1>3. ASSUME NEW b \in Agent, b # a PROVE JobAhead(job'[b])
  <2> DEFINE q == [job[b] EXCEPT !.fresh = FALSE]
  <2>1. JobShape(job[b]) /\ JobAhead(job[b])
    BY DEF Standing, Shape, Ahead
  <2>2. \A f \in Fields \ {"fresh"} : q[f] = job[b][f]
    BY <2>1 DEF JobShape
  <2>3. /\ q.pc = job[b].pc /\ q.t = job[b].t /\ q.cont = job[b].cont
        /\ q.st = job[b].st /\ q.g0 = job[b].g0 /\ q.g1 = job[b].g1
    BY <2>2 DEF Fields
  <2> HIDE DEF q
  <2>4. JobAhead(q)
    BY <2>1, <2>3 DEF JobAhead, Planned
  <2>5. QED
    BY <1>3, <2>4 DEF PutState, q
<1>4. \A b \in Agent : JobAhead(job'[b])
  BY <1>3 DEF PutState
<1>5. \A b \in Agent : JobAhead(job[b])'
  BY <1>1, <1>4 DEF JobAhead
<1>6. graph' \in [Managed -> Dag!Status]
  BY DEF Ahead
<1>7. \A u \in state'.completed \cup campaign'.completed : Done(u)'
  BY <1>1 DEF PutState, Ahead
<1>8. QED
  BY <1>5, <1>6, <1>7 DEF Ahead

\* The writes of state.json.
LEMMA StateAhead ==
    ASSUME Standing, Ahead, NEW a \in Agent,
           \/ PutStateFile(a) \/ ReconcileClearState(a) \/ ProviderResume(a)
           \/ ProviderStart(a) \/ (a = Gate /\ GateStatus)
    PROVE  Ahead'
<1> JobShape(job[a]) /\ JobAhead(job[a]) /\ DOMAIN state = StateFields
  BY DEF Standing, Shape, Ahead
<1>0. UNCHANGED <<graph, campaign>>
  BY DEF PutStateFile, ReconcileClearState, ProviderResume, ProviderStart, GateStatus
<1>1. \A u \in state.completed : Done(u)
  BY DEF Ahead
<1>2. ASSUME NEW s, NEW r, PutState(a, s, r), s.completed = state.completed,
             r.pc \in Quiet
      PROVE  Ahead'
  BY <1>0, <1>1, <1>2, QuietAhead, PutStateAhead
<1>3. CASE PutStateFile(a)
  <2>1. CASE SameState(a)
    <3> PICK r : r = [job[a] EXCEPT !.pc = "putQueue", !.fresh = FALSE]
      OBVIOUS
    <3>1. r.pc = "putQueue" /\ r.t = job[a].t /\ r.cont = job[a].cont
      BY DEF JobShape, Fields
    <3>2. At(a, "putState") /\ PutState(a, job[a].st, r)
      BY <1>3, <2>1 DEF PutStateFile
    <3>3. JobAhead(r) /\ \A u \in job[a].st.completed : Done(u)
      BY <3>1, <3>2 DEF JobAhead, Planned, GraphWrite, At
    <3>4. QED
      BY <1>0, <3>2, <3>3, PutStateAhead
  <2>2. CASE ~SameState(a)
    <3>1. EndJob(a) /\ state' = state
      BY <1>3, <2>2 DEF PutStateFile
    <3>2. IdleJob.pc \in Quiet
      BY DEF IdleJob, Quiet
    <3>3. QED
      BY <1>0, <3>1, <3>2, QuietAhead, SameFiles, JobChange DEF EndJob
  <2>3. QED
    BY <2>1, <2>2
<1>4. CASE ReconcileClearState(a)
  <2>1. [job[a] EXCEPT !.pc = "recClearCampaign", !.st = state].pc = "recClearCampaign"
    BY DEF JobShape, Fields
  <2>2. QED
    BY <1>2, <1>4, <2>1 DEF ReconcileClearState, Quiet
<1>5. CASE ProviderResume(a) \/ ProviderStart(a)
  <2>1. [IdleJob EXCEPT !.pc = "session", !.t = cycle].pc = "session"
    BY DEF IdleJob
  <2>2. [state EXCEPT !.status = "RUNNING"].completed = state.completed
    BY DEF StateFields
  <2>3. CASE PutState(a, [state EXCEPT !.status = "RUNNING"],
                      [IdleJob EXCEPT !.pc = "session", !.t = cycle])
    BY <1>2, <2>1, <2>2, <2>3 DEF Quiet
  <2>4. CASE UNCHANGED <<state, job>>
    BY <1>0, <2>4 DEF Ahead, JobAhead, Done
  <2>5. QED
    BY <1>5, <2>3, <2>4 DEF ProviderResume, ProviderStart
<1>6. CASE a = Gate /\ GateStatus
  <2>1. CASE EndJob(a) /\ state' = state
    <3>1. IdleJob.pc \in Quiet
      BY DEF IdleJob, Quiet
    <3>2. QED
      BY <1>0, <2>1, <3>1, QuietAhead, SameFiles, JobChange DEF EndJob
  <2>2. ASSUME NEW x, NEW r, r.pc \in Quiet, PutState(a, [state EXCEPT !.status = x], r)
        PROVE  Ahead'
    <3>1. [state EXCEPT !.status = x].completed = state.completed
      BY DEF StateFields
    <3>2. QED
      BY <1>2, <2>2, <3>1
  <2>3. [job[a] EXCEPT !.pc = "repair"].pc \in Quiet /\ IdleJob.pc \in Quiet
    BY DEF JobShape, Fields, IdleJob, Quiet
  <2>4. \/ EndJob(a) /\ state' = state
        \/ \E x : PutState(a, [state EXCEPT !.status = x],
                           IF recovery.action = "REPAIR"
                           THEN [job[a] EXCEPT !.pc = "repair"] ELSE IdleJob)
    BY <1>6 DEF GateStatus
  <2>5. QED
    BY <2>1, <2>2, <2>3, <2>4
<1>7. QED
  BY <1>3, <1>4, <1>5, <1>6

\* The other steps of the gate.
LEMMA GateAhead ==
    ASSUME Standing, Ahead,
           (\E t \in Task : GateStart(t) \/ GateRecover(t)) \/ GateMerge \/ GateRepair
    PROVE  Ahead'
<1> Gate \in Agent
  BY DEF Agent
<1> JobShape(job[Gate])
  BY DEF Standing, Shape
<1>1. UNCHANGED <<graph, state, campaign>>
  BY DEF GateStart, GateRecover, GateMerge, GateRepair, files
<1>2. \/ \E t, x : Become(Gate, [IdleJob EXCEPT !.pc = "merge", !.t = t, !.rcpt = x])
      \/ \E t : Become(Gate, [IdleJob EXCEPT !.pc = "status", !.t = t])
      \/ Become(Gate, [job[Gate] EXCEPT !.pc = "advance", !.cont = "gate"])
      \/ EndJob(Gate)
  BY DEF GateStart, GateRecover, GateMerge, GateRepair
<1>3. \A t, x : /\ [IdleJob EXCEPT !.pc = "merge", !.t = t, !.rcpt = x].pc = "merge"
                /\ [IdleJob EXCEPT !.pc = "status", !.t = t].pc = "status"
                /\ IdleJob.pc = "idle"
  BY DEF IdleJob
<1>4. [job[Gate] EXCEPT !.pc = "advance", !.cont = "gate"].pc = "advance"
  BY DEF JobShape, Fields
<1>5. ASSUME NEW r, Become(Gate, r), r.pc \in Quiet PROVE Ahead'
  BY <1>1, <1>5, QuietAhead, SameFiles, JobChange
<1>6. {"merge", "status", "advance", "idle"} \subseteq Quiet
  BY DEF Quiet
<1>7. ASSUME NEW t, NEW x,
             Become(Gate, [IdleJob EXCEPT !.pc = "merge", !.t = t, !.rcpt = x])
      PROVE  Ahead'
  <2> DEFINE r == [IdleJob EXCEPT !.pc = "merge", !.t = t, !.rcpt = x]
  <2>1. r.pc = "merge"
    BY <1>3
  <2>2. Become(Gate, r)
    BY <1>7
  <2> HIDE DEF r
  <2>3. QED
    BY <1>5, <1>6, <2>1, <2>2
<1>8. ASSUME NEW t, Become(Gate, [IdleJob EXCEPT !.pc = "status", !.t = t])
      PROVE  Ahead'
  <2> DEFINE r == [IdleJob EXCEPT !.pc = "status", !.t = t]
  <2>1. r.pc = "status"
    BY <1>3
  <2>2. Become(Gate, r)
    BY <1>8
  <2> HIDE DEF r
  <2>3. QED
    BY <1>5, <1>6, <2>1, <2>2
<1>9. CASE Become(Gate, [job[Gate] EXCEPT !.pc = "advance", !.cont = "gate"])
  BY <1>4, <1>5, <1>6, <1>9
<1>10. CASE EndJob(Gate)
  BY <1>3, <1>5, <1>6, <1>10 DEF EndJob
<1>11. QED
  BY <1>2, <1>7, <1>8, <1>9, <1>10

\* At the start nothing is completed.
LEMMA AheadInit == Init => Ahead
  BY QuietAhead DEF Init, Ahead, IdleJob, Quiet, Dag!Status

\* Every step keeps the graph ahead of the files and of the jobs.
LEMMA AheadKept == Standing /\ Ahead /\ [Next]_vars => Ahead'
<1> SUFFICES ASSUME Standing, Ahead, [Next]_vars PROVE Ahead'
  OBVIOUS
<1>1. ASSUME NEW a \in Agent, JobStep(a) \/ Crash(a) PROVE Ahead'
  <2>1. CASE AdvanceRead(a) \/ ParkRead(a) \/ ReconcileState(a) \/ ReconcileRead(a)
    BY <2>1, PlanAhead
  <2>2. CASE PutGraph(a)
    BY <2>2, GraphAhead
  <2>3. CASE \/ AdvanceCampaign(a) \/ PutCampaign(a) \/ PutQueueFile(a)
             \/ ReconcileClearCampaign(a)
    BY <2>3, CampaignAhead
  <2>4. CASE PutStateFile(a) \/ ReconcileClearState(a)
    BY <2>4, StateAhead
  <2>5. CASE \/ AdvanceRefused(a) \/ AdvanceCycle(a) \/ AfterAdvance(a) \/ Dispatch(a)
             \/ PutCycle(a) \/ ParkRefused(a) \/ ReviewSkip(a) \/ ReconcileLedger(a)
             \/ MonitorReceipt(a) \/ MonitorPoll(a)
             \/ SessionPublish(a) \/ SessionTimeout(a) \/ Crash(a)
    BY <2>5, QuietSteps
  <2>6. QED
    BY <1>1, <2>1, <2>2, <2>3, <2>4, <2>5, LedgerAhead DEF JobStep
<1>2. ASSUME NEW a \in Worker, MonitorStart(a) \/ ProviderStart(a) \/ ProviderResume(a)
      PROVE  Ahead'
  <2>1. a \in Agent
    BY DEF Agent
  <2>2. CASE MonitorStart(a)
    BY <2>1, <2>2, QuietSteps
  <2>3. CASE ProviderStart(a) \/ ProviderResume(a)
    BY <2>1, <2>3, StateAhead
  <2>4. QED
    BY <1>2, <2>2, <2>3
<1>3. ASSUME NEW t \in Task, GateStart(t) \/ GateRecover(t) PROVE Ahead'
  BY <1>3, GateAhead
<1>4. CASE GateMerge \/ GateRepair
  BY <1>4, GateAhead
<1>5. CASE GateStatus
  BY <1>5, StateAhead DEF Agent
<1>6. CASE UNCHANGED <<files, job>>
  BY <1>6 DEF files, Ahead, JobAhead, Done
<1>7. ASSUME NEW t \in Task, OpenPr(t) \/ MergePr(t) \/ ClosePr(t) \/ ReopenPr(t)
      PROVE  UNCHANGED <<files, job>>
  BY <1>7 DEF OpenPr, MergePr, ClosePr, ReopenPr, SetPr
<1>8. ASSUME NEW e \in Task \X Worker, LoseRun(e) PROVE UNCHANGED <<files, job>>
  BY <1>8 DEF LoseRun
<1>9. CASE UNCHANGED vars
  BY <1>6, <1>9 DEF vars
<1>10. QED
  BY <1>1, <1>2, <1>3, <1>4, <1>5, <1>6, <1>7, <1>8, <1>9 DEF Next

\* Whatever groups race and wherever jobs are killed: state.json and
\* campaign.json never hold a completion that the graph does not have, so a
\* rerun finds the graph's status authoritative.
THEOREM GraphIsAhead == Spec => []GraphAheadOfState
<1>1. Ahead => GraphAheadOfState
  BY DEF Ahead, Done, GraphAheadOfState
<1>2. Spec => [](Standing /\ Ahead)
  BY StandingInit, StandingKept, AheadInit, AheadKept, PTL DEF Spec
<1>3. QED
  BY <1>1, <1>2, PTL

\* A step changes the graph by one operation, or not at all.
LEMMA StepIsOperation == Ahead /\ [Next]_vars => [Dag!Next]_graph
<1> SUFFICES ASSUME Ahead, [Next]_vars PROVE graph' = graph \/ Dag!Next
  OBVIOUS
<1>1. ASSUME NEW a \in Agent, JobStep(a) PROVE graph' = graph \/ Dag!Next
  <2>1. CASE PutGraph(a)
    BY <2>1, WriteIsOperation
  <2>2. CASE graph' = graph
    BY <2>2
  <2>3. QED
    BY <1>1, <2>1, <2>2
       DEF JobStep, AdvanceRefused, AdvanceRead, AdvanceCampaign, AdvanceCycle,
           AfterAdvance, PutStateFile, PutQueueFile, Dispatch, PutCampaign, PutCycle,
           ParkRefused, ParkRead, ParkLedger, ReviewSkip, ReconcileRead, ReconcileState,
           ReconcileClearState, ReconcileClearCampaign, ReconcileLedger,
           MonitorReceipt, MonitorPoll, SessionPublish, SessionTimeout, files
<1>2. ASSUME NEW a \in Agent, Crash(a) PROVE graph' = graph
  BY <1>2 DEF Crash, files
<1>3. ASSUME NEW a \in Worker, MonitorStart(a) \/ ProviderStart(a) \/ ProviderResume(a)
      PROVE  graph' = graph
  BY <1>3 DEF MonitorStart, ProviderStart, ProviderResume, files
<1>4. CASE GateMerge \/ GateStatus \/ GateRepair
  BY <1>4 DEF GateMerge, GateStatus, GateRepair, files
<1>5. ASSUME NEW t \in Task,
             \/ GateStart(t) \/ GateRecover(t) \/ OpenPr(t)
             \/ MergePr(t) \/ ClosePr(t) \/ ReopenPr(t)
      PROVE  graph' = graph
  BY <1>5 DEF GateStart, GateRecover, OpenPr, MergePr, ClosePr, ReopenPr, SetPr, files
<1>6. ASSUME NEW e \in Task \X Worker, LoseRun(e) PROVE graph' = graph
  BY <1>6 DEF LoseRun, files
<1>7. CASE UNCHANGED vars
  BY <1>7 DEF vars, files
<1>8. QED
  BY <1>1, <1>2, <1>3, <1>4, <1>5, <1>6, <1>7 DEF Next

\* task-graph.json, written by jobs that race, are refused and die, implements
\* the scheduler: the plan's first graph is one of its initial graphs, and each
\* write that succeeds is one of its operations, on the graph as it was.
THEOREM GraphRefinesDag == Managed # {} => (Spec => GraphImplementsDag)
<1> SUFFICES ASSUME Managed # {} PROVE Spec => GraphImplementsDag
  OBVIOUS
<1>1. Init => Dag!Init
  BY PlanAssumption DEF FirstOfPlan, Init, Dag!Init
<1>2. Spec => [](Standing /\ Ahead)
  BY StandingInit, StandingKept, AheadInit, AheadKept, PTL DEF Spec
<1>3. QED
  BY <1>1, <1>2, StepIsOperation, PTL DEF Spec, GraphImplementsDag, Dag!Spec

-----------------------------------------------------------------------------
\* The accounts of the recovery.  Only a self-hosted project has them; there
\* nothing but the gate moves the campaign on, one job after the other, so a
\* task that was ever given a session does not become current again.

GatePcs == {"idle", "merge", "advance", "advGraph", "advCampaign", "putState", "putQueue",
            "advCycle", "dispatch", "after", "status", "repair"}

Advancing == {"advance", "advGraph", "advCampaign", "putState", "putQueue", "advCycle",
              "dispatch", "after"}

\* The monitor of a self-hosted project finds nothing to do.
SelfHosted ==
    /\ receipt = NoReceipt /\ ledger = <<>>
    /\ \A w \in Worker : job[w].pc \in {"idle", "session"}
    /\ job[Gate].pc \in GatePcs
    /\ job[Gate].pc \in Advancing => job[Gate].cont = "gate"

\* No session of u was created, and the next is not for u.
Untouched(u) == u \notin started \cup {cycle}

\* What may still be activated was not before.
WaitingIsFresh ==
    /\ queue \in Seq(Task) /\ IsInjective(queue) /\ ToSet(queue) \subseteq ToSet(Fifo)
    /\ \A u \in ToSet(queue) : Untouched(u)
    /\ \A m \in Managed : graph[m] = "PENDING" => Untouched(m)

\* The successor n that the gate is about to store is fresh, and when it is
\* activated it no longer waits.
SuccessorIsFresh ==
    LET r == job[Gate]
    IN  /\ r.pc \in {"advGraph", "advCampaign", "putState", "putQueue", "advCycle"} =>
             \/ r.nxt = NoTask
             \/ Untouched(r.nxt)
        /\ r.pc \in {"advGraph", "advCampaign", "putState", "putQueue"} =>
             /\ r.q1 \in Seq(Task) /\ IsInjective(r.q1)
             /\ ToSet(r.q1) \subseteq ToSet(queue)
             /\ r.nxt = NoTask \/ r.nxt \notin ToSet(r.q1)
        /\ r.pc = "advCycle" => r.nxt = NoTask \/ r.nxt \notin ToSet(queue)
        /\ r.pc \in {"advGraph", "advCampaign", "putState"} => r.st.current = r.nxt
        /\ r.pc = "advGraph" =>
             /\ \A m \in Managed : r.g1[m] = "PENDING" => r.g0[m] = "PENDING"
             /\ r.nxt \in Managed \ {NoTask} => r.g1[r.nxt] # "PENDING"
        /\ r.pc \in {"advCampaign", "putState", "putQueue", "advCycle"} =>
             (r.nxt \in Managed \ {NoTask} => graph[r.nxt] # "PENDING")

\* The gate has granted a repair that it has not dispatched yet.
Due == IF \/ job[Gate].pc = "status" /\ recovery.action = "REPAIR"
          \/ job[Gate].pc = "repair"
       THEN 1 ELSE 0

\* Each repair is of a task with a session, no task but that of the record is
\* both repaired and current, and the record counts the repairs of its task.
Accounted ==
    /\ repairs \in [Task -> Nat] /\ recovery.used["REPAIR"] \in Nat /\ crashes \in Nat
    /\ \A t \in Task : repairs[t] # 0 => t = recovery.task \/ t # state.current
    /\ \A t \in Task : repairs[t] # 0 => t \in started
    /\ \A t \in Task : repairs[t] <= Budget["REPAIR"]
    /\ \A t \in Task : t = recovery.task =>
         /\ repairs[t] + Due <= recovery.used["REPAIR"]
         /\ crashes = 0 => repairs[t] + Due = recovery.used["REPAIR"]
    /\ job[Gate].pc \in {"status", "repair"} =>
         /\ job[Gate].t = recovery.task /\ job[Gate].t \in started
         /\ state.current = recovery.task

SelfInv == SelfHosted /\ WaitingIsFresh /\ SuccessorIsFresh /\ Accounted

\* Another project has no gate.
ExternalInv ==
    /\ job[Gate].pc = "idle" /\ recovery = Policy!NoRecovery
    /\ repairs = [t \in Task |-> 0]

RecoveryInv == IF target = "self" THEN SelfInv ELSE ExternalInv

\* What is left of a queue without its head.
LEMMA TailFacts ==
    ASSUME NEW q \in Seq(Task), IsInjective(q), q # <<>>
    PROVE  /\ Tail(q) \in Seq(Task) /\ IsInjective(Tail(q))
           /\ ToSet(Tail(q)) \subseteq ToSet(q) \ {Head(q)}
           /\ Head(q) \in ToSet(q)
<1> DEFINE r == Tail(q)
<1>1. /\ r \in Seq(Task) /\ Len(r) = Len(q) - 1 /\ Len(q) \in Nat /\ Len(q) > 0
      /\ \A i \in 1 .. Len(r) : r[i] = q[i + 1]
      /\ Head(q) = q[1]
  OBVIOUS
<1>2. DOMAIN r = 1 .. Len(q) - 1 /\ DOMAIN q = 1 .. Len(q)
  BY <1>1
<1> HIDE DEF r
<1>3. \A i \in DOMAIN r : i + 1 \in DOMAIN q /\ i + 1 # 1 /\ r[i] = q[i + 1]
  BY <1>1, <1>2
<1>4. \A i, j \in DOMAIN r : r[i] = r[j] => i = j
  <2> TAKE i, j \in DOMAIN r
  <2> HAVE r[i] = r[j]
  <2>1. q[i + 1] = q[j + 1]
    BY <1>3
  <2>2. i + 1 = j + 1
    BY <1>3, <2>1 DEF IsInjective
  <2>3. QED
    BY <1>2, <2>2
<1>5. IsInjective(r)
  BY <1>4, Zenon DEF IsInjective
<1>6. 1 \in DOMAIN q
  BY <1>1, <1>2
<1>7. Head(q) \in ToSet(q)
  BY <1>1, <1>6 DEF ToSet
<1>8. ASSUME NEW i \in DOMAIN r PROVE r[i] \in ToSet(q) /\ r[i] # Head(q)
  <2>1. r[i] \in ToSet(q)
    BY <1>3 DEF ToSet
  <2>2. q[i + 1] # q[1]
    BY <1>3, <1>6 DEF IsInjective
  <2>3. QED
    BY <1>1, <1>3, <2>1, <2>2
<1>9. ToSet(r) \subseteq ToSet(q) \ {Head(q)}
  BY <1>8 DEF ToSet
<1>10. QED
  BY <1>1, <1>5, <1>7, <1>9 DEF r

\* The gate is an agent, and no worker.
LEMMA GateIsAgent == Gate \in Agent /\ Worker \subseteq Agent /\ Gate \notin Worker
  BY NameAssumption DEF Agent

\* The gate's own step.
LEMMA GateBecomes ==
    ASSUME Standing, NEW r, Become(Gate, r)
    PROVE  job'[Gate] = r /\ \A w \in Worker : job'[w] = job[w]
  BY GateIsAgent DEF Standing, Shape, Become

\* A step of a worker, or of the world.
LEMMA OthersKeepRecovery ==
    ASSUME Standing, SelfInv,
           UNCHANGED <<receipt, ledger, queue, graph, cycle, recovery, repairs>>,
           state'.current = state.current,
           started' \in {started, started \cup {cycle}},
           crashes' \in Nat, crashes' = 0 => crashes = 0,
           \/ job'[Gate] = job[Gate]
           \/ job'[Gate] = [job[Gate] EXCEPT !.fresh = FALSE],
           \A w \in Worker : job'[w].pc \in {"idle", "session"}
    PROVE  SelfInv'
<1>1. /\ job'[Gate].pc = job[Gate].pc /\ job'[Gate].t = job[Gate].t
      /\ job'[Gate].cont = job[Gate].cont /\ job'[Gate].nxt = job[Gate].nxt
      /\ job'[Gate].q1 = job[Gate].q1 /\ job'[Gate].st = job[Gate].st
      /\ job'[Gate].g0 = job[Gate].g0 /\ job'[Gate].g1 = job[Gate].g1
  BY GateIsAgent DEF Standing, Shape, JobShape, Fields
<1>2. SelfHosted'
  BY <1>1 DEF SelfInv, SelfHosted
<1>3. \A u : Untouched(u) => Untouched(u)'
  BY DEF Untouched
<1>4. WaitingIsFresh'
  BY <1>3 DEF SelfInv, WaitingIsFresh
<1>5. SuccessorIsFresh'
  BY <1>1, <1>3 DEF SelfInv, SuccessorIsFresh
<1>6. Due' = Due
  BY <1>1 DEF Due
<1>7. Accounted'
  BY <1>1, <1>6 DEF SelfInv, Accounted
<1>8. QED
  BY <1>2, <1>4, <1>5, <1>7 DEF SelfInv

\* The gate goes on, or ends, without a write of the files.
LEMMA GateGoesOn ==
    ASSUME Standing, SelfInv, NEW r, Become(Gate, r),
           r.pc \in {"idle", "merge", "advance", "dispatch", "after"},
           r.pc \in Advancing => r.cont = "gate",
           UNCHANGED <<receipt, ledger, queue, graph, state, cycle, recovery, repairs, started>>,
           crashes' \in Nat, crashes' = 0 => crashes = 0,
           crashes' = 0 => job[Gate].pc \notin {"status", "repair"}
    PROVE  SelfInv'
<1>1. job'[Gate] = r /\ \A w \in Worker : job'[w] = job[w]
  BY GateBecomes
<1>2. SelfHosted'
  BY <1>1 DEF SelfInv, SelfHosted, GatePcs
<1>3. \A u : Untouched(u) => Untouched(u)'
  BY DEF Untouched
<1>4. WaitingIsFresh'
  BY <1>3 DEF SelfInv, WaitingIsFresh
<1>5. SuccessorIsFresh'
  BY <1>1 DEF SuccessorIsFresh
<1>6. /\ Due \in {0, 1} /\ Due' = 0
      /\ job[Gate].pc \notin {"status", "repair"} => Due = 0
  BY <1>1 DEF Due
<1>7. Accounted'
  <2>1. ASSUME NEW t \in Task, t = recovery'.task
        PROVE  /\ repairs'[t] + Due' <= recovery'.used["REPAIR"]
               /\ crashes' = 0 => repairs'[t] + Due' = recovery'.used["REPAIR"]
    BY <1>6, <2>1 DEF SelfInv, Accounted
  <2>2. QED
    BY <1>1, <2>1 DEF SelfInv, Accounted
<1>8. QED
  BY <1>2, <1>4, <1>5, <1>7 DEF SelfInv

\* advance_queue takes a successor that was not activated before.
LEMMA PlanIsFresh ==
    ASSUME Standing, Ahead, SelfInv, AdvanceRead(Gate)
    PROVE  SelfInv'
<1> DEFINE t == job[Gate].t
           Follows(h, n) ==
             /\ \A m \in Managed : h[m] = "PENDING" => graph[m] = "PENDING"
             /\ \/ n = NoTask
                \/ t \in Managed /\ n \in Managed /\ graph[n] = "PENDING" /\ h[n] # "PENDING"
<1>1. /\ JobShape(job[Gate]) /\ job[Gate].pc = "advance" /\ job[Gate].cont = "gate"
      /\ graph \in [Managed -> Dag!Status]
  BY GateIsAgent DEF Standing, Shape, AdvanceRead, At, SelfInv, SelfHosted, Advancing, Ahead
<1>2. ASSUME NEW h, NEW n, Dag!AdvanceResult(graph, t, h, n), t \in Managed
      PROVE  Follows(h, n)
  <2> DEFINE c == Dag!WithStatus(graph, t, "COMPLETED")
  <2>1. Dag!Selected(c, n) /\ h = Dag!Activated(c, n)
    BY <1>2 DEF Dag!AdvanceResult
  <2>2. /\ c \in [Managed -> Dag!Status]
        /\ \A m \in Managed : c[m] = "PENDING" => graph[m] = "PENDING"
    BY <1>1 DEF Dag!WithStatus, Dag!Status
  <2> HIDE DEF c
  <2>3. CASE n = NoTask
    BY <2>1, <2>2, <2>3 DEF Dag!Activated
  <2>4. CASE n # NoTask
    <3>1. n \in Managed /\ c[n] = "PENDING"
      BY <2>1, <2>4 DEF Dag!Selected, Dag!Runnable
    <3>2. h = [c EXCEPT ![n] = "RUNNING"]
      BY <2>1, <2>4 DEF Dag!Activated
    <3>3. QED
      BY <1>2, <2>2, <3>1, <3>2
  <2>5. QED
    BY <2>3, <2>4
<1>3. ASSUME NEW h, NEW n, Become(Gate, AdvancePlan(Gate, h, n)), Follows(h, n)
      PROVE  SelfInv'
  <2> DEFINE r == AdvancePlan(Gate, h, n)
             popped == n = NoTask /\ queue # <<>> /\ r.nxt = Head(queue) /\ r.q1 = Tail(queue)
             taken == /\ r.nxt = n
                      /\ r.q1 = IF n = NoTask THEN queue ELSE RemoveQueueTask(queue, n)
  <2>1. /\ r.pc \in {"advGraph", "advCampaign"} /\ r.cont = "gate"
        /\ r.g0 = graph /\ r.g1 = h /\ r.st.current = r.nxt
        /\ r.pc = "advCampaign" => t \notin Managed
    BY <1>1 DEF AdvancePlan, JobShape, Fields, FirstWrite
  <2>2. popped \/ taken
    BY <1>1 DEF AdvancePlan, JobShape, Fields, RestOfQueue
  <2>3. /\ job'[Gate] = r /\ \A w \in Worker : job'[w] = job[w]
        /\ UNCHANGED <<receipt, ledger, queue, graph, state, cycle, recovery, repairs,
                       started, crashes>>
    BY <1>3, GateBecomes DEF AdvanceRead, files, world, ciRecovery
  <2> HIDE DEF r
  <2>4. /\ queue \in Seq(Task) /\ IsInjective(queue)
        /\ \A u \in ToSet(queue) : Untouched(u) /\ u \notin Managed
        /\ \A m \in Managed : graph[m] = "PENDING" => Untouched(m)
    BY QueueAssumption DEF SelfInv, WaitingIsFresh
  <2>5. /\ r.nxt = NoTask \/ Untouched(r.nxt)
        /\ r.q1 \in Seq(Task) /\ IsInjective(r.q1) /\ ToSet(r.q1) \subseteq ToSet(queue)
        /\ r.nxt = NoTask \/ r.nxt \notin ToSet(r.q1)
        /\ r.nxt \in Managed \ {NoTask} => r.nxt = n
    <3>1. CASE popped
      BY <2>4, <3>1, TailFacts
    <3>2. CASE taken /\ n # NoTask
      <4>1. ~ \E i \in 1 .. Len(queue) : queue[i] = n
        BY <1>3, <2>4, <3>2 DEF ToSet
      <4>2. RemoveQueueTask(queue, n) = queue
        BY <4>1 DEF RemoveQueueTask, RemoveFirst
      <4>3. n \notin ToSet(queue)
        BY <1>3, <2>4, <3>2
      <4>4. QED
        BY <1>3, <2>4, <3>2, <4>2, <4>3
    <3>3. CASE taken /\ n = NoTask
      BY <2>4, <3>3
    <3>4. QED
      BY <2>2, <3>1, <3>2, <3>3
  <2>6. SelfHosted'
    BY <2>1, <2>3 DEF SelfInv, SelfHosted, GatePcs
  <2>7. WaitingIsFresh'
    BY <2>3 DEF SelfInv, WaitingIsFresh, Untouched
  <2>8. r.nxt \in Managed \ {NoTask} => r.g1[r.nxt] # "PENDING" /\ r.pc = "advGraph"
    BY <1>3, <2>1, <2>4, <2>5
  <2>9. SuccessorIsFresh'
    BY <1>3, <2>1, <2>3, <2>5, <2>8 DEF SuccessorIsFresh, Untouched
  <2>10. Accounted'
    BY <1>1, <2>1, <2>3 DEF SelfInv, Accounted, Due
  <2>11. QED
    BY <2>6, <2>7, <2>9, <2>10 DEF SelfInv
<1>4. CASE t \notin Managed
  <2>1. Become(Gate, AdvancePlan(Gate, graph, NoTask)) /\ Follows(graph, NoTask)
    BY <1>4 DEF AdvanceRead
  <2>2. QED
    BY <1>3, <2>1
<1>5. CASE t \in Managed
  <2>1. \E n \in Managed \cup {NoTask} : \E h :
          Dag!AdvanceResult(graph, t, h, n) /\ Become(Gate, AdvancePlan(Gate, h, n))
    BY <1>5 DEF AdvanceRead
  <2>2. QED
    BY <1>2, <1>3, <1>5, <2>1
<1>6. QED
  BY <1>4, <1>5

\* The writes of the completed task's graph and campaign.
LEMMA GraphIsFresh ==
    ASSUME Standing, SelfInv, PutGraph(Gate) \/ AdvanceCampaign(Gate)
    PROVE  SelfInv'
<1>0. /\ JobShape(job[Gate]) /\ job[Gate].pc \in GatePcs /\ crashes \in Nat
      /\ job[Gate].pc \in Advancing => job[Gate].cont = "gate"
  BY GateIsAgent DEF Standing, Shape, SelfInv, SelfHosted, Accounted
<1>1. CASE EndJob(Gate) /\ graph' = graph
  BY <1>0, <1>1, GateGoesOn DEF EndJob, IdleJob, PutGraph, AdvanceCampaign, At, Goto, world,
       ciRecovery, Advancing
<1>2. CASE /\ Goto(Gate, IF job[Gate].pc = "advGraph" THEN "advCampaign" ELSE "putState")
           /\ \/ job[Gate].pc = "advGraph" /\ graph = job[Gate].g0 /\ graph' = job[Gate].g1
              \/ job[Gate].pc = "advCampaign" /\ graph' = graph
  <2> DEFINE r == [job[Gate] EXCEPT !.pc = IF job[Gate].pc = "advGraph"
                                           THEN "advCampaign" ELSE "putState"]
  <2>1. /\ r.pc \in {"advCampaign", "putState"} /\ r.cont = job[Gate].cont
        /\ r.nxt = job[Gate].nxt /\ r.q1 = job[Gate].q1 /\ r.st = job[Gate].st
    BY <1>0 DEF JobShape, Fields
  <2>2. /\ job'[Gate] = r /\ \A w \in Worker : job'[w] = job[w]
        /\ UNCHANGED <<receipt, ledger, queue, state, cycle, recovery, repairs, started, crashes>>
    BY <1>2, GateBecomes DEF Goto, PutGraph, AdvanceCampaign, world, ciRecovery
  <2> HIDE DEF r
  <2>3. SelfHosted'
    BY <1>0, <1>2, <2>1, <2>2 DEF SelfInv, SelfHosted, GatePcs, Advancing
  <2>4. \A m \in Managed : graph'[m] = "PENDING" => graph[m] = "PENDING"
    BY <1>2 DEF SelfInv, SuccessorIsFresh
  <2>5. WaitingIsFresh'
    BY <2>2, <2>4 DEF SelfInv, WaitingIsFresh, Untouched
  <2>6. SuccessorIsFresh'
    BY <1>2, <2>1, <2>2 DEF SelfInv, SuccessorIsFresh, Untouched
  <2>7. Accounted'
    BY <1>2, <2>1, <2>2 DEF SelfInv, Accounted, Due
  <2>8. QED
    BY <2>3, <2>5, <2>6, <2>7 DEF SelfInv
<1>3. QED
  BY <1>0, <1>1, <1>2 DEF PutGraph, AdvanceCampaign, SameGraph, At, GatePcs, Goto

\* The write of state.json makes a task current that has no session yet.
LEMMA StateIsFresh ==
    ASSUME Standing, SelfInv, PutStateFile(Gate)
    PROVE  SelfInv'
<1>0. /\ JobShape(job[Gate]) /\ job[Gate].pc = "putState" /\ crashes \in Nat
      /\ job[Gate].cont = "gate"
  BY GateIsAgent DEF Standing, Shape, SelfInv, SelfHosted, Accounted, PutStateFile, At, Advancing
<1>1. CASE EndJob(Gate) /\ state' = state
  BY <1>0, <1>1, GateGoesOn DEF EndJob, IdleJob, PutStateFile, world, ciRecovery, Advancing
<1>2. CASE PutState(Gate, job[Gate].st, [job[Gate] EXCEPT !.pc = "putQueue", !.fresh = FALSE])
  <2> DEFINE r == [job[Gate] EXCEPT !.pc = "putQueue", !.fresh = FALSE]
  <2>1. /\ r.pc = "putQueue" /\ r.cont = job[Gate].cont
        /\ r.nxt = job[Gate].nxt /\ r.q1 = job[Gate].q1
    BY <1>0 DEF JobShape, Fields
  <2>2. /\ job'[Gate] = r /\ \A w \in Worker : job'[w].pc = job[w].pc
        /\ state'.current = job[Gate].nxt
        /\ UNCHANGED <<receipt, ledger, queue, graph, cycle, recovery, repairs, started, crashes>>
    <3>1. \A w \in Worker : job'[w] = [job[w] EXCEPT !.fresh = FALSE] /\ JobShape(job[w])
      BY <1>2, GateIsAgent DEF PutState, Standing, Shape
    <3>2. \A w \in Worker : job'[w].pc = job[w].pc
      BY <3>1 DEF JobShape, Fields
    <3>3. QED
      BY <1>0, <1>2, <3>2, GateIsAgent
         DEF PutState, PutStateFile, world, ciRecovery, SelfInv, SuccessorIsFresh
  <2> HIDE DEF r
  <2>3. SelfHosted'
    BY <1>0, <2>1, <2>2 DEF SelfInv, SelfHosted, GatePcs
  <2>4. WaitingIsFresh'
    BY <2>2 DEF SelfInv, WaitingIsFresh, Untouched
  <2>5. SuccessorIsFresh'
    BY <1>0, <2>1, <2>2 DEF SelfInv, SuccessorIsFresh, Untouched
  <2>6. \A u \in Task : repairs[u] # 0 => u # job[Gate].nxt
    BY <1>0, NameAssumption DEF SelfInv, Accounted, SuccessorIsFresh, Untouched
  <2>7. Accounted'
    BY <1>0, <2>1, <2>2, <2>6 DEF SelfInv, Accounted, Due
  <2>8. QED
    BY <2>3, <2>4, <2>5, <2>7 DEF SelfInv
<1>3. QED
  BY <1>1, <1>2 DEF PutStateFile

\* The queue loses the successor before the cycle task names it.
LEMMA QueueIsFresh ==
    ASSUME Standing, SelfInv, PutQueueFile(Gate) \/ AdvanceCycle(Gate)
    PROVE  SelfInv'
<1>0. /\ JobShape(job[Gate]) /\ job[Gate].pc \in {"putQueue", "advCycle"} /\ crashes \in Nat
      /\ job[Gate].cont = "gate"
  BY GateIsAgent DEF Standing, Shape, SelfInv, SelfHosted, Accounted, PutQueueFile, AdvanceCycle,
       At, Advancing
<1>1. /\ UNCHANGED <<receipt, ledger, graph, state, recovery, repairs, started, crashes>>
      /\ queue' = queue \/ cycle' = cycle
  BY DEF PutQueueFile, AdvanceCycle, world, ciRecovery
<1>2. CASE EndJob(Gate) /\ UNCHANGED <<queue, cycle>>
  BY <1>0, <1>1, <1>2, GateGoesOn DEF EndJob, IdleJob, Advancing
<1>3. CASE Goto(Gate, "after") /\ UNCHANGED <<queue, cycle>>
  <2> DEFINE r == [job[Gate] EXCEPT !.pc = "after"]
  <2>1. r.pc = "after" /\ r.cont = "gate"
    BY <1>0 DEF JobShape, Fields
  <2>2. Become(Gate, r)
    BY <1>3 DEF Goto
  <2> HIDE DEF r
  <2>3. QED
    BY <1>0, <1>1, <1>3, <2>1, <2>2, GateGoesOn
<1>4. CASE /\ job[Gate].pc = "putQueue" /\ Goto(Gate, "advCycle")
           /\ queue' = job[Gate].q1 /\ cycle' = cycle
  <2> DEFINE r == [job[Gate] EXCEPT !.pc = "advCycle"]
  <2>1. r.pc = "advCycle" /\ r.cont = "gate" /\ r.nxt = job[Gate].nxt
    BY <1>0 DEF JobShape, Fields
  <2>2. job'[Gate] = r /\ \A w \in Worker : job'[w] = job[w]
    BY <1>4, GateBecomes DEF Goto
  <2> HIDE DEF r
  <2>3. SelfHosted'
    BY <1>1, <2>1, <2>2 DEF SelfInv, SelfHosted, GatePcs
  <2>4. WaitingIsFresh'
    BY <1>1, <1>4, <2>2 DEF SelfInv, WaitingIsFresh, SuccessorIsFresh, Untouched
  <2>5. SuccessorIsFresh'
    BY <1>1, <1>4, <2>1, <2>2 DEF SelfInv, SuccessorIsFresh, Untouched
  <2>6. Accounted'
    BY <1>1, <1>4, <2>1, <2>2 DEF SelfInv, Accounted, Due
  <2>7. QED
    BY <2>3, <2>4, <2>5, <2>6 DEF SelfInv
<1>5. CASE /\ job[Gate].pc = "advCycle" /\ Goto(Gate, "dispatch") /\ job[Gate].nxt # NoTask
           /\ cycle' = job[Gate].nxt /\ queue' = queue
  <2> DEFINE r == [job[Gate] EXCEPT !.pc = "dispatch"]
  <2>1. r.pc = "dispatch" /\ r.cont = "gate"
    BY <1>0 DEF JobShape, Fields
  <2>2. job'[Gate] = r /\ \A w \in Worker : job'[w] = job[w]
    BY <1>5, GateBecomes DEF Goto
  <2> HIDE DEF r
  <2>3. SelfHosted'
    BY <1>1, <2>1, <2>2 DEF SelfInv, SelfHosted, GatePcs
  <2>4. WaitingIsFresh'
    BY <1>1, <1>5, <2>2 DEF SelfInv, WaitingIsFresh, SuccessorIsFresh, Untouched
  <2>5. SuccessorIsFresh'
    BY <2>1, <2>2 DEF SuccessorIsFresh
  <2>6. Accounted'
    BY <1>1, <1>5, <2>1, <2>2 DEF SelfInv, Accounted, Due
  <2>7. QED
    BY <2>3, <2>4, <2>5, <2>6 DEF SelfInv
<1>6. QED
  BY <1>0, <1>2, <1>3, <1>4, <1>5 DEF PutQueueFile, AdvanceCycle, At

\* Every step of the gate's job.
LEMMA GateStepAccounts ==
    ASSUME Standing, Ahead, SelfInv, JobStep(Gate) \/ Crash(Gate) \/ GateMerge
    PROVE  SelfInv'
<1>0. /\ JobShape(job[Gate]) /\ job[Gate].pc \in GatePcs /\ crashes \in Nat
      /\ job[Gate].pc \in Advancing => job[Gate].cont = "gate"
  BY GateIsAgent DEF Standing, Shape, SelfInv, SelfHosted, Accounted
<1>1. CASE AdvanceRead(Gate)
  BY <1>1, PlanIsFresh
<1>2. CASE PutGraph(Gate) \/ AdvanceCampaign(Gate)
  BY <1>2, GraphIsFresh
<1>3. CASE PutStateFile(Gate)
  BY <1>3, StateIsFresh
<1>4. CASE PutQueueFile(Gate) \/ AdvanceCycle(Gate)
  BY <1>4, QueueIsFresh
<1>5. CASE AdvanceRefused(Gate) \/ AfterAdvance(Gate)
  <2>1. EndJob(Gate) /\ UNCHANGED <<files, recovery, repairs, started, crashes>>
    BY <1>0, <1>5 DEF AdvanceRefused, AfterAdvance, files, world, ciRecovery, At, Advancing
  <2>2. QED
    BY <1>0, <1>5, <2>1, GateGoesOn
       DEF EndJob, IdleJob, files, AdvanceRefused, AfterAdvance, At, Advancing
<1>6. CASE Dispatch(Gate)
  <2> DEFINE r == [job[Gate] EXCEPT !.pc = "after"]
  <2>1. r.pc = "after" /\ r.cont = "gate" /\ job[Gate].cont = "gate"
    BY <1>0, <1>6 DEF JobShape, Fields, Dispatch, At, Advancing
  <2>2. Become(Gate, r)
    BY <1>6, <2>1 DEF Dispatch, Goto
  <2> HIDE DEF r
  <2>3. QED
    BY <1>0, <1>6, <2>1, <2>2, GateGoesOn DEF Dispatch, At, files, ciRecovery
<1>7. CASE Crash(Gate)
  BY <1>0, <1>7, GateGoesOn DEF Crash, EndJob, IdleJob, files, ciRecovery, Advancing
<1>8. CASE GateMerge
  <2> DEFINE r == [job[Gate] EXCEPT !.pc = "advance", !.cont = "gate"]
  <2>1. r.pc = "advance" /\ r.cont = "gate"
    BY <1>0 DEF JobShape, Fields
  <2>2. Become(Gate, r) \/ EndJob(Gate)
    BY <1>8 DEF GateMerge
  <2> HIDE DEF r
  <2>3. UNCHANGED <<receipt, ledger, queue, graph, state, cycle, recovery, repairs, started,
                    crashes>> /\ job[Gate].pc = "merge"
    BY <1>8 DEF GateMerge, files, ciRecovery, At
  <2>4. QED
    BY <1>0, <2>1, <2>2, <2>3, GateGoesOn DEF EndJob, IdleJob, Advancing
<1>9. QED
  BY <1>0, <1>1, <1>2, <1>3, <1>4, <1>5, <1>6, <1>7, <1>8
     DEF JobStep, GatePcs, PutCampaign, PutCycle, ParkRefused, ParkRead, ParkLedger, ReviewSkip,
         ReconcileRead, ReconcileState, ReconcileClearState, ReconcileClearCampaign,
         ReconcileLedger, MonitorReceipt, MonitorPoll, SessionPublish, SessionTimeout, At

\* The gate begins to merge.
LEMMA GateStartAccounts ==
    ASSUME Standing, SelfInv, NEW t \in Task, GateStart(t)
    PROVE  SelfInv'
<1> DEFINE r == [IdleJob EXCEPT !.pc = "merge", !.t = state.current,
                                !.rcpt = [task |-> t, status |-> "PR_CREATED"]]
<1>1. r.pc = "merge" /\ Become(Gate, r)
  BY DEF GateStart, IdleJob
<1> HIDE DEF r
<1>2. QED
  BY <1>1, GateGoesOn DEF GateStart, At, files, world, ciRecovery, SelfInv, Accounted, Advancing

\* A failed CI run is recorded: the record of another task is forgotten, but
\* that task, if it was repaired, is not current.
LEMMA RecoverAccounts ==
    ASSUME Standing, Bounded, SelfInv, NEW t \in Task, GateRecover(t)
    PROVE  SelfInv'
<1> DEFINE r == [IdleJob EXCEPT !.pc = "status", !.t = t]
           prior == Policy!Prior(recovery, t)
<1>1. r.pc = "status" /\ r.t = t /\ Become(Gate, r)
  BY DEF GateRecover, IdleJob
<1> HIDE DEF r
<1>2. job'[Gate] = r /\ \A w \in Worker : job'[w] = job[w]
  BY <1>1, GateBecomes
<1>3. /\ UNCHANGED <<receipt, ledger, queue, graph, state, cycle, repairs, started, crashes>>
      /\ job[Gate].pc = "idle" /\ state.current = t /\ t \in started
  BY DEF GateRecover, FailureIsOurs, files, At
<1>4. PICK again \in BOOLEAN : recovery' = Policy!Advanced(recovery, t, "CI_FAILURE", again)
  BY DEF GateRecover
<1>5. prior.used["REPAIR"] = IF recovery.task = t THEN recovery.used["REPAIR"] ELSE 0
  BY DEF Policy!Prior, Policy!NoRecovery, Policy!Attempt
<1> HIDE DEF prior
<1>6. /\ recovery'.task = t
      /\ recovery'.used["REPAIR"] = prior.used["REPAIR"] + IF recovery'.action = "REPAIR"
                                                          THEN 1 ELSE 0
  <2>1. "REPAIR" \in Policy!Attempt
    BY DEF Policy!Attempt
  <2>2. SelfInv => prior.used["REPAIR"] \in Nat
    BY <1>5 DEF SelfInv, Accounted
  <2>3. QED
    BY <1>4, <2>1, <2>2 DEF Policy!Advanced, prior
<1>7. SelfHosted'
  BY <1>1, <1>2, <1>3 DEF SelfInv, SelfHosted, GatePcs, Advancing
<1>8. WaitingIsFresh'
  BY <1>3 DEF SelfInv, WaitingIsFresh, Untouched
<1>9. SuccessorIsFresh'
  BY <1>1, <1>2 DEF SuccessorIsFresh
<1>10. Due = 0 /\ Due' = IF recovery'.action = "REPAIR" THEN 1 ELSE 0
  BY <1>1, <1>2, <1>3 DEF Due
<1>11. Accounted'
  <2>1. /\ repairs[t] <= prior.used["REPAIR"]
        /\ crashes = 0 => repairs[t] = prior.used["REPAIR"]
        /\ prior.used["REPAIR"] \in Nat
    BY <1>3, <1>5, <1>10 DEF SelfInv, Accounted
  <2>2. /\ repairs[t] + Due' <= recovery'.used["REPAIR"]
        /\ crashes = 0 => repairs[t] + Due' = recovery'.used["REPAIR"]
        /\ recovery'.used["REPAIR"] \in Nat
    BY <1>6, <1>10, <2>1 DEF SelfInv, Accounted
  <2>3. QED
    BY <1>1, <1>2, <1>3, <1>6, <2>2 DEF SelfInv, Accounted
<1>12. QED
  BY <1>7, <1>8, <1>9, <1>11 DEF SelfInv

\* The status is written for the task of the record, and a repair then due is
\* dispatched.
LEMMA StatusAccounts ==
    ASSUME Standing, SelfInv, GateStatus
    PROVE  SelfInv'
<1> DEFINE r == [job[Gate] EXCEPT !.pc = "repair"]
           q == IF recovery.action = "REPAIR" THEN r ELSE IdleJob
<1>1. /\ JobShape(job[Gate]) /\ job[Gate].pc = "status" /\ state.current = job[Gate].t
      /\ DOMAIN state = StateFields
  BY GateIsAgent DEF Standing, Shape, GateStatus, At, SelfInv, Accounted
<1>2. /\ q.pc = IF recovery.action = "REPAIR" THEN "repair" ELSE "idle"
      /\ recovery.action = "REPAIR" => q.t = job[Gate].t
  BY <1>1 DEF JobShape, Fields, IdleJob
<1>3. PutState(Gate, [state EXCEPT !.status = StatusAfter(recovery.action)], q)
  BY <1>1 DEF GateStatus
<1>4. state'.current = state.current
  BY <1>1, <1>3 DEF PutState, StateFields
<1>5. job'[Gate] = q /\ \A w \in Worker : job'[w].pc = job[w].pc
  <2>1. \A w \in Worker : job'[w] = [job[w] EXCEPT !.fresh = FALSE] /\ JobShape(job[w])
    BY <1>3, GateIsAgent DEF PutState, Standing, Shape
  <2>2. \A w \in Worker : job'[w].pc = job[w].pc
    BY <2>1 DEF JobShape, Fields
  <2>3. QED
    BY <1>3, <2>2, GateIsAgent DEF PutState
<1>6. UNCHANGED <<receipt, ledger, queue, graph, cycle, recovery, repairs, started, crashes>>
  BY DEF GateStatus, world, ciRecovery
<1> HIDE DEF q
<1>7. SelfHosted'
  BY <1>2, <1>5, <1>6 DEF SelfInv, SelfHosted, GatePcs, Advancing
<1>8. WaitingIsFresh'
  BY <1>6 DEF SelfInv, WaitingIsFresh, Untouched
<1>9. SuccessorIsFresh'
  BY <1>2, <1>5 DEF SuccessorIsFresh
<1>10. Due' = Due
  BY <1>1, <1>2, <1>5, <1>6 DEF Due
<1>11. Accounted'
  BY <1>1, <1>2, <1>4, <1>5, <1>6, <1>10 DEF SelfInv, Accounted
<1>12. QED
  BY <1>7, <1>8, <1>9, <1>11 DEF SelfInv

\* The dispatch of a repair.
LEMMA RepairAccounts ==
    ASSUME Standing, Bounded, SelfInv, GateRepair
    PROVE  SelfInv'
<1> DEFINE t == job[Gate].t
<1>1. /\ job[Gate].pc = "repair" /\ t = recovery.task /\ state.current = t /\ t \in started
      /\ repairs \in [Task -> Nat] /\ recovery.used["REPAIR"] \in Nat /\ crashes \in Nat
  BY DEF GateRepair, At, SelfInv, Accounted
<1>2. /\ repairs' = [repairs EXCEPT ![t] = @ + 1]
      /\ UNCHANGED <<receipt, ledger, queue, graph, state, cycle, recovery, started, crashes>>
  BY DEF GateRepair, files
<1>3. job'[Gate].pc = "idle" /\ \A w \in Worker : job'[w] = job[w]
  BY GateBecomes DEF GateRepair, EndJob, IdleJob
<1>4. SelfHosted'
  BY <1>2, <1>3 DEF SelfInv, SelfHosted, GatePcs, Advancing
<1>5. WaitingIsFresh'
  BY <1>2 DEF SelfInv, WaitingIsFresh, Untouched
<1>6. SuccessorIsFresh'
  BY <1>3 DEF SuccessorIsFresh
<1>7. Due = 1 /\ Due' = 0
  BY <1>1, <1>3 DEF Due
<1>8. Accounted'
  <2>1. repairs' \in [Task -> Nat] /\ \A u \in Task : u # t => repairs'[u] = repairs[u]
    <3> HIDE DEF t
    <3>1. \A u \in Task : repairs'[u] = IF u = t THEN repairs[u] + 1 ELSE repairs[u]
      BY <1>1, <1>2
    <3>2. repairs' = [u \in Task |-> repairs'[u]]
      BY <1>1, <1>2
    <3>3. \A u \in Task : repairs'[u] \in Nat
      BY <1>1, <3>1
    <3>4. QED
      BY <3>1, <3>2, <3>3
  <2>2. ASSUME t \in Task
        PROVE  /\ repairs'[t] <= recovery.used["REPAIR"] /\ repairs'[t] <= Budget["REPAIR"]
               /\ crashes = 0 => repairs'[t] = recovery.used["REPAIR"]
    <3>1. repairs'[t] = repairs[t] + 1
      BY <1>1, <1>2, <2>2
    <3>2. recovery.used["REPAIR"] <= Budget["REPAIR"] /\ Budget["REPAIR"] \in Nat
      BY RecoveryAssumption DEF Bounded, Policy!Attempt, Policy!PolicyAssumption
    <3>3. /\ repairs[t] + Due <= recovery.used["REPAIR"]
          /\ crashes = 0 => repairs[t] + Due = recovery.used["REPAIR"]
      BY <1>1, <2>2 DEF SelfInv, Accounted
    <3>4. QED
      BY <1>1, <1>7, <2>1, <2>2, <3>1, <3>2, <3>3
  <2>3. \A u \in Task : repairs'[u] <= Budget["REPAIR"]
    BY <2>1, <2>2 DEF SelfInv, Accounted
  <2>4. \A u \in Task : u = recovery.task =>
          /\ repairs'[u] + Due' <= recovery.used["REPAIR"]
          /\ crashes = 0 => repairs'[u] + Due' = recovery.used["REPAIR"]
    BY <1>1, <1>7, <2>1, <2>2
  <2>5. QED
    BY <1>1, <1>2, <1>3, <2>1, <2>3, <2>4 DEF SelfInv, Accounted
<1>9. QED
  BY <1>4, <1>5, <1>6, <1>8 DEF SelfInv

\* A worker of a self-hosted project only follows sessions.
LEMMA WorkerAccounts ==
    ASSUME Standing, SelfInv, target = "self", NEW w \in Worker,
           \/ JobStep(w) \/ Crash(w) \/ MonitorStart(w) \/ ProviderStart(w) \/ ProviderResume(w)
    PROVE  SelfInv'
<1>0. /\ w \in Agent /\ w # Gate /\ job[w].pc \in {"idle", "session"} /\ crashes \in Nat
      /\ IdleJob.pc = "idle"
  BY GateIsAgent DEF SelfInv, SelfHosted, Accounted, IdleJob
<1>1. ASSUME EndJob(w)
      PROVE  /\ job'[Gate] = job[Gate]
             /\ \A v \in Worker : job'[v].pc \in {"idle", "session"}
  BY <1>0, <1>1, GateIsAgent DEF EndJob, Become, Standing, Shape, SelfInv, SelfHosted
<1>2. CASE SessionPublish(w) \/ SessionTimeout(w) \/ Crash(w)
  <2>1. /\ EndJob(w) /\ crashes' \in Nat
        /\ crashes' = 0 => crashes = 0
        /\ UNCHANGED <<receipt, ledger, queue, graph, state, cycle, recovery, repairs, started>>
    BY <1>0, <1>2 DEF SessionPublish, SessionTimeout, Crash, files, world, ciRecovery
  <2>2. /\ job'[Gate] = job[Gate]
        /\ \A v \in Worker : job'[v].pc \in {"idle", "session"}
    BY <1>1, <2>1
  <2>3. state'.current = state.current /\ started' \in {started, started \cup {cycle}}
    BY <2>1
  <2>4. QED
    BY <2>1, <2>2, <2>3, OthersKeepRecovery
<1>3. CASE ProviderStart(w) \/ ProviderResume(w)
  <2> DEFINE s == [state EXCEPT !.status = "RUNNING"]
             r == [IdleJob EXCEPT !.pc = "session", !.t = cycle]
  <2>1. s.current = state.current /\ r.pc = "session"
    BY DEF Standing, Shape, StateFields, IdleJob
  <2> HIDE DEF s, r
  <2>2. /\ UNCHANGED <<receipt, ledger, queue, graph, cycle, recovery, repairs, crashes>>
        /\ started' \in {started, started \cup {cycle}}
        /\ PutState(w, s, r) \/ UNCHANGED <<state, job>>
    BY <1>3 DEF ProviderStart, ProviderResume, world, ciRecovery, s, r
  <2>3. CASE PutState(w, s, r)
    <3>1. job'[Gate] = [job[Gate] EXCEPT !.fresh = FALSE] /\ state' = s
      BY <1>0, <2>3, GateIsAgent DEF PutState
    <3>2. ASSUME NEW v \in Worker PROVE job'[v].pc \in {"idle", "session"}
      <4>1. JobShape(job[v]) /\ job[v].pc \in {"idle", "session"}
        BY GateIsAgent DEF Standing, Shape, SelfInv, SelfHosted
      <4>2. job'[v] = IF v = w THEN r ELSE [job[v] EXCEPT !.fresh = FALSE]
        BY <2>3, GateIsAgent DEF PutState
      <4>3. QED
        BY <2>1, <4>1, <4>2 DEF JobShape, Fields
    <3>3. QED
      BY <1>0, <2>1, <2>2, <3>1, <3>2, OthersKeepRecovery
  <2>4. CASE UNCHANGED <<state, job>>
    BY <1>0, <2>2, <2>4, OthersKeepRecovery DEF SelfInv, SelfHosted
  <2>5. QED
    BY <2>2, <2>3, <2>4
<1>4. ~ MonitorStart(w)
  BY DEF MonitorStart, SelfInv, SelfHosted
<1>5. JobStep(w) => SessionPublish(w) \/ SessionTimeout(w)
  BY <1>0
     DEF JobStep, AdvanceRefused, AdvanceRead, AdvanceCampaign, AdvanceCycle, AfterAdvance,
         PutGraph, PutStateFile, PutQueueFile, Dispatch, PutCampaign, PutCycle, ParkRefused,
         ParkRead, ParkLedger, ReviewSkip, ReconcileRead, ReconcileState, ReconcileClearState,
         ReconcileClearCampaign, ReconcileLedger, MonitorReceipt, MonitorPoll, At
<1>6. QED
  BY <1>2, <1>3, <1>4, <1>5

\* A project developed elsewhere has no gate and no recovery.
LEMMA ExternalKept ==
    ASSUME Standing, ExternalInv, target # "self", [Next]_vars
    PROVE  ExternalInv'
<1> /\ IdleJob.pc = "idle" /\ job[Gate].pc = "idle" /\ JobShape(job[Gate])
  BY GateIsAgent DEF IdleJob, ExternalInv, Standing, Shape
<1>1. ASSUME UNCHANGED <<recovery, repairs>>, job'[Gate].pc = "idle" PROVE ExternalInv'
  BY <1>1 DEF ExternalInv
<1>2. ~ GateMerge /\ ~ GateStatus /\ ~ GateRepair /\ ~ JobStep(Gate) /\ ~ Crash(Gate)
  BY DEF GateMerge, GateStatus, GateRepair, Crash, JobStep, AdvanceRefused, AdvanceRead,
         AdvanceCampaign, AdvanceCycle, AfterAdvance, PutGraph, PutStateFile, PutQueueFile,
         Dispatch, PutCampaign, PutCycle, ParkRefused, ParkRead, ParkLedger, ReviewSkip,
         ReconcileRead, ReconcileState, ReconcileClearState, ReconcileClearCampaign,
         ReconcileLedger, MonitorReceipt, MonitorPoll, SessionPublish, SessionTimeout, At
<1>3. ASSUME NEW w \in Worker, JobStep(w) \/ Crash(w) \/ MonitorStart(w)
                               \/ ProviderStart(w) \/ ProviderResume(w)
      PROVE  ExternalInv'
  <2>1. UNCHANGED <<recovery, repairs>>
    BY <1>3
       DEF JobStep, AdvanceRefused, AdvanceRead, AdvanceCampaign, AdvanceCycle,
           AfterAdvance, PutGraph, PutStateFile, PutQueueFile, Dispatch, PutCampaign,
           PutCycle, ParkRefused, ParkRead, ParkLedger, ReviewSkip, ReconcileRead,
           ReconcileState, ReconcileClearState, ReconcileClearCampaign, ReconcileLedger,
           MonitorReceipt, MonitorPoll, SessionPublish, SessionTimeout, Crash, MonitorStart,
           ProviderStart, ProviderResume, world, ciRecovery
  <2>2. \/ \E r : Become(w, r)
        \/ \E s, r : PutState(w, s, r)
        \/ job' = job
    BY <1>3
       DEF JobStep, AdvanceRefused, AdvanceRead, AdvanceCampaign, AdvanceCycle,
           AfterAdvance, PutGraph, PutStateFile, PutQueueFile, Dispatch, PutCampaign,
           PutCycle, ParkRefused, ParkRead, ParkLedger, ReviewSkip, ReconcileRead,
           ReconcileState, ReconcileClearState, ReconcileClearCampaign, ReconcileLedger,
           MonitorReceipt, MonitorPoll, SessionPublish, SessionTimeout, Crash, MonitorStart,
           ProviderStart, ProviderResume, Goto, EndJob
  <2>3. job'[Gate] \in {job[Gate], [job[Gate] EXCEPT !.fresh = FALSE]}
    BY <2>2, GateIsAgent DEF Become, PutState, Standing, Shape
  <2>4. job'[Gate].pc = "idle"
    BY <2>3 DEF JobShape, Fields
  <2>5. QED
    BY <1>1, <2>1, <2>4
<1>4. ASSUME NEW t \in Task,
             \/ GateStart(t) \/ GateRecover(t)
             \/ OpenPr(t) \/ MergePr(t) \/ ClosePr(t) \/ ReopenPr(t)
      PROVE  ExternalInv'
  BY <1>1, <1>4 DEF GateStart, GateRecover, FailureIsOurs, Trusted, OpenPr, MergePr, ClosePr,
                    ReopenPr, SetPr, ciRecovery
<1>5. ASSUME NEW e \in Task \X Worker, LoseRun(e) PROVE ExternalInv'
  BY <1>1, <1>5 DEF LoseRun, ciRecovery
<1>6. CASE UNCHANGED vars
  BY <1>1, <1>6 DEF vars, world, ciRecovery
<1>7. QED
  BY <1>2, <1>3, <1>4, <1>5, <1>6 DEF Next, Agent

\* At the start nothing was failed or repaired.
LEMMA RecoveryInit == Init => RecoveryInv
<1> SUFFICES ASSUME Init PROVE RecoveryInv
  OBVIOUS
<1>1. /\ \A a \in Agent : job[a] = IdleJob
      /\ IdleJob.pc = "idle" /\ IdleJob.cont = "none"
  BY DEF Init, IdleJob
<1>2. ExternalInv
  BY <1>1, GateIsAgent DEF Init, ExternalInv
<1>3. SelfHosted
  BY <1>1, GateIsAgent DEF Init, SelfHosted, GatePcs, Advancing
<1>4. WaitingIsFresh
  BY QueueAssumption DEF Init, WaitingIsFresh, Untouched
<1>5. SuccessorIsFresh
  BY <1>1, GateIsAgent DEF SuccessorIsFresh
<1>6. Due = 0
  BY <1>1, GateIsAgent DEF Due
<1>7. Accounted
  <2>1. recovery.used["REPAIR"] = 0
    BY DEF Init, Policy!NoRecovery, Policy!Attempt
  <2>2. Budget["REPAIR"] \in Nat
    BY RecoveryAssumption DEF Policy!PolicyAssumption, Policy!Attempt
  <2>3. /\ repairs = [t \in Task |-> 0] /\ crashes = 0
        /\ job[Gate].pc = "idle"
    BY <1>1, GateIsAgent DEF Init
  <2>4. QED
    BY <1>6, <2>1, <2>2, <2>3 DEF Accounted
<1>8. QED
  BY <1>2, <1>3, <1>4, <1>5, <1>7 DEF RecoveryInv, SelfInv

\* What a project develops does not change.
LEMMA TargetStays == ASSUME [Next]_vars PROVE target' = target
<1>1. ASSUME NEW a \in Agent, JobStep(a) \/ Crash(a) PROVE target' = target
  BY <1>1
     DEF JobStep, AdvanceRefused, AdvanceRead, AdvanceCampaign, AdvanceCycle,
         AfterAdvance, PutGraph, PutStateFile, PutQueueFile, Dispatch, PutCampaign,
         PutCycle, ParkRefused, ParkRead, ParkLedger, ReviewSkip, ReconcileRead,
         ReconcileState, ReconcileClearState, ReconcileClearCampaign, ReconcileLedger,
         MonitorReceipt, MonitorPoll, SessionPublish, SessionTimeout, Crash, world
<1>2. ASSUME NEW a \in Worker, MonitorStart(a) \/ ProviderStart(a) \/ ProviderResume(a)
      PROVE  target' = target
  BY <1>2 DEF MonitorStart, ProviderStart, ProviderResume, world
<1>3. ASSUME GateMerge \/ GateStatus \/ GateRepair PROVE target' = target
  BY <1>3 DEF GateMerge, GateStatus, GateRepair, world
<1>4. ASSUME NEW t \in Task,
             \/ GateStart(t) \/ GateRecover(t)
             \/ OpenPr(t) \/ MergePr(t) \/ ClosePr(t) \/ ReopenPr(t)
      PROVE  target' = target
  BY <1>4 DEF GateStart, GateRecover, OpenPr, MergePr, ClosePr, ReopenPr, SetPr, world
<1>5. ASSUME NEW e \in Task \X Worker, LoseRun(e) PROVE target' = target
  BY <1>5 DEF LoseRun
<1>6. CASE UNCHANGED vars
  BY <1>6 DEF vars, world
<1>7. QED
  BY <1>1, <1>2, <1>3, <1>4, <1>5, <1>6 DEF Next

\* Every step keeps the accounts.
LEMMA RecoveryKept ==
    Standing /\ Ahead /\ Bounded /\ RecoveryInv /\ [Next]_vars => RecoveryInv'
<1> SUFFICES ASSUME Standing, Ahead, Bounded, RecoveryInv, [Next]_vars PROVE RecoveryInv'
  OBVIOUS
<1>0. target' = target
  BY TargetStays
<1>1. CASE target # "self"
  BY <1>0, <1>1, ExternalKept DEF RecoveryInv
<1>2. CASE target = "self"
  <2>0. SelfInv /\ job[Gate] = job[Gate] /\ crashes \in Nat
    BY <1>2 DEF RecoveryInv, SelfInv, Accounted
  <2>1. ASSUME SelfInv' PROVE RecoveryInv'
    BY <1>0, <1>2, <2>1 DEF RecoveryInv
  <2>2. ASSUME NEW a \in Agent, JobStep(a) \/ Crash(a) PROVE SelfInv'
    <3>1. CASE a = Gate
      BY <2>0, <2>2, <3>1, GateStepAccounts
    <3>2. CASE a \in Worker
      BY <1>2, <2>0, <2>2, <3>2, WorkerAccounts
    <3>3. QED
      BY <3>1, <3>2 DEF Agent
  <2>3. ASSUME NEW w \in Worker, MonitorStart(w) \/ ProviderStart(w) \/ ProviderResume(w)
        PROVE  SelfInv'
    BY <1>2, <2>0, <2>3, WorkerAccounts
  <2>4. ASSUME GateMerge \/ GateStatus \/ GateRepair PROVE SelfInv'
    <3>1. CASE GateMerge
      BY <2>0, <3>1, GateStepAccounts
    <3>2. CASE GateStatus
      BY <2>0, <3>2, StatusAccounts
    <3>3. CASE GateRepair
      BY <2>0, <3>3, RepairAccounts
    <3>4. QED
      BY <2>4, <3>1, <3>2, <3>3
  <2>5. ASSUME NEW t \in Task, GateStart(t) \/ GateRecover(t) PROVE SelfInv'
    BY <2>0, <2>5, GateStartAccounts, RecoverAccounts
  <2>6. ASSUME UNCHANGED <<files, job, started, recovery, repairs, crashes>> PROVE SelfInv'
    BY <2>0, <2>6, OthersKeepRecovery DEF files, SelfInv, SelfHosted
  <2>7. ASSUME NEW t \in Task, OpenPr(t) \/ MergePr(t) \/ ClosePr(t) \/ ReopenPr(t)
        PROVE  SelfInv'
    BY <2>6, <2>7 DEF OpenPr, MergePr, ClosePr, ReopenPr, SetPr, ciRecovery
  <2>8. ASSUME NEW e \in Task \X Worker, LoseRun(e) PROVE SelfInv'
    BY <2>6, <2>8 DEF LoseRun, ciRecovery
  <2>9. CASE UNCHANGED vars
    BY <2>1, <2>6, <2>9 DEF vars, world, ciRecovery
  <2>10. QED
    BY <2>1, <2>2, <2>3, <2>4, <2>5, <2>7, <2>8, <2>9 DEF Next
<1>3. QED
  BY <1>1, <1>2

\* For any tasks, budgets and groups, and however the gate is killed and run
\* again: no attempt is granted beyond its budget, no task is repaired more
\* often than its budget in all, although the record of a task is forgotten for
\* that of another, and without a kill each granted repair was dispatched.
THEOREM RepairsAreCounted == Spec => []RecoveryCounted
<1>1. Bounded /\ RecoveryInv => RecoveryCounted
  <2> SUFFICES ASSUME Bounded, RecoveryInv PROVE RecoveryCounted
    OBVIOUS
  <2>1. Budget["REPAIR"] \in Nat /\ recovery.used["REPAIR"] \in Nat
    BY RecoveryAssumption DEF Policy!PolicyAssumption, Policy!Attempt, Bounded
  <2>2. CASE target # "self"
    <3>1. recovery.used["REPAIR"] = 0 /\ \A t \in Task : repairs[t] = 0
      BY <2>2 DEF RecoveryInv, ExternalInv, Policy!NoRecovery, Policy!Attempt
    <3>2. QED
      BY <2>1, <3>1 DEF Bounded, RecoveryCounted
  <2>3. CASE target = "self"
    <3>1. Due \in {0, 1} /\ (At(Gate, "idle") => Due = 0)
      BY DEF Due, At
    <3>2. Accounted
      BY <2>3 DEF RecoveryInv, SelfInv
    <3>3. ASSUME NEW t \in Task, recovery.task = t
          PROVE  /\ repairs[t] <= recovery.used["REPAIR"]
                 /\ crashes = 0 /\ At(Gate, "idle") => repairs[t] = recovery.used["REPAIR"]
      BY <3>1, <3>2, <3>3 DEF Accounted
    <3>4. QED
      BY <3>2, <3>3 DEF Accounted, Bounded, RecoveryCounted
  <2>4. QED
    BY <2>2, <2>3
<1>2. Init => Bounded
  BY RecoveryAssumption DEF Init, Bounded, Policy!NoRecovery, Policy!PolicyAssumption
<1>3. QED
  BY <1>1, <1>2, StandingInit, StandingKept, AheadInit, AheadKept, BoundedKept, RecoveryInit,
     RecoveryKept, PTL DEF Spec

-----------------------------------------------------------------------------
\* What is about to be activated or recorded, has been activated or merged.

\* The parts of TypeOK other than the jobs.
FilesTyped ==
    /\ graph \in [Managed -> Dag!Status]
    /\ ledger \in Seq(Task) /\ IsInjective(ledger)
    /\ state \in [current : Task \cup {NoTask},
                  status : StateStatus,
                  completed : SUBSET Task, iteration : Nat]
    /\ queue \in Seq(Task)
    /\ campaign \in [completed : SUBSET CampaignTask,
                     status : {"RUNNING", "HUMAN_WAIT", "COMPLETED"}]
    /\ cycle \in Task
    /\ receipt \in [task : Task \cup {NoTask},
                    status : {"NONE", "PR_CREATED", "MERGED"}]
    /\ checkpoint \in Task \cup {NoTask}
    /\ pr \in [Task -> {"none", "open", "closed", "merged", "noop"}]
    /\ nextCycle \subseteq Task \X Worker
    /\ dispatched \subseteq Task
    /\ started \subseteq Task
    /\ target \in Targets
    /\ recovery.task \in Task \cup {NoTask}
    /\ red \in 0 .. MaxRed
    /\ crashes \in 0 .. MaxCrash
    /\ lost \in 0 .. MaxLost

Started(n) == n \in Managed => graph[n] # "PENDING"

\* A job names the task that it handles, and the one that it dispatches; one
\* that reconciles has the record at the head of those that it has still to see.
Named(r) ==
    /\ r.pc \notin {"idle", "reviews"} => r.t \in Task
    /\ r.pc \in {"cycle", "dispatch"} => r.nxt \in Task
    /\ r.pc \in {"parkGraph", "recGraph", "parkLedger", "recRead"} =>
         r.nxt \in Managed \cup {NoTask}
    /\ r.pc \in {"reviews", "poll", "park"} => r.nxt = NoTask
    /\ r.pc \in {"reviews", "poll"} => r.cont = "none"
    /\ r.pc = "campaign" => r.cont \in {"park", "review"}
    /\ \/ r.pc \in {"recLedger", "recClear", "recClearCampaign"}
       \/ r.cont \in {"review", "legacy"}
       => r.todo # <<>>
    /\ r.rcpt.status = "PR_CREATED" \/ r.pc = "merge" => r.rcpt.task \in Task
    /\ IsInjective(r.led)

\* The successor that a job makes current has been activated in the graph
\* before, or is by the job's own write of it.
Activates(r) ==
    /\ r.pc \in GraphWrite /\ r.nxt \in Managed => r.g1[r.nxt] # "PENDING"
    /\ r.pc \in {"advCampaign", "advCycle", "parkLedger", "recRead", "putState",
                 "putQueue", "campaign", "cycle", "dispatch"} => Started(r.nxt)
    /\ r.pc \in {"advGraph", "advCampaign", "putState", "putQueue"} =>
         ToSet(r.q1) \subseteq ToSet(Fifo)

\* The task that a job completes is merged, and so are those that it finds
\* completed; only parking completes none.
Evident(r) ==
    /\ r.pc \in {"advance", "advGraph", "advCampaign", "recGraph", "recRead"} =>
         Merged(r.t)
    /\ r.pc \in {"putState", "putQueue", "campaign"} /\ r.cont # "park" => Merged(r.t)
    /\ r.pc \in {"advGraph", "advCampaign", "putState", "parkGraph", "parkLedger"} =>
         \A u \in r.st.completed : Merged(u)
    /\ r.pc \in {"park", "parkGraph", "parkLedger"} => r.cont = "park"

JobSound(r) == r \in JobType /\ Named(r) /\ Activates(r) /\ Evident(r)

FilesBacked ==
    /\ receipt.status = "PR_CREATED" => receipt.task \in Task
    /\ ToSet(queue) \subseteq ToSet(Fifo)
    /\ \A t \in dispatched : Started(t)
    /\ \A u \in state.completed \cup campaign.completed : Merged(u)
    /\ \A m \in Managed : graph[m] = "COMPLETED" => Merged(m)
    /\ campaign.status = "COMPLETED" => campaign.completed = CampaignTask
    /\ Dag!DependencySafety

Sound ==
    /\ FilesTyped /\ FilesBacked
    /\ job \in [Agent -> JobType] /\ \A a \in Agent : JobSound(job[a])

\* In a self-hosted project only the current task can have a pull request
\* that is not merged, and it is the one that the gate is about to complete.
OnlyCurrentOpen ==
    /\ \A t \in Task : pr[t] # "none" => t \in started
    /\ \A t \in started \cup {cycle} : Merged(t) \/ t = state.current
    /\ job[Gate].pc \in {"merge", "advance", "advGraph", "advCampaign", "putState"} =>
         job[Gate].t = state.current
    /\ job[Gate].pc \in {"putQueue", "advCycle"} => job[Gate].nxt = state.current

Sole == target = "self" => OnlyCurrentOpen

\* The values of a job's fields, under names of their own: the provers follow
\* a record from step to step better without seeing them.
Pcs == {"idle", "advance", "advGraph", "advCampaign", "advCycle", "after", "parkGraph",
        "recGraph", "parkLedger", "recRead", "putState", "putQueue", "campaign", "cycle",
        "dispatch", "recLedger", "park", "reviews", "recClear", "recClearCampaign", "poll",
        "merge", "session", "status", "repair"}
Conts == {"none", "receipt", "gate", "legacy", "park", "review"}
Names == Task \cup {NoTask}
Records == Seq(Task)
Graphs == [Managed -> Dag!Status]
Receipts == [task : Task \cup {NoTask}, status : {"NONE", "PR_CREATED", "MERGED"}]
States == [current : Task \cup {NoTask}, status : StateStatus,
           completed : SUBSET Task, iteration : Nat]

\* A job's record, field by field.
LEMMA JobIs ==
    JobType = [pc : Pcs, t : Names, cont : Conts, rcpt : Receipts, todo : Records,
               led : Records, g0 : Graphs, g1 : Graphs, nxt : Names, blocked : BOOLEAN,
               st : States, fresh : BOOLEAN, q0 : Records, q1 : Records, c0 : Names]
  BY DEF JobType, Pcs, Names, Conts, Receipts, Records, Graphs, States

\* What soundness reads of a job, but for its step.
Alike(q, r) ==
    /\ q.t = r.t /\ q.cont = r.cont /\ q.rcpt = r.rcpt /\ q.todo = r.todo /\ q.led = r.led
    /\ q.g1 = r.g1 /\ q.nxt = r.nxt /\ q.st = r.st /\ q.q1 = r.q1

\* A job that only goes to another step.
LEMMA GotoFacts ==
    ASSUME NEW r \in JobType, NEW pc \in Pcs
    PROVE  /\ [r EXCEPT !.pc = pc] \in JobType
           /\ [r EXCEPT !.pc = pc].pc = pc /\ Alike([r EXCEPT !.pc = pc], r)
<1> DEFINE q == [r EXCEPT !.pc = pc]
<1>1. q \in JobType
  BY JobIs
<1>2. q.pc = pc /\ Alike(q, r)
  BY JobIs DEF Alike
<1>3. QED
  BY <1>1, <1>2

\* Sequences: the first record of a task leaves the ledger, which has no other.
LEMMA RemoveFacts ==
    ASSUME NEW q \in Seq(Task), IsInjective(q), NEW t
    PROVE  /\ RemoveFirst(q, t) \in Seq(Task) /\ IsInjective(RemoveFirst(q, t))
           /\ t \notin ToSet(q) => RemoveFirst(q, t) = q
           /\ ToSet(RemoveFirst(q, t)) = ToSet(q) \ {t}
<1>1. CASE ~ \E i \in 1 .. Len(q) : q[i] = t
  <2>1. RemoveFirst(q, t) = q
    BY <1>1 DEF RemoveFirst
  <2>2. t \notin ToSet(q)
    BY <1>1 DEF ToSet
  <2>3. QED
    BY <2>1, <2>2
<1>2. CASE \E i \in 1 .. Len(q) : q[i] = t
  <2>1. PICK i \in 1 .. Len(q) : q[i] = t
    BY <1>2
  <2>2. Len(q) \in Nat /\ DOMAIN q = 1 .. Len(q)
    OBVIOUS
  <2>3. {j \in 1 .. Len(q) : q[j] = t} = {i}
    BY <2>1, <2>2 DEF IsInjective
  <2>4. SelectInSeq(q, LAMBDA v : v = t) = i
    <3>1. SelectInSeq(q, LAMBDA v : v = t) = Min({i})
      BY <2>3 DEF SelectInSeq
    <3>2. Min({i}) = i
      BY <2>1, <2>2 DEF Min
    <3>3. QED
      BY <3>1, <3>2
  <2> DEFINE r == RemoveAt(q, i)
  <2>5. RemoveFirst(q, t) = r
    BY <1>2, <2>4 DEF RemoveFirst
  <2>6. /\ r \in Seq(Task) /\ Len(r) = Len(q) - 1
        /\ \A j \in 1 .. Len(r) : r[j] = IF j < i THEN q[j] ELSE q[j + 1]
    <3> DEFINE u == SubSeq(q, 1, i - 1)
               v == SubSeq(q, i + 1, Len(q))
    <3>1. u \in Seq(Task) /\ Len(u) = i - 1 /\ \A j \in 1 .. i - 1 : u[j] = q[j]
      BY <2>1, <2>2
    <3>2. /\ v \in Seq(Task) /\ Len(v) = Len(q) - i
          /\ \A j \in 1 .. Len(q) - i : v[j] = q[j + i]
      <4>1. i + 1 \in Int /\ Len(q) \in Int /\ \A j \in i + 1 .. Len(q) : q[j] \in Task
        BY <2>1, <2>2
      <4>2. /\ v \in Seq(Task) /\ Len(v) = IF i + 1 <= Len(q) THEN Len(q) - (i + 1) + 1 ELSE 0
            /\ \A j \in 1 .. Len(q) - (i + 1) + 1 : v[j] = q[i + 1 + j - 1]
        BY <4>1, SubSeqProperties
      <4> HIDE DEF v
      <4>3. ASSUME NEW n \in Nat, i \in 1 .. n
            PROVE  /\ n - (i + 1) + 1 = n - i
                   /\ i + 1 <= n \/ n - i = 0
                   /\ \A j \in 1 .. n - i : i + 1 + j - 1 = j + i
        BY <4>3
      <4>4. QED
        BY <2>2, <4>2, <4>3
    <3>3. r = u \o v
      BY DEF RemoveAt
    <3> HIDE DEF r, u, v
    <3>4. /\ r \in Seq(Task) /\ Len(r) = Len(q) - 1
          /\ \A j \in 1 .. Len(r) : r[j] = IF j <= Len(u) THEN u[j] ELSE v[j - Len(u)]
      <4>1. /\ r \in Seq(Task) /\ Len(r) = Len(u) + Len(v)
            /\ \A j \in 1 .. Len(u) + Len(v) :
                 r[j] = IF j <= Len(u) THEN u[j] ELSE v[j - Len(u)]
        BY <3>1, <3>2, <3>3, ConcatProperties
      <4>2. QED
        BY <2>1, <2>2, <3>1, <3>2, <4>1
    <3>5. ASSUME NEW j \in 1 .. Len(r) PROVE r[j] = IF j < i THEN q[j] ELSE q[j + 1]
      <4>1. CASE j < i
        BY <2>1, <2>2, <3>1, <3>4, <4>1
      <4>2. CASE ~ j < i
        BY <2>1, <2>2, <3>1, <3>2, <3>4, <4>2
      <4>3. QED
        BY <4>1, <4>2
    <3>6. QED
      BY <3>4, <3>5
  <2> HIDE DEF r
  <2>7. DOMAIN r = 1 .. Len(q) - 1
    BY <2>6
  <2>8. \A j, k \in DOMAIN r : r[j] = r[k] => j = k
    <3> TAKE j, k \in DOMAIN r
    <3> HAVE r[j] = r[k]
    <3> DEFINE at(l) == IF l < i THEN l ELSE l + 1
    <3>1. at(j) \in DOMAIN q /\ at(k) \in DOMAIN q /\ r[j] = q[at(j)] /\ r[k] = q[at(k)]
      BY <2>1, <2>2, <2>6, <2>7
    <3>2. at(j) = at(k)
      BY <3>1 DEF IsInjective
    <3>3. QED
      BY <2>1, <2>2, <2>7, <3>2
  <2>9. IsInjective(r)
    BY <2>8, Zenon DEF IsInjective
  <2>10. t \in ToSet(q)
    BY <2>1, <2>2 DEF ToSet
  <2>11. ToSet(r) \subseteq ToSet(q) \ {t}
    <3>1. \A j \in DOMAIN r : \E k \in DOMAIN q : k # i /\ r[j] = q[k]
      BY <2>1, <2>2, <2>6, <2>7
    <3>2. \A k \in DOMAIN q : k # i => q[k] # t
      BY <2>1, <2>2 DEF IsInjective
    <3>3. QED
      BY <3>1, <3>2 DEF ToSet
  <2>12. ToSet(q) \ {t} \subseteq ToSet(r)
    <3>1. ASSUME NEW k \in DOMAIN q, k # i PROVE \E j \in DOMAIN r : r[j] = q[k]
      <4>1. CASE k < i
        <5>1. k \in DOMAIN r /\ r[k] = q[k]
          BY <2>1, <2>2, <2>6, <2>7, <4>1
        <5>2. QED
          BY <5>1
      <4>2. CASE k > i
        <5>1. k - 1 \in DOMAIN r /\ r[k - 1] = q[k]
          BY <2>1, <2>2, <2>6, <2>7, <4>2
        <5>2. QED
          BY <5>1
      <4>3. QED
        BY <2>1, <2>2, <3>1, <4>1, <4>2
    <3>2. QED
      BY <2>1, <3>1 DEF ToSet
  <2>13. ToSet(r) = ToSet(q) \ {t}
    BY <2>11, <2>12
  <2>14. QED
    BY <2>5, <2>6, <2>9, <2>10, <2>13
<1>3. QED
  BY <1>1, <1>2

\* What a task that is not queued leaves of the queue.
LEMMA NotQueued ==
    ASSUME NEW q, NEW t, t \notin ToSet(q), q \in Seq(Task)
    PROVE  RemoveQueueTask(q, t) = q
<1>1. ~ \E i \in 1 .. Len(q) : q[i] = t
  BY DEF ToSet
<1>2. QED
  BY <1>1 DEF RemoveQueueTask, RemoveFirst

\* A record is appended to the ledger once.
LEMMA UpsertFacts ==
    ASSUME NEW q \in Seq(Task), IsInjective(q), NEW t \in Task
    PROVE  /\ Upsert(q, t) \in Seq(Task) /\ IsInjective(Upsert(q, t))
           /\ ToSet(Upsert(q, t)) = ToSet(q) \cup {t}
<1>1. CASE t \in ToSet(q)
  BY <1>1 DEF Upsert
<1>2. CASE t \notin ToSet(q)
  <2> DEFINE r == Append(q, t)
  <2>1. /\ r \in Seq(Task) /\ Len(r) = Len(q) + 1 /\ Len(q) \in Nat
        /\ DOMAIN q = 1 .. Len(q) /\ r[Len(q) + 1] = t
        /\ \A i \in 1 .. Len(q) : r[i] = q[i]
    OBVIOUS
  <2>2. DOMAIN r = 1 .. Len(q) + 1
    BY <2>1
  <2> HIDE DEF r
  <2>3. \A i \in DOMAIN q : r[i] # t
    BY <1>2, <2>1 DEF ToSet
  <2>4. \A i, j \in DOMAIN r : r[i] = r[j] => i = j
    <3> TAKE i, j \in DOMAIN r
    <3> HAVE r[i] = r[j]
    <3>1. CASE i \in DOMAIN q /\ j \in DOMAIN q
      BY <2>1, <3>1 DEF IsInjective
    <3>2. CASE i \notin DOMAIN q /\ j \notin DOMAIN q
      BY <2>1, <2>2, <3>2
    <3>3. CASE i \in DOMAIN q /\ j \notin DOMAIN q
      BY <2>1, <2>2, <2>3, <3>3
    <3>4. CASE i \notin DOMAIN q /\ j \in DOMAIN q
      BY <2>1, <2>2, <2>3, <3>4
    <3>5. QED
      BY <3>1, <3>2, <3>3, <3>4
  <2>5. IsInjective(r)
    BY <2>4, Zenon DEF IsInjective
  <2>6. ToSet(r) = ToSet(q) \cup {t}
    <3>1. ToSet(r) \subseteq ToSet(q) \cup {t}
      <4>1. \A i \in DOMAIN r : i \in DOMAIN q \/ i = Len(q) + 1
        BY <2>1, <2>2
      <4>2. QED
        BY <2>1, <4>1 DEF ToSet
    <3>2. ToSet(q) \subseteq ToSet(r) /\ t \in ToSet(r)
      <4>1. Len(q) + 1 \in DOMAIN r /\ \A i \in DOMAIN q : i \in DOMAIN r
        BY <2>1, <2>2
      <4>2. QED
        BY <2>1, <4>1 DEF ToSet
    <3>3. QED
      BY <3>1, <3>2
  <2>7. QED
    BY <1>2, <2>1, <2>5, <2>6 DEF Upsert, r
<1>3. QED
  BY <1>1, <1>2

\* Activation starts a runnable task, and changes no other.
LEMMA ActivationFacts ==
    ASSUME NEW g \in [Managed -> Dag!Status], NEW n, Dag!Selected(g, n)
    PROVE  /\ n \in Managed \cup {NoTask}
           /\ n \in Managed => g[n] = "PENDING" /\ \A d \in Deps[n] : g[d] = "COMPLETED"
           /\ \A m \in Managed : Dag!Activated(g, n)[m] = IF m = n THEN "RUNNING" ELSE g[m]
<1>1. n = NoTask \/ n \in Dag!Runnable(g)
  BY DEF Dag!Selected
<1>2. NoTask \notin Managed
  BY ManagedAssumption DEF Dag!GraphAssumption
<1>3. QED
  BY <1>1, <1>2 DEF Dag!Runnable, Dag!Activated

\* An operation of the graph completes no task but its own, starts a task only
\* after those that it depends on, and returns the task that it started.
LEMMA OperationActivates ==
    ASSUME NEW g \in [Managed -> Dag!Status], NEW t \in Managed, NEW h, NEW n,
           \/ Dag!AdvanceResult(g, t, h, n) \/ Dag!ReconcileResult(g, t, h, n)
           \/ Dag!ParkResult(g, t, h, n)
    PROVE  /\ n \in Managed \cup {NoTask}
           /\ n \in Managed => h[n] # "PENDING"
           /\ \A m \in Managed : g[m] # "PENDING" => h[m] # "PENDING"
           /\ \A m \in Managed : h[m] = "COMPLETED" =>
                \/ g[m] = "COMPLETED"
                \/ /\ m = t
                   /\ Dag!AdvanceResult(g, t, h, n) \/ Dag!ReconcileResult(g, t, h, n)
           /\ \A m \in Managed : h[m] # "PENDING" =>
                \/ g[m] # "PENDING"
                \/ \A d \in Deps[m] : h[d] = "COMPLETED"
<1> Deps \in [Managed -> SUBSET Managed] /\ NoTask \notin Managed
  BY ManagedAssumption DEF Dag!GraphAssumption
<1>1. CASE g[t] = "COMPLETED" /\ h = g /\ n = NoTask
  BY <1>1
<1>2. ASSUME NEW s \in Dag!Status, s # "PENDING", g[t] # "PENDING",
             LET mid == Dag!WithStatus(g, t, s)
             IN  Dag!Selected(mid, n) /\ h = Dag!Activated(mid, n),
             s = "COMPLETED" =>
               Dag!AdvanceResult(g, t, h, n) \/ Dag!ReconcileResult(g, t, h, n)
      PROVE  /\ n \in Managed \cup {NoTask}
             /\ n \in Managed => h[n] # "PENDING"
             /\ \A m \in Managed : g[m] # "PENDING" => h[m] # "PENDING"
             /\ \A m \in Managed : h[m] = "COMPLETED" =>
                  \/ g[m] = "COMPLETED"
                  \/ /\ m = t
                     /\ Dag!AdvanceResult(g, t, h, n) \/ Dag!ReconcileResult(g, t, h, n)
             /\ \A m \in Managed : h[m] # "PENDING" =>
                  \/ g[m] # "PENDING"
                  \/ \A d \in Deps[m] : h[d] = "COMPLETED"
  <2> DEFINE mid == Dag!WithStatus(g, t, s)
  <2>1. /\ mid \in [Managed -> Dag!Status]
        /\ \A m \in Managed : mid[m] = IF m = t THEN s ELSE g[m]
    BY DEF Dag!WithStatus
  <2>2. Dag!Selected(mid, n) /\ h = Dag!Activated(mid, n)
    BY <1>2
  <2> HIDE DEF mid
  <2>3. /\ n \in Managed \cup {NoTask}
        /\ n \in Managed => mid[n] = "PENDING" /\ \A d \in Deps[n] : mid[d] = "COMPLETED"
        /\ \A m \in Managed : h[m] = IF m = n THEN "RUNNING" ELSE mid[m]
    BY <2>1, <2>2, ActivationFacts
  <2>4. \A m \in Managed : h[m] = IF m = n THEN "RUNNING" ELSE IF m = t THEN s ELSE g[m]
    BY <2>1, <2>3
  <2>5. \A m \in Managed : g[m] # "PENDING" => h[m] # "PENDING"
    BY <1>2, <2>4
  <2>6. \A m \in Managed : h[m] = "COMPLETED" => g[m] = "COMPLETED" \/ (m = t /\ s = "COMPLETED")
    BY <2>4
  <2>7. ASSUME NEW m \in Managed, h[m] # "PENDING", g[m] = "PENDING"
        PROVE  \A d \in Deps[m] : h[d] = "COMPLETED"
    <3>1. m = n
      BY <1>2, <2>4, <2>7
    <3>2. \A d \in Deps[m] : mid[d] = "COMPLETED" /\ d \in Managed /\ mid[n] = "PENDING"
      BY <2>3, <3>1
    <3>3. QED
      BY <2>3, <3>2
  <2>8. QED
    BY <1>2, <2>3, <2>5, <2>6, <2>7
<1>3. CASE Dag!AdvanceResult(g, t, h, n)
  <2>1. /\ g[t] = "RUNNING"
        /\ LET mid == Dag!WithStatus(g, t, "COMPLETED")
           IN  Dag!Selected(mid, n) /\ h = Dag!Activated(mid, n)
    BY <1>3 DEF Dag!AdvanceResult
  <2>2. "COMPLETED" \in Dag!Status
    BY DEF Dag!Status
  <2>3. QED
    BY <1>2, <1>3, <2>1, <2>2
<1>4. CASE Dag!ReconcileResult(g, t, h, n) /\ ~(g[t] = "COMPLETED" /\ h = g /\ n = NoTask)
  <2>1. /\ g[t] = "WAITING_REVIEW"
        /\ LET mid == Dag!WithStatus(g, t, "COMPLETED")
           IN  Dag!Selected(mid, n) /\ h = Dag!Activated(mid, n)
    BY <1>4 DEF Dag!ReconcileResult
  <2>2. "COMPLETED" \in Dag!Status
    BY DEF Dag!Status
  <2>3. QED
    BY <1>2, <1>4, <2>1, <2>2
<1>5. CASE Dag!ParkResult(g, t, h, n)
  <2>1. /\ g[t] # "PENDING"
        /\ LET mid == Dag!WithStatus(g, t, "WAITING_REVIEW")
           IN  Dag!Selected(mid, n) /\ h = Dag!Activated(mid, n)
    BY <1>5 DEF Dag!ParkResult
  <2>2. "WAITING_REVIEW" \in Dag!Status
    BY DEF Dag!Status
  <2>3. QED
    BY <1>2, <2>1, <2>2
<1>6. QED
  BY <1>1, <1>3, <1>4, <1>5

\* So a task of the graph is started after those that it depends on.
LEMMA DependenciesFirst ==
    ASSUME graph \in [Managed -> Dag!Status], Dag!DependencySafety, Dag!Next
    PROVE  /\ Dag!DependencySafety'
           /\ \A m \in Managed : graph[m] # "PENDING" => graph'[m] # "PENDING"
<1>1. PICK t \in Managed, n \in Managed \cup {NoTask} :
        \/ Dag!AdvanceResult(graph, t, graph', n) \/ Dag!ParkResult(graph, t, graph', n)
        \/ Dag!ReconcileResult(graph, t, graph', n)
  BY DEF Dag!Next, Dag!Advance, Dag!ParkForReview, Dag!ReconcileReview
<1>2. /\ \A m \in Managed : graph[m] # "PENDING" => graph'[m] # "PENDING"
      /\ \A m \in Managed : graph'[m] # "PENDING" =>
           \/ graph[m] # "PENDING"
           \/ \A d \in Deps[m] : graph'[d] = "COMPLETED"
  BY <1>1, OperationActivates
<1>3. \A m \in Managed : graph[m] = "COMPLETED" => graph'[m] = "COMPLETED"
  BY <1>1, OperationReopensNone
<1>4. Deps \in [Managed -> SUBSET Managed]
  BY ManagedAssumption DEF Dag!GraphAssumption
<1>5. QED
  BY <1>2, <1>3, <1>4 DEF Dag!DependencySafety

\* What is left of a queue holds nothing new.
LEMMA TailIsQueued ==
    ASSUME NEW q \in Seq(Task), q # <<>>
    PROVE  /\ Tail(q) \in Seq(Task) /\ ToSet(Tail(q)) \subseteq ToSet(q)
           /\ Head(q) \in ToSet(q) /\ Head(q) \in Task
           /\ ToSet(q) \subseteq ToSet(Tail(q)) \cup {Head(q)}
<1> DEFINE r == Tail(q)
<1>1. /\ r \in Seq(Task) /\ Len(r) = Len(q) - 1 /\ Len(q) \in Nat /\ Len(q) > 0
      /\ \A i \in 1 .. Len(r) : r[i] = q[i + 1]
      /\ Head(q) = q[1] /\ Head(q) \in Task
  OBVIOUS
<1>2. DOMAIN r = 1 .. Len(q) - 1 /\ DOMAIN q = 1 .. Len(q)
  BY <1>1
<1> HIDE DEF r
<1>3. \A i \in DOMAIN r : i + 1 \in DOMAIN q /\ r[i] = q[i + 1]
  BY <1>1, <1>2
<1>4. ToSet(r) \subseteq ToSet(q)
  BY <1>3 DEF ToSet
<1>5. 1 \in DOMAIN q
  BY <1>1, <1>2
<1>6. Head(q) \in ToSet(q)
  BY <1>1, <1>5 DEF ToSet
<1>7. ToSet(q) \subseteq ToSet(r) \cup {Head(q)}
  <2>1. ASSUME NEW i \in DOMAIN q, i # 1 PROVE i - 1 \in DOMAIN r /\ r[i - 1] = q[i]
    BY <1>1, <1>2, <2>1
  <2>2. \A i \in DOMAIN q : q[i] = Head(q) \/ \E j \in DOMAIN r : r[j] = q[i]
    BY <1>1, <2>1
  <2>3. QED
    BY <2>2 DEF ToSet
<1>8. QED
  BY <1>1, <1>4, <1>6, <1>7 DEF r

\* What was merged stays merged, and what was started stays started.
Stable ==
    /\ \A u \in Task : Merged(u) => Merged(u)'
    /\ \A n : Started(n) => Started(n)'

\* An idle job is sound.
LEMMA IdleSound == JobSound(IdleJob) /\ JobSound(IdleJob)'
<1>1. IdleJob \in JobType
  BY DEF JobType, IdleJob, Dag!Status, StateStatus, NoReceipt
<1>2. IsInjective(<<>>)
  BY DEF IsInjective
<1>3. /\ IdleJob.pc = "idle" /\ IdleJob.rcpt.status = "NONE" /\ IdleJob.led = <<>>
      /\ IdleJob.cont = "none"
  BY DEF IdleJob, NoReceipt
<1>4. QED
  BY <1>1, <1>2, <1>3 DEF JobSound, Named, Activates, Evident, GraphWrite

\* A job stays sound while others write.
LEMMA SoundStays == ASSUME Stable, NEW r, JobSound(r) PROVE JobSound(r)'
<1>1. Named(r)' /\ Activates(r)'
  BY DEF JobSound, Stable, Named, Activates
<1>2. Evident(r)'
  <2>1. r.st.completed \subseteq Task
    BY DEF JobSound, JobType
  <2>2. r.pc # "idle" /\ r.pc # "reviews" => r.t \in Task
    BY DEF JobSound, Named
  <2>3. QED
    BY <2>1, <2>2 DEF JobSound, Stable, Evident
<1>3. QED
  BY <1>1, <1>2 DEF JobSound

\* A snapshot that becomes stale changes nothing of it.
LEMMA StaleIsSound ==
    ASSUME NEW r, JobSound(r) PROVE JobSound([r EXCEPT !.fresh = FALSE])
<1> DEFINE q == [r EXCEPT !.fresh = FALSE]
<1>1. /\ q \in JobType /\ q.pc = r.pc /\ q.t = r.t /\ q.nxt = r.nxt /\ q.rcpt = r.rcpt
      /\ q.led = r.led /\ q.g1 = r.g1 /\ q.q1 = r.q1 /\ q.st = r.st /\ q.cont = r.cont
      /\ q.todo = r.todo
  BY JobIs DEF JobSound
<1> HIDE DEF q
<1>2. JobSound(q)
  BY <1>1 DEF JobSound, Named, Activates, Evident
<1>3. QED
  BY <1>2 DEF q

\* A job may become any sound record, if the files stay sound.
LEMMA JobMoves ==
    ASSUME Sound, Stable, FilesTyped', FilesBacked', NEW a \in Agent, NEW r,
           Become(a, r), JobSound(r)'
    PROVE  Sound'
<1>1. job' = [b \in Agent |-> IF b = a THEN r ELSE job[b]]
  BY DEF Sound, Become
<1>2. \A b \in Agent : JobSound(job[b])'
  BY <1>1, SoundStays DEF Sound
<1>3. r \in JobType
  BY DEF JobSound
<1>4. job' \in [Agent -> JobType]
  BY <1>1, <1>3 DEF Sound
<1>5. QED
  BY <1>2, <1>4 DEF Sound

\* So may one that writes state.json.
LEMMA StateMoves ==
    ASSUME Sound, Stable, FilesTyped', FilesBacked', NEW a \in Agent, NEW s, NEW r,
           PutState(a, s, r), JobSound(r)'
    PROVE  Sound'
<1>1. job' = [b \in Agent |-> IF b = a THEN r ELSE [job[b] EXCEPT !.fresh = FALSE]]
  BY DEF PutState
<1>2. \A b \in Agent : JobSound([job[b] EXCEPT !.fresh = FALSE])
  BY StaleIsSound DEF Sound
<1>3. \A b \in Agent : \A q : q = job'[b] => JobSound(q)'
  BY <1>1, <1>2, SoundStays
<1>4. \A b \in Agent : JobSound(job[b])'
  BY <1>3
<1>5. r \in JobType /\ \A b \in Agent : [job[b] EXCEPT !.fresh = FALSE] \in JobType
  BY <1>2 DEF JobSound
<1>6. job' \in [Agent -> JobType]
  BY <1>1, <1>5
<1>7. QED
  BY <1>4, <1>6 DEF Sound

\* A step that only reads keeps the files sound,
LEMMA ReadKeeps ==
    ASSUME Sound, UNCHANGED <<files, world>>
    PROVE  Stable /\ FilesTyped' /\ FilesBacked'
<1>1. UNCHANGED <<graph, ledger, state, queue, campaign, cycle, receipt, checkpoint, pr,
                  nextCycle, dispatched, started, target, recovery, red, crashes, lost>>
  BY DEF files, world, ciRecovery
<1>2. FilesTyped' /\ FilesBacked' /\ Stable
  BY <1>1 DEF Sound, FilesTyped, FilesBacked, Stable, Merged, Started, Dag!DependencySafety
<1>3. QED
  BY <1>2

\* whatever sound record its job becomes,
LEMMA ReadMoves ==
    ASSUME Sound, UNCHANGED <<files, world>>, NEW a \in Agent, NEW r,
           Become(a, r), JobSound(r)
    PROVE  Sound'
  BY ReadKeeps, SoundStays, JobMoves

\* and so does one that ends the job.
LEMMA EndIsSound ==
    ASSUME Sound, Stable, FilesTyped', FilesBacked', NEW a \in Agent, EndJob(a)
    PROVE  Sound'
  BY IdleSound, JobMoves DEF EndJob

\* What is planned next is not of the queue, or not of the graph.
LEMMA QueueIsNotOfGraph ==
    ASSUME Sound
    PROVE  /\ queue \in Seq(Task) /\ \A u \in ToSet(queue) : u \notin Managed /\ u \in Task
           /\ NoTask \notin Managed /\ NoTask \notin Task /\ Managed \subseteq Task
           /\ \A n \in Managed \cup {NoTask} :
                (IF n = NoTask THEN queue ELSE RemoveQueueTask(queue, n)) = queue
           /\ Started(NoTask)
<1>1. queue \in Seq(Task) /\ ToSet(queue) \subseteq ToSet(Fifo) /\ ToSet(queue) \subseteq Task
  <2>1. queue \in Seq(Task) /\ ToSet(queue) \subseteq ToSet(Fifo)
    BY DEF Sound, FilesTyped, FilesBacked
  <2>2. \A i \in DOMAIN queue : queue[i] \in Task
    BY <2>1
  <2>3. QED
    BY <2>1, <2>2 DEF ToSet
<1>2. NoTask \notin Managed /\ NoTask \notin Task /\ Managed \subseteq Task
  BY NameAssumption
<1>3. \A u \in ToSet(queue) : u \notin Managed
  BY <1>1, QueueAssumption
<1>4. \A n \in Managed : RemoveQueueTask(queue, n) = queue
  BY <1>1, <1>3, NotQueued
<1>5. QED
  BY <1>1, <1>2, <1>3, <1>4 DEF Started

\* advance_queue plans the completion of a task that is merged.
LEMMA AdvanceReadIsSound ==
    ASSUME Sound, NEW a \in Agent, AdvanceRead(a) PROVE Sound'
<1> PICK t : t = job[a].t
  OBVIOUS
<1>1. /\ JobSound(job[a]) /\ job[a] \in JobType /\ job[a].pc = "advance" /\ t \in Task
      /\ Merged(t) /\ Named(job[a])
  BY DEF Sound, JobSound, Named, Evident, AdvanceRead, At
<1>2. /\ graph \in [Managed -> Dag!Status] /\ cycle \in Task
      /\ state.completed \subseteq Task /\ state.iteration \in Nat
      /\ \A u \in state.completed : Merged(u)
  BY DEF Sound, FilesTyped, FilesBacked
<1>3. ASSUME NEW h \in [Managed -> Dag!Status], NEW n \in Managed \cup {NoTask},
             n \in Managed => t \in Managed /\ h[n] # "PENDING",
             Become(a, AdvancePlan(a, h, n))
      PROVE  Sound'
  <2> DEFINE blocked == t \in Managed /\ n = NoTask /\ Dag!UnfinishedWork(h)
             fifo == n = NoTask /\ ~blocked /\ queue # <<>>
             next == IF fifo THEN Head(queue) ELSE n
             rest == RestOfQueue(fifo, n)
             st == [current |-> next, status |-> IF blocked THEN "BLOCKED" ELSE "READY",
                    completed |-> state.completed \cup {t},
                    iteration |-> state.iteration + 1]
             p == AdvancePlan(a, h, n)
  <2>1. /\ next \in Task \cup {NoTask}
        /\ next \in Managed => next = n
        /\ rest \in Seq(Task) /\ ToSet(rest) \subseteq ToSet(queue)
    <3>1. CASE fifo
      <4>1. rest = Tail(queue) /\ next = Head(queue) /\ queue # <<>>
        BY <3>1 DEF RestOfQueue
      <4> HIDE DEF fifo, next, rest
      <4>2. QED
        BY <4>1, QueueIsNotOfGraph, TailIsQueued
    <3>2. CASE ~fifo
      <4>1. rest = (IF n = NoTask THEN queue ELSE RemoveQueueTask(queue, n)) /\ next = n
        BY <3>2 DEF RestOfQueue
      <4>2. rest = queue
        BY <4>1, QueueIsNotOfGraph
      <4>3. QED
        BY <4>1, <4>2, QueueIsNotOfGraph
    <3>3. QED
      BY <3>1, <3>2
  <2>2. blocked \in BOOLEAN
    OBVIOUS
  <2>3. /\ st \in [current : Task \cup {NoTask}, status : StateStatus,
                   completed : SUBSET Task, iteration : Nat]
        /\ st.completed = state.completed \cup {t}
    BY <1>1, <1>2, <2>1 DEF StateStatus
  <2>4. p = [job[a] EXCEPT !.pc = FirstWrite(t), !.g0 = graph, !.g1 = h, !.nxt = next,
                           !.blocked = blocked, !.fresh = TRUE, !.c0 = cycle,
                           !.q0 = queue, !.q1 = rest, !.st = st]
    BY DEF AdvancePlan
  <2> HIDE DEF blocked, fifo, next, rest, st, p
  <2>5. /\ FirstWrite(t) \in {"advGraph", "advCampaign"}
        /\ FirstWrite(t) = "advCampaign" => t \notin Managed
    BY DEF FirstWrite
  <2>6. /\ p \in JobType /\ p.pc = FirstWrite(t) /\ p.t = t /\ p.nxt = next /\ p.g1 = h
        /\ p.q1 = rest /\ p.st = st /\ p.led = job[a].led /\ p.rcpt = job[a].rcpt
        /\ p.cont = job[a].cont /\ p.todo = job[a].todo
    <3> DEFINE pc == FirstWrite(t)
    <3>1. /\ pc \in {"advGraph", "advCampaign"} /\ queue \in Seq(Task) /\ rest \in Seq(Task)
          /\ next \in Task \cup {NoTask} /\ cycle \in Task /\ blocked \in BOOLEAN
          /\ p = [job[a] EXCEPT !.pc = pc, !.g0 = graph, !.g1 = h, !.nxt = next,
                               !.blocked = blocked, !.fresh = TRUE, !.c0 = cycle,
                               !.q0 = queue, !.q1 = rest, !.st = st]
      BY <1>2, <2>1, <2>2, <2>4, <2>5, QueueIsNotOfGraph
    <3> HIDE DEF pc
    <3>2. p \in JobType
      <4>1. /\ pc \in Pcs /\ queue \in Records /\ rest \in Records /\ next \in Names
            /\ cycle \in Names /\ st \in States /\ graph \in Graphs /\ h \in Graphs
        BY <1>2, <2>3, <3>1 DEF Pcs, Records, Names, States, Graphs
      <4>2. QED
        BY <1>1, <3>1, <4>1, JobIs
    <3>3. /\ p.pc = pc /\ p.t = t /\ p.nxt = next /\ p.g1 = h
          /\ p.q1 = rest /\ p.st = st /\ p.led = job[a].led /\ p.rcpt = job[a].rcpt
          /\ p.cont = job[a].cont /\ p.todo = job[a].todo
      BY <1>1, <3>1 DEF JobType
    <3>4. QED
      BY <3>2, <3>3 DEF pc
  <2>7. Named(p)
    BY <1>1, <2>5, <2>6 DEF Named
  <2>8. ToSet(rest) \subseteq ToSet(Fifo)
    BY <2>1 DEF Sound, FilesBacked
  <2>9. Activates(p)
    BY <1>3, <2>1, <2>5, <2>6, <2>8, QueueIsNotOfGraph DEF Activates, Started, GraphWrite
  <2>10. Evident(p)
    BY <1>1, <1>2, <2>3, <2>5, <2>6 DEF Evident
  <2>11. JobSound(p) /\ Become(a, p)
    BY <1>3, <2>6, <2>7, <2>9, <2>10 DEF JobSound, p
  <2>12. QED
    BY <2>11, ReadMoves DEF AdvanceRead
<1>4. CASE t \notin Managed
  <2>1. Become(a, AdvancePlan(a, graph, NoTask)) /\ NoTask \notin Managed
    BY <1>4, QueueIsNotOfGraph DEF AdvanceRead
  <2>2. QED
    BY <1>2, <1>3, <2>1
<1>5. CASE t \in Managed
  <2>1. PICK n \in Managed \cup {NoTask} : \E h :
          Dag!AdvanceResult(graph, t, h, n) /\ Become(a, AdvancePlan(a, h, n))
    BY <1>5 DEF AdvanceRead
  <2>2. PICK h : Dag!AdvanceResult(graph, t, h, n) /\ Become(a, AdvancePlan(a, h, n))
    BY <2>1
  <2>3. h \in [Managed -> Dag!Status] /\ (n \in Managed => h[n] # "PENDING")
    BY <1>2, <1>5, <2>2, OperationActivates, OperationReopensNone
  <2>4. QED
    BY <1>3, <1>5, <2>2, <2>3
<1>6. QED
  BY <1>4, <1>5

\* Parking reads the current task's node.
LEMMA ParkReadIsSound ==
    ASSUME Sound, NEW a \in Agent, ParkRead(a) PROVE Sound'
<1> PICK t : t = job[a].t
  OBVIOUS
<1>1. /\ job[a] \in JobType /\ job[a].pc = "park" /\ t \in Task /\ job[a].cont = "park"
      /\ Named(job[a]) /\ job[a].nxt = NoTask
  BY DEF Sound, JobSound, Named, Evident, ParkRead, At
<1>2. /\ graph \in [Managed -> Dag!Status]
      /\ state \in [current : Task \cup {NoTask}, status : StateStatus,
                    completed : SUBSET Task, iteration : Nat]
      /\ ledger \in Seq(Task) /\ IsInjective(ledger)
      /\ \A u \in state.completed : Merged(u)
  BY DEF Sound, FilesTyped, FilesBacked
<1> DEFINE r == [job[a] EXCEPT !.fresh = TRUE, !.st = state, !.g0 = graph]
<1>3. /\ r \in JobType /\ r.t = t /\ r.st = state /\ r.cont = "park"
      /\ r.led = job[a].led /\ r.rcpt = job[a].rcpt /\ r.nxt = NoTask
  <2>1. state \in States /\ graph \in Graphs
    BY <1>2 DEF States, Graphs
  <2>2. r \in JobType
    BY <1>1, <2>1, JobIs
  <2>3. /\ r.t = t /\ r.st = state /\ r.cont = "park"
        /\ r.led = job[a].led /\ r.rcpt = job[a].rcpt /\ r.nxt = NoTask
    BY <1>1, JobIs
  <2>4. QED
    BY <2>2, <2>3
<1> HIDE DEF r
<1>4. ASSUME NEW q, JobSound(q), Become(a, q) PROVE Sound'
  BY <1>4, ReadMoves DEF ParkRead
<1>5. CASE t \notin Managed
  <2> DEFINE q == [r EXCEPT !.pc = "parkLedger", !.led = ledger]
  <2>1. /\ q \in JobType /\ q.pc = "parkLedger" /\ q.t = t /\ q.st = state /\ q.cont = "park"
        /\ q.led = ledger /\ q.rcpt = job[a].rcpt /\ q.nxt = NoTask
    <3>1. q \in JobType
      BY <1>2, <1>3, JobIs DEF Records, Pcs
    <3>2. /\ q.pc = "parkLedger" /\ q.t = t /\ q.st = state /\ q.cont = "park"
          /\ q.led = ledger /\ q.rcpt = job[a].rcpt /\ q.nxt = NoTask
      BY <1>3 DEF JobType
    <3>3. QED
      BY <3>1, <3>2
  <2>2. Become(a, q)
    BY <1>5 DEF ParkRead, r
  <2> HIDE DEF q
  <2>3. JobSound(q)
    BY <1>1, <1>2, <2>1, QueueIsNotOfGraph
       DEF JobSound, Named, Activates, Evident, GraphWrite
  <2>4. QED
    BY <1>4, <2>2, <2>3
<1>6. ASSUME t \in Managed, NEW h, NEW n, Dag!ParkResult(graph, t, h, n),
             Become(a, [r EXCEPT !.pc = "parkGraph", !.g1 = h, !.nxt = n])
      PROVE  Sound'
  <2> DEFINE q == [r EXCEPT !.pc = "parkGraph", !.g1 = h, !.nxt = n]
  <2>1. /\ h \in [Managed -> Dag!Status] /\ n \in Managed \cup {NoTask}
        /\ n \in Managed => h[n] # "PENDING"
    BY <1>2, <1>6, OperationActivates, OperationReopensNone
  <2>2. /\ q \in JobType /\ q.pc = "parkGraph" /\ q.t = t /\ q.st = state /\ q.cont = "park"
        /\ q.led = job[a].led /\ q.rcpt = job[a].rcpt /\ q.nxt = n /\ q.g1 = h
    <3>1. n \in Names /\ h \in Graphs /\ "parkGraph" \in Pcs
      BY <2>1, NameAssumption DEF Names, Graphs, Pcs
    <3>2. q \in JobType
      BY <1>3, <3>1, JobIs
    <3>3. /\ q.pc = "parkGraph" /\ q.t = t /\ q.st = state /\ q.cont = "park"
          /\ q.led = job[a].led /\ q.rcpt = job[a].rcpt /\ q.nxt = n /\ q.g1 = h
      BY <1>3 DEF JobType
    <3>4. QED
      BY <3>2, <3>3
  <2>3. Become(a, q)
    BY <1>6
  <2> HIDE DEF q
  <2>4. JobSound(q)
    BY <1>1, <1>2, <2>1, <2>2 DEF JobSound, Named, Activates, Evident, GraphWrite
  <2>5. QED
    BY <1>4, <2>3, <2>4
<1>7. CASE t \in Managed
  <2>1. \E n \in Managed \cup {NoTask} : \E h :
          /\ Dag!ParkResult(graph, t, h, n)
          /\ Become(a, [r EXCEPT !.pc = "parkGraph", !.g1 = h, !.nxt = n])
    BY <1>7 DEF ParkRead, r
  <2>2. QED
    BY <1>6, <1>7, <2>1
<1>8. QED
  BY <1>5, <1>7

\* A reconciliation begins for a task that is merged.
LEMMA ReconcileReadIsSound ==
    ASSUME Sound, NEW a \in Agent, ReconcileRead(a) PROVE Sound'
<1> PICK t : t = Head(job[a].todo)
  OBVIOUS
<1>1. /\ job[a] \in JobType /\ job[a].pc = "reviews" /\ job[a].todo \in Seq(Task)
      /\ job[a].todo # <<>> /\ Named(job[a])
  BY DEF Sound, JobSound, JobType, ReconcileRead, At
<1>2. /\ graph \in [Managed -> Dag!Status]
      /\ ledger \in Seq(Task) /\ IsInjective(ledger)
  BY DEF Sound, FilesTyped
<1>3. t \in Task /\ Merged(t)
  <2>1. t \in Task
    BY <1>1, TailIsQueued
  <2>2. LateMerged(t)
    BY DEF ReconcileRead
  <2>3. QED
    BY <2>1, <2>2 DEF LateMerged, Merged
<1> PICK led : led = Without(ledger, t)
  OBVIOUS
<1>4. led \in Seq(Task) /\ IsInjective(led)
  BY <1>2, RemoveFacts DEF Without
<1> DEFINE r == [job[a] EXCEPT !.t = t, !.led = led, !.nxt = NoTask, !.g0 = graph]
<1>5. /\ r \in JobType /\ r.t = t /\ r.led = led /\ r.rcpt = job[a].rcpt /\ r.nxt = NoTask
      /\ r.todo = job[a].todo
  <2>1. r \in JobType
    BY <1>1, <1>2, <1>3, <1>4 DEF JobType
  <2>2. /\ r.t = t /\ r.led = led /\ r.rcpt = job[a].rcpt /\ r.nxt = NoTask
        /\ r.todo = job[a].todo
    BY <1>1 DEF JobType
  <2>3. QED
    BY <2>1, <2>2
<1> HIDE DEF r
<1>6. ASSUME NEW q, JobSound(q), Become(a, q) PROVE Sound'
  BY <1>6, ReadMoves DEF ReconcileRead
<1>7. ASSUME t \in Managed, NEW h, NEW n, Dag!ReconcileResult(graph, t, h, n),
             Become(a, [r EXCEPT !.pc = "recGraph", !.cont = "review", !.g1 = h, !.nxt = n])
      PROVE  Sound'
  <2> DEFINE q == [r EXCEPT !.pc = "recGraph", !.cont = "review", !.g1 = h, !.nxt = n]
  <2>1. /\ h \in [Managed -> Dag!Status] /\ n \in Managed \cup {NoTask}
        /\ n \in Managed => h[n] # "PENDING"
    BY <1>2, <1>7, OperationActivates, OperationReopensNone
  <2>2. /\ q \in JobType /\ q.pc = "recGraph" /\ q.t = t
        /\ q.led = led /\ q.rcpt = job[a].rcpt /\ q.nxt = n /\ q.g1 = h
        /\ q.cont = "review" /\ q.todo = job[a].todo
    <3>1. n \in Names /\ h \in Graphs /\ "recGraph" \in Pcs /\ "review" \in Conts
      BY <2>1, NameAssumption DEF Names, Graphs, Pcs, Conts
    <3>2. q \in JobType
      BY <1>5, <3>1, JobIs
    <3>3. /\ q.pc = "recGraph" /\ q.t = t
          /\ q.led = led /\ q.rcpt = job[a].rcpt /\ q.nxt = n /\ q.g1 = h
          /\ q.cont = "review" /\ q.todo = job[a].todo
      BY <1>5 DEF JobType
    <3>4. QED
      BY <3>2, <3>3
  <2>3. Become(a, q)
    BY <1>7
  <2> HIDE DEF q
  <2>4. JobSound(q)
    BY <1>1, <1>3, <1>4, <2>1, <2>2 DEF JobSound, Named, Activates, Evident, GraphWrite
  <2>5. QED
    BY <1>6, <2>3, <2>4
<1>8. ASSUME NEW n \in Managed \cup {NoTask}, RunningTask = {n} \cap Managed,
             Become(a, [r EXCEPT !.pc = "recRead", !.cont = "review", !.nxt = n])
      PROVE  Sound'
  <2> DEFINE q == [r EXCEPT !.pc = "recRead", !.cont = "review", !.nxt = n]
  <2>1. Started(n)
    BY <1>8 DEF RunningTask, Started
  <2>2. /\ q \in JobType /\ q.pc = "recRead" /\ q.t = t
        /\ q.led = led /\ q.rcpt = job[a].rcpt /\ q.nxt = n
        /\ q.cont = "review" /\ q.todo = job[a].todo
    <3>1. n \in Names /\ "recRead" \in Pcs /\ "review" \in Conts
      BY NameAssumption DEF Names, Pcs, Conts
    <3>2. q \in JobType
      BY <1>5, <3>1, JobIs
    <3>3. /\ q.pc = "recRead" /\ q.t = t
          /\ q.led = led /\ q.rcpt = job[a].rcpt /\ q.nxt = n
          /\ q.cont = "review" /\ q.todo = job[a].todo
      BY <1>5 DEF JobType
    <3>4. QED
      BY <3>2, <3>3
  <2>3. Become(a, q)
    BY <1>8
  <2> HIDE DEF q
  <2>4. JobSound(q)
    BY <1>1, <1>3, <1>4, <2>1, <2>2 DEF JobSound, Named, Activates, Evident, GraphWrite
  <2>5. QED
    BY <1>6, <2>3, <2>4
<1>9. ASSUME NEW pc \in {"recClear", "advance"},
             Become(a, [r EXCEPT !.pc = pc, !.cont = "legacy"])
      PROVE  Sound'
  <2> DEFINE q == [r EXCEPT !.pc = pc, !.cont = "legacy"]
  <2>1. /\ q \in JobType /\ q.pc = pc /\ q.t = t
        /\ q.led = led /\ q.rcpt = job[a].rcpt /\ q.nxt = NoTask
        /\ q.cont = "legacy" /\ q.todo = job[a].todo
    <3>1. q \in JobType
      BY <1>5, JobIs DEF Pcs, Conts
    <3>2. /\ q.pc = pc /\ q.t = t
          /\ q.led = led /\ q.rcpt = job[a].rcpt /\ q.nxt = NoTask
          /\ q.cont = "legacy" /\ q.todo = job[a].todo
      BY <1>5 DEF JobType
    <3>3. QED
      BY <3>1, <3>2
  <2>2. Become(a, q)
    BY <1>9
  <2> HIDE DEF q
  <2>3. JobSound(q)
    BY <1>1, <1>3, <1>4, <2>1 DEF JobSound, Named, Activates, Evident, GraphWrite
  <2>4. QED
    BY <1>6, <2>2, <2>3
<1>10. CASE EndJob(a)
  BY <1>6, <1>10, IdleSound DEF EndJob
<1>11. \/ EndJob(a)
       \/ /\ t \in Managed
          /\ \E n \in Managed \cup {NoTask} : \E h :
               /\ Dag!ReconcileResult(graph, t, h, n)
               /\ Become(a, [r EXCEPT !.pc = "recGraph", !.cont = "review",
                                      !.g1 = h, !.nxt = n])
       \/ \E n \in Managed \cup {NoTask} :
            /\ RunningTask = {n} \cap Managed
            /\ Become(a, [r EXCEPT !.pc = "recRead", !.cont = "review", !.nxt = n])
       \/ \E pc \in {"recClear", "advance"} :
            Become(a, [r EXCEPT !.pc = pc, !.cont = "legacy"])
  BY DEF ReconcileRead, r
<1>12. QED
  BY <1>7, <1>8, <1>9, <1>10, <1>11

\* A reconciliation prepares a state that is active in the graph.
LEMMA ReconcileStateIsSound ==
    ASSUME Sound, NEW a \in Agent, ReconcileState(a) PROVE Sound'
<1> PICK t : t = job[a].t
  OBVIOUS
<1>1. /\ job[a] \in JobType /\ job[a].pc = "recRead" /\ t \in Task /\ Merged(t)
      /\ job[a].nxt \in Managed \cup {NoTask} /\ Started(job[a].nxt)
      /\ Named(job[a])
  BY DEF Sound, JobSound, Named, Activates, Evident, ReconcileState, At
<1>2. /\ state.current \in Task \cup {NoTask} /\ state.completed \subseteq Task
      /\ state.iteration \in Nat /\ \A u \in state.completed : Merged(u)
      /\ queue \in Seq(Task) /\ ToSet(queue) \subseteq ToSet(Fifo)
  BY DEF Sound, FilesTyped, FilesBacked
<1> DEFINE cur == KeptCurrent(t)
           n == IF cur = NoTask THEN job[a].nxt ELSE NoTask
           next == IF cur # NoTask THEN cur ELSE n
           rest == IF n = NoTask THEN queue ELSE RemoveQueueTask(queue, n)
           st == [current |-> next,
                  status |-> IF cur # NoTask THEN "RUNNING"
                             ELSE IF n = NoTask /\ job[a].led # <<>>
                             THEN "HUMAN_WAIT" ELSE "READY",
                  completed |-> state.completed \cup {t},
                  iteration |-> Iteration(t)]
           q == [job[a] EXCEPT !.pc = "putState", !.fresh = TRUE, !.nxt = n, !.q0 = queue,
                               !.q1 = rest, !.st = st]
<1>3. n \in Managed \cup {NoTask} /\ Started(n) /\ cur \in Task \cup {NoTask}
  BY <1>1, <1>2, QueueIsNotOfGraph DEF KeptCurrent
<1>4. rest = queue /\ next \in Task \cup {NoTask}
  BY <1>3, QueueIsNotOfGraph
<1>5. Iteration(t) \in Nat
  BY <1>2 DEF Iteration
<1>6. /\ st \in [current : Task \cup {NoTask}, status : StateStatus,
                 completed : SUBSET Task, iteration : Nat]
      /\ st.completed = state.completed \cup {t}
  BY <1>1, <1>2, <1>4, <1>5 DEF StateStatus
<1>7. Become(a, q) /\ UNCHANGED <<files, world>>
  BY DEF ReconcileState
<1> HIDE DEF cur, n, next, rest, st
<1>8. /\ q \in JobType /\ q.pc = "putState" /\ q.t = t /\ q.st = st /\ q.q1 = rest /\ q.nxt = n
      /\ q.led = job[a].led /\ q.rcpt = job[a].rcpt
      /\ q.cont = job[a].cont /\ q.todo = job[a].todo
  <2>1. n \in Task \cup {NoTask} /\ rest \in Seq(Task)
    BY <1>2, <1>3, <1>4, NameAssumption
  <2>2. q \in JobType
    BY <1>1, <1>2, <1>6, <2>1 DEF JobType
  <2>3. /\ q.pc = "putState" /\ q.t = t /\ q.st = st /\ q.q1 = rest /\ q.nxt = n
        /\ q.led = job[a].led /\ q.rcpt = job[a].rcpt
        /\ q.cont = job[a].cont /\ q.todo = job[a].todo
    BY <1>1 DEF JobType
  <2>4. QED
    BY <2>2, <2>3
<1> HIDE DEF q
<1>9. JobSound(q)
  BY <1>1, <1>2, <1>3, <1>4, <1>6, <1>8
     DEF JobSound, Named, Activates, Evident, GraphWrite
<1>10. QED
  BY <1>7, <1>9, ReadMoves

-----------------------------------------------------------------------------
\* A job may go to another step for which it carries all that is needed.
LEMMA GotoMoves ==
    ASSUME Sound, Stable, FilesTyped', FilesBacked', NEW a \in Agent, NEW pc \in Pcs,
           Goto(a, pc),
           \A q : q.pc = pc /\ Alike(q, job[a]) => Named(q) /\ Activates(q) /\ Evident(q)
    PROVE  Sound'
<1> PICK q : q = [job[a] EXCEPT !.pc = pc]
  OBVIOUS
<1>1. job[a] \in JobType
  BY DEF Sound
<1>2. q \in JobType /\ q.pc = pc /\ Alike(q, job[a])
  BY <1>1, GotoFacts
<1>3. JobSound(q)
  BY <1>2 DEF JobSound
<1>4. Become(a, q)
  BY DEF Goto
<1>5. QED
  BY <1>3, <1>4, SoundStays, JobMoves

\* An idle job that begins has nothing to store yet.
Begun(pc, t, rcpt, todo) ==
    [IdleJob EXCEPT !.pc = pc, !.t = t, !.rcpt = rcpt, !.todo = todo]

\* So it is sound, if it has a task where its step needs one.
LEMMA BeginsSound ==
    ASSUME NEW pc \in {"reviews", "merge", "status", "session"}, NEW t \in Task \cup {NoTask},
           pc # "reviews" => t \in Task, NEW rcpt \in Receipts,
           rcpt.status = "PR_CREATED" \/ pc = "merge" => rcpt.task \in Task,
           NEW todo \in Records
    PROVE  JobSound(Begun(pc, t, rcpt, todo))
<1> DEFINE q == Begun(pc, t, rcpt, todo)
<1>1. IdleJob \in JobType /\ IdleJob.cont = "none" /\ IdleJob.led = <<>>
      /\ IdleJob.nxt = NoTask
  BY IdleSound DEF JobSound, IdleJob
<1>2. pc \in Pcs /\ t \in Names
  BY DEF Pcs, Names
<1>3. q \in JobType
  BY <1>1, <1>2, JobIs DEF Begun
<1>4. /\ q.pc = pc /\ q.t = t /\ q.rcpt = rcpt /\ q.todo = todo
      /\ q.cont = "none" /\ q.led = <<>> /\ q.nxt = NoTask
  BY <1>1, JobIs DEF Begun
<1> HIDE DEF q
<1>5. IsInjective(q.led)
  BY <1>4 DEF IsInjective
<1>6. JobSound(q)
  BY <1>3, <1>4, <1>5 DEF JobSound, Named, Activates, Evident, GraphWrite
<1>7. QED
  BY <1>6 DEF q

\* What an idle job leaves as it is.
LEMMA BegunIs ==
    /\ \A pc, t, rcpt : [IdleJob EXCEPT !.pc = pc, !.t = t, !.rcpt = rcpt] =
                          Begun(pc, t, rcpt, <<>>)
    /\ \A pc, t : [IdleJob EXCEPT !.pc = pc, !.t = t] = Begun(pc, t, NoReceipt, <<>>)
<1>1. IdleJob \in JobType
  BY IdleSound DEF JobSound
<1>2. IdleJob.t = NoTask /\ IdleJob.todo = <<>> /\ IdleJob.rcpt = NoReceipt
  BY DEF IdleJob
<1>3. QED
  BY <1>1, <1>2, JobIs DEF Begun

\* A job is refused, gives up, or looks at another record.
LEMMA ReadsAreSound ==
    ASSUME Sound, NEW a \in Agent,
           \/ AdvanceRefused(a) \/ ParkRefused(a) \/ SessionTimeout(a) \/ ReviewSkip(a)
           \/ MonitorReceipt(a) \/ MonitorPoll(a)
    PROVE  Sound'
<1>1. UNCHANGED <<files, world>>
  BY DEF AdvanceRefused, ParkRefused, SessionTimeout, ReviewSkip, MonitorReceipt, MonitorPoll
<1>2. Stable /\ FilesTyped' /\ FilesBacked'
  BY <1>1, ReadKeeps
<1>3. JobSound(job[a]) /\ job[a] \in JobType /\ Named(job[a])
  BY DEF Sound, JobSound
<1>4. CASE EndJob(a)
  BY <1>2, <1>4, EndIsSound
<1>5. CASE ReviewSkip(a)
  <2> PICK rest : rest = Tail(job[a].todo)
    OBVIOUS
  <2> PICK q : q = [job[a] EXCEPT !.todo = rest]
    OBVIOUS
  <2>1. job[a].pc = "reviews" /\ job[a].todo # <<>> /\ Become(a, q) /\ job[a].todo \in Seq(Task)
    BY <1>3, <1>5 DEF ReviewSkip, At, JobType
  <2>2. rest \in Seq(Task)
    BY <2>1, TailIsQueued
  <2>3. q \in JobType
    BY <1>3, <2>2 DEF JobType
  <2>4. /\ q.pc = "reviews" /\ q.rcpt = job[a].rcpt /\ q.nxt = job[a].nxt
        /\ q.led = job[a].led /\ q.cont = job[a].cont
    BY <1>3, <2>1 DEF JobType
  <2>5. JobSound(q)
    BY <1>3, <2>1, <2>3, <2>4 DEF JobSound, Named, Activates, Evident, GraphWrite
  <2>6. QED
    BY <1>1, <2>1, <2>5, ReadMoves
<1>6. CASE MonitorReceipt(a) /\ ~EndJob(a)
  <2> PICK t : t = job[a].rcpt.task
    OBVIOUS
  <2> PICK q : q = [job[a] EXCEPT !.pc = "poll", !.t = t]
    OBVIOUS
  <2>1. job[a].pc = "reviews" /\ job[a].rcpt.status = "PR_CREATED" /\ Become(a, q)
    BY <1>6 DEF MonitorReceipt, At
  <2>2. t \in Task
    BY <1>3, <2>1 DEF Named
  <2>3. q \in JobType
    BY <1>3, <2>2 DEF JobType
  <2>4. /\ q.pc = "poll" /\ q.rcpt = job[a].rcpt /\ q.nxt = job[a].nxt /\ q.t = t
        /\ q.led = job[a].led /\ q.cont = job[a].cont /\ q.todo = job[a].todo
    BY <1>3 DEF JobType
  <2>5. JobSound(q)
    BY <1>3, <2>1, <2>2, <2>3, <2>4 DEF JobSound, Named, Activates, Evident, GraphWrite
  <2>6. QED
    BY <1>1, <2>1, <2>5, ReadMoves
<1>7. ASSUME NEW pc \in {"advance", "park"}, NEW cont \in {"receipt", "park"}, At(a, "poll"),
             pc = "advance" => Merged(job[a].t), pc = "park" => cont = "park",
             Become(a, [job[a] EXCEPT !.pc = pc, !.cont = cont])
      PROVE  Sound'
  <2> PICK q : q = [job[a] EXCEPT !.pc = pc, !.cont = cont]
    OBVIOUS
  <2>1. q \in JobType
    BY <1>3 DEF JobType
  <2>2. /\ q.pc = pc /\ q.rcpt = job[a].rcpt /\ q.nxt = job[a].nxt /\ q.t = job[a].t
        /\ q.led = job[a].led /\ q.cont = cont
    BY <1>3 DEF JobType
  <2>3. JobSound(q)
    BY <1>3, <1>7, <2>1, <2>2 DEF At, JobSound, Named, Activates, Evident, GraphWrite
  <2>4. QED
    BY <1>1, <1>7, <2>3, ReadMoves
<1>8. CASE MonitorPoll(a)
  BY <1>7, <1>8 DEF MonitorPoll
<1>9. QED
  BY <1>4, <1>5, <1>6, <1>8 DEF AdvanceRefused, ParkRefused, SessionTimeout

\* A job begins: the monitor with the records of the ledger, the gate with a
\* pull request.
LEMMA StartsAreSound ==
    ASSUME Sound, \/ \E a \in Worker : MonitorStart(a)
                  \/ \E t \in Task : GateStart(t)
    PROVE  Sound'
<1>1. /\ receipt \in [task : Task \cup {NoTask}, status : {"NONE", "PR_CREATED", "MERGED"}]
      /\ receipt.status = "PR_CREATED" => receipt.task \in Task
      /\ ledger \in Seq(Task) /\ state.current \in Task \cup {NoTask}
  BY DEF Sound, FilesTyped, FilesBacked
<1>2. <<>> \in Seq(Task) /\ IdleJob.t = NoTask /\ IdleJob.todo = <<>>
  BY DEF IdleJob
<1>3. CASE \E a \in Worker : MonitorStart(a)
  <2> PICK a \in Worker : MonitorStart(a)
    BY <1>3
  <2> PICK q : q = Begun("reviews", NoTask, receipt, ledger)
    OBVIOUS
  <2>1. receipt \in Receipts /\ ledger \in Records
    BY <1>1 DEF Receipts, Records
  <2>2. JobSound(q)
    BY <1>1, <2>1, BeginsSound
  <2>3. Become(a, q) /\ UNCHANGED <<files, world>> /\ a \in Agent
    <3>1. [IdleJob EXCEPT !.pc = "reviews", !.rcpt = receipt, !.todo = ledger] = q
      <4>1. IdleJob \in JobType /\ IdleJob.t = NoTask
        BY IdleSound DEF JobSound, IdleJob
      <4>2. QED
        BY <4>1, JobIs DEF Begun
    <3>2. QED
      BY <3>1 DEF MonitorStart, Agent
  <2>4. QED
    BY <2>2, <2>3, ReadMoves
<1>4. CASE \E t \in Task : GateStart(t)
  <2> PICK t \in Task : GateStart(t)
    BY <1>4
  <2> PICK r : r = [task |-> t, status |-> "PR_CREATED"]
    OBVIOUS
  <2> PICK q : q = Begun("merge", state.current, r, <<>>)
    OBVIOUS
  <2>1. r \in Receipts /\ r.task = t /\ <<>> \in Records
    BY DEF Receipts, Records
  <2>2. state.current \in Task
    BY <1>1 DEF GateStart
  <2>3. JobSound(q)
    BY <2>1, <2>2, BeginsSound
  <2>4. Become(Gate, q) /\ UNCHANGED <<files, world>> /\ Gate \in Agent
    BY BegunIs DEF GateStart, Agent
  <2>5. QED
    BY <2>3, <2>4, ReadMoves
<1>5. QED
  BY <1>3, <1>4

-----------------------------------------------------------------------------
\* The writes of the files.

\* The graph's write starts no dependent early and completes what is merged.
LEMMA GraphWriteIsSound ==
    ASSUME Ahead, Sound, NEW a \in Agent, PutGraph(a)
    PROVE  Sound'
<1> PICK t : t = job[a].t
  OBVIOUS
<1>1. /\ job[a] \in JobType /\ Named(job[a]) /\ Activates(job[a]) /\ Evident(job[a])
      /\ Planned(job[a])
  BY DEF Sound, JobSound, Ahead, JobAhead
<1>2. UNCHANGED <<ledger, state, queue, campaign, cycle, receipt, checkpoint, pr, nextCycle,
                  dispatched, started, target, recovery, red, crashes, lost>>
  BY DEF PutGraph, world, ciRecovery
<1>3. /\ graph \in [Managed -> Dag!Status] /\ Dag!DependencySafety
      /\ \A m \in Managed : graph[m] = "COMPLETED" => Merged(m)
  BY DEF Sound, FilesTyped, FilesBacked
<1>4. \A u : Merged(u)' <=> Merged(u)
  BY <1>2 DEF Merged
<1>5. Dag!DependencySafety' /\ \A m \in Managed : graph[m] # "PENDING" => graph'[m] # "PENDING"
  <2>1. CASE graph' = graph
    BY <1>3, <2>1 DEF Dag!DependencySafety
  <2>2. CASE Dag!Next
    BY <1>3, <2>2, DependenciesFirst
  <2>3. QED
    BY <2>1, <2>2, WriteIsOperation
<1>6. Stable
  BY <1>4, <1>5 DEF Stable, Started
<1>7. ASSUME graph' \in [Managed -> Dag!Status],
             \A m \in Managed : graph'[m] = "COMPLETED" => Merged(m)
      PROVE  FilesTyped' /\ FilesBacked'
  <2>1. FilesTyped'
    BY <1>2, <1>7 DEF Sound, FilesTyped
  <2>2. FilesBacked'
    BY <1>2, <1>4, <1>5, <1>6, <1>7 DEF Sound, FilesBacked, Stable
  <2>3. QED
    BY <2>1, <2>2
<1>8. CASE ~SameGraph(a)
  <2>1. EndJob(a) /\ graph' = graph
    BY <1>8 DEF PutGraph
  <2>2. QED
    BY <1>3, <1>6, <1>7, <2>1, EndIsSound
<1>9. CASE SameGraph(a)
  <2>1. graph = job[a].g0 /\ graph' = job[a].g1 /\ job[a].pc \in GraphWrite
    BY <1>9 DEF PutGraph, SameGraph, GraphWrite
  <2>2. PICK n \in Managed \cup {NoTask} :
          /\ \/ Dag!AdvanceResult(graph, t, graph', n)
             \/ Dag!ParkResult(graph, t, graph', n)
             \/ Dag!ReconcileResult(graph, t, graph', n)
          /\ job[a].pc = "parkGraph" => Dag!ParkResult(graph, t, graph', n)
    BY <1>1, <2>1 DEF Planned, GraphWrite
  <2>3. t \in Managed /\ (job[a].pc # "parkGraph" => Merged(t))
    BY <1>1, <2>1 DEF Planned, Evident, GraphWrite
  <2>4. graph' \in [Managed -> Dag!Status]
    BY <1>1, <2>1 DEF JobType
  <2>5. \A m \in Managed : graph'[m] = "COMPLETED" => Merged(m)
    <3>1. CASE job[a].pc # "parkGraph"
      <4>1. \A m \in Managed : graph'[m] = "COMPLETED" => graph[m] = "COMPLETED" \/ m = t
        BY <1>3, <2>2, <2>3, OperationActivates
      <4>2. QED
        BY <1>3, <2>3, <3>1, <4>1
    <3>2. CASE job[a].pc = "parkGraph"
      <4> DEFINE mid == Dag!WithStatus(graph, t, "WAITING_REVIEW")
      <4>1. Dag!Selected(mid, n) /\ graph' = Dag!Activated(mid, n)
        BY <2>2, <3>2 DEF Dag!ParkResult
      <4>2. /\ mid \in [Managed -> Dag!Status]
            /\ \A m \in Managed : mid[m] = "COMPLETED" => graph[m] = "COMPLETED"
        BY <1>3 DEF Dag!WithStatus, Dag!Status
      <4> HIDE DEF mid
      <4>3. \A m \in Managed : graph'[m] = "COMPLETED" => mid[m] = "COMPLETED"
        BY <4>1, <4>2, ActivationFacts
      <4>4. QED
        BY <1>3, <4>2, <4>3
    <3>3. QED
      BY <3>1, <3>2
  <2>6. FilesTyped' /\ FilesBacked'
    BY <1>7, <2>4, <2>5
  <2>7. job[a].nxt \in Managed => graph'[job[a].nxt] # "PENDING"
    BY <1>1, <2>1 DEF Activates
  <2>8. ASSUME NEW q, Become(a, q), q \in JobType, q.t = t, q.cont = job[a].cont,
               q.rcpt = job[a].rcpt, q.todo = job[a].todo, q.nxt = job[a].nxt,
               q.st = job[a].st, q.q1 = job[a].q1, IsInjective(q.led),
               \/ job[a].pc = "advGraph" /\ q.pc = "advCampaign"
               \/ job[a].pc = "parkGraph" /\ q.pc = "parkLedger"
               \/ job[a].pc = "recGraph" /\ q.pc = "recRead"
        PROVE  Sound'
    <3>1. Named(q)
      BY <1>1, <2>8 DEF Named
    <3>2. Activates(q)'
      BY <1>1, <2>7, <2>8 DEF Activates, Started, GraphWrite
    <3>3. Evident(q)'
      BY <1>1, <1>4, <2>3, <2>8 DEF Evident
    <3>4. JobSound(q)'
      BY <2>8, <3>1, <3>2, <3>3 DEF JobSound, Named
    <3>5. QED
      BY <1>6, <2>6, <2>8, <3>4, JobMoves
  <2>9. CASE At(a, "parkGraph")
    <3> PICK q : q = [job[a] EXCEPT !.pc = "parkLedger", !.led = ledger]
      OBVIOUS
    <3>1. Become(a, q)
      BY <1>9, <2>9 DEF PutGraph, At
    <3>2. ledger \in Seq(Task) /\ IsInjective(ledger)
      BY DEF Sound, FilesTyped
    <3>3. q \in JobType
      BY <1>1, <3>2 DEF JobType
    <3>4. /\ q.t = t /\ q.cont = job[a].cont /\ q.rcpt = job[a].rcpt /\ q.todo = job[a].todo
          /\ q.nxt = job[a].nxt /\ q.st = job[a].st /\ q.q1 = job[a].q1 /\ q.led = ledger
          /\ q.pc = "parkLedger"
      BY <1>1 DEF JobType
    <3>5. QED
      BY <2>8, <2>9, <3>1, <3>2, <3>3, <3>4 DEF At
  <2>10. ASSUME NEW pc \in {"advCampaign", "recRead"}, Goto(a, pc),
                \/ job[a].pc = "advGraph" /\ pc = "advCampaign"
                \/ job[a].pc = "recGraph" /\ pc = "recRead"
         PROVE  Sound'
    <3> PICK q : q = [job[a] EXCEPT !.pc = pc]
      OBVIOUS
    <3>1. q \in JobType /\ q.pc = pc /\ Alike(q, job[a])
      <4>1. pc \in Pcs
        BY DEF Pcs
      <4>2. QED
        BY <1>1, <4>1, GotoFacts
    <3>2. IsInjective(job[a].led)
      BY <1>1 DEF Named
    <3>3. QED
      BY <2>8, <2>10, <3>1, <3>2 DEF Goto, Alike
  <2>11. QED
    BY <1>9, <2>9, <2>10 DEF PutGraph, At
<1>10. QED
  BY <1>8, <1>9

\* A campaign whose completed tasks are as many as it has has completed all.
LEMMA AllIsEvery ==
    ASSUME NEW done \in SUBSET CampaignTask, AllCompleted(done) PROVE done = CampaignTask
  BY NameAssumption, FS_Subset DEF AllCompleted

\* A step that writes campaign.json only.
LEMMA CampaignMoves ==
    ASSUME Sound, UNCHANGED <<graph, ledger, state, queue, cycle, receipt, world>>,
           NEW done \in SUBSET CampaignTask,
           NEW status \in {"RUNNING", "HUMAN_WAIT", "COMPLETED"},
           \/ campaign' = campaign
           \/ /\ campaign' = [completed |-> done, status |-> status]
              /\ \A u \in done : Merged(u)
              /\ status = "COMPLETED" => AllCompleted(done)
    PROVE  Stable /\ FilesTyped' /\ FilesBacked'
<1>1. UNCHANGED <<graph, ledger, state, queue, cycle, receipt, checkpoint, pr, nextCycle,
                  dispatched, started, target, recovery, red, crashes, lost>>
  BY DEF world, ciRecovery
<1>2. \A u : Merged(u)' <=> Merged(u)
  BY <1>1 DEF Merged
<1>3. Stable
  BY <1>1, <1>2 DEF Stable, Started
<1>4. /\ campaign' \in [completed : SUBSET CampaignTask,
                        status : {"RUNNING", "HUMAN_WAIT", "COMPLETED"}]
      /\ \A u \in campaign'.completed : Merged(u)
      /\ campaign'.status = "COMPLETED" => campaign'.completed = CampaignTask
  <2>1. CASE campaign' = campaign
    BY <2>1 DEF Sound, FilesTyped, FilesBacked
  <2>2. CASE campaign' # campaign
    <3>1. campaign' = [completed |-> done, status |-> status]
      BY <2>2
    <3>2. status = "COMPLETED" => done = CampaignTask
      BY <2>2, AllIsEvery
    <3>3. QED
      BY <2>2, <3>1, <3>2
  <2>3. QED
    BY <2>1, <2>2
<1>5. FilesTyped'
  BY <1>1, <1>4 DEF Sound, FilesTyped
<1>6. FilesBacked'
  BY <1>1, <1>2, <1>3, <1>4 DEF Sound, FilesBacked, Stable, Dag!DependencySafety
<1>7. QED
  BY <1>3, <1>5, <1>6

\* campaign.json is COMPLETED with its last task.
LEMMA CampaignWriteIsSound ==
    ASSUME Sound, NEW a \in Agent, AdvanceCampaign(a) \/ PutCampaign(a) \/ ReconcileClearCampaign(a)
    PROVE  Sound'
<1> PICK t : t = job[a].t
  OBVIOUS
<1>1. /\ job[a] \in JobType /\ Named(job[a]) /\ Activates(job[a]) /\ Evident(job[a])
  BY DEF Sound, JobSound
<1>2. /\ campaign \in [completed : SUBSET CampaignTask,
                       status : {"RUNNING", "HUMAN_WAIT", "COMPLETED"}]
      /\ \A u \in campaign.completed : Merged(u)
  BY DEF Sound, FilesTyped, FilesBacked
<1>3. UNCHANGED <<graph, ledger, state, queue, cycle, receipt, world>>
  BY DEF AdvanceCampaign, PutCampaign, ReconcileClearCampaign
<1>4. PICK done \in SUBSET CampaignTask :
        /\ AdvanceCampaign(a) => done = campaign.completed \cup ({t} \cap CampaignTask)
        /\ PutCampaign(a) =>
             done = IF job[a].cont = "review" /\ t \in CampaignTask
                    THEN campaign.completed \cup {t} ELSE campaign.completed
        /\ ReconcileClearCampaign(a) => done = campaign.completed
        /\ \A u \in done : Merged(u)
  <2>1. campaign.completed \subseteq CampaignTask
    BY <1>2
  <2>2. CASE AdvanceCampaign(a)
    <3>1. Merged(t) /\ ~At(a, "campaign") /\ ~At(a, "recClearCampaign")
      BY <1>1, <2>2 DEF AdvanceCampaign, Evident, At
    <3>2. campaign.completed \cup ({t} \cap CampaignTask) \in SUBSET CampaignTask
      BY <2>1
    <3>3. QED
      BY <1>2, <3>1, <3>2 DEF PutCampaign, ReconcileClearCampaign
  <2>3. CASE PutCampaign(a)
    <3>1. (job[a].cont = "review" => Merged(t)) /\ ~At(a, "advCampaign") /\ ~At(a, "recClearCampaign")
      BY <1>1, <2>3 DEF PutCampaign, Evident, At
    <3>2. QED
      BY <1>2, <2>1, <3>1 DEF AdvanceCampaign, ReconcileClearCampaign
  <2>4. CASE ReconcileClearCampaign(a)
    <3>1. ~At(a, "advCampaign") /\ ~At(a, "campaign")
      BY <2>4 DEF ReconcileClearCampaign, At
    <3>2. QED
      BY <1>2, <2>1, <3>1 DEF AdvanceCampaign, PutCampaign
  <2>5. QED
    BY <2>2, <2>3, <2>4
<1>5. \E status \in {"RUNNING", "HUMAN_WAIT", "COMPLETED"} :
        \/ campaign' = campaign
        \/ /\ campaign' = [completed |-> done, status |-> status]
           /\ status = "COMPLETED" => AllCompleted(done)
  <2>1. CASE AdvanceCampaign(a)
    <3> PICK status : status = IF AllCompleted(done) THEN "COMPLETED"
                               ELSE IF job[a].blocked THEN "HUMAN_WAIT" ELSE "RUNNING"
      OBVIOUS
    <3>1. CASE t \notin CampaignTask
      BY <2>1, <3>1 DEF AdvanceCampaign
    <3>2. CASE t \in CampaignTask
      <4>1. done = campaign.completed \cup {t}
        BY <1>4, <2>1, <3>2
      <4>2. campaign' = [completed |-> done, status |-> status]
        BY <2>1, <3>2, <4>1 DEF AdvanceCampaign
      <4>3. QED
        BY <4>2
    <3>3. QED
      BY <3>1, <3>2
  <2>2. CASE PutCampaign(a)
    <3> PICK status : status = CampaignStatus(done, job[a].led, job[a].st.current # NoTask)
      OBVIOUS
    <3>1. campaign' = campaign \/ campaign' = [completed |-> done, status |-> status]
      BY <1>4, <2>2 DEF PutCampaign
    <3>2. QED
      BY <3>1 DEF CampaignStatus
  <2>3. CASE ReconcileClearCampaign(a)
    <3> PICK status : status = CampaignStatus(campaign.completed, job[a].led,
                                              job[a].st.current # NoTask)
      OBVIOUS
    <3>1. campaign' = campaign \/ campaign' = [campaign EXCEPT !.status = status]
      BY <2>3 DEF ReconcileClearCampaign
    <3>2. campaign' = campaign \/ campaign' = [completed |-> done, status |-> status]
      BY <1>2, <1>4, <2>3, <3>1
    <3>3. status = "COMPLETED" => AllCompleted(done)
      BY <1>4, <2>3 DEF CampaignStatus
    <3>4. status \in {"RUNNING", "HUMAN_WAIT", "COMPLETED"}
      BY DEF CampaignStatus
    <3>5. QED
      BY <3>2, <3>3, <3>4
  <2>4. QED
    BY <2>1, <2>2, <2>3
<1>6. Stable /\ FilesTyped' /\ FilesBacked'
  BY <1>3, <1>4, <1>5, CampaignMoves
<1>7. CASE EndJob(a)
  BY <1>6, <1>7, EndIsSound
<1>8. CASE AdvanceCampaign(a)
  <2>1. ASSUME NEW q, q.pc = "putState", Alike(q, job[a])
        PROVE  Named(q) /\ Activates(q) /\ Evident(q)
    <3>1. job[a].pc = "advCampaign"
      BY <1>8 DEF AdvanceCampaign, At
    <3>2. QED
      BY <1>1, <2>1, <3>1 DEF Alike, Named, Activates, Evident, GraphWrite
  <2>2. Goto(a, "putState")
    BY <1>8 DEF AdvanceCampaign
  <2>3. QED
    BY <1>6, <2>1, <2>2, GotoMoves DEF Pcs
<1>9. CASE PutCampaign(a) /\ ~EndJob(a)
  <2>0. job[a].pc = "campaign" /\ job[a].cont \in {"park", "review"}
    BY <1>1, <1>9 DEF PutCampaign, At, Named
  <2>1. PICK pc \in {"cycle", "recLedger"} :
          /\ Goto(a, pc)
          /\ pc = "cycle" => job[a].nxt # NoTask
          /\ pc = "recLedger" => job[a].cont = "review"
    BY <1>9, <2>0 DEF PutCampaign
  <2>2. job[a].nxt # NoTask => job[a].nxt \in Task
    BY <1>1 DEF JobType
  <2>3. ASSUME NEW q, q.pc = pc, Alike(q, job[a])
        PROVE  Named(q) /\ Activates(q) /\ Evident(q)
    BY <1>1, <2>0, <2>1, <2>2, <2>3 DEF Alike, Named, Activates, Evident, GraphWrite
  <2>4. QED
    BY <1>6, <2>1, <2>3, GotoMoves DEF Pcs
<1>10. CASE ReconcileClearCampaign(a)
  <2>0. job[a].pc = "recClearCampaign" /\ Goto(a, "recLedger")
    BY <1>10 DEF ReconcileClearCampaign, At
  <2>1. ASSUME NEW q, q.pc = "recLedger", Alike(q, job[a])
        PROVE  Named(q) /\ Activates(q) /\ Evident(q)
    BY <1>1, <2>0, <2>1 DEF Alike, Named, Activates, Evident, GraphWrite
  <2>2. QED
    BY <1>6, <2>0, <2>1, GotoMoves DEF Pcs
<1>11. QED
  BY <1>7, <1>8, <1>9, <1>10

-----------------------------------------------------------------------------
\* What the evidence is read from: the other files may change if they keep
\* their types.
LEMMA OtherFilesMove ==
    ASSUME Sound, UNCHANGED <<graph, campaign, pr, target>>,
           FilesTyped',
           ToSet(queue)' \subseteq ToSet(Fifo),
           \A u \in state'.completed : Merged(u),
           \A u \in dispatched' : Started(u),
           receipt'.status = "PR_CREATED" => receipt'.task \in Task
    PROVE  Stable /\ FilesBacked'
<1>1. \A u : Merged(u)' <=> Merged(u)
  BY DEF Merged
<1>2. Stable /\ \A u : Started(u)' <=> Started(u)
  BY <1>1 DEF Stable, Started
<1>3. FilesBacked'
  BY <1>1, <1>2 DEF Sound, FilesBacked, Dag!DependencySafety
<1>4. QED
  BY <1>2, <1>3

\* The facts of the present files, for the steps that change one of them.
LEMMA FilesNow ==
    ASSUME Sound
    PROVE  /\ ToSet(queue) \subseteq ToSet(Fifo)
           /\ \A u \in state.completed \cup campaign.completed : Merged(u)
           /\ \A u \in dispatched : Started(u)
           /\ receipt.status = "PR_CREATED" => receipt.task \in Task
           /\ FilesTyped
  BY DEF Sound, FilesBacked

\* cycle-task.json gets a successor that has been activated.
LEMMA CycleWriteIsSound ==
    ASSUME Sound, NEW a \in Agent, AdvanceCycle(a) \/ PutCycle(a) PROVE Sound'
<1>1. /\ job[a] \in JobType /\ Named(job[a]) /\ Activates(job[a]) /\ Evident(job[a])
      /\ job[a].pc \in {"advCycle", "cycle"}
  BY DEF Sound, JobSound, AdvanceCycle, PutCycle, At
<1>2. UNCHANGED <<graph, ledger, state, queue, campaign, receipt, checkpoint, pr, nextCycle,
                  dispatched, started, target, recovery, red, crashes, lost>>
  BY DEF AdvanceCycle, PutCycle, world, ciRecovery
<1>3. cycle' = cycle \/ (cycle' = job[a].nxt /\ job[a].nxt \in Task)
  BY <1>1 DEF AdvanceCycle, PutCycle, At, Named, JobType
<1>4. FilesTyped'
  BY <1>2, <1>3 DEF Sound, FilesTyped
<1>5. Stable /\ FilesBacked'
  BY <1>2, <1>4, FilesNow, OtherFilesMove
<1>6. CASE EndJob(a)
  BY <1>4, <1>5, <1>6, EndIsSound
<1>7. ASSUME NEW pc \in {"after", "dispatch"}, Goto(a, pc),
             pc = "dispatch" => job[a].nxt \in Task
      PROVE  Sound'
  <2>1. ASSUME NEW q, q.pc = pc, Alike(q, job[a])
        PROVE  Named(q) /\ Activates(q) /\ Evident(q)
    BY <1>1, <1>7, <2>1 DEF Alike, Named, Activates, Evident, GraphWrite
  <2>2. QED
    BY <1>4, <1>5, <1>7, <2>1, GotoMoves DEF Pcs
<1>8. CASE AdvanceCycle(a)
  <2>1. job[a].nxt # NoTask => job[a].nxt \in Task
    BY <1>1 DEF JobType
  <2>2. QED
    BY <1>6, <1>7, <1>8, <2>1 DEF AdvanceCycle
<1>9. CASE PutCycle(a)
  <2>1. job[a].nxt \in Task
    BY <1>1, <1>9 DEF PutCycle, At, Named
  <2>2. QED
    BY <1>7, <1>9, <2>1 DEF PutCycle
<1>10. QED
  BY <1>8, <1>9

\* The receipt is marked merged, or is that of the session that is monitored.
LEMMA ReceiptWriteIsSound ==
    ASSUME Sound, NEW a \in Agent, AfterAdvance(a) \/ SessionPublish(a) PROVE Sound'
<1> PICK t : t = job[a].t
  OBVIOUS
<1>1. /\ job[a] \in JobType /\ Named(job[a]) /\ job[a].pc \in {"after", "session"} /\ t \in Task
  BY DEF Sound, JobSound, AfterAdvance, SessionPublish, At, Named
<1>2. UNCHANGED <<graph, ledger, state, queue, campaign, cycle, pr, nextCycle,
                  dispatched, started, target, recovery, red, crashes, lost>>
  BY DEF AfterAdvance, SessionPublish, world, ciRecovery
<1>3. checkpoint' \in {checkpoint, NoTask}
  BY DEF AfterAdvance, SessionPublish, world
<1>4. \/ receipt' = receipt
      \/ \E s \in {"MERGED", "PR_CREATED"} : receipt' = [task |-> t, status |-> s]
  BY DEF AfterAdvance, SessionPublish
<1>5. /\ receipt' \in [task : Task \cup {NoTask}, status : {"NONE", "PR_CREATED", "MERGED"}]
      /\ receipt'.status = "PR_CREATED" => receipt'.task \in Task
  <2>1. CASE receipt' = receipt
    BY <2>1 DEF Sound, FilesTyped, FilesBacked
  <2>2. ASSUME NEW s \in {"MERGED", "PR_CREATED"}, receipt' = [task |-> t, status |-> s]
        PROVE  /\ receipt' \in [task : Task \cup {NoTask},
                                status : {"NONE", "PR_CREATED", "MERGED"}]
               /\ receipt'.task = t
    BY <1>1, <2>2
  <2>3. QED
    BY <1>1, <1>4, <2>1, <2>2
<1>6. FilesTyped'
  BY <1>2, <1>3, <1>5 DEF Sound, FilesTyped
<1>7. Stable /\ FilesBacked'
  BY <1>2, <1>5, <1>6, FilesNow, OtherFilesMove
<1>8. CASE EndJob(a)
  BY <1>6, <1>7, <1>8, EndIsSound
<1>9. CASE Goto(a, "recClear") /\ At(a, "after") /\ job[a].cont = "legacy"
  <2>1. ASSUME NEW q, q.pc = "recClear", Alike(q, job[a])
        PROVE  Named(q) /\ Activates(q) /\ Evident(q)
    BY <1>1, <1>9, <2>1 DEF At, Alike, Named, Activates, Evident, GraphWrite
  <2>2. QED
    BY <1>6, <1>7, <1>9, <2>1, GotoMoves DEF Pcs
<1>10. QED
  BY <1>8, <1>9 DEF AfterAdvance, SessionPublish

\* The queue is written back without the task that was taken from it.
LEMMA QueueWriteIsSound ==
    ASSUME Sound, NEW a \in Agent, PutQueueFile(a) PROVE Sound'
<1>1. /\ job[a] \in JobType /\ Named(job[a]) /\ Activates(job[a]) /\ Evident(job[a])
      /\ job[a].pc = "putQueue"
  BY DEF Sound, JobSound, PutQueueFile, At
<1>2. UNCHANGED <<graph, ledger, state, campaign, cycle, receipt, checkpoint, pr, nextCycle,
                  dispatched, started, target, recovery, red, crashes, lost>>
  BY DEF PutQueueFile, world, ciRecovery
<1>3. queue' \in Seq(Task) /\ ToSet(queue)' \subseteq ToSet(Fifo)
  <2>1. queue' = queue \/ queue' = job[a].q1
    BY DEF PutQueueFile
  <2>2. job[a].q1 \in Seq(Task) /\ ToSet(job[a].q1) \subseteq ToSet(Fifo)
    BY <1>1 DEF JobType, Activates
  <2>3. queue \in Seq(Task) /\ ToSet(queue) \subseteq ToSet(Fifo)
    BY FilesNow DEF FilesTyped
  <2>4. ToSet(queue)' = ToSet(queue')
    BY DEF ToSet
  <2>5. QED
    BY <2>1, <2>2, <2>3, <2>4
<1>4. FilesTyped'
  BY <1>2, <1>3 DEF Sound, FilesTyped
<1>5. Stable /\ FilesBacked'
  BY <1>2, <1>3, <1>4, FilesNow, OtherFilesMove
<1>6. CASE EndJob(a)
  BY <1>4, <1>5, <1>6, EndIsSound
<1>7. ASSUME NEW pc \in {"campaign", "advCycle"}, Goto(a, pc),
             pc = "campaign" => job[a].cont \in {"park", "review"}
      PROVE  Sound'
  <2>1. ASSUME NEW q, q.pc = pc, Alike(q, job[a])
        PROVE  Named(q) /\ Activates(q) /\ Evident(q)
    BY <1>1, <1>7, <2>1 DEF Alike, Named, Activates, Evident, GraphWrite
  <2>2. QED
    BY <1>4, <1>5, <1>7, <2>1, GotoMoves DEF Pcs
<1>8. QED
  BY <1>6, <1>7 DEF PutQueueFile

\* Parking upserts the ledger, and a reconciliation ends with its record gone.
LEMMA LedgerWriteIsSound ==
    ASSUME Sound, NEW a \in Agent, ParkLedger(a) \/ ReconcileLedger(a) PROVE Sound'
<1> PICK t : t = job[a].t
  OBVIOUS
<1>1. /\ job[a] \in JobType /\ Named(job[a]) /\ Activates(job[a]) /\ Evident(job[a])
      /\ job[a].pc \in {"parkLedger", "recLedger"} /\ t \in Task
      /\ job[a].led \in Seq(Task) /\ IsInjective(job[a].led) /\ job[a].todo \in Seq(Task)
  BY DEF Sound, JobSound, ParkLedger, ReconcileLedger, At, Named, JobType
<1>2. UNCHANGED <<graph, state, queue, campaign, cycle, receipt, checkpoint, pr, nextCycle,
                  dispatched, started, target, recovery, red, crashes, lost>>
  BY DEF ParkLedger, ReconcileLedger, world, ciRecovery
<1> PICK led : led = Upsert(job[a].led, t)
  OBVIOUS
<1>3. led \in Seq(Task) /\ IsInjective(led)
  BY <1>1, UpsertFacts
<1>4. ledger' \in Seq(Task) /\ IsInjective(ledger')
  <2>1. ledger' = led \/ ledger' = job[a].led
    BY DEF ParkLedger, ReconcileLedger
  <2>2. QED
    BY <1>1, <1>3, <2>1
<1>5. FilesTyped'
  <2>1. IsInjective(ledger)'
    BY <1>4 DEF IsInjective
  <2>2. QED
    BY <1>2, <1>4, <2>1 DEF Sound, FilesTyped
<1>6. Stable /\ FilesBacked'
  BY <1>2, <1>5, FilesNow, OtherFilesMove
<1>7. CASE ParkLedger(a)
  <2> PICK n : n = job[a].nxt
    OBVIOUS
  <2> PICK s : s = IF n = NoTask THEN "HUMAN_WAIT" ELSE "READY"
    OBVIOUS
  <2> PICK st : st = [job[a].st EXCEPT !.current = n, !.status = s]
    OBVIOUS
  <2> PICK q : q = [job[a] EXCEPT !.pc = "putState", !.led = led, !.q0 = queue, !.q1 = queue,
                                  !.st = st]
    OBVIOUS
  <2>1. job[a].pc = "parkLedger" /\ n \in Managed \cup {NoTask} /\ job[a].cont = "park"
    BY <1>1, <1>7 DEF ParkLedger, At, Named, Evident
  <2>2. /\ (IF n = NoTask THEN queue ELSE RemoveQueueTask(queue, n)) = queue
        /\ queue \in Seq(Task)
    BY <2>1, QueueIsNotOfGraph
  <2>3. Become(a, q)
    <3>1. Become(a, [job[a] EXCEPT
            !.pc = "putState", !.led = led, !.q0 = queue,
            !.q1 = IF n = NoTask THEN queue ELSE RemoveQueueTask(queue, n),
            !.st = [job[a].st EXCEPT !.current = n,
                      !.status = IF n = NoTask THEN "HUMAN_WAIT" ELSE "READY"]])
      <4>1. job[a] = [job[a] EXCEPT !.st = job[a].st]
        BY <1>1 DEF JobType
      <4>2. QED
        BY <1>7 DEF ParkLedger
    <3>2. QED
      BY <2>2, <3>1
  <2>4. /\ job[a].st \in [current : Task \cup {NoTask}, status : StateStatus,
                          completed : SUBSET Task, iteration : Nat]
        /\ n \in Task \cup {NoTask} /\ s \in StateStatus
    BY <1>1 DEF JobType, StateStatus
  <2>5. /\ st \in [current : Task \cup {NoTask}, status : StateStatus,
                   completed : SUBSET Task, iteration : Nat]
        /\ st.completed = job[a].st.completed
    BY <2>4
  <2>6. q \in JobType
    <3>1. /\ led \in Records /\ queue \in Records /\ st \in States /\ "putState" \in Pcs
      BY <1>3, <2>2, <2>5 DEF Records, States, Pcs
    <3>2. QED
      BY <1>1, <3>1, JobIs
  <2>7. /\ q.pc = "putState" /\ q.t = t /\ q.cont = "park" /\ q.rcpt = job[a].rcpt
        /\ q.nxt = n /\ q.st = st /\ q.q1 = queue /\ q.led = led
    BY <1>1, <2>1 DEF JobType
  <2>8. ToSet(queue) \subseteq ToSet(Fifo)
    BY FilesNow
  <2>9. JobSound(q)
    BY <1>1, <1>3, <2>1, <2>5, <2>6, <2>7, <2>8
       DEF JobSound, Named, Activates, Evident, GraphWrite
  <2>10. QED
    BY <1>5, <1>6, <2>3, <2>9, SoundStays, JobMoves
<1>8. CASE ReconcileLedger(a)
  <2> PICK rest : rest = Tail(job[a].todo)
    OBVIOUS
  <2> PICK rcpt : rcpt = job[a].rcpt
    OBVIOUS
  <2> PICK q : q = Begun("reviews", NoTask, rcpt, rest)
    OBVIOUS
  <2>1. Become(a, q) /\ job[a].pc = "recLedger"
    <3>1. [IdleJob EXCEPT !.pc = "reviews", !.rcpt = rcpt, !.todo = rest] = q
      <4>1. IdleJob \in JobType /\ IdleJob.t = NoTask
        BY IdleSound DEF JobSound, IdleJob
      <4>2. QED
        BY <4>1, JobIs DEF Begun
    <3>2. QED
      BY <1>8, <3>1 DEF ReconcileLedger, At
  <2>2. rest \in Records
    BY <1>1, <2>1, TailIsQueued DEF Named, Records
  <2>3. rcpt \in Receipts /\ (rcpt.status = "PR_CREATED" => rcpt.task \in Task)
    BY <1>1 DEF JobType, Named, Receipts
  <2>4. JobSound(q)
    BY <2>2, <2>3, BeginsSound
  <2>5. QED
    BY <1>5, <1>6, <2>1, <2>4, SoundStays, JobMoves
<1>9. QED
  BY <1>7, <1>8

\* A dispatched task has been activated.
LEMMA DispatchIsSound ==
    ASSUME Sound, NEW a \in Agent, Dispatch(a) PROVE Sound'
<1> PICK n : n = job[a].nxt
  OBVIOUS
<1>1. /\ job[a] \in JobType /\ Named(job[a]) /\ job[a].pc = "dispatch" /\ n \in Task
      /\ Started(n)
  BY DEF Sound, JobSound, Dispatch, At, Named, Activates
<1>2. UNCHANGED <<graph, ledger, state, queue, campaign, cycle, receipt, checkpoint, pr,
                  started, target, recovery, red, crashes, lost>>
  BY DEF Dispatch, files, ciRecovery
<1>3. /\ dispatched' = dispatched \cup {n}
      /\ nextCycle' \subseteq nextCycle \cup {<<n, w>> : w \in Worker}
  <2>1. PICK w : w = IF a = Gate THEN MainWorker ELSE a
    OBVIOUS
  <2>2. w \in Worker
    BY <2>1, NameAssumption DEF Agent
  <2>3. nextCycle' = nextCycle \cup {<<n, w>>}
    BY <2>1 DEF Dispatch
  <2>4. QED
    BY <2>2, <2>3 DEF Dispatch
<1>4. nextCycle' \subseteq Task \X Worker /\ dispatched' \subseteq Task
  BY <1>1, <1>3 DEF Sound, FilesTyped
<1>5. FilesTyped'
  BY <1>2, <1>4 DEF Sound, FilesTyped
<1>6. Stable /\ FilesBacked'
  BY <1>1, <1>2, <1>3, <1>5, FilesNow, OtherFilesMove
<1>7. CASE EndJob(a)
  BY <1>5, <1>6, <1>7, EndIsSound
<1>8. ASSUME NEW pc \in {"recLedger", "after"}, Goto(a, pc),
             pc = "recLedger" => job[a].cont = "review"
      PROVE  Sound'
  <2>1. ASSUME NEW q, q.pc = pc, Alike(q, job[a])
        PROVE  Named(q) /\ Activates(q) /\ Evident(q)
    BY <1>1, <1>8, <2>1 DEF Alike, Named, Activates, Evident, GraphWrite
  <2>2. QED
    BY <1>5, <1>6, <1>8, <2>1, GotoMoves DEF Pcs
<1>9. QED
  BY <1>7, <1>8 DEF Dispatch

-----------------------------------------------------------------------------
\* A write of state.json that completes only what is merged.
LEMMA StateWriteMoves ==
    ASSUME Sound, UNCHANGED <<graph, ledger, queue, campaign, cycle, receipt, pr, dispatched,
                              target, recovery, red, crashes, lost>>,
           nextCycle' \subseteq Task \X Worker, started' \subseteq Task,
           checkpoint' \in Task \cup {NoTask},
           NEW a \in Agent, NEW s, NEW r, PutState(a, s, r), JobSound(r),
           s \in [current : Task \cup {NoTask}, status : StateStatus,
                  completed : SUBSET Task, iteration : Nat],
           \A u \in s.completed : Merged(u)
    PROVE  Sound'
<1>1. state' = s
  BY DEF PutState
<1>2. FilesTyped'
  BY <1>1 DEF Sound, FilesTyped
<1>3. Stable /\ FilesBacked'
  BY <1>1, <1>2, FilesNow, OtherFilesMove
<1>4. QED
  BY <1>2, <1>3, SoundStays, StateMoves

\* An advance and a reconciliation complete only their own task, which is merged.
LEMMA StateWriteIsSound ==
    ASSUME Sound, NEW a \in Agent, PutStateFile(a) \/ ReconcileClearState(a) PROVE Sound'
<1>1. /\ job[a] \in JobType /\ Named(job[a]) /\ Activates(job[a]) /\ Evident(job[a])
      /\ job[a].pc \in {"putState", "recClear"}
  BY DEF Sound, JobSound, PutStateFile, ReconcileClearState, At
<1>2. UNCHANGED <<graph, ledger, queue, campaign, cycle, receipt, checkpoint, pr, nextCycle,
                  dispatched, started, target, recovery, red, crashes, lost>>
  BY DEF PutStateFile, ReconcileClearState, world, ciRecovery
<1>3. nextCycle \subseteq Task \X Worker /\ started \subseteq Task
      /\ checkpoint \in Task \cup {NoTask}
  BY DEF Sound, FilesTyped
<1>4. CASE PutStateFile(a) /\ SameState(a)
  <2> PICK q : q = [job[a] EXCEPT !.pc = "putQueue", !.fresh = FALSE]
    OBVIOUS
  <2>1. PutState(a, job[a].st, q) /\ job[a].pc = "putState"
    BY <1>4 DEF PutStateFile, At
  <2>2. q \in JobType
    BY <1>1 DEF JobType
  <2>3. q.pc = "putQueue" /\ Alike(q, job[a])
    BY <1>1 DEF JobType, Alike
  <2>4. JobSound(q)
    BY <1>1, <2>1, <2>2, <2>3 DEF JobSound, Alike, Named, Activates, Evident, GraphWrite
  <2>5. /\ job[a].st \in [current : Task \cup {NoTask}, status : StateStatus,
                          completed : SUBSET Task, iteration : Nat]
        /\ \A u \in job[a].st.completed : Merged(u)
    BY <1>1, <2>1 DEF JobType, Evident
  <2>6. QED
    BY <1>2, <1>3, <2>1, <2>4, <2>5, StateWriteMoves
<1>5. CASE PutStateFile(a) /\ ~SameState(a)
  <2>1. EndJob(a) /\ UNCHANGED <<files, world>>
    BY <1>5 DEF PutStateFile, files
  <2>2. QED
    BY <2>1, ReadKeeps, EndIsSound
<1>6. CASE ReconcileClearState(a)
  <2> PICK q : q = [job[a] EXCEPT !.pc = "recClearCampaign", !.st = state]
    OBVIOUS
  <2>1. PutState(a, state, q) /\ job[a].pc = "recClear"
    BY <1>6 DEF ReconcileClearState, At
  <2>2. /\ state \in [current : Task \cup {NoTask}, status : StateStatus,
                      completed : SUBSET Task, iteration : Nat]
        /\ \A u \in state.completed : Merged(u)
    BY DEF Sound, FilesTyped, FilesBacked
  <2>3. q \in JobType
    BY <1>1, <2>2 DEF JobType
  <2>4. /\ q.pc = "recClearCampaign" /\ q.t = job[a].t /\ q.cont = job[a].cont
        /\ q.rcpt = job[a].rcpt /\ q.todo = job[a].todo /\ q.led = job[a].led
        /\ q.nxt = job[a].nxt
    BY <1>1 DEF JobType
  <2>5. JobSound(q)
    BY <1>1, <2>1, <2>3, <2>4 DEF JobSound, Named, Activates, Evident, GraphWrite
  <2>6. QED
    BY <1>2, <1>3, <2>1, <2>2, <2>5, StateWriteMoves
<1>7. QED
  BY <1>4, <1>5, <1>6

\* A record of no job changes with the files.
LEMMA JobsStay ==
    ASSUME Sound, Stable, FilesTyped', FilesBacked', job' = job PROVE Sound'
  BY SoundStays DEF Sound

\* A provider cycle begins or goes on for the current task.
LEMMA ProviderIsSound ==
    ASSUME Sound, NEW a \in Worker, ProviderStart(a) \/ ProviderResume(a) PROVE Sound'
<1>1. /\ state \in [current : Task \cup {NoTask}, status : StateStatus,
                    completed : SUBSET Task, iteration : Nat]
      /\ nextCycle \subseteq Task \X Worker /\ started \subseteq Task /\ cycle \in Task
      /\ checkpoint \in Task \cup {NoTask}
      /\ \A u \in state.completed : Merged(u)
      /\ FilesTyped
  BY DEF Sound, FilesTyped, FilesBacked
<1>2. UNCHANGED <<graph, ledger, queue, campaign, cycle, receipt, pr, dispatched,
                  target, recovery, red, crashes, lost>>
  BY DEF ProviderStart, ProviderResume, files, world, ciRecovery
<1>3. /\ nextCycle' \subseteq Task \X Worker /\ started' \subseteq Task
      /\ checkpoint' \in Task \cup {NoTask}
  BY <1>1 DEF ProviderStart, ProviderResume, world
<1> PICK q : q = Begun("session", cycle, NoReceipt, <<>>)
  OBVIOUS
<1> PICK s : s = [state EXCEPT !.status = "RUNNING"]
  OBVIOUS
<1>4. JobSound(q)
  <2>1. NoReceipt \in Receipts /\ NoReceipt.status = "NONE" /\ <<>> \in Records
    BY DEF NoReceipt, Receipts, Records
  <2>2. QED
    BY <1>1, <2>1, BeginsSound
<1>5. /\ s \in [current : Task \cup {NoTask}, status : StateStatus,
                completed : SUBSET Task, iteration : Nat]
      /\ s.completed = state.completed
  BY <1>1 DEF StateStatus
<1>6. a \in Agent
  BY DEF Agent
<1>7. CASE PutState(a, s, q)
  BY <1>1, <1>2, <1>3, <1>4, <1>5, <1>6, <1>7, StateWriteMoves
<1>8. CASE UNCHANGED <<state, job>>
  <2>1. FilesTyped'
    BY <1>1, <1>2, <1>3, <1>8 DEF FilesTyped
  <2>2. Stable /\ FilesBacked'
    BY <1>2, <1>8, <2>1, FilesNow, OtherFilesMove
  <2>3. QED
    BY <1>8, <2>1, <2>2, JobsStay
<1>9. QED
  BY <1>7, <1>8, BegunIs DEF ProviderStart, ProviderResume

\* The gate records a failure of the current task, shows it and repairs it.
LEMMA GateRepairIsSound ==
    ASSUME Sound, \/ \E t \in Task : GateRecover(t)
                  \/ GateStatus \/ GateRepair
    PROVE  Sound'
<1>1. /\ job[Gate] \in JobType /\ Named(job[Gate]) /\ Gate \in Agent
      /\ state \in [current : Task \cup {NoTask}, status : StateStatus,
                    completed : SUBSET Task, iteration : Nat]
      /\ nextCycle \subseteq Task \X Worker /\ started \subseteq Task
      /\ checkpoint \in Task \cup {NoTask}
      /\ \A u \in state.completed : Merged(u)
      /\ FilesTyped
  BY DEF Sound, FilesTyped, FilesBacked, Agent, JobSound
<1>2. CASE \E t \in Task : GateRecover(t)
  <2> PICK t \in Task : GateRecover(t)
    BY <1>2
  <2> PICK q : q = Begun("status", t, NoReceipt, <<>>)
    OBVIOUS
  <2>1. UNCHANGED <<graph, ledger, state, queue, campaign, cycle, receipt, checkpoint, pr,
                    nextCycle, dispatched, started, target, crashes, lost>>
    BY DEF GateRecover, files
  <2>2. recovery'.task = t
    <3>1. \E again \in BOOLEAN : recovery' = Policy!Advanced(recovery, t, "CI_FAILURE", again)
      BY DEF GateRecover
    <3>2. QED
      BY <3>1 DEF Policy!Advanced
  <2>3. red' \in 0 .. MaxRed
    <3>1. red \in 0 .. MaxRed /\ red < MaxRed /\ red' = red + 1 /\ MaxRed \in Nat
      BY <1>1, BoundAssumption DEF GateRecover, FilesTyped
    <3>2. QED
      BY <3>1
  <2>4. FilesTyped'
    BY <1>1, <2>1, <2>2, <2>3 DEF FilesTyped
  <2>5. Stable /\ FilesBacked'
    BY <2>1, <2>4, FilesNow, OtherFilesMove
  <2>6. JobSound(q)
    <3>1. NoReceipt \in Receipts /\ NoReceipt.status = "NONE" /\ <<>> \in Records
      BY DEF NoReceipt, Receipts, Records
    <3>2. QED
      BY <3>1, BeginsSound
  <2>7. Become(Gate, q)
    BY BegunIs DEF GateRecover
  <2>8. QED
    BY <1>1, <2>4, <2>5, <2>6, <2>7, SoundStays, JobMoves
<1>3. CASE GateStatus
  <2>1. UNCHANGED <<graph, ledger, queue, campaign, cycle, receipt, checkpoint, pr, nextCycle,
                    dispatched, started, target, recovery, red, crashes, lost>>
    BY <1>3 DEF GateStatus, world, ciRecovery
  <2>2. CASE state.current # job[Gate].t
    <3>1. EndJob(Gate) /\ UNCHANGED <<files, world>>
      BY <1>3, <2>2 DEF GateStatus, files
    <3>2. QED
      BY <1>1, <3>1, ReadKeeps, EndIsSound
  <2>3. CASE state.current = job[Gate].t
    <3> PICK s : s = [state EXCEPT !.status = StatusAfter(recovery.action)]
      OBVIOUS
    <3> PICK q : q = [job[Gate] EXCEPT !.pc = "repair"]
      OBVIOUS
    <3>1. PutState(Gate, s, IF recovery.action = "REPAIR" THEN q ELSE IdleJob)
          /\ job[Gate].pc = "status"
      BY <1>3, <2>3 DEF GateStatus, At
    <3>2. StatusAfter(recovery.action) \in StateStatus
      BY DEF StatusAfter, StateStatus
    <3>3. /\ s \in [current : Task \cup {NoTask}, status : StateStatus,
                    completed : SUBSET Task, iteration : Nat]
          /\ s.completed = state.completed
      BY <1>1, <3>2
    <3>4. q \in JobType /\ q.pc = "repair" /\ Alike(q, job[Gate])
      BY <1>1, GotoFacts DEF Pcs
    <3>5. JobSound(q)
      BY <1>1, <3>1, <3>4 DEF JobSound, Alike, Named, Activates, Evident, GraphWrite
    <3>6. \E r : PutState(Gate, s, r) /\ JobSound(r)
      BY <3>1, <3>5, IdleSound
    <3>7. QED
      BY <1>1, <2>1, <3>3, <3>6, StateWriteMoves
  <2>4. QED
    BY <2>2, <2>3
<1>4. CASE GateRepair
  <2>1. UNCHANGED <<graph, ledger, state, queue, campaign, cycle, receipt, checkpoint, pr,
                    dispatched, started, target, recovery, red, crashes, lost>>
    BY <1>4 DEF GateRepair, files
  <2>2. job[Gate].t \in Task /\ EndJob(Gate)
        /\ nextCycle' = nextCycle \cup {<<job[Gate].t, MainWorker>>}
    BY <1>1, <1>4 DEF GateRepair, At, Named
  <2>3. nextCycle' \subseteq Task \X Worker
    BY <1>1, <2>2, NameAssumption
  <2>4. FilesTyped'
    BY <1>1, <2>1, <2>3 DEF FilesTyped
  <2>5. Stable /\ FilesBacked'
    BY <2>1, <2>4, FilesNow, OtherFilesMove
  <2>6. QED
    BY <1>1, <2>2, <2>4, <2>5, EndIsSound
<1>5. QED
  BY <1>2, <1>3, <1>4

\* A job is killed, a pending run is replaced.
LEMMA LossIsSound ==
    ASSUME Sound, \/ \E a \in Agent : Crash(a)
                  \/ \E e \in Task \X Worker : LoseRun(e)
                  \/ UNCHANGED vars
    PROVE  Sound'
<1>1. UNCHANGED <<graph, ledger, state, queue, campaign, cycle, receipt, checkpoint, pr,
                  dispatched, started, target, recovery, red>>
  BY DEF Crash, LoseRun, vars, files, world, ciRecovery
<1>2. /\ FilesTyped /\ nextCycle \subseteq Task \X Worker
      /\ crashes \in 0 .. MaxCrash /\ lost \in 0 .. MaxLost
  BY DEF Sound, FilesTyped
<1>3. nextCycle' \subseteq Task \X Worker
  BY <1>2 DEF Crash, LoseRun, vars, world
<1>4. crashes' \in 0 .. MaxCrash /\ lost' \in 0 .. MaxLost
  <2>1. \/ crashes' = crashes
        \/ crashes < MaxCrash /\ crashes' = crashes + 1
    BY DEF Crash, LoseRun, vars, world
  <2>2. \/ lost' = lost
        \/ lost < MaxLost /\ lost' = lost + 1
    BY DEF Crash, LoseRun, vars, world
  <2>3. MaxCrash \in Nat /\ MaxLost \in Nat
    BY BoundAssumption
  <2>4. QED
    BY <1>2, <2>1, <2>2, <2>3
<1>5. FilesTyped'
  BY <1>1, <1>2, <1>3, <1>4 DEF FilesTyped
<1>6. Stable /\ FilesBacked'
  BY <1>1, <1>5, FilesNow, OtherFilesMove
<1>7. (\E a \in Agent : EndJob(a)) \/ job' = job
  BY DEF Crash, LoseRun, vars
<1>8. QED
  BY <1>5, <1>6, <1>7, EndIsSound, JobsStay

\* A pull request that is merged or a trusted no-op stays so.
LEMMA PrMoves ==
    ASSUME Sound, UNCHANGED <<files, checkpoint, nextCycle, dispatched, started, target,
                              recovery, red, crashes, lost>>,
           NEW t \in Task, NEW s \in {"none", "open", "closed", "merged", "noop"},
           pr' = [pr EXCEPT ![t] = s], Merged(t) => s \in {"merged", "noop"}
    PROVE  Stable /\ FilesTyped' /\ FilesBacked'
<1>1. UNCHANGED <<graph, ledger, state, queue, campaign, cycle, receipt>>
  BY DEF files
<1>2. pr \in [Task -> {"none", "open", "closed", "merged", "noop"}]
  BY DEF Sound, FilesTyped
<1>3. pr' \in [Task -> {"none", "open", "closed", "merged", "noop"}]
  BY <1>2
<1>4. \A u \in Task : Merged(u) => Merged(u)'
  BY <1>2 DEF Merged
<1>5. Stable
  BY <1>1, <1>4 DEF Stable, Started
<1>6. FilesTyped'
  BY <1>1, <1>3 DEF Sound, FilesTyped
<1>7. FilesBacked'
  <2>1. /\ state.completed \subseteq Task /\ campaign.completed \subseteq Task
        /\ Managed \subseteq Task
    BY NameAssumption DEF Sound, FilesTyped
  <2>2. QED
    BY <1>1, <1>4, <1>5, <2>1 DEF Sound, FilesBacked, Stable, Dag!DependencySafety
<1>8. QED
  BY <1>5, <1>6, <1>7

\* Whoever opens, merges, closes or reopens a pull request outside the gate.
LEMMA PrStepsAreSound ==
    ASSUME Sound, NEW t \in Task, OpenPr(t) \/ MergePr(t) \/ ClosePr(t) \/ ReopenPr(t)
    PROVE  Sound'
<1>1. PICK s \in {"none", "open", "closed", "merged", "noop"} :
        /\ SetPr(t, s) /\ (Merged(t) => s \in {"merged", "noop"})
  BY DEF OpenPr, MergePr, ClosePr, ReopenPr, Merged
<1>2. /\ UNCHANGED <<files, checkpoint, nextCycle, dispatched, started, target, job,
                     recovery, red, crashes, lost>>
      /\ pr' = [pr EXCEPT ![t] = s]
  BY <1>1 DEF SetPr, ciRecovery
<1>3. QED
  BY <1>1, <1>2, PrMoves, JobsStay

\* The gate merges the pull request of the task that it then completes: no
\* other can be open in a self-hosted project.
LEMMA GateMergeIsSound ==
    ASSUME Sound, Sole, RecoveryInv, GateMerge
    PROVE  Sound'
<1> PICK u : u = job[Gate].rcpt.task
  OBVIOUS
<1>1. /\ job[Gate] \in JobType /\ Named(job[Gate]) /\ Gate \in Agent
      /\ job[Gate].pc = "merge"
  BY DEF Sound, JobSound, Agent, GateMerge, At
<1>2. CASE pr[u] # "open"
  <2>1. EndJob(Gate) /\ UNCHANGED <<files, world>>
    BY <1>2 DEF GateMerge, world
  <2>2. QED
    BY <1>1, <2>1, ReadKeeps, EndIsSound
<1>3. CASE pr[u] = "open"
  <2>1. OnlyCurrentOpen
    BY <1>1 DEF Sole, RecoveryInv, ExternalInv
  <2>2. u \in Task
    <3>1. u \in Task \cup {NoTask} /\ job[Gate].t \in Task
      BY <1>1 DEF JobType, Named
    <3>2. QED
      BY <1>1 DEF Named
  <2>3. u = job[Gate].t
    BY <1>1, <1>3, <2>1, <2>2 DEF OnlyCurrentOpen, Merged
  <2> PICK q : q = [job[Gate] EXCEPT !.pc = "advance", !.cont = "gate"]
    OBVIOUS
  <2>4. /\ pr' = [pr EXCEPT ![u] = "merged"] /\ Become(Gate, q)
        /\ UNCHANGED <<files, checkpoint, nextCycle, dispatched, started, target,
                       recovery, red, crashes, lost>>
    BY <1>3 DEF GateMerge, ciRecovery
  <2>5. Stable /\ FilesTyped' /\ FilesBacked'
    BY <2>2, <2>4, PrMoves
  <2>6. q \in JobType
    BY <1>1 DEF JobType
  <2>7. /\ q.pc = "advance" /\ q.cont = "gate" /\ q.t = u /\ q.rcpt = job[Gate].rcpt
        /\ q.led = job[Gate].led
    BY <1>1, <2>3 DEF JobType
  <2>8. Merged(u)'
    BY <2>2, <2>4 DEF Sound, FilesTyped, Merged
  <2>9. Named(q)
    BY <1>1, <2>2, <2>7 DEF Named
  <2>10. Activates(q)' /\ Evident(q)'
    BY <2>7, <2>8 DEF Activates, Evident, GraphWrite
  <2>11. JobSound(q)'
    BY <2>6, <2>9, <2>10 DEF JobSound, Named
  <2>12. QED
    BY <1>1, <2>4, <2>5, <2>11, JobMoves
<1>4. QED
  BY <1>2, <1>3

-----------------------------------------------------------------------------
\* Every step keeps the files and the jobs sound.
LEMMA SoundKept == Ahead /\ RecoveryInv /\ Sound /\ Sole /\ [Next]_vars => Sound'
<1> SUFFICES ASSUME Ahead, RecoveryInv, Sound, Sole, [Next]_vars PROVE Sound'
  OBVIOUS
<1>1. ASSUME NEW a \in Agent, JobStep(a) PROVE Sound'
  <2>1. CASE \/ AdvanceRefused(a) \/ ParkRefused(a) \/ SessionTimeout(a) \/ ReviewSkip(a)
             \/ MonitorReceipt(a) \/ MonitorPoll(a)
    BY <2>1, ReadsAreSound
  <2>2. CASE AdvanceRead(a)
    BY <2>2, AdvanceReadIsSound
  <2>3. CASE ParkRead(a)
    BY <2>3, ParkReadIsSound
  <2>4. CASE ReconcileRead(a)
    BY <2>4, ReconcileReadIsSound
  <2>5. CASE ReconcileState(a)
    BY <2>5, ReconcileStateIsSound
  <2>6. CASE PutGraph(a)
    BY <2>6, GraphWriteIsSound
  <2>7. CASE AdvanceCampaign(a) \/ PutCampaign(a) \/ ReconcileClearCampaign(a)
    BY <2>7, CampaignWriteIsSound
  <2>8. CASE AdvanceCycle(a) \/ PutCycle(a)
    BY <2>8, CycleWriteIsSound
  <2>9. CASE AfterAdvance(a) \/ SessionPublish(a)
    BY <2>9, ReceiptWriteIsSound
  <2>10. CASE PutQueueFile(a)
    BY <2>10, QueueWriteIsSound
  <2>11. CASE ParkLedger(a) \/ ReconcileLedger(a)
    BY <2>11, LedgerWriteIsSound
  <2>12. CASE Dispatch(a)
    BY <2>12, DispatchIsSound
  <2>13. CASE PutStateFile(a) \/ ReconcileClearState(a)
    BY <2>13, StateWriteIsSound
  <2>14. QED
    BY <1>1, <2>1, <2>2, <2>3, <2>4, <2>5, <2>6, <2>7, <2>8, <2>9, <2>10, <2>11, <2>12, <2>13
       DEF JobStep
<1>2. ASSUME NEW a \in Worker, MonitorStart(a) \/ ProviderStart(a) \/ ProviderResume(a)
      PROVE  Sound'
  BY <1>2, StartsAreSound, ProviderIsSound
<1>3. CASE GateMerge \/ GateStatus \/ GateRepair
  BY <1>3, GateMergeIsSound, GateRepairIsSound
<1>4. ASSUME NEW t \in Task, GateStart(t) \/ GateRecover(t) PROVE Sound'
  BY <1>4, StartsAreSound, GateRepairIsSound
<1>5. ASSUME NEW t \in Task, OpenPr(t) \/ MergePr(t) \/ ClosePr(t) \/ ReopenPr(t) PROVE Sound'
  BY <1>5, PrStepsAreSound
<1>6. CASE \/ \E a \in Agent : Crash(a)
           \/ \E e \in Task \X Worker : LoseRun(e)
           \/ UNCHANGED vars
  BY <1>6, LossIsSound
<1>7. QED
  BY <1>1, <1>2, <1>3, <1>4, <1>5, <1>6 DEF Next

\* In a self-hosted project the current task stays the only one with an open
\* pull request while it stays current,
LEMMA CurrentStays ==
    ASSUME OnlyCurrentOpen, state'.current = state.current,
           cycle' \in {cycle, state.current},
           started' \in {started, started \cup {cycle}}, started \cup {cycle} \subseteq Task,
           \A u \in Task : Merged(u) => Merged(u)',
           \A u \in Task : pr'[u] # "none" => u \in started,
           job'[Gate].pc \in {"merge", "advance", "advGraph", "advCampaign", "putState"} =>
             job'[Gate].t = state.current,
           job'[Gate].pc \in {"putQueue", "advCycle"} => job'[Gate].nxt = state.current
    PROVE  OnlyCurrentOpen'
<1>1. \A u \in (started \cup {cycle})' : Merged(u)' \/ u = state'.current
  BY DEF OnlyCurrentOpen
<1>2. QED
  BY <1>1 DEF OnlyCurrentOpen

\* whatever a worker or the outside world does,
LEMMA OthersKeepSole ==
    ASSUME Sound, OnlyCurrentOpen, UNCHANGED <<cycle, pr>>, state'.current = state.current,
           started' \in {started, started \cup {cycle}},
           \/ job'[Gate] = job[Gate]
           \/ job'[Gate] = [job[Gate] EXCEPT !.fresh = FALSE]
           \/ job'[Gate].pc \in {"idle", "status", "repair", "dispatch", "after"}
    PROVE  OnlyCurrentOpen'
<1>1. job[Gate] \in JobType /\ started \cup {cycle} \subseteq Task
  BY GateIsAgent DEF Sound, FilesTyped
<1>2. \/ /\ job'[Gate].pc = job[Gate].pc /\ job'[Gate].t = job[Gate].t
         /\ job'[Gate].nxt = job[Gate].nxt
      \/ job'[Gate].pc \in {"idle", "status", "repair", "dispatch", "after"}
  BY <1>1, JobIs
<1>3. /\ \A u \in Task : Merged(u) => Merged(u)'
      /\ \A u \in Task : pr'[u] # "none" => u \in started
  BY DEF Merged, OnlyCurrentOpen
<1>4. /\ job'[Gate].pc \in {"merge", "advance", "advGraph", "advCampaign", "putState"} =>
           job'[Gate].t = state.current
      /\ job'[Gate].pc \in {"putQueue", "advCycle"} => job'[Gate].nxt = state.current
  BY <1>2 DEF OnlyCurrentOpen
<1>5. QED
  BY <1>1, <1>3, <1>4, CurrentStays

\* and so whatever the monitor of a session and the provider cycles do,
LEMMA WorkerKeepsSole ==
    ASSUME Sound, OnlyCurrentOpen, SelfHosted, NEW w \in Worker,
           \/ JobStep(w) \/ Crash(w) \/ MonitorStart(w) \/ ProviderStart(w) \/ ProviderResume(w)
    PROVE  OnlyCurrentOpen'
<1>0. w \in Agent /\ w # Gate /\ job[w].pc \in {"idle", "session"} /\ job \in [Agent -> JobType]
  BY GateIsAgent DEF SelfHosted, Sound
<1>1. CASE SessionPublish(w) \/ SessionTimeout(w) \/ Crash(w)
  <2>1. EndJob(w) /\ UNCHANGED <<state, cycle, pr, started>>
    BY <1>1 DEF SessionPublish, SessionTimeout, Crash, files, world
  <2>2. job'[Gate] = job[Gate]
    BY <1>0, <2>1, GateIsAgent DEF EndJob, Become
  <2>3. QED
    BY <2>1, <2>2, OthersKeepSole
<1>2. CASE ProviderStart(w) \/ ProviderResume(w)
  <2> PICK s : s = [state EXCEPT !.status = "RUNNING"]
    OBVIOUS
  <2>1. s.current = state.current
    BY DEF Sound, FilesTyped
  <2>2. /\ UNCHANGED <<cycle, pr>> /\ started' \in {started, started \cup {cycle}}
        /\ (\E r : PutState(w, s, r)) \/ UNCHANGED <<state, job>>
    BY <1>2 DEF ProviderStart, ProviderResume, files, world
  <2>3. CASE \E r : PutState(w, s, r)
    <3>1. state' = s /\ job'[Gate] = [job[Gate] EXCEPT !.fresh = FALSE]
      BY <1>0, <2>3, GateIsAgent DEF PutState
    <3>2. QED
      BY <2>1, <2>2, <3>1, OthersKeepSole
  <2>4. QED
    BY <2>2, <2>3, OthersKeepSole
<1>3. ~ MonitorStart(w)
  BY DEF MonitorStart, SelfHosted
<1>4. JobStep(w) => SessionPublish(w) \/ SessionTimeout(w)
  BY <1>0
     DEF JobStep, AdvanceRefused, AdvanceRead, AdvanceCampaign, AdvanceCycle, AfterAdvance,
         PutGraph, PutStateFile, PutQueueFile, Dispatch, PutCampaign, PutCycle, ParkRefused,
         ParkRead, ParkLedger, ReviewSkip, ReconcileRead, ReconcileState, ReconcileClearState,
         ReconcileClearCampaign, ReconcileLedger, MonitorReceipt, MonitorPoll, At
<1>5. QED
  BY <1>1, <1>2, <1>3, <1>4

\* and the gate hands over to a successor once its task is merged.
LEMMA GateKeepsSole ==
    ASSUME Sound, OnlyCurrentOpen, SelfHosted, SuccessorIsFresh, JobStep(Gate)
    PROVE  OnlyCurrentOpen'
<1>0. /\ job \in [Agent -> JobType] /\ job[Gate] \in JobType /\ Gate \in Agent
      /\ Evident(job[Gate]) /\ job[Gate].pc \in GatePcs
      /\ job[Gate].pc \in Advancing => job[Gate].cont = "gate"
      /\ started \cup {cycle} \subseteq Task
  BY GateIsAgent DEF Sound, FilesTyped, JobSound, SelfHosted
<1>1. ASSUME NEW r, Become(Gate, r) PROVE job'[Gate] = r
  BY <1>0, <1>1 DEF Become
<1>2. IdleJob.pc = "idle"
  BY DEF IdleJob
<1>3. CASE AdvanceRefused(Gate) \/ AfterAdvance(Gate) \/ Dispatch(Gate)
  <2>1. UNCHANGED <<cycle, pr, state, started>>
    BY <1>3 DEF AdvanceRefused, AfterAdvance, Dispatch, files, world
  <2>2. job[Gate].cont = "gate"
    BY <1>0, <1>3 DEF AdvanceRefused, AfterAdvance, Dispatch, At, Advancing
  <2>3. EndJob(Gate) \/ Goto(Gate, "after")
    BY <1>3, <2>2 DEF AdvanceRefused, AfterAdvance, Dispatch
  <2>4. job'[Gate].pc \in {"idle", "after"}
    BY <1>0, <1>1, <1>2, <2>3, JobIs DEF EndJob, Goto
  <2>5. QED
    BY <2>1, <2>4, OthersKeepSole
<1>4. ASSUME NEW pc, NEW r \in JobType, Become(Gate, r) \/ EndJob(Gate), r.pc = pc,
             r.t = job[Gate].t, r.nxt = job[Gate].nxt \/ pc \notin {"putQueue", "advCycle"},
             pc \in {"advance", "advGraph", "advCampaign", "putState"} =>
               job[Gate].pc \in {"merge", "advance", "advGraph", "advCampaign", "putState"},
             pc \in {"putQueue", "advCycle"} => job[Gate].pc \in {"putQueue", "advCycle"},
             pc # "merge",
             UNCHANGED <<state, pr, started>>, cycle' \in {cycle, state.current}
      PROVE  OnlyCurrentOpen'
  <2>1. job'[Gate] = r \/ job'[Gate] = IdleJob
    BY <1>1, <1>4 DEF EndJob
  <2>2. /\ job'[Gate].pc \in {"merge", "advance", "advGraph", "advCampaign", "putState"} =>
             job'[Gate].t = state.current
        /\ job'[Gate].pc \in {"putQueue", "advCycle"} => job'[Gate].nxt = state.current
    BY <1>2, <1>4, <2>1 DEF OnlyCurrentOpen
  <2>3. /\ \A u \in Task : Merged(u) => Merged(u)'
        /\ \A u \in Task : pr'[u] # "none" => u \in started
    BY <1>4 DEF Merged, OnlyCurrentOpen
  <2>4. QED
    BY <1>0, <1>4, <2>2, <2>3, CurrentStays
<1>5. CASE AdvanceRead(Gate)
  <2>1. \E h, n : Become(Gate, AdvancePlan(Gate, h, n))
    BY <1>5 DEF AdvanceRead
  <2>2. PICK r : Become(Gate, r) /\ r.pc = FirstWrite(job[Gate].t) /\ r.t = job[Gate].t
    <3>1. PICK h, n : Become(Gate, AdvancePlan(Gate, h, n))
      BY <2>1
    <3>2. /\ AdvancePlan(Gate, h, n).pc = FirstWrite(job[Gate].t)
          /\ AdvancePlan(Gate, h, n).t = job[Gate].t
      BY <1>0, JobIs DEF AdvancePlan
    <3>3. QED
      BY <3>1, <3>2
  <2>3. UNCHANGED <<cycle, state, pr, started>> /\ job[Gate].pc = "advance"
    BY <1>5 DEF AdvanceRead, files, world, At
  <2>4. /\ job'[Gate].pc \in {"advGraph", "advCampaign"} /\ job'[Gate].t = state.current
    BY <1>1, <2>2, <2>3 DEF FirstWrite, OnlyCurrentOpen
  <2>5. /\ \A u \in Task : Merged(u) => Merged(u)'
        /\ \A u \in Task : pr'[u] # "none" => u \in started
    BY <2>3 DEF Merged, OnlyCurrentOpen
  <2>6. QED
    BY <1>0, <2>3, <2>4, <2>5, CurrentStays
<1>6. CASE PutGraph(Gate) \/ AdvanceCampaign(Gate)
  <2>1. /\ job[Gate].pc \in {"advGraph", "advCampaign"} /\ UNCHANGED <<cycle, state, pr, started>>
    BY <1>0, <1>6 DEF PutGraph, AdvanceCampaign, world, At, GatePcs
  <2>2. PICK pc \in {"advCampaign", "putState"} : Goto(Gate, pc) \/ EndJob(Gate)
    BY <1>6, <2>1 DEF PutGraph, AdvanceCampaign, At
  <2>3. pc \in Pcs
    BY DEF Pcs
  <2>4. PICK r \in JobType : /\ r = [job[Gate] EXCEPT !.pc = pc] /\ r.pc = pc
                             /\ Alike(r, job[Gate])
    BY <1>0, <2>3, GotoFacts
  <2>5. QED
    BY <1>4, <2>1, <2>2, <2>4 DEF Goto, Alike
<1>7. CASE PutStateFile(Gate)
  <2> PICK t : t = job[Gate].t
    OBVIOUS
  <2>1. job[Gate].pc = "putState" /\ UNCHANGED <<cycle, pr, started>>
    BY <1>7 DEF PutStateFile, At, world
  <2>2. CASE SameState(Gate)
    <3> PICK q : q = [job[Gate] EXCEPT !.pc = "putQueue", !.fresh = FALSE]
      OBVIOUS
    <3>1. state' = job[Gate].st /\ job'[Gate] = q
      BY <1>0, <1>7, <2>2 DEF PutStateFile, PutState
    <3>2. q.pc = "putQueue" /\ q.nxt = job[Gate].nxt
      BY <1>0, JobIs
    <3>3. state'.current = job[Gate].nxt
      BY <2>1, <3>1 DEF SuccessorIsFresh
    <3>4. Merged(t) /\ t = state.current
      BY <1>0, <2>1 DEF Evident, Advancing, OnlyCurrentOpen
    <3>5. \A u \in started \cup {cycle} : Merged(u)
      BY <3>4 DEF OnlyCurrentOpen
    <3>6. QED
      BY <2>1, <3>1, <3>2, <3>3, <3>5 DEF OnlyCurrentOpen, Merged
  <2>3. CASE ~SameState(Gate)
    <3>1. EndJob(Gate) /\ state' = state
      BY <1>7, <2>3 DEF PutStateFile
    <3>2. job'[Gate].pc = "idle"
      BY <1>1, <1>2, <3>1 DEF EndJob
    <3>3. QED
      BY <2>1, <3>1, <3>2, OthersKeepSole
  <2>4. QED
    BY <2>2, <2>3
<1>8. CASE PutQueueFile(Gate)
  <2>1. /\ job[Gate].pc = "putQueue" /\ UNCHANGED <<cycle, state, pr, started>>
        /\ job[Gate].cont = "gate"
    BY <1>0, <1>8 DEF PutQueueFile, world, At, Advancing
  <2>2. Goto(Gate, "advCycle") \/ EndJob(Gate)
    BY <1>8, <2>1 DEF PutQueueFile
  <2>3. "advCycle" \in Pcs
    BY DEF Pcs
  <2>4. PICK r \in JobType : /\ r = [job[Gate] EXCEPT !.pc = "advCycle"] /\ r.pc = "advCycle"
                             /\ Alike(r, job[Gate])
    BY <1>0, <2>3, GotoFacts
  <2>5. QED
    BY <1>4, <2>1, <2>2, <2>4 DEF Goto, Alike
<1>9. CASE AdvanceCycle(Gate)
  <2>1. /\ job[Gate].pc = "advCycle" /\ UNCHANGED <<state, pr, started>>
        /\ cycle' \in {cycle, job[Gate].nxt}
    BY <1>9 DEF AdvanceCycle, world, At
  <2>2. cycle' \in {cycle, state.current}
    BY <2>1 DEF OnlyCurrentOpen
  <2>3. PICK pc \in {"after", "dispatch"} : Goto(Gate, pc) \/ EndJob(Gate)
    BY <1>9 DEF AdvanceCycle
  <2>4. pc \in Pcs
    BY DEF Pcs
  <2>5. PICK r \in JobType : /\ r = [job[Gate] EXCEPT !.pc = pc] /\ r.pc = pc
                             /\ Alike(r, job[Gate])
    BY <1>0, <2>4, GotoFacts
  <2>6. QED
    BY <1>4, <2>1, <2>2, <2>3, <2>5 DEF Goto, Alike
<1>10. QED
  BY <1>0, <1>3, <1>5, <1>6, <1>7, <1>8, <1>9
     DEF JobStep, GatePcs, PutCampaign, PutCycle, ParkRefused, ParkRead, ParkLedger, ReviewSkip,
         ReconcileRead, ReconcileState, ReconcileClearState, ReconcileClearCampaign,
         ReconcileLedger, MonitorReceipt, MonitorPoll, SessionPublish, SessionTimeout, At

\* The gate's other steps.
LEMMA GateStartsKeepSole ==
    ASSUME Sound, OnlyCurrentOpen,
           \/ GateMerge \/ GateStatus \/ GateRepair
           \/ \E t \in Task : GateStart(t) \/ GateRecover(t)
    PROVE  OnlyCurrentOpen'
<1>0. /\ job \in [Agent -> JobType] /\ job[Gate] \in JobType /\ Gate \in Agent
      /\ Named(job[Gate]) /\ started \cup {cycle} \subseteq Task
      /\ pr \in [Task -> {"none", "open", "closed", "merged", "noop"}]
  BY GateIsAgent DEF Sound, FilesTyped, JobSound
<1>1. ASSUME NEW r, Become(Gate, r) PROVE job'[Gate] = r
  BY <1>0, <1>1 DEF Become
<1>2. IdleJob.pc = "idle"
  BY DEF IdleJob
<1>3. CASE GateMerge
  <2> PICK u : u = job[Gate].rcpt.task
    OBVIOUS
  <2> PICK r : r = [job[Gate] EXCEPT !.pc = "advance", !.cont = "gate"]
    OBVIOUS
  <2>1. /\ UNCHANGED <<cycle, state, started>> /\ job[Gate].pc = "merge"
        /\ \/ pr' = pr /\ EndJob(Gate)
           \/ /\ pr' = [pr EXCEPT ![u] = "merged"] /\ pr[u] = "open"
              /\ Become(Gate, r)
    BY <1>3 DEF GateMerge, files, At
  <2>2. u \in Task /\ job[Gate].t = state.current
    BY <1>0, <2>1 DEF Named, OnlyCurrentOpen
  <2>3. r.pc = "advance" /\ r.t = job[Gate].t
    BY <1>0, JobIs
  <2>4. /\ \A v \in Task : Merged(v) => Merged(v)'
        /\ \A v \in Task : pr'[v] # "none" => v \in started
    BY <1>0, <2>1, <2>2 DEF Merged, OnlyCurrentOpen
  <2>5. job'[Gate].pc = "idle" \/ (job'[Gate].pc = "advance" /\ job'[Gate].t = state.current)
    BY <1>1, <1>2, <2>1, <2>2, <2>3 DEF EndJob
  <2>6. QED
    BY <1>0, <2>1, <2>4, <2>5, CurrentStays
<1>4. CASE GateStatus
  <2>1. UNCHANGED <<cycle, pr, started>>
    BY <1>4 DEF GateStatus, world
  <2>2. CASE EndJob(Gate) /\ state' = state
    <3>1. job'[Gate].pc = "idle"
      BY <1>1, <1>2, <2>2 DEF EndJob
    <3>2. QED
      BY <2>1, <2>2, <3>1, OthersKeepSole
  <2>3. CASE ~(EndJob(Gate) /\ state' = state)
    <3> PICK s : s = [state EXCEPT !.status = StatusAfter(recovery.action)]
      OBVIOUS
    <3> PICK q : q = [job[Gate] EXCEPT !.pc = "repair"]
      OBVIOUS
    <3>1. PutState(Gate, s, q) \/ PutState(Gate, s, IdleJob)
      BY <1>4, <2>3 DEF GateStatus
    <3>2. s.current = state.current
      BY DEF Sound, FilesTyped
    <3>3. q.pc = "repair"
      BY <1>0, JobIs
    <3>4. state' = s /\ job'[Gate] \in {q, IdleJob}
      BY <1>0, <3>1 DEF PutState
    <3>5. QED
      BY <1>2, <2>1, <3>2, <3>3, <3>4, OthersKeepSole
  <2>4. QED
    BY <2>2, <2>3
<1>5. CASE GateRepair
  <2>1. UNCHANGED <<cycle, state, pr, started>> /\ EndJob(Gate)
    BY <1>5 DEF GateRepair, files
  <2>2. job'[Gate].pc = "idle"
    BY <1>1, <1>2, <2>1 DEF EndJob
  <2>3. QED
    BY <2>1, <2>2, OthersKeepSole
<1>6. ASSUME NEW t \in Task, GateStart(t) PROVE OnlyCurrentOpen'
  <2>1. UNCHANGED <<cycle, state, pr, started>>
    BY <1>6 DEF GateStart, files, world
  <2>2. job'[Gate].pc = "merge" /\ job'[Gate].t = state.current
    <3> PICK q : q = [IdleJob EXCEPT !.pc = "merge", !.t = state.current,
                                     !.rcpt = [task |-> t, status |-> "PR_CREATED"]]
      OBVIOUS
    <3>1. Become(Gate, q)
      BY <1>6 DEF GateStart
    <3>2. q.pc = "merge" /\ q.t = state.current
      BY DEF IdleJob
    <3>3. QED
      BY <1>1, <1>2, <3>1, <3>2 DEF Become
  <2>3. /\ \A v \in Task : Merged(v) => Merged(v)'
        /\ \A v \in Task : pr'[v] # "none" => v \in started
    BY <2>1 DEF Merged, OnlyCurrentOpen
  <2>4. QED
    BY <1>0, <2>1, <2>2, <2>3, CurrentStays
<1>7. ASSUME NEW t \in Task, GateRecover(t) PROVE OnlyCurrentOpen'
  <2>1. UNCHANGED <<cycle, state, pr, started>>
    BY <1>7 DEF GateRecover, files
  <2>2. job'[Gate].pc = "status"
    <3> PICK q : q = [IdleJob EXCEPT !.pc = "status", !.t = t]
      OBVIOUS
    <3>1. Become(Gate, q)
      BY <1>7 DEF GateRecover
    <3>2. q.pc = "status"
      BY DEF IdleJob
    <3>3. QED
      BY <1>1, <1>2, <3>1, <3>2 DEF Become
  <2>3. QED
    BY <2>1, <2>2, OthersKeepSole
<1>8. QED
  BY <1>3, <1>4, <1>5, <1>6, <1>7

\* A pull request is opened for a session that was created.
LEMMA PrKeepsSole ==
    ASSUME Sound, OnlyCurrentOpen, NEW t \in Task,
           OpenPr(t) \/ MergePr(t) \/ ClosePr(t) \/ ReopenPr(t)
    PROVE  OnlyCurrentOpen'
<1>1. /\ started \cup {cycle} \subseteq Task
      /\ pr \in [Task -> {"none", "open", "closed", "merged", "noop"}]
  BY DEF Sound, FilesTyped
<1>2. PICK s : SetPr(t, s) /\ (Merged(t) => s \in {"merged", "noop"}) /\ t \in started
  BY <1>1 DEF OpenPr, MergePr, ClosePr, ReopenPr, Merged, OnlyCurrentOpen
<1>3. UNCHANGED <<cycle, state, started, job>> /\ pr' = [pr EXCEPT ![t] = s]
  BY <1>2 DEF SetPr, files
<1>4. /\ \A v \in Task : Merged(v) => Merged(v)'
      /\ \A v \in Task : pr'[v] # "none" => v \in started
  BY <1>1, <1>2, <1>3 DEF Merged, OnlyCurrentOpen
<1>5. QED
  BY <1>1, <1>3, <1>4, CurrentStays DEF OnlyCurrentOpen

\* So a self-hosted project keeps to its current task.
LEMMA SoleKept == RecoveryInv /\ Sound /\ Sole /\ [Next]_vars => Sole'
<1> SUFFICES ASSUME RecoveryInv, Sound, Sole, [Next]_vars, target = "self"
             PROVE  OnlyCurrentOpen'
  BY TargetStays DEF Sole
<1>0. OnlyCurrentOpen /\ SelfHosted /\ SuccessorIsFresh
  BY DEF Sole, RecoveryInv, SelfInv
<1>1. ASSUME NEW a \in Agent, JobStep(a) PROVE OnlyCurrentOpen'
  <2>1. CASE a = Gate
    BY <1>0, <1>1, <2>1, GateKeepsSole
  <2>2. CASE a \in Worker
    BY <1>0, <1>1, <2>2, WorkerKeepsSole
  <2>3. QED
    BY <2>1, <2>2 DEF Agent
<1>2. ASSUME NEW a \in Agent, Crash(a) PROVE OnlyCurrentOpen'
  <2>1. CASE a = Gate
    <3>1. UNCHANGED <<cycle, state, pr, started>> /\ EndJob(Gate)
      BY <1>2, <2>1 DEF Crash, files
    <3>2. job'[Gate].pc = "idle"
      BY <3>1, GateIsAgent DEF EndJob, Become, IdleJob, Sound
    <3>3. QED
      BY <1>0, <3>1, <3>2, OthersKeepSole
  <2>2. CASE a \in Worker
    BY <1>0, <1>2, <2>2, WorkerKeepsSole
  <2>3. QED
    BY <2>1, <2>2 DEF Agent
<1>3. ASSUME NEW a \in Worker, MonitorStart(a) \/ ProviderStart(a) \/ ProviderResume(a)
      PROVE  OnlyCurrentOpen'
  BY <1>0, <1>3, WorkerKeepsSole
<1>4. CASE \/ GateMerge \/ GateStatus \/ GateRepair
           \/ \E t \in Task : GateStart(t) \/ GateRecover(t)
  BY <1>0, <1>4, GateStartsKeepSole
<1>5. ASSUME NEW t \in Task, OpenPr(t) \/ MergePr(t) \/ ClosePr(t) \/ ReopenPr(t)
      PROVE  OnlyCurrentOpen'
  BY <1>0, <1>5, PrKeepsSole
<1>6. CASE (\E e \in Task \X Worker : LoseRun(e)) \/ UNCHANGED vars
  <2>1. UNCHANGED <<cycle, state, pr, started, job>>
    BY <1>6 DEF LoseRun, vars, files, world
  <2>2. QED
    BY <1>0, <2>1, OthersKeepSole
<1>7. QED
  BY <1>1, <1>2, <1>3, <1>4, <1>5, <1>6 DEF Next

\* The campaign starts with its first task running and nothing merged.
LEMMA SoundInit == Init => Sound /\ Sole
<1> SUFFICES ASSUME Init PROVE Sound /\ Sole
  OBVIOUS
<1>1. /\ Managed \subseteq Task /\ First \in Task /\ NoTask \notin Task
      /\ MainWorker \in Worker /\ Gate \in Agent
  BY NameAssumption DEF Agent
<1>2. Fifo \in Seq(Task)
  BY QueueAssumption
<1>3. \A m \in Managed : m = First => Deps[m] = {}
  BY PlanAssumption DEF FirstOfPlan
<1>4. {MaxRed, MaxCrash, MaxLost} \subseteq Nat
  BY BoundAssumption
<1>5. FilesTyped
  <2>1. graph \in [Managed -> Dag!Status]
    BY DEF Init, Dag!Status
  <2>2. ledger \in Seq(Task) /\ IsInjective(ledger)
    BY DEF Init, IsInjective
  <2>3. /\ state \in [current : Task \cup {NoTask}, status : StateStatus,
                      completed : SUBSET Task, iteration : Nat]
        /\ campaign \in [completed : SUBSET CampaignTask,
                         status : {"RUNNING", "HUMAN_WAIT", "COMPLETED"}]
    BY <1>1 DEF Init, StateStatus
  <2>4. /\ receipt \in [task : Task \cup {NoTask}, status : {"NONE", "PR_CREATED", "MERGED"}]
        /\ pr \in [Task -> {"none", "open", "closed", "merged", "noop"}]
    BY DEF Init, NoReceipt
  <2>5. recovery.task = NoTask
    BY DEF Init, Policy!NoRecovery
  <2>6. /\ queue \in Seq(Task) /\ cycle \in Task /\ checkpoint \in Task \cup {NoTask}
        /\ nextCycle \subseteq Task \X Worker /\ dispatched \subseteq Task
        /\ started \subseteq Task /\ target \in Targets
        /\ red \in 0 .. MaxRed /\ crashes \in 0 .. MaxCrash /\ lost \in 0 .. MaxLost
    BY <1>1, <1>2, <1>4 DEF Init
  <2>7. QED
    BY <2>1, <2>2, <2>3, <2>4, <2>5, <2>6 DEF FilesTyped
<1>6. FilesBacked
  <2>1. /\ graph = [t \in Managed |-> IF t = First THEN "RUNNING" ELSE "PENDING"]
        /\ state.completed = {} /\ campaign.completed = {} /\ campaign.status = "RUNNING"
        /\ dispatched = {First} /\ queue = Fifo /\ receipt.status = "NONE"
    BY DEF Init, NoReceipt
  <2>2. Dag!DependencySafety
    BY <1>3, <2>1 DEF Dag!DependencySafety
  <2>3. QED
    BY <2>1, <2>2 DEF FilesBacked, Started
<1>7. job = [a \in Agent |-> IdleJob]
  BY DEF Init
<1>8. IdleJob \in JobType
  BY IdleSound DEF JobSound
<1>9. Sound
  BY <1>5, <1>6, <1>7, <1>8, IdleSound DEF Sound
<1>10. Sole
  <2>1. job[Gate].pc = "idle"
    BY <1>1, <1>7 DEF IdleJob
  <2>2. /\ \A t \in Task : pr[t] = "none"
        /\ started = {} /\ cycle = First /\ state.current = First
    BY DEF Init
  <2>3. QED
    BY <2>1, <2>2 DEF Sole, OnlyCurrentOpen
<1>11. QED
  BY <1>9, <1>10

\* For any tasks, graph, queue and groups, every file keeps the shape its reader
\* validates, and no job stores or carries a record of another.
THEOREM CampaignTypeCorrect == Spec => []TypeOK
<1>1. Sound => TypeOK
  BY DEF Sound, FilesTyped, TypeOK
<1>2. Init => Bounded
  BY RecoveryAssumption DEF Init, Bounded, Policy!NoRecovery, Policy!PolicyAssumption
<1>3. QED
  BY <1>1, <1>2, SoundInit, SoundKept, SoleKept, StandingInit, StandingKept, AheadInit, AheadKept,
     BoundedKept, RecoveryInit, RecoveryKept, PTL DEF Spec

\* However jobs interleave and die: what state.json or campaign.json calls
\* completed was merged, a campaign is COMPLETED with its last merge, and a
\* managed task is dispatched only after the merges of those that it depends on.
THEOREM CompletionsAreMerged ==
    Spec => [](CompletedWasMerged /\ CampaignHonest /\ DispatchedAfterMerges)
<1>1. Sound => CompletedWasMerged /\ CampaignHonest /\ DispatchedAfterMerges
  <2> SUFFICES ASSUME Sound PROVE CompletedWasMerged /\ CampaignHonest /\ DispatchedAfterMerges
    OBVIOUS
  <2>1. CompletedWasMerged /\ CampaignHonest
    BY DEF Sound, FilesBacked, CompletedWasMerged, CampaignHonest
  <2>2. Deps \in [Managed -> SUBSET Managed]
    BY ManagedAssumption DEF Dag!GraphAssumption
  <2>3. DispatchedAfterMerges
    BY <2>2 DEF Sound, FilesBacked, Started, Dag!DependencySafety, DispatchedAfterMerges
  <2>4. QED
    BY <2>1, <2>3
<1>2. Init => Bounded
  BY RecoveryAssumption DEF Init, Bounded, Policy!NoRecovery, Policy!PolicyAssumption
<1>3. QED
  BY <1>1, <1>2, SoundInit, SoundKept, SoleKept, StandingInit, StandingKept, AheadInit, AheadKept,
     BoundedKept, RecoveryInit, RecoveryKept, PTL DEF Spec

-----------------------------------------------------------------------------
\* What each step makes of a job's record r: the record q.

Carries(q, r) ==
    Alike(q, r) /\ q.g0 = r.g0 /\ q.q0 = r.q0 /\ q.c0 = r.c0 /\ q.fresh = r.fresh

\* advance_queue's plan.
Plans(q, r) ==
    /\ r.pc = "advance" /\ state.current \in {NoTask, r.t} /\ r.t \in Task
    /\ r.t \in Managed => graph[r.t] = "RUNNING"
    /\ q.pc = (IF r.t \in Managed THEN "advGraph" ELSE "advCampaign")
    /\ q.t = r.t /\ q.cont = r.cont /\ q.led = r.led
    /\ q.g0 = graph /\ q.q0 = queue /\ q.c0 = cycle /\ q.fresh
    /\ q.st.current = q.nxt /\ q.st.completed = state.completed \cup {r.t}
    /\ q.st.iteration = state.iteration + 1 /\ q.st.status \in {"BLOCKED", "READY"}
    /\ r.t \notin Managed => q.g1 = graph
    /\ \/ /\ q.nxt \in Managed \cup {NoTask} /\ q.q1 = queue
          /\ r.t \notin Managed => q.nxt = NoTask
          /\ r.t \in Managed => Dag!AdvanceResult(graph, r.t, q.g1, q.nxt)
       \/ /\ queue # <<>> /\ q.nxt = Head(queue) /\ q.q1 = Tail(queue)
          /\ r.t \in Managed => /\ Dag!AdvanceResult(graph, r.t, q.g1, NoTask)
                                /\ ~Dag!UnfinishedWork(q.g1)

\* A job that goes to another step carries its record along.
LEMMA GoesOn ==
    ASSUME Sound, NEW a \in Agent, NEW pc, Goto(a, pc)
    PROVE  job'[a].pc = pc /\ Carries(job'[a], job[a])
<1>1. job \in [Agent -> JobType] /\ job[a] \in JobType
  BY DEF Sound
<1>2. job'[a] = [job[a] EXCEPT !.pc = pc]
  BY <1>1 DEF Goto, Become
<1>3. [job[a] EXCEPT !.pc = pc].pc = pc /\ Carries([job[a] EXCEPT !.pc = pc], job[a])
  BY <1>1, JobIs DEF Carries, Alike
<1>4. QED
  BY <1>2, <1>3

\* One that ends has none.
LEMMA EndsIdle == ASSUME Sound, NEW a \in Agent, EndJob(a) PROVE job'[a] = IdleJob
  BY DEF Sound, EndJob, Become

\* advance_queue plans a completion.
LEMMA AdvancePlans ==
    ASSUME Sound, NEW a \in Agent, AdvanceRead(a) PROVE Plans(job'[a], job[a])
<1> PICK r : r = job[a]
  OBVIOUS
<1> PICK t : t = r.t
  OBVIOUS
<1>1. /\ job \in [Agent -> JobType] /\ r \in JobType /\ r.pc = "advance" /\ t \in Task
      /\ state.current \in {NoTask, t}
  BY DEF Sound, JobSound, Named, AdvanceRead, At
<1>2. ASSUME NEW h, NEW n \in Managed \cup {NoTask}, Become(a, AdvancePlan(a, h, n)),
             t \in Managed => Dag!AdvanceResult(graph, t, h, n),
             t \notin Managed => h = graph /\ n = NoTask
      PROVE  Plans(job'[a], job[a])
  <2> DEFINE blocked == t \in Managed /\ n = NoTask /\ Dag!UnfinishedWork(h)
             fifo == n = NoTask /\ ~blocked /\ queue # <<>>
             next == IF fifo THEN Head(queue) ELSE n
             rest == RestOfQueue(fifo, n)
             s == IF blocked THEN "BLOCKED" ELSE "READY"
             st == [current |-> next, status |-> s,
                    completed |-> state.completed \cup {t},
                    iteration |-> state.iteration + 1]
             q == AdvancePlan(a, h, n)
  <2>1. \/ fifo /\ next = Head(queue) /\ rest = Tail(queue) /\ queue # <<>>
        \/ ~fifo /\ next = n /\ rest = queue
    <3>1. fifo => next = Head(queue) /\ rest = Tail(queue) /\ queue # <<>>
      BY DEF RestOfQueue
    <3>2. ~fifo => next = n /\ rest = (IF n = NoTask THEN queue ELSE RemoveQueueTask(queue, n))
      BY DEF RestOfQueue
    <3>3. ~fifo => rest = queue
      BY <3>2, QueueIsNotOfGraph
    <3>4. QED
      BY <3>1, <3>2, <3>3
  <2>2. fifo => n = NoTask /\ ~(t \in Managed /\ Dag!UnfinishedWork(h))
    OBVIOUS
  <2>3. s \in {"BLOCKED", "READY"}
    OBVIOUS
  <2>4. /\ st.current = next /\ st.completed = state.completed \cup {t}
        /\ st.iteration = state.iteration + 1 /\ st.status = s
    OBVIOUS
  <2>5. q = [r EXCEPT !.pc = FirstWrite(t), !.g0 = graph, !.g1 = h, !.nxt = next,
                      !.blocked = blocked, !.fresh = TRUE, !.c0 = cycle,
                      !.q0 = queue, !.q1 = rest, !.st = st]
    BY DEF AdvancePlan
  <2> HIDE DEF blocked, fifo, next, rest, st, s, q
  <2>6. /\ q.pc = FirstWrite(t) /\ q.t = t /\ q.cont = r.cont /\ q.led = r.led
        /\ q.g0 = graph /\ q.q0 = queue /\ q.c0 = cycle /\ q.fresh /\ q.g1 = h /\ q.nxt = next
        /\ q.q1 = rest /\ q.st = st
    BY <1>1, <2>5, JobIs
  <2>7. job'[a] = q
    BY <1>1, <1>2 DEF Become, q
  <2>8. t \in Managed => graph[t] = "RUNNING"
    BY <1>2 DEF Dag!AdvanceResult
  <2>9. q.pc = IF t \in Managed THEN "advGraph" ELSE "advCampaign"
    BY <2>6 DEF FirstWrite
  <2>10. Plans(q, r)
    BY <1>1, <1>2, <2>1, <2>2, <2>3, <2>4, <2>6, <2>8, <2>9 DEF Plans
  <2>11. QED
    BY <2>7, <2>10
<1>3. CASE t \notin Managed
  BY <1>2, <1>3 DEF AdvanceRead
<1>4. CASE t \in Managed
  <2>1. PICK n \in Managed \cup {NoTask} : \E h :
          Dag!AdvanceResult(graph, t, h, n) /\ Become(a, AdvancePlan(a, h, n))
    BY <1>4 DEF AdvanceRead
  <2>2. QED
    BY <1>2, <1>4, <2>1
<1>5. QED
  BY <1>3, <1>4

\* Parking reads the current task's node.
ParksNode(q, r) ==
    /\ r.pc = "park" /\ state.current = r.t /\ r.t \in Task /\ r.nxt = NoTask
    /\ q.t = r.t /\ q.cont = r.cont /\ r.cont = "park" /\ q.fresh /\ q.st = state /\ q.g0 = graph
    /\ IF r.t \in Managed
       THEN /\ q.pc = "parkGraph" /\ q.nxt \in Managed \cup {NoTask}
            /\ Dag!ParkResult(graph, r.t, q.g1, q.nxt)
       ELSE q.pc = "parkLedger" /\ q.led = ledger /\ q.nxt = NoTask

\* Parking starts from what the files say.
LEMMA ParkPlans ==
    ASSUME Sound, NEW a \in Agent, ParkRead(a) PROVE ParksNode(job'[a], job[a])
<1> PICK r : r = job[a]
  OBVIOUS
<1> PICK t : t = r.t
  OBVIOUS
<1>1. /\ job \in [Agent -> JobType] /\ r \in JobType /\ r.pc = "park" /\ t \in Task
      /\ state.current = t /\ r.nxt = NoTask /\ r.cont = "park"
  BY DEF Sound, JobSound, Named, Evident, ParkRead, At
<1> DEFINE p == [r EXCEPT !.fresh = TRUE, !.st = state, !.g0 = graph]
<1>2. CASE t \notin Managed
  <2> PICK q : q = [p EXCEPT !.pc = "parkLedger", !.led = ledger]
    OBVIOUS
  <2>1. job'[a] = q
    BY <1>1, <1>2 DEF ParkRead, Become
  <2>2. /\ q.pc = "parkLedger" /\ q.led = ledger /\ q.nxt = NoTask /\ q.t = t /\ q.cont = "park"
        /\ q.fresh /\ q.st = state /\ q.g0 = graph
    BY <1>1, JobIs
  <2>3. QED
    BY <1>1, <1>2, <2>1, <2>2 DEF ParksNode
<1>3. CASE t \in Managed
  <2>1. PICK n \in Managed \cup {NoTask} : \E h :
          /\ Dag!ParkResult(graph, t, h, n)
          /\ Become(a, [p EXCEPT !.pc = "parkGraph", !.g1 = h, !.nxt = n])
    BY <1>3 DEF ParkRead
  <2>2. PICK h : /\ Dag!ParkResult(graph, t, h, n)
                 /\ Become(a, [p EXCEPT !.pc = "parkGraph", !.g1 = h, !.nxt = n])
    BY <2>1
  <2> PICK q : q = [p EXCEPT !.pc = "parkGraph", !.g1 = h, !.nxt = n]
    OBVIOUS
  <2>3. job'[a] = q
    BY <1>1, <2>2 DEF Become
  <2>4. /\ q.pc = "parkGraph" /\ q.g1 = h /\ q.nxt = n /\ q.t = t /\ q.cont = "park"
        /\ q.fresh /\ q.st = state /\ q.g0 = graph
    BY <1>1, JobIs
  <2>5. QED
    BY <1>1, <1>3, <2>2, <2>3, <2>4 DEF ParksNode
<1>4. QED
  BY <1>2, <1>3

\* The ledger gets the record, and the new state is prepared.
ParksRecord(q, r) ==
    /\ r.pc = "parkLedger" /\ r.cont = "park" /\ r.t \in Task /\ r.nxt \in Managed \cup {NoTask}
    /\ ledger' = Upsert(r.led, r.t)
    /\ q.pc = "putState" /\ q.t = r.t /\ q.cont = r.cont /\ q.led = ledger'
    /\ q.nxt = r.nxt /\ q.fresh = r.fresh /\ q.q0 = queue /\ q.q1 = queue
    /\ q.st.current = r.nxt /\ q.st.completed = r.st.completed
    /\ q.st.iteration = r.st.iteration
    /\ q.st.status = (IF r.nxt = NoTask THEN "HUMAN_WAIT" ELSE "READY")

\* Once the record is in the ledger, the next state is that without the task.
LEMMA LedgerParks ==
    ASSUME Sound, NEW a \in Agent, ParkLedger(a) PROVE ParksRecord(job'[a], job[a])
<1> PICK r : r = job[a]
  OBVIOUS
<1> PICK n : n = r.nxt
  OBVIOUS
<1>1. /\ job \in [Agent -> JobType] /\ r \in JobType /\ r.pc = "parkLedger" /\ r.t \in Task
      /\ r.cont = "park" /\ n \in Managed \cup {NoTask}
  BY DEF Sound, JobSound, Named, Evident, ParkLedger, At
<1> DEFINE led == Upsert(r.led, r.t)
           rest == IF n = NoTask THEN queue ELSE RemoveQueueTask(queue, n)
           s == IF n = NoTask THEN "HUMAN_WAIT" ELSE "READY"
           st == [r.st EXCEPT !.current = n, !.status = s]
           q == [r EXCEPT !.pc = "putState", !.led = led, !.q0 = queue, !.q1 = rest, !.st = st]
<1>2. ledger' = led /\ Become(a, q)
  BY DEF ParkLedger
<1>3. rest = queue
  BY <1>1, QueueIsNotOfGraph
<1> HIDE DEF led, rest, s
<1>4. r.st \in States
  BY <1>1, JobIs
<1>5. /\ st.current = n /\ st.status = s /\ st.completed = r.st.completed
      /\ st.iteration = r.st.iteration
  BY <1>4 DEF States
<1> HIDE DEF st
<1>6. /\ q.pc = "putState" /\ q.t = r.t /\ q.cont = r.cont /\ q.led = led /\ q.nxt = n
      /\ q.fresh = r.fresh /\ q.q0 = queue /\ q.q1 = rest /\ q.st = st
  BY <1>1, JobIs
<1>7. job'[a] = q
  BY <1>1, <1>2 DEF Become
<1> HIDE DEF q
<1>8. ParksRecord(q, r)
  BY <1>1, <1>2, <1>3, <1>5, <1>6 DEF ParksRecord, led, s
<1>9. QED
  BY <1>7, <1>8

\* A reconciliation begins.
Reconciles(q, r) ==
    \/ q = IdleJob /\ r.pc = "reviews"
    \/ /\ r.pc = "reviews" /\ r.todo # <<>> /\ q.t = Head(r.todo) /\ q.t \in ToSet(ledger)
       /\ q.t \in Task /\ q.led = Without(ledger, q.t) /\ q.g0 = graph /\ Merged(q.t)
       /\ \/ /\ q.t \in Managed /\ q.pc = "recGraph" /\ q.cont = "review"
             /\ graph[q.t] = "WAITING_REVIEW"
             /\ Dag!ReconcileResult(graph, q.t, q.g1, q.nxt) /\ q.nxt \in Managed \cup {NoTask}
          \/ /\ q.t \in Managed /\ q.pc = "recRead" /\ q.cont = "review"
             /\ graph[q.t] = "COMPLETED"
             /\ q.nxt \in Managed \cup {NoTask} /\ RunningTask = {q.nxt} \cap Managed
          \/ /\ q.t \notin Managed /\ q.cont = "legacy" /\ q.nxt = NoTask
             /\ q.pc = (IF q.t \in state.completed THEN "recClear" ELSE "advance")

\* A reconciliation that finds a merge chooses how to record it.
LEMMA ReviewReconciles ==
    ASSUME Sound, NEW a \in Agent, ReconcileRead(a) PROVE Reconciles(job'[a], job[a])
<1> PICK r : r = job[a]
  OBVIOUS
<1> PICK t : t = Head(r.todo)
  OBVIOUS
<1>1. /\ job \in [Agent -> JobType] /\ r \in JobType /\ r.pc = "reviews" /\ r.todo # <<>>
      /\ t \in ToSet(ledger) /\ LateMerged(t) /\ r.todo \in Seq(Task)
  <2>1. r \in JobType
    BY DEF Sound
  <2>2. r.todo \in Seq(Task)
    BY <2>1, JobIs DEF Records
  <2>3. QED
    BY <2>1, <2>2 DEF Sound, ReconcileRead, At
<1>2. t \in Task
  BY <1>1, TailIsQueued
<1>3. Merged(t)
  BY <1>1 DEF LateMerged, Merged
<1> DEFINE p == [r EXCEPT !.t = t, !.led = Without(ledger, t), !.nxt = NoTask, !.g0 = graph]
<1>4. CASE EndJob(a)
  BY <1>1, <1>4, EndsIdle DEF Reconciles
<1>5. CASE t \in Managed /\ graph[t] = "WAITING_REVIEW" /\ ~EndJob(a)
  <2>1. PICK n \in Managed \cup {NoTask} : \E h :
          /\ Dag!ReconcileResult(graph, t, h, n)
          /\ Become(a, [p EXCEPT !.pc = "recGraph", !.cont = "review", !.g1 = h, !.nxt = n])
    BY <1>5 DEF ReconcileRead
  <2>2. PICK h :
          /\ Dag!ReconcileResult(graph, t, h, n)
          /\ Become(a, [p EXCEPT !.pc = "recGraph", !.cont = "review", !.g1 = h, !.nxt = n])
    BY <2>1
  <2> PICK q : q = [p EXCEPT !.pc = "recGraph", !.cont = "review", !.g1 = h, !.nxt = n]
    OBVIOUS
  <2>3. job'[a] = q
    BY <1>1, <2>2 DEF Become
  <2>4. /\ q.pc = "recGraph" /\ q.cont = "review" /\ q.g1 = h /\ q.nxt = n /\ q.t = t
        /\ q.led = Without(ledger, t) /\ q.g0 = graph
    BY <1>1, JobIs
  <2>5. Reconciles(q, r)
    BY <1>1, <1>2, <1>3, <1>5, <2>2, <2>4 DEF Reconciles
  <2>6. QED
    BY <2>3, <2>5
<1>6. CASE t \in Managed /\ graph[t] = "COMPLETED" /\ ~EndJob(a)
  <2>1. PICK n \in Managed \cup {NoTask} :
          /\ RunningTask = {n} \cap Managed
          /\ Become(a, [p EXCEPT !.pc = "recRead", !.cont = "review", !.nxt = n])
    BY <1>6 DEF ReconcileRead
  <2> PICK q : q = [p EXCEPT !.pc = "recRead", !.cont = "review", !.nxt = n]
    OBVIOUS
  <2>2. job'[a] = q
    BY <1>1, <2>1 DEF Become
  <2>3. /\ q.pc = "recRead" /\ q.cont = "review" /\ q.nxt = n /\ q.t = t
        /\ q.led = Without(ledger, t) /\ q.g0 = graph
    BY <1>1, JobIs
  <2>4. Reconciles(q, r)
    BY <1>1, <1>2, <1>3, <1>6, <2>1, <2>3 DEF Reconciles
  <2>5. QED
    BY <2>2, <2>4
<1>7. CASE t \notin Managed /\ ~EndJob(a)
  <2> PICK pc : pc = IF t \in state.completed THEN "recClear" ELSE "advance"
    OBVIOUS
  <2> PICK q : q = [p EXCEPT !.pc = pc, !.cont = "legacy"]
    OBVIOUS
  <2>1. job'[a] = q
    <3>1. Become(a, q)
      BY <1>7 DEF ReconcileRead
    <3>2. QED
      BY <1>1, <3>1 DEF Become
  <2>2. /\ q.pc = pc /\ q.cont = "legacy" /\ q.nxt = NoTask /\ q.t = t
        /\ q.led = Without(ledger, t) /\ q.g0 = graph
    BY <1>1, JobIs
  <2>3. Reconciles(q, r)
    BY <1>1, <1>2, <1>3, <1>7, <2>2 DEF Reconciles
  <2>4. QED
    BY <2>1, <2>3
<1>8. QED
  BY <1>4, <1>5, <1>6, <1>7 DEF ReconcileRead

\* The reconciled state is prepared: another current task stays current.
Prepares(q, r) ==
    /\ r.pc = "recRead" /\ r.t \in Task /\ r.nxt \in Managed \cup {NoTask}
    /\ q.pc = "putState" /\ q.t = r.t /\ q.cont = r.cont /\ q.led = r.led
    /\ q.fresh /\ q.q0 = queue /\ q.q1 = queue
    /\ q.st.completed = state.completed \cup {r.t}
    /\ q.st.iteration = state.iteration + (IF r.t \in state.completed THEN 0 ELSE 1)
    /\ IF state.current \in {NoTask, r.t}
       THEN /\ q.nxt = r.nxt /\ q.st.current = r.nxt
            /\ q.st.status = (IF r.nxt = NoTask /\ r.led # <<>> THEN "HUMAN_WAIT" ELSE "READY")
       ELSE q.nxt = NoTask /\ q.st.current = state.current /\ q.st.status = "RUNNING"

\* Its state is computed from the one that it reads by then.
LEMMA ReconcilePrepares ==
    ASSUME Sound, NEW a \in Agent, ReconcileState(a) PROVE Prepares(job'[a], job[a])
<1> PICK r : r = job[a]
  OBVIOUS
<1> PICK t : t = r.t
  OBVIOUS
<1>1. /\ job \in [Agent -> JobType] /\ r \in JobType /\ r.pc = "recRead" /\ t \in Task
      /\ r.nxt \in Managed \cup {NoTask}
  BY DEF Sound, JobSound, Named, ReconcileState, At
<1> DEFINE cur == KeptCurrent(t)
           n == IF cur = NoTask THEN r.nxt ELSE NoTask
           next == IF cur # NoTask THEN cur ELSE n
           rest == IF n = NoTask THEN queue ELSE RemoveQueueTask(queue, n)
           s == IF cur # NoTask THEN "RUNNING"
                ELSE IF n = NoTask /\ r.led # <<>> THEN "HUMAN_WAIT" ELSE "READY"
           st == [current |-> next, status |-> s,
                  completed |-> state.completed \cup {t}, iteration |-> Iteration(t)]
           q == [r EXCEPT !.pc = "putState", !.fresh = TRUE, !.nxt = n, !.q0 = queue,
                          !.q1 = rest, !.st = st]
<1>2. Become(a, q)
  BY DEF ReconcileState
<1>3. n \in Managed \cup {NoTask}
  BY <1>1
<1>4. rest = queue
  BY <1>3, QueueIsNotOfGraph
<1>5. IF state.current \in {NoTask, t}
      THEN /\ n = r.nxt /\ next = r.nxt
           /\ s = (IF r.nxt = NoTask /\ r.led # <<>> THEN "HUMAN_WAIT" ELSE "READY")
      ELSE n = NoTask /\ next = state.current /\ s = "RUNNING"
  BY DEF KeptCurrent
<1>6. /\ st.current = next /\ st.status = s /\ st.completed = state.completed \cup {t}
      /\ st.iteration = state.iteration + (IF t \in state.completed THEN 0 ELSE 1)
  BY DEF Iteration
<1> HIDE DEF cur, n, next, rest, s, st
<1>7. /\ q.pc = "putState" /\ q.t = t /\ q.cont = r.cont /\ q.led = r.led /\ q.nxt = n
      /\ q.fresh /\ q.q0 = queue /\ q.q1 = rest /\ q.st = st
  BY <1>1, JobIs
<1>8. job'[a] = q
  BY <1>1, <1>2 DEF Become
<1> HIDE DEF q
<1>9. Prepares(q, r)
  BY <1>1, <1>4, <1>5, <1>6, <1>7 DEF Prepares
<1>10. QED
  BY <1>8, <1>9

-----------------------------------------------------------------------------
\* What is read of the files, but for the campaign and the receipt.
Held == UNCHANGED <<graph, ledger, state, queue, cycle, dispatched>>

\* Where nothing is under way.
Resting == {"idle", "session", "reviews", "poll", "park", "advance"}

\* A write that is refused, since what it is to replace was changed.
Stale(r) ==
    \/ r.pc \in GraphWrite /\ graph # r.g0
    \/ r.pc = "putState" /\ ~r.fresh
    \/ r.pc = "putQueue" /\ queue # r.q0
    \/ r.pc = "advCycle" /\ cycle # r.c0

\* A job ends: with nothing under way, with its work done, or refused.
Ends(q, r) ==
    /\ q = IdleJob /\ Held
    /\ \/ r.pc \in Resting \/ Stale(r)
       \/ r.pc = "after" /\ r.cont \in {"receipt", "gate"}
       \/ r.pc = "campaign" /\ r.cont = "park" /\ r.nxt = NoTask

\* It goes on to what comes next in its workflow.
Walks(q, r) ==
    /\ Carries(q, r) /\ Held
    /\ \/ r.pc = "advCampaign" /\ q.pc = "putState"
       \/ r.pc = "advCycle" /\ r.nxt = NoTask /\ q.pc = "after"
       \/ r.pc = "after" /\ r.cont = "legacy" /\ q.pc = "recClear"
       \/ r.pc = "campaign" /\ r.nxt # NoTask /\ q.pc = "cycle"
       \/ r.pc = "campaign" /\ r.nxt = NoTask /\ r.cont = "review" /\ q.pc = "recLedger"
       \/ r.pc = "recClearCampaign" /\ q.pc = "recLedger"

\* It looks at another record, at the receipt or at the pull request.
Looks(q, r) ==
    /\ Held
    /\ \/ r.pc = "reviews" /\ q.pc = "reviews" /\ q.cont = "none" /\ q.nxt = NoTask
       \/ /\ r.pc = "reviews" /\ q.pc = "poll" /\ q.t = state.current /\ q.cont = "none"
          /\ q.t \in Task
       \/ /\ r.pc = "poll" /\ q.t = r.t
          /\ \/ q.pc = "advance" /\ q.cont = "receipt"
             \/ q.pc = "park" /\ q.cont = "park"

WritesGraph(q, r) ==
    /\ graph = r.g0 /\ graph' = r.g1
    /\ UNCHANGED <<ledger, state, queue, cycle, dispatched>>
    /\ q.t = r.t /\ q.cont = r.cont /\ q.nxt = r.nxt /\ q.st = r.st /\ q.q1 = r.q1
    /\ q.fresh = r.fresh /\ q.q0 = r.q0 /\ q.c0 = r.c0 /\ q.g0 = r.g0 /\ q.g1 = r.g1
    /\ \/ r.pc = "advGraph" /\ q.pc = "advCampaign" /\ q.led = r.led
       \/ r.pc = "recGraph" /\ q.pc = "recRead" /\ q.led = r.led
       \/ r.pc = "parkGraph" /\ q.pc = "parkLedger" /\ q.led = ledger

WritesState(q, r) ==
    /\ r.pc = "putState" /\ q.pc = "putQueue" /\ r.fresh /\ state' = r.st
    /\ UNCHANGED <<graph, ledger, queue, cycle, dispatched>>
    /\ Alike(q, r) /\ q.g0 = r.g0 /\ q.q0 = r.q0 /\ q.c0 = r.c0

WritesQueue(q, r) ==
    /\ r.pc = "putQueue" /\ queue = r.q0 /\ queue' = r.q1
    /\ UNCHANGED <<graph, ledger, state, cycle, dispatched>>
    /\ Carries(q, r)
    /\ q.pc = (IF r.cont \in {"park", "review"} THEN "campaign" ELSE "advCycle")

WritesCycle(q, r) ==
    /\ \/ r.pc = "cycle"
       \/ r.pc = "advCycle" /\ r.nxt # NoTask /\ cycle = r.c0
    /\ q.pc = "dispatch" /\ cycle' = r.nxt /\ r.nxt \in Task
    /\ UNCHANGED <<graph, ledger, state, queue, dispatched>>
    /\ Carries(q, r)

Dispatches(q, r) ==
    /\ r.pc = "dispatch" /\ dispatched' = dispatched \cup {r.nxt} /\ r.nxt \in Task
    /\ UNCHANGED <<graph, ledger, state, queue, cycle>>
    /\ IF r.cont = "park" THEN q = IdleJob
       ELSE Carries(q, r) /\ q.pc = (IF r.cont = "review" THEN "recLedger" ELSE "after")

ClearsState(q, r) ==
    /\ r.pc = "recClear" /\ q.pc = "recClearCampaign" /\ Held
    /\ q.t = r.t /\ q.cont = r.cont /\ q.led = r.led /\ q.nxt = r.nxt

WritesLedger(q, r) ==
    /\ r.pc = "recLedger" /\ ledger' = r.led
    /\ UNCHANGED <<graph, state, queue, cycle, dispatched>>
    /\ q.pc = "reviews" /\ q.cont = "none" /\ q.nxt = NoTask

\* The step of a job.
Moves(q, r) ==
    \/ Held /\ (Plans(q, r) \/ ParksNode(q, r) \/ Reconciles(q, r) \/ Prepares(q, r))
    \/ ParksRecord(q, r) /\ UNCHANGED <<graph, state, queue, cycle, dispatched>>
    \/ Ends(q, r) \/ Walks(q, r) \/ Looks(q, r)
    \/ WritesGraph(q, r) \/ WritesState(q, r) \/ WritesQueue(q, r) \/ WritesCycle(q, r)
    \/ Dispatches(q, r) \/ ClearsState(q, r) \/ WritesLedger(q, r)

\* Each step of JobStep is one of these.
LEMMA JobMovesOn ==
    ASSUME Sound, NEW a \in Agent, JobStep(a)
    PROVE  Moves(job'[a], job[a]) /\ UNCHANGED <<started, pr, target, crashes>>
<1> PICK r : r = job[a]
  OBVIOUS
<1> PICK q : q = job'[a]
  OBVIOUS
<1>0. /\ job \in [Agent -> JobType] /\ r \in JobType /\ Named(r) /\ Activates(r) /\ Evident(r)
  BY DEF Sound, JobSound
<1>1. UNCHANGED <<started, pr, target, crashes>>
  BY DEF JobStep, AdvanceRefused, AdvanceRead, AdvanceCampaign, AdvanceCycle, AfterAdvance,
         PutGraph, PutStateFile, PutQueueFile, Dispatch, PutCampaign, PutCycle, ParkRefused,
         ParkRead, ParkLedger, ReviewSkip, ReconcileRead, ReconcileState, ReconcileClearState,
         ReconcileClearCampaign, ReconcileLedger, MonitorReceipt, MonitorPoll,
         SessionPublish, SessionTimeout, files, world
<1>2. CASE AdvanceRead(a) \/ ParkRead(a) \/ ReconcileRead(a) \/ ReconcileState(a)
  <2>1. Held
    BY <1>2 DEF AdvanceRead, ParkRead, ReconcileRead, ReconcileState, files, world, Held
  <2>2. Plans(q, r) \/ ParksNode(q, r) \/ Reconciles(q, r) \/ Prepares(q, r)
    BY <1>2, AdvancePlans, ParkPlans, ReviewReconciles, ReconcilePrepares
  <2>3. QED
    BY <1>1, <2>1, <2>2 DEF Moves
<1>3. CASE ParkLedger(a)
  <2>1. UNCHANGED <<graph, state, queue, cycle, dispatched>>
    BY <1>3 DEF ParkLedger, world
  <2>2. QED
    BY <1>1, <1>3, <2>1, LedgerParks DEF Moves
<1>4. CASE AdvanceRefused(a) \/ ParkRefused(a) \/ SessionTimeout(a) \/ SessionPublish(a)
  <2>1. Held /\ EndJob(a) /\ r.pc \in Resting
    BY <1>4 DEF AdvanceRefused, ParkRefused, SessionTimeout, SessionPublish, files, world, Held,
                At, Resting
  <2>2. Ends(q, r)
    BY <2>1, EndsIdle DEF Ends
  <2>3. QED
    BY <1>1, <2>2 DEF Moves
<1>5. CASE AdvanceCampaign(a) \/ ReconcileClearCampaign(a)
  <2>1. /\ Held
        /\ \/ r.pc = "advCampaign" /\ Goto(a, "putState")
           \/ r.pc = "recClearCampaign" /\ Goto(a, "recLedger")
    BY <1>5 DEF AdvanceCampaign, ReconcileClearCampaign, world, Held, At
  <2>2. Walks(q, r)
    BY <2>1, GoesOn DEF Walks
  <2>3. QED
    BY <1>1, <2>2 DEF Moves
<1>6. CASE AdvanceCycle(a)
  <2>1. r.pc = "advCycle" /\ UNCHANGED <<graph, ledger, state, queue, dispatched>>
    BY <1>6 DEF AdvanceCycle, At, world
  <2>2. r.nxt \in Task \cup {NoTask}
    BY <1>0, JobIs DEF Names
  <2>3. CASE r.nxt = NoTask
    <3>1. Goto(a, "after") /\ Held
      BY <1>6, <2>1, <2>3 DEF AdvanceCycle, Held
    <3>2. Walks(q, r)
      BY <2>1, <2>3, <3>1, GoesOn DEF Walks
    <3>3. QED
      BY <1>1, <3>2 DEF Moves
  <2>4. CASE r.nxt # NoTask /\ cycle = r.c0
    <3>1. Goto(a, "dispatch") /\ cycle' = r.nxt
      BY <1>6, <2>4 DEF AdvanceCycle
    <3>2. WritesCycle(q, r)
      BY <2>1, <2>2, <2>4, <3>1, GoesOn DEF WritesCycle
    <3>3. QED
      BY <1>1, <3>2 DEF Moves
  <2>5. CASE r.nxt # NoTask /\ cycle # r.c0
    <3>1. EndJob(a) /\ Held
      BY <1>6, <2>1, <2>5 DEF AdvanceCycle, Held
    <3>2. Ends(q, r)
      BY <2>1, <2>5, <3>1, EndsIdle DEF Ends, Stale
    <3>3. QED
      BY <1>1, <3>2 DEF Moves
  <2>6. QED
    BY <2>3, <2>4, <2>5
<1>7. CASE AfterAdvance(a)
  <2>1. /\ r.pc = "after" /\ Held
        /\ \/ r.cont \in {"receipt", "gate"} /\ EndJob(a)
           \/ r.cont = "legacy" /\ Goto(a, "recClear")
    BY <1>7 DEF AfterAdvance, At, world, Held
  <2>2. Ends(q, r) \/ Walks(q, r)
    BY <2>1, GoesOn, EndsIdle DEF Ends, Walks
  <2>3. QED
    BY <1>1, <2>2 DEF Moves
<1>8. CASE PutGraph(a)
  <2>1. /\ r.pc \in GraphWrite /\ UNCHANGED <<ledger, state, queue, cycle, dispatched>>
    BY <1>8 DEF PutGraph, world, GraphWrite
  <2>2. CASE graph # r.g0
    <3>1. EndJob(a) /\ Held
      BY <1>8, <2>1, <2>2 DEF PutGraph, SameGraph, Held
    <3>2. Ends(q, r)
      BY <2>1, <2>2, <3>1, EndsIdle DEF Ends, Stale
    <3>3. QED
      BY <1>1, <3>2 DEF Moves
  <2>3. CASE graph = r.g0
    <3>1. /\ graph' = r.g1
          /\ \/ r.pc = "advGraph" /\ Goto(a, "advCampaign")
             \/ r.pc = "parkGraph" /\ Become(a, [r EXCEPT !.pc = "parkLedger", !.led = ledger])
             \/ r.pc = "recGraph" /\ Goto(a, "recRead")
      BY <1>8, <2>3 DEF PutGraph, SameGraph, At
    <3>2. CASE r.pc = "parkGraph"
      <4> PICK p : p = [r EXCEPT !.pc = "parkLedger", !.led = ledger]
        OBVIOUS
      <4>1. q = p
        BY <1>0, <3>1, <3>2 DEF Become
      <4>2. /\ p.pc = "parkLedger" /\ p.led = ledger
            /\ p.t = r.t /\ p.cont = r.cont /\ p.nxt = r.nxt /\ p.st = r.st /\ p.q1 = r.q1
            /\ p.fresh = r.fresh /\ p.q0 = r.q0 /\ p.c0 = r.c0 /\ p.g0 = r.g0 /\ p.g1 = r.g1
        BY <1>0, JobIs
      <4>3. WritesGraph(q, r)
        BY <2>1, <2>3, <3>1, <3>2, <4>1, <4>2 DEF WritesGraph
      <4>4. QED
        BY <1>1, <4>3 DEF Moves
    <3>3. CASE r.pc # "parkGraph"
      <4>1. /\ Carries(q, r)
            /\ \/ r.pc = "advGraph" /\ q.pc = "advCampaign"
               \/ r.pc = "recGraph" /\ q.pc = "recRead"
        BY <3>1, <3>3, GoesOn
      <4>2. WritesGraph(q, r)
        BY <2>1, <2>3, <3>1, <4>1 DEF WritesGraph, Carries, Alike
      <4>3. QED
        BY <1>1, <4>2 DEF Moves
    <3>4. QED
      BY <3>2, <3>3
  <2>4. QED
    BY <2>2, <2>3
<1>9. CASE PutStateFile(a)
  <2>1. r.pc = "putState" /\ UNCHANGED <<graph, ledger, queue, cycle, dispatched>>
    BY <1>9 DEF PutStateFile, At, world
  <2>2. CASE ~r.fresh
    <3>1. EndJob(a) /\ Held
      BY <1>9, <2>1, <2>2 DEF PutStateFile, SameState, Held
    <3>2. Ends(q, r)
      BY <2>1, <2>2, <3>1, EndsIdle DEF Ends, Stale
    <3>3. QED
      BY <1>1, <3>2 DEF Moves
  <2>3. CASE r.fresh
    <3> PICK p : p = [r EXCEPT !.pc = "putQueue", !.fresh = FALSE]
      OBVIOUS
    <3>1. q = p /\ state' = r.st
      BY <1>9, <2>3 DEF PutStateFile, SameState, PutState
    <3>2. p.pc = "putQueue" /\ Alike(p, r) /\ p.g0 = r.g0 /\ p.q0 = r.q0 /\ p.c0 = r.c0
      BY <1>0, JobIs DEF Alike
    <3>3. WritesState(q, r)
      BY <2>1, <2>3, <3>1, <3>2 DEF WritesState
    <3>4. QED
      BY <1>1, <3>3 DEF Moves
  <2>4. QED
    BY <2>2, <2>3
<1>10. CASE PutQueueFile(a)
  <2>1. r.pc = "putQueue" /\ UNCHANGED <<graph, ledger, state, cycle, dispatched>>
    BY <1>10 DEF PutQueueFile, At, world
  <2>2. CASE queue # r.q0
    <3>1. EndJob(a) /\ Held
      BY <1>10, <2>1, <2>2 DEF PutQueueFile, Held
    <3>2. Ends(q, r)
      BY <2>1, <2>2, <3>1, EndsIdle DEF Ends, Stale
    <3>3. QED
      BY <1>1, <3>2 DEF Moves
  <2>3. CASE queue = r.q0
    <3> PICK pc : pc = IF r.cont \in {"park", "review"} THEN "campaign" ELSE "advCycle"
      OBVIOUS
    <3>1. queue' = r.q1 /\ Goto(a, pc)
      BY <1>10, <2>3 DEF PutQueueFile
    <3>2. WritesQueue(q, r)
      BY <2>1, <2>3, <3>1, GoesOn DEF WritesQueue
    <3>3. QED
      BY <1>1, <3>2 DEF Moves
  <2>4. QED
    BY <2>2, <2>3
<1>11. CASE Dispatch(a)
  <2>1. /\ r.pc = "dispatch" /\ dispatched' = dispatched \cup {r.nxt} /\ r.nxt \in Task
        /\ UNCHANGED <<graph, ledger, state, queue, cycle>>
    BY <1>0, <1>11 DEF Dispatch, At, files, Named
  <2>2. IF r.cont = "park" THEN EndJob(a)
        ELSE Goto(a, IF r.cont = "review" THEN "recLedger" ELSE "after")
    BY <1>11 DEF Dispatch
  <2>3. Dispatches(q, r)
    BY <2>1, <2>2, GoesOn, EndsIdle DEF Dispatches
  <2>4. QED
    BY <1>1, <2>3 DEF Moves
<1>12. CASE PutCampaign(a)
  <2>1. /\ r.pc = "campaign" /\ Held /\ r.cont \in {"park", "review"}
        /\ IF r.nxt # NoTask THEN Goto(a, "cycle")
           ELSE IF r.cont = "park" THEN EndJob(a) ELSE Goto(a, "recLedger")
    BY <1>0, <1>12 DEF PutCampaign, At, world, Held, Named
  <2>2. Ends(q, r) \/ Walks(q, r)
    BY <2>1, GoesOn, EndsIdle DEF Ends, Walks
  <2>3. QED
    BY <1>1, <2>2 DEF Moves
<1>13. CASE PutCycle(a)
  <2>1. /\ r.pc = "cycle" /\ UNCHANGED <<graph, ledger, state, queue, dispatched>>
        /\ cycle' = r.nxt /\ Goto(a, "dispatch") /\ r.nxt \in Task
    BY <1>0, <1>13 DEF PutCycle, At, world, Named
  <2>2. WritesCycle(q, r)
    BY <2>1, GoesOn DEF WritesCycle
  <2>3. QED
    BY <1>1, <2>2 DEF Moves
<1>14. CASE ReviewSkip(a)
  <2> PICK p : p = [r EXCEPT !.todo = Tail(r.todo)]
    OBVIOUS
  <2>1. r.pc = "reviews" /\ Held /\ Become(a, p)
    BY <1>14 DEF ReviewSkip, At, files, world, Held
  <2>2. q = p
    BY <1>0, <2>1 DEF Become
  <2>3. p.pc = r.pc /\ p.cont = r.cont /\ p.nxt = r.nxt
    BY <1>0, JobIs
  <2>4. Looks(q, r)
    BY <1>0, <2>1, <2>2, <2>3 DEF Looks, Named
  <2>5. QED
    BY <1>1, <2>4 DEF Moves
<1>15. CASE MonitorReceipt(a)
  <2>1. r.pc = "reviews" /\ Held
    BY <1>15 DEF MonitorReceipt, At, files, world, Held
  <2>2. CASE EndJob(a)
    BY <1>1, <2>1, <2>2, EndsIdle DEF Ends, Resting, Moves
  <2>3. CASE ~EndJob(a)
    <3> PICK p : p = [r EXCEPT !.pc = "poll", !.t = r.rcpt.task]
      OBVIOUS
    <3>1. Become(a, p) /\ r.rcpt.task = state.current /\ r.rcpt.task \in Task
      BY <1>0, <1>15, <2>3 DEF MonitorReceipt, Named
    <3>2. q = p
      BY <1>0, <3>1 DEF Become
    <3>3. p.pc = "poll" /\ p.t = r.rcpt.task /\ p.cont = r.cont
      BY <1>0, JobIs
    <3>4. Looks(q, r)
      BY <1>0, <2>1, <3>1, <3>2, <3>3 DEF Looks, Named
    <3>5. QED
      BY <1>1, <3>4 DEF Moves
  <2>4. QED
    BY <2>2, <2>3
<1>16. CASE MonitorPoll(a)
  <2>1. r.pc = "poll" /\ Held
    BY <1>16 DEF MonitorPoll, At, files, world, Held
  <2>2. PICK pc, cont : /\ Become(a, [r EXCEPT !.pc = pc, !.cont = cont])
                        /\ \/ pc = "advance" /\ cont = "receipt"
                           \/ pc = "park" /\ cont = "park"
    BY <1>16 DEF MonitorPoll
  <2> PICK p : p = [r EXCEPT !.pc = pc, !.cont = cont]
    OBVIOUS
  <2>3. q = p
    BY <1>0, <2>2 DEF Become
  <2>4. p.pc = pc /\ p.cont = cont /\ p.t = r.t
    BY <1>0, JobIs
  <2>5. Looks(q, r)
    BY <2>1, <2>2, <2>3, <2>4 DEF Looks
  <2>6. QED
    BY <1>1, <2>5 DEF Moves
<1>17. CASE ReconcileClearState(a)
  <2> PICK p : p = [r EXCEPT !.pc = "recClearCampaign", !.st = state]
    OBVIOUS
  <2>1. r.pc = "recClear" /\ Held /\ q = p
    BY <1>17 DEF ReconcileClearState, At, PutState, world, Held
  <2>2. /\ p.pc = "recClearCampaign" /\ p.t = r.t /\ p.cont = r.cont /\ p.led = r.led
        /\ p.nxt = r.nxt
    BY <1>0, JobIs
  <2>3. ClearsState(q, r)
    BY <2>1, <2>2 DEF ClearsState
  <2>4. QED
    BY <1>1, <2>3 DEF Moves
<1>18. CASE ReconcileLedger(a)
  <2> PICK p : p = [IdleJob EXCEPT !.pc = "reviews", !.rcpt = r.rcpt, !.todo = Tail(r.todo)]
    OBVIOUS
  <2>1. /\ r.pc = "recLedger" /\ ledger' = r.led /\ Become(a, p)
        /\ UNCHANGED <<graph, state, queue, cycle, dispatched>>
    BY <1>18 DEF ReconcileLedger, At, world
  <2>2. q = p
    BY <1>0, <2>1 DEF Become
  <2>3. p.pc = "reviews" /\ p.cont = "none" /\ p.nxt = NoTask
    BY DEF IdleJob
  <2>4. WritesLedger(q, r)
    BY <2>1, <2>2, <2>3 DEF WritesLedger
  <2>5. QED
    BY <1>1, <2>4 DEF Moves
<1>19. QED
  BY <1>2, <1>3, <1>4, <1>5, <1>6, <1>7, <1>8, <1>9, <1>10, <1>11, <1>12, <1>13, <1>14, <1>15,
     <1>16, <1>17, <1>18
     DEF JobStep

-----------------------------------------------------------------------------
\* One concurrency group: then one job at most moves the campaign, the gate's in
\* a self-hosted project, the group's in any other.
OneGroup == Worker = {MainWorker}

\* The group whose jobs move the campaign.
Actor == IF target = "self" THEN Gate ELSE MainWorker

\* A session may have been created for the cycle task, a pull request opened
\* for a session, and the campaign's current task shown to be RUNNING.
SameCampaign ==
    /\ UNCHANGED <<graph, ledger, queue, cycle, dispatched, target>>
    /\ state'.current = state.current /\ state'.completed = state.completed
    /\ state'.iteration = state.iteration
    /\ started' \in {started, started \cup {cycle}}
    /\ \A t \in Task : pr'[t] # "none" => pr[t] # "none" \/ t \in started

\* A job begins, or the gate asks for a merge or for a repair.
Begins(q, r) ==
    /\ target # "self" => /\ r.pc = "idle" /\ q.pc \in {"reviews", "session"}
                          /\ q.cont = "none" /\ state'.status \in {state.status, "RUNNING"}
    /\ \/ q.pc = "reviews" /\ q.nxt = NoTask
       \/ q.pc \in {"session", "status", "repair", "idle"}
       \/ q.pc = "merge" /\ q.t = state.current
       \/ r.pc = "merge" /\ q.pc = "advance" /\ q.t = r.t /\ q.cont = "gate"

\* Another job or the outside world moves.
StandsBy(q, r) ==
    /\ q = r \/ q = [r EXCEPT !.fresh = FALSE]
    /\ target # "self" => q = r /\ state'.status \in {state.status, "RUNNING"}

\* What any step makes of the record r of that group's job.
OneMoves(q, r) ==
    \/ Moves(q, r) /\ UNCHANGED <<started, pr, target, crashes>>
    \/ q = IdleJob /\ SameCampaign /\ state' = state /\ crashes' # 0
    \/ SameCampaign /\ crashes' = crashes /\ Begins(q, r)
    \/ SameCampaign /\ (crashes' = 0 => crashes = 0) /\ StandsBy(q, r)

\* What is not of the campaign's own jobs.
LEMMA PrStandsBy ==
    ASSUME Sound, NEW a \in Agent, NEW t \in Task, a = Actor,
           OpenPr(t) \/ MergePr(t) \/ ClosePr(t) \/ ReopenPr(t)
    PROVE  OneMoves(job'[a], job[a])
<1>1. pr \in [Task -> {"none", "open", "closed", "merged", "noop"}]
  BY DEF Sound, FilesTyped
<1>2. PICK s : SetPr(t, s) /\ (t \in started \/ pr[t] # "none")
  BY DEF OpenPr, MergePr, ClosePr, ReopenPr
<1>3. /\ UNCHANGED <<graph, ledger, queue, cycle, dispatched, target, state, started, crashes, job>>
      /\ pr' = [pr EXCEPT ![t] = s]
  BY <1>2 DEF SetPr, files
<1>4. \A u \in Task : pr'[u] # "none" => pr[u] # "none" \/ u \in started
  BY <1>1, <1>2, <1>3
<1>5. SameCampaign /\ StandsBy(job'[a], job[a]) /\ crashes' = crashes
  BY <1>3, <1>4 DEF SameCampaign, StandsBy
<1>6. QED
  BY <1>5 DEF OneMoves

\* A provider cycle.
LEMMA ProviderMoves ==
    ASSUME OneGroup, Sound, NEW a \in Agent, a = Actor, NEW w \in Worker,
           ProviderStart(w) \/ ProviderResume(w)
    PROVE  OneMoves(job'[a], job[a])
<1> PICK s : s = [state EXCEPT !.status = "RUNNING"]
  OBVIOUS
<1> PICK p : p = [IdleJob EXCEPT !.pc = "session", !.t = cycle]
  OBVIOUS
<1>0. /\ job \in [Agent -> JobType] /\ w = MainWorker /\ w \in Agent
  BY GateIsAgent DEF Sound, OneGroup
<1>1. s.current = state.current /\ s.completed = state.completed /\ s.iteration = state.iteration
      /\ s.status = "RUNNING"
  BY DEF Sound, FilesTyped
<1>2. p.pc = "session" /\ p.cont = "none"
  BY DEF IdleJob
<1>3. /\ UNCHANGED <<graph, ledger, queue, cycle, dispatched, target, pr, crashes>>
      /\ started' \in {started, started \cup {cycle}} /\ job[w].pc = "idle"
      /\ PutState(w, s, p) \/ UNCHANGED <<state, job>>
  BY DEF ProviderStart, ProviderResume, files, world, At
<1>4. CASE UNCHANGED <<state, job>>
  <2>1. SameCampaign /\ StandsBy(job'[a], job[a]) /\ crashes' = crashes
    BY <1>3, <1>4 DEF SameCampaign, StandsBy
  <2>2. QED
    BY <2>1 DEF OneMoves
<1>5. CASE PutState(w, s, p)
  <2>1. /\ state' = s /\ job'[w] = p
        /\ \A b \in Agent : b # w => job'[b] = [job[b] EXCEPT !.fresh = FALSE]
    BY <1>0, <1>5 DEF PutState
  <2>2. SameCampaign
    BY <1>1, <1>3, <2>1 DEF SameCampaign
  <2>3. CASE target = "self"
    <3>1. a # w
      BY <1>0, <2>3, GateIsAgent DEF Actor
    <3>2. StandsBy(job'[a], job[a])
      BY <2>1, <2>3, <3>1 DEF StandsBy
    <3>3. QED
      BY <1>3, <2>2, <3>2 DEF OneMoves
  <2>4. CASE target # "self"
    <3>1. a = w
      BY <1>0, <2>4 DEF Actor
    <3>2. job[a].pc = "idle" /\ job'[a].pc = "session" /\ job'[a].cont = "none"
          /\ state'.status = "RUNNING"
      BY <1>1, <1>2, <1>3, <2>1, <3>1
    <3>3. Begins(job'[a], job[a])
      BY <3>2 DEF Begins
    <3>4. QED
      BY <1>3, <2>2, <3>3 DEF OneMoves
  <2>5. QED
    BY <2>3, <2>4
<1>6. QED
  BY <1>3, <1>4, <1>5

\* The gate of a self-hosted project.
LEMMA GateMoves ==
    ASSUME Sound, RecoveryInv,
           \/ GateMerge \/ GateStatus \/ GateRepair
           \/ \E t \in Task : GateStart(t) \/ GateRecover(t)
    PROVE  target = "self" /\ OneMoves(job'[Gate], job[Gate])
<1> PICK r : r = job[Gate]
  OBVIOUS
<1>0. /\ job \in [Agent -> JobType] /\ r \in JobType /\ Gate \in Agent /\ Named(r)
      /\ pr \in [Task -> {"none", "open", "closed", "merged", "noop"}]
  BY GateIsAgent DEF Sound, FilesTyped, JobSound
<1>1. target = "self"
  <2>1. r.pc \in {"merge", "status", "repair"} \/ target = "self"
    BY DEF GateMerge, GateStatus, GateRepair, GateStart, GateRecover, Trusted, FailureIsOurs, At
  <2>2. QED
    BY <2>1 DEF RecoveryInv, ExternalInv
<1>2. ASSUME NEW p, Become(Gate, p) PROVE job'[Gate] = p
  BY <1>0, <1>2 DEF Become
<1>3. IdleJob.pc = "idle" /\ IdleJob.cont = "none"
  BY DEF IdleJob
<1>4. ASSUME NEW p, job'[Gate] = p, SameCampaign, crashes' = crashes,
             \/ p.pc \in {"status", "repair", "idle"}
             \/ p.pc = "merge" /\ p.t = state.current
             \/ r.pc = "merge" /\ p.pc = "advance" /\ p.t = r.t /\ p.cont = "gate"
      PROVE  OneMoves(job'[Gate], job[Gate])
  BY <1>1, <1>4 DEF OneMoves, Begins
<1>4a. ASSUME job'[Gate] = IdleJob, SameCampaign, crashes' = crashes
      PROVE  OneMoves(job'[Gate], job[Gate])
  BY <1>1, <1>3, <1>4a DEF OneMoves, Begins
<1>5. CASE GateMerge
  <2> PICK u : u = r.rcpt.task
    OBVIOUS
  <2> PICK p : p = [r EXCEPT !.pc = "advance", !.cont = "gate"]
    OBVIOUS
  <2>1. /\ UNCHANGED <<graph, ledger, queue, cycle, dispatched, target, state, started, crashes>>
        /\ r.pc = "merge"
        /\ \/ pr' = pr /\ EndJob(Gate)
           \/ pr' = [pr EXCEPT ![u] = "merged"] /\ pr[u] = "open" /\ Become(Gate, p)
    BY <1>5 DEF GateMerge, files, At
  <2>2. p.pc = "advance" /\ p.t = r.t /\ p.cont = "gate"
    BY <1>0, JobIs
  <2>3. \A v \in Task : pr'[v] # "none" => pr[v] # "none" \/ v \in started
    BY <1>0, <2>1
  <2>4. SameCampaign
    BY <2>1, <2>3 DEF SameCampaign
  <2>5. job'[Gate] = IdleJob \/ job'[Gate] = p
    BY <1>2, <2>1 DEF EndJob
  <2>6. QED
    BY <1>1, <1>4, <1>4a, <2>1, <2>2, <2>4, <2>5
<1>6. CASE GateStatus
  <2> PICK s : s = [state EXCEPT !.status = StatusAfter(recovery.action)]
    OBVIOUS
  <2> PICK p : p = [r EXCEPT !.pc = "repair"]
    OBVIOUS
  <2>1. /\ UNCHANGED <<graph, ledger, queue, cycle, dispatched, target, started, pr, crashes>>
        /\ r.pc = "status"
        /\ \/ state' = state /\ EndJob(Gate)
           \/ PutState(Gate, s, p) \/ PutState(Gate, s, IdleJob)
    BY <1>6 DEF GateStatus, world, At
  <2>2. s.current = state.current /\ s.completed = state.completed /\ s.iteration = state.iteration
    BY DEF Sound, FilesTyped
  <2>3. state' \in {state, s} /\ job'[Gate] \in {p, IdleJob}
    BY <1>0, <1>2, <2>1 DEF PutState, EndJob
  <2>4. SameCampaign
    BY <2>1, <2>2, <2>3 DEF SameCampaign
  <2>5. p.pc = "repair"
    BY <1>0, JobIs
  <2>6. QED
    BY <1>1, <1>4, <1>4a, <2>1, <2>3, <2>4, <2>5
<1>7. CASE GateRepair
  <2>1. /\ UNCHANGED <<graph, ledger, queue, cycle, dispatched, target, started, pr, crashes, state>>
        /\ EndJob(Gate)
    BY <1>7 DEF GateRepair, files
  <2>2. job'[Gate] = IdleJob /\ SameCampaign
    BY <1>2, <2>1 DEF EndJob, SameCampaign
  <2>3. QED
    BY <1>1, <1>4a, <2>1, <2>2
<1>8. ASSUME NEW t \in Task, GateStart(t) PROVE OneMoves(job'[Gate], job[Gate])
  <2> PICK p : p = [IdleJob EXCEPT !.pc = "merge", !.t = state.current,
                                   !.rcpt = [task |-> t, status |-> "PR_CREATED"]]
    OBVIOUS
  <2>1. /\ UNCHANGED <<graph, ledger, queue, cycle, dispatched, target, started, pr, crashes, state>>
        /\ Become(Gate, p)
    BY <1>8 DEF GateStart, files, world
  <2>2. p.pc = "merge" /\ p.t = state.current /\ p.cont = "none"
    BY DEF IdleJob
  <2>3. job'[Gate] = p /\ SameCampaign
    BY <1>2, <2>1 DEF SameCampaign
  <2>4. QED
    BY <1>4, <2>1, <2>2, <2>3
<1>9. ASSUME NEW t \in Task, GateRecover(t) PROVE OneMoves(job'[Gate], job[Gate])
  <2> PICK p : p = [IdleJob EXCEPT !.pc = "status", !.t = t]
    OBVIOUS
  <2>1. /\ UNCHANGED <<graph, ledger, queue, cycle, dispatched, target, started, pr, crashes, state>>
        /\ Become(Gate, p)
    BY <1>9 DEF GateRecover, files
  <2>2. p.pc = "status" /\ p.cont = "none"
    BY DEF IdleJob
  <2>3. job'[Gate] = p /\ SameCampaign
    BY <1>2, <2>1 DEF SameCampaign
  <2>4. QED
    BY <1>4, <2>1, <2>2, <2>3
<1>10. QED
  BY <1>1, <1>5, <1>6, <1>7, <1>8, <1>9

\* With one group, every step is one of its one job, or leaves the campaign
\* where it is.
LEMMA OneJobMoves ==
    ASSUME OneGroup, Sound, RecoveryInv, [Next]_vars, NEW a \in Agent, a = Actor
    PROVE  OneMoves(job'[a], job[a])
<1>0. /\ job \in [Agent -> JobType] /\ crashes \in Nat
      /\ \A b \in Agent : b = a \/ b \in {Gate, MainWorker}
      /\ IdleJob.pc = "idle"
  BY BoundAssumption DEF Sound, FilesTyped, Agent, OneGroup, IdleJob
<1>1. ASSUME NEW b \in Agent, b # a
      PROVE  /\ target = "self" => b = MainWorker /\ job[b].pc \in {"idle", "session"}
             /\ target # "self" => b = Gate /\ job[b].pc = "idle"
  BY <1>1, GateIsAgent DEF Agent, OneGroup, Actor, RecoveryInv, SelfInv, SelfHosted, ExternalInv
<1>2. ASSUME NEW b \in Agent, Crash(b) PROVE OneMoves(job'[a], job[a])
  <2>1. /\ UNCHANGED <<graph, ledger, queue, cycle, dispatched, target, started, pr, state>>
        /\ EndJob(b) /\ crashes' = crashes + 1
    BY <1>2 DEF Crash, files
  <2>2. crashes' # 0 /\ SameCampaign
    BY <1>0, <2>1 DEF SameCampaign
  <2>3. CASE b = a
    <3>1. job'[a] = IdleJob
      BY <2>1, <2>3, EndsIdle
    <3>2. QED
      BY <2>1, <2>2, <3>1 DEF OneMoves
  <2>4. CASE b # a
    <3>1. job'[a] = job[a]
      BY <1>0, <2>1, <2>4 DEF EndJob, Become
    <3>2. QED
      BY <2>1, <2>2, <3>1 DEF OneMoves, StandsBy
  <2>5. QED
    BY <2>3, <2>4
<1>3. ASSUME NEW b \in Agent, JobStep(b) PROVE OneMoves(job'[a], job[a])
  <2>1. CASE b = a
    BY <1>3, <2>1, JobMovesOn DEF OneMoves
  <2>2. CASE b # a
    <3>1. job[b].pc = "idle" \/ (job[b].pc = "session" /\ target = "self")
      BY <1>1, <2>2
    <3>2. (SessionPublish(b) \/ SessionTimeout(b)) /\ target = "self"
      BY <1>3, <3>1
         DEF JobStep, AdvanceRefused, AdvanceRead, AdvanceCampaign, AdvanceCycle, AfterAdvance,
             PutGraph, PutStateFile, PutQueueFile, Dispatch, PutCampaign, PutCycle, ParkRefused,
             ParkRead, ParkLedger, ReviewSkip, ReconcileRead, ReconcileState,
             ReconcileClearState, ReconcileClearCampaign, ReconcileLedger, MonitorReceipt,
             MonitorPoll, SessionPublish, SessionTimeout, At
    <3>3. /\ UNCHANGED <<graph, ledger, queue, cycle, dispatched, target, started, pr, state,
                         crashes>>
          /\ EndJob(b)
      BY <3>2 DEF SessionPublish, SessionTimeout, files, world
    <3>4. job'[a] = job[a]
      BY <1>0, <2>2, <3>3 DEF EndJob, Become
    <3>5. QED
      BY <3>3, <3>4 DEF OneMoves, SameCampaign, StandsBy
  <2>3. QED
    BY <2>1, <2>2
<1>4. ASSUME NEW w \in Worker, MonitorStart(w) PROVE OneMoves(job'[a], job[a])
  <2> PICK p : p = [IdleJob EXCEPT !.pc = "reviews", !.rcpt = receipt, !.todo = ledger]
    OBVIOUS
  <2>1. /\ UNCHANGED <<graph, ledger, queue, cycle, dispatched, target, started, pr, state,
                       crashes>>
        /\ Become(w, p) /\ job[w].pc = "idle" /\ (receipt # NoReceipt \/ ledger # <<>>)
    BY <1>4 DEF MonitorStart, files, world, At
  <2>2. w = MainWorker /\ w \in Agent /\ target # "self"
    BY <2>1, GateIsAgent DEF OneGroup, RecoveryInv, SelfInv, SelfHosted
  <2>3. a = w /\ job'[a] = p
    BY <1>0, <2>1, <2>2 DEF Actor, Become
  <2>4. p.pc = "reviews" /\ p.cont = "none" /\ p.nxt = NoTask
    BY DEF IdleJob
  <2>5. SameCampaign /\ Begins(job'[a], job[a])
    BY <2>1, <2>3, <2>4 DEF SameCampaign, Begins
  <2>6. QED
    BY <2>1, <2>5 DEF OneMoves
<1>5. ASSUME \/ GateMerge \/ GateStatus \/ GateRepair
             \/ \E t \in Task : GateStart(t) \/ GateRecover(t)
      PROVE  OneMoves(job'[a], job[a])
  <2>1. target = "self" /\ OneMoves(job'[Gate], job[Gate])
    BY <1>5, GateMoves
  <2>2. QED
    BY <2>1 DEF Actor
<1>6. CASE (\E e \in Task \X Worker : LoseRun(e)) \/ UNCHANGED vars
  <2>1. UNCHANGED <<graph, ledger, queue, cycle, dispatched, target, started, pr, state, crashes,
                    job>>
    BY <1>6 DEF LoseRun, vars, files, world
  <2>2. QED
    BY <2>1 DEF OneMoves, SameCampaign, StandsBy
<1>7. QED
  BY <1>2, <1>3, <1>4, <1>5, <1>6, PrStandsBy, ProviderMoves DEF Next

-----------------------------------------------------------------------------
\* Each completion is counted once.  What waits in the queue, or was taken out
\* of it and is not yet the cycle task, was never given a session: no pull
\* request of it can have been merged.

\* A task that is of no graph.
Outside(u) == u \notin Managed \cup {NoTask}

\* The steps of a job that has planned a state, that has planned a queue, and
\* that has still to make its successor the cycle task.
Planning == {"advGraph", "advCampaign", "parkGraph", "parkLedger", "putState"}
QueuePlanned == {"advGraph", "advCampaign", "putState", "putQueue"}
Activating == {"advCycle", "campaign", "cycle"}

\* A state s that counts each completion once, its current task not among them.
OncePlanned(s) ==
    /\ IsFiniteSet(s.completed) /\ s.iteration = Cardinality(s.completed)
    /\ Outside(s.current) => s.current \notin s.completed

\* What is queued was not begun, and only what was begun has a pull request.
Fresh ==
    /\ queue \in Seq(Task) /\ IsInjective(queue)
    /\ \A u \in ToSet(queue) : Untouched(u)
    /\ \A t \in Task : pr[t] # "none" => t \in started

\* Neither was the successor that job r takes from the queue, once.
NextFresh(r) ==
    /\ r.pc \in QueuePlanned \cup Activating => (Outside(r.nxt) => Untouched(r.nxt))
    /\ r.pc \in QueuePlanned =>
         /\ r.q1 \in Seq(Task) /\ IsInjective(r.q1) /\ r.nxt \notin ToSet(r.q1)
         /\ ToSet(r.q1) \subseteq ToSet(queue)
         /\ ToSet(queue) \subseteq ToSet(r.q1) \cup {r.nxt}
    /\ r.pc \in Activating => r.nxt \notin ToSet(queue)

\* What job r is about to complete was not completed before.
JobOnce(r) ==
    /\ r.pc \in Planning => OncePlanned(r.st)
    /\ r.pc \in {"merge", "poll", "advance"} /\ Outside(r.t) => r.t \notin state.completed
    /\ NextFresh(r)

FilesOnce == OncePlanned(state) /\ Fresh

Once == FilesOnce /\ JobOnce(job[Actor])

\* A task that waits has no pull request, and so is not completed.
LEMMA WaitingIsNotMerged ==
    ASSUME Sound, FilesOnce, NEW u \in Task, Untouched(u)
    PROVE  ~Merged(u) /\ u \notin state.completed
<1>1. pr[u] = "none"
  BY DEF FilesOnce, Fresh, Untouched
<1>2. ~Merged(u)
  BY <1>1 DEF Merged
<1>3. QED
  BY <1>2 DEF Sound, FilesBacked

\* A completion is counted.
LEMMA Counted ==
    ASSUME OncePlanned(state), NEW t, t \notin state.completed
    PROVE  /\ IsFiniteSet(state.completed \cup {t})
           /\ Cardinality(state.completed \cup {t}) = state.iteration + 1
  BY FS_AddElement DEF OncePlanned

\* What a plan of advance_queue makes of a job.
LEMMA PlansOnce ==
    ASSUME Sound, Ahead, FilesOnce, NEW q, NEW r, JobSound(r), JobOnce(r), Held, Plans(q, r)
    PROVE  JobOnce(q)
<1> PICK t : t = r.t
  OBVIOUS
<1>1. /\ r.pc = "advance" /\ t \in Task /\ (t \in Managed => graph[t] = "RUNNING")
      /\ q.pc \in {"advGraph", "advCampaign"}
      /\ q.st.current = q.nxt /\ q.st.completed = state.completed \cup {t}
      /\ q.st.iteration = state.iteration + 1
      /\ \/ q.nxt \in Managed \cup {NoTask} /\ q.q1 = queue
         \/ queue # <<>> /\ q.nxt = Head(queue) /\ q.q1 = Tail(queue)
  BY DEF Plans
<1>2. t \notin state.completed
  <2>1. CASE t \in Managed
    <3>1. ~Done(t)
      BY <1>1, <2>1 DEF Done
    <3>2. QED
      BY <3>1 DEF Ahead
  <2>2. CASE t \notin Managed
    <3>1. t # NoTask
      BY <1>1, NameAssumption
    <3>2. QED
      BY <1>1, <2>2, <3>1 DEF JobOnce, Outside
  <2>3. QED
    BY <2>1, <2>2
<1>3. Merged(t) /\ ~Untouched(t)
  <2>1. Merged(t)
    BY <1>1 DEF JobSound, Evident
  <2>2. QED
    BY <1>1, <2>1, WaitingIsNotMerged
<1>4. /\ queue \in Seq(Task) /\ IsInjective(queue) /\ \A u \in ToSet(queue) : Untouched(u)
  BY DEF FilesOnce, Fresh
<1>5. \A u \in ToSet(queue) : u \notin Managed /\ u \in Task
  BY QueueIsNotOfGraph
<1>6. NoTask \notin Task
  BY NameAssumption
<1>7. OncePlanned(state)
  BY DEF FilesOnce
<1>8. /\ IsFiniteSet(q.st.completed) /\ q.st.iteration = Cardinality(q.st.completed)
  BY <1>1, <1>2, <1>7, Counted
<1>9. CASE q.nxt \in Managed \cup {NoTask} /\ q.q1 = queue
  <2>1. ~Outside(q.nxt)
    BY <1>9 DEF Outside
  <2>2. q.nxt \notin ToSet(queue)
    BY <1>5, <1>6, <1>9
  <2>3. OncePlanned(q.st)
    BY <1>1, <1>8, <2>1 DEF OncePlanned
  <2>4. NextFresh(q)
    BY <1>1, <1>4, <1>9, <2>1, <2>2 DEF NextFresh, QueuePlanned, Activating
  <2>5. QED
    BY <1>1, <2>3, <2>4 DEF JobOnce
<1>10. CASE queue # <<>> /\ q.nxt = Head(queue) /\ q.q1 = Tail(queue)
  <2>1. /\ q.q1 \in Seq(Task) /\ IsInjective(q.q1) /\ q.nxt \in ToSet(queue)
        /\ ToSet(q.q1) \subseteq ToSet(queue) \ {q.nxt}
        /\ ToSet(queue) \subseteq ToSet(q.q1) \cup {q.nxt}
    BY <1>4, <1>10, TailFacts, TailIsQueued
  <2>2. Untouched(q.nxt) /\ q.nxt \in Task
    BY <1>4, <1>5, <2>1
  <2>3. q.nxt \notin state.completed \cup {t}
    BY <1>3, <2>2, WaitingIsNotMerged
  <2>4. OncePlanned(q.st)
    BY <1>1, <1>8, <2>3 DEF OncePlanned
  <2>5. q.nxt \notin ToSet(q.q1) /\ ToSet(q.q1) \subseteq ToSet(queue)
    BY <2>1
  <2>6. NextFresh(q)
    BY <1>1, <2>1, <2>2, <2>5 DEF NextFresh, QueuePlanned, Activating
  <2>7. QED
    BY <1>1, <2>4, <2>6 DEF JobOnce
<1>11. QED
  BY <1>1, <1>9, <1>10

\* What the reads and preparations of parking and reconciliation make of it.
LEMMA PreparesOnce ==
    ASSUME Sound, FilesOnce, NEW q, NEW r, JobSound(r), JobOnce(r),
           ParksNode(q, r) \/ ParksRecord(q, r) \/ Reconciles(q, r) \/ Prepares(q, r)
    PROVE  JobOnce(q)
<1>1. /\ queue \in Seq(Task) /\ IsInjective(queue)
      /\ \A n \in Managed \cup {NoTask} : n \notin ToSet(queue) /\ ~Outside(n)
  BY QueueIsNotOfGraph DEF FilesOnce, Fresh, Outside
<1>2. OncePlanned(state)
  BY DEF FilesOnce
<1>3. CASE ParksNode(q, r)
  <2>1. q.pc \in {"parkGraph", "parkLedger"} /\ q.st = state
    BY <1>3 DEF ParksNode
  <2>2. QED
    BY <1>2, <2>1 DEF JobOnce, NextFresh, QueuePlanned, Activating
<1>4. CASE ParksRecord(q, r)
  <2>1. /\ r.pc = "parkLedger" /\ q.pc = "putState" /\ q.nxt \in Managed \cup {NoTask}
        /\ q.q1 = queue /\ q.st.current = q.nxt /\ q.st.completed = r.st.completed
        /\ q.st.iteration = r.st.iteration
    BY <1>4 DEF ParksRecord
  <2>2. OncePlanned(r.st)
    BY <2>1 DEF JobOnce, Planning
  <2>3. OncePlanned(q.st)
    BY <1>1, <2>1, <2>2 DEF OncePlanned
  <2>4. NextFresh(q)
    BY <1>1, <2>1 DEF NextFresh, QueuePlanned, Activating
  <2>5. QED
    BY <2>1, <2>3, <2>4 DEF JobOnce
<1>5. CASE Reconciles(q, r)
  <2>1. \/ q.pc \in {"idle", "recGraph", "recRead", "recClear"}
        \/ q.pc = "advance" /\ q.t \notin state.completed
    BY <1>5 DEF Reconciles, IdleJob
  <2>2. QED
    BY <2>1 DEF JobOnce, NextFresh, QueuePlanned, Activating, Planning
<1>6. CASE Prepares(q, r)
  <2> PICK t : t = r.t
    OBVIOUS
  <2>1. /\ q.pc = "putState" /\ q.q1 = queue /\ q.nxt \in Managed \cup {NoTask}
        /\ q.st.completed = state.completed \cup {t}
        /\ q.st.iteration = state.iteration + (IF t \in state.completed THEN 0 ELSE 1)
        /\ \/ q.st.current = q.nxt
           \/ q.st.current = state.current /\ state.current # t
    BY <1>6 DEF Prepares
  <2>2. IsFiniteSet(q.st.completed) /\ q.st.iteration = Cardinality(q.st.completed)
    <3>1. CASE t \in state.completed
      <4>1. q.st.completed = state.completed /\ q.st.iteration = state.iteration
        <5>1. state.iteration \in Nat
          BY DEF Sound, FilesTyped
        <5>2. QED
          BY <2>1, <3>1, <5>1
      <4>2. QED
        BY <1>2, <4>1 DEF OncePlanned
    <3>2. CASE t \notin state.completed
      BY <1>2, <2>1, <3>2, Counted
    <3>3. QED
      BY <3>1, <3>2
  <2>3. OncePlanned(q.st)
    BY <1>1, <1>2, <2>1, <2>2 DEF OncePlanned
  <2>4. NextFresh(q)
    BY <1>1, <2>1 DEF NextFresh, QueuePlanned, Activating
  <2>5. QED
    BY <2>1, <2>3, <2>4 DEF JobOnce
<1>7. QED
  BY <1>3, <1>4, <1>5, <1>6
\* A step that leaves the files of a job's plan alone.
SameOnce ==
    /\ queue' = queue /\ cycle' = cycle
    /\ state'.current = state.current /\ state'.completed = state.completed
    /\ state'.iteration = state.iteration
    /\ started' \in {started, started \cup {cycle}}
    /\ \A t \in Task : pr'[t] # "none" => pr[t] # "none" \/ t \in started

\* Then what waits stays fresh.
LEMMA SameIsOnce ==
    ASSUME FilesOnce, SameOnce
    PROVE  FilesOnce' /\ (\A u : Untouched(u) => Untouched(u)')
<1>1. \A u : Untouched(u) => Untouched(u)'
  BY DEF SameOnce, Untouched
<1>2. /\ queue' \in Seq(Task) /\ IsInjective(queue')
      /\ \A u \in ToSet(queue') : Untouched(u)'
  BY <1>1 DEF FilesOnce, Fresh, SameOnce
<1>3. \A t \in Task : pr'[t] # "none" => t \in started'
  BY DEF FilesOnce, Fresh, SameOnce
<1>4. Fresh'
  BY <1>2, <1>3 DEF Fresh
<1>5. OncePlanned(state)'
  BY DEF FilesOnce, SameOnce, OncePlanned
<1>6. QED
  BY <1>1, <1>4, <1>5 DEF FilesOnce

\* Then a plan stays what it was.
LEMMA PlanStaysOnce ==
    ASSUME FilesOnce, SameOnce, NEW r, JobOnce(r) PROVE JobOnce(r)'
<1>1. /\ \A u : Untouched(u) => Untouched(u)'
      /\ queue' = queue /\ state'.completed = state.completed
  BY SameIsOnce DEF SameOnce
<1>2. NextFresh(r)'
  BY <1>1 DEF JobOnce, NextFresh
<1>3. QED
  BY <1>1, <1>2 DEF JobOnce, OncePlanned

\* The files, and the job, after each of its steps.
LEMMA MovesOnce ==
    ASSUME Sound, Ahead, FilesOnce, NEW q, NEW r, JobSound(r), JobOnce(r), Moves(q, r),
           UNCHANGED <<started, pr>>
    PROVE  FilesOnce' /\ JobOnce(q)'
<1>1. ASSUME UNCHANGED <<state, queue, cycle>> PROVE SameOnce
  BY <1>1 DEF SameOnce
<1>2. ASSUME UNCHANGED <<state, queue, cycle>>, JobOnce(q) PROVE FilesOnce' /\ JobOnce(q)'
  BY <1>1, <1>2, SameIsOnce, PlanStaysOnce
<1>3. CASE Held /\ (Plans(q, r) \/ ParksNode(q, r) \/ Reconciles(q, r) \/ Prepares(q, r))
  BY <1>2, <1>3, PlansOnce, PreparesOnce DEF Held
<1>4. CASE ParksRecord(q, r) /\ UNCHANGED <<graph, state, queue, cycle, dispatched>>
  BY <1>2, <1>4, PreparesOnce
<1>5. CASE Ends(q, r)
  BY <1>2, <1>5 DEF Ends, Held, IdleJob, JobOnce, NextFresh, QueuePlanned, Activating, Planning
<1>6. CASE Walks(q, r)
  <2>1. q.st = r.st /\ q.t = r.t /\ q.nxt = r.nxt /\ q.q1 = r.q1
    BY <1>6 DEF Walks, Carries, Alike
  <2>2. \/ r.pc = "advCampaign" /\ q.pc = "putState"
        \/ r.pc = "campaign" /\ q.pc = "cycle"
        \/ q.pc \in {"after", "recClear", "recLedger"}
    BY <1>6 DEF Walks
  <2>3. JobOnce(q)
    BY <2>1, <2>2 DEF JobOnce, NextFresh, QueuePlanned, Activating, Planning
  <2>4. QED
    BY <1>2, <1>6, <2>3 DEF Walks, Held
<1>7. CASE Looks(q, r)
  <2>1. /\ q.pc \in {"reviews", "poll", "advance", "park"}
        /\ q.pc = "poll" => q.t = state.current
        /\ q.pc = "advance" => q.t = r.t /\ r.pc = "poll"
    BY <1>7 DEF Looks
  <2>2. JobOnce(q)
    BY <2>1 DEF JobOnce, NextFresh, QueuePlanned, Activating, Planning, FilesOnce, OncePlanned
  <2>3. QED
    BY <1>2, <1>7, <2>2 DEF Looks, Held
<1>8. CASE WritesGraph(q, r)
  <2>1. /\ q.st = r.st /\ q.t = r.t /\ q.nxt = r.nxt /\ q.q1 = r.q1
        /\ \/ r.pc = "advGraph" /\ q.pc = "advCampaign"
           \/ r.pc = "recGraph" /\ q.pc = "recRead"
           \/ r.pc = "parkGraph" /\ q.pc = "parkLedger"
    BY <1>8 DEF WritesGraph
  <2>2. JobOnce(q)
    BY <2>1 DEF JobOnce, NextFresh, QueuePlanned, Activating, Planning
  <2>3. QED
    BY <1>2, <1>8, <2>2 DEF WritesGraph
<1>9. CASE WritesState(q, r)
  <2>1. /\ r.pc = "putState" /\ q.pc = "putQueue" /\ state' = r.st
        /\ q.nxt = r.nxt /\ q.q1 = r.q1 /\ UNCHANGED <<queue, cycle, started, pr>>
    BY <1>9 DEF WritesState, Alike
  <2>2. OncePlanned(state)'
    BY <2>1 DEF JobOnce, Planning, OncePlanned
  <2>3. FilesOnce'
    BY <2>1, <2>2 DEF FilesOnce, Fresh, Untouched
  <2>4. NextFresh(q)'
    BY <2>1 DEF JobOnce, NextFresh, QueuePlanned, Activating, Untouched
  <2>5. QED
    BY <2>1, <2>3, <2>4 DEF JobOnce, Planning
<1>10. CASE WritesQueue(q, r)
  <2>1. /\ r.pc = "putQueue" /\ q.pc \in {"campaign", "advCycle"} /\ queue' = r.q1
        /\ q.nxt = r.nxt /\ UNCHANGED <<state, cycle, started, pr>>
    BY <1>10 DEF WritesQueue, Carries, Alike
  <2>2. /\ r.q1 \in Seq(Task) /\ IsInjective(r.q1) /\ r.nxt \notin ToSet(r.q1)
        /\ ToSet(r.q1) \subseteq ToSet(queue)
        /\ Outside(r.nxt) => Untouched(r.nxt)
    BY <2>1 DEF JobOnce, NextFresh, QueuePlanned
  <2>3. FilesOnce'
    BY <2>1, <2>2 DEF FilesOnce, Fresh, Untouched, OncePlanned
  <2>4. NextFresh(q)'
    BY <2>1, <2>2 DEF NextFresh, QueuePlanned, Activating, Untouched
  <2>5. QED
    BY <2>1, <2>3, <2>4 DEF JobOnce, Planning
<1>11. CASE WritesCycle(q, r)
  <2>1. /\ r.pc \in {"cycle", "advCycle"} /\ q.pc = "dispatch" /\ cycle' = r.nxt
        /\ UNCHANGED <<state, queue, started, pr>>
    BY <1>11 DEF WritesCycle
  <2>2. r.nxt \notin ToSet(queue)
    BY <2>1 DEF JobOnce, NextFresh, Activating
  <2>3. FilesOnce'
    BY <2>1, <2>2 DEF FilesOnce, Fresh, Untouched, OncePlanned
  <2>4. QED
    BY <2>1, <2>3 DEF JobOnce, NextFresh, QueuePlanned, Activating, Planning
<1>12. CASE Dispatches(q, r) \/ ClearsState(q, r) \/ WritesLedger(q, r)
  <2>1. /\ q.pc \in {"idle", "recLedger", "after", "recClearCampaign", "reviews"}
        /\ UNCHANGED <<state, queue, cycle>>
    BY <1>12 DEF Dispatches, ClearsState, WritesLedger, Held, IdleJob
  <2>2. JobOnce(q)
    BY <2>1 DEF JobOnce, NextFresh, QueuePlanned, Activating, Planning
  <2>3. QED
    BY <1>2, <2>1, <2>2
<1>13. QED
  BY <1>3, <1>4, <1>5, <1>6, <1>7, <1>8, <1>9, <1>10, <1>11, <1>12 DEF Moves

\* With one group, each step counts a completion once.
LEMMA OnceKept ==
    ASSUME OneGroup, Sound, Ahead, RecoveryInv, Once, [Next]_vars PROVE Once'
<1> PICK a \in Agent : a = Actor
  BY GateIsAgent, NameAssumption DEF Actor
<1> PICK r : r = job[a]
  OBVIOUS
<1> PICK q : q = job'[a]
  OBVIOUS
<1>1. OneMoves(q, r)
  BY OneJobMoves
<1>2. FilesOnce /\ JobOnce(r) /\ JobSound(r) /\ r \in JobType
  BY DEF Once, Sound
<1>3. job'[Actor'] = q
  BY TargetStays DEF Actor
<1>4. ASSUME SameCampaign PROVE SameOnce
  BY <1>4 DEF SameCampaign, SameOnce
<1>5. CASE Moves(q, r) /\ UNCHANGED <<started, pr, target, crashes>>
  BY <1>2, <1>3, <1>5, MovesOnce DEF Once
<1>6. CASE SameCampaign /\ (q = IdleJob \/ Begins(q, r) \/ StandsBy(q, r))
  <2>1. JobOnce(q)
    <3>1. CASE q = IdleJob \/ Begins(q, r)
      <4>1. \/ q.pc \in {"idle", "reviews", "session", "status", "repair"}
            \/ q.pc = "merge" /\ q.t = state.current
            \/ r.pc = "merge" /\ q.pc = "advance" /\ q.t = r.t
        BY <3>1 DEF IdleJob, Begins
      <4>2. QED
        BY <1>2, <4>1 DEF JobOnce, NextFresh, QueuePlanned, Activating, Planning, FilesOnce,
                          OncePlanned
    <3>2. CASE StandsBy(q, r)
      <4>1. q.pc = r.pc /\ q.st = r.st /\ q.t = r.t /\ q.nxt = r.nxt /\ q.q1 = r.q1
        BY <1>2, <3>2, JobIs DEF StandsBy
      <4>2. QED
        BY <1>2, <4>1 DEF JobOnce, NextFresh
    <3>3. QED
      BY <1>6, <3>1, <3>2
  <2>2. FilesOnce' /\ JobOnce(q)'
    BY <1>2, <1>4, <1>6, <2>1, SameIsOnce, PlanStaysOnce
  <2>3. QED
    BY <1>3, <2>2 DEF Once
<1>7. QED
  BY <1>1, <1>5, <1>6 DEF OneMoves

\* The campaign starts with nothing counted, and its queue untouched.
LEMMA OnceInit == Init => Once
<1> SUFFICES ASSUME Init PROVE Once
  OBVIOUS
<1>1. /\ state.completed = {} /\ state.iteration = 0 /\ queue = Fifo /\ cycle = First
      /\ started = {} /\ \A t \in Task : pr[t] = "none"
  BY DEF Init
<1>2. FilesOnce
  BY <1>1, QueueAssumption, FS_EmptySet DEF FilesOnce, OncePlanned, Fresh, Untouched
<1>3. job[Actor] = IdleJob
  BY GateIsAgent, NameAssumption DEF Init, Actor
<1>4. QED
  BY <1>2, <1>3 DEF Once, JobOnce, NextFresh, QueuePlanned, Activating, Planning, IdleJob

-----------------------------------------------------------------------------
\* No task is lost.  A task that a job takes out of state.json, out of the queue
\* or out of the ledger is by then in another of them, or completed.

\* Before a job's write of the state; the end of a reconciliation; in between.
Storing == {"advGraph", "advCampaign", "putState"}
Clearing == {"recClear", "recClearCampaign", "recLedger"}
Stored == {"putQueue", "advCycle", "after", "campaign", "cycle", "dispatch"}

\* The state that job r is about to store keeps the current task, the queue its
\* successor, and the ledger all but the task that it has completed.
JobKept(r) ==
    /\ r.pc \in Storing =>
         /\ \/ state.current \in {NoTask, r.st.current} \cup r.st.completed
            \/ r.pc = "putState" /\ state.current \in ToSet(ledger)
         /\ Outside(r.nxt) => r.st.current = r.nxt
         /\ r.cont # "park" => r.t \in r.st.completed
    /\ r.pc \in {"parkGraph", "parkLedger"} => state.current = r.t
    /\ r.pc = "putQueue" /\ Outside(r.nxt) => state.current = r.nxt
    /\ r.pc = "parkLedger" => r.led = ledger
    /\ r.cont \in {"review", "legacy"} \/ r.pc \in Clearing =>
         ToSet(ledger) \subseteq ToSet(r.led) \cup {r.t}
    /\ r.pc \in Clearing \/ (r.cont \in {"review", "legacy"} /\ r.pc \in Stored) =>
         r.t \in state.completed

Kept == FifoKept /\ JobKept(job[Actor])

\* The current task may be followed by another only when it is completed, or
\* its record is in the ledger.
NotDropped ==
    state'.current # state.current /\ state.current # NoTask =>
        state.current \in state'.completed \cup ToSet(ledger)

\* What a read or a preparation makes of a job.
LEMMA PreparesKept ==
    ASSUME Sound, NEW q, NEW r, JobSound(r), JobKept(r),
           Plans(q, r) \/ ParksNode(q, r) \/ Reconciles(q, r) \/ Prepares(q, r)
    PROVE  JobKept(q)
<1>1. CASE Plans(q, r)
  <2>1. /\ q.pc \in {"advGraph", "advCampaign"} /\ q.t = r.t /\ q.cont = r.cont /\ q.led = r.led
        /\ q.st.current = q.nxt /\ q.st.completed = state.completed \cup {r.t}
        /\ state.current \in {NoTask, r.t}
    BY <1>1 DEF Plans
  <2>2. r.cont \in {"review", "legacy"} => ToSet(ledger) \subseteq ToSet(r.led) \cup {r.t}
    BY DEF JobKept
  <2>3. QED
    BY <2>1, <2>2 DEF JobKept, Storing, Clearing, Stored
<1>2. CASE ParksNode(q, r)
  <2>1. /\ q.pc \in {"parkGraph", "parkLedger"} /\ q.t = r.t /\ q.cont = "park"
        /\ state.current = r.t /\ (q.pc = "parkLedger" => q.led = ledger)
    BY <1>2 DEF ParksNode
  <2>2. QED
    BY <2>1 DEF JobKept, Storing, Clearing, Stored
<1>3. CASE Reconciles(q, r)
  <2>1. CASE q = IdleJob
    BY <2>1 DEF JobKept, Storing, Clearing, Stored, IdleJob
  <2>2. CASE q # IdleJob
    <3>1. /\ q.pc \in {"recGraph", "recRead", "recClear", "advance"}
          /\ q.t \in Task /\ q.led = Without(ledger, q.t)
          /\ q.pc = "recClear" => q.t \in state.completed
      BY <1>3, <2>2 DEF Reconciles
    <3>2. ledger \in Seq(Task) /\ IsInjective(ledger)
      BY DEF Sound, FilesTyped
    <3>3. ToSet(q.led) = ToSet(ledger) \ {q.t}
      BY <3>1, <3>2, RemoveFacts DEF Without
    <3>4. QED
      BY <3>1, <3>3 DEF JobKept, Storing, Clearing, Stored
  <2>3. QED
    BY <2>1, <2>2
<1>4. CASE Prepares(q, r)
  <2>1. /\ q.pc = "putState" /\ q.t = r.t /\ q.cont = r.cont /\ q.led = r.led
        /\ q.st.completed = state.completed \cup {r.t} /\ q.nxt \in Managed \cup {NoTask}
        /\ state.current \in {NoTask, r.t} \/ q.st.current = state.current
    BY <1>4 DEF Prepares
  <2>2. r.cont \in {"review", "legacy"} => ToSet(ledger) \subseteq ToSet(r.led) \cup {r.t}
    BY DEF JobKept
  <2>3. QED
    BY <2>1, <2>2 DEF JobKept, Storing, Clearing, Stored, Outside
<1>5. QED
  BY <1>1, <1>2, <1>3, <1>4

\* A step that moves none of these keeps them.
LEMMA SameIsKept ==
    ASSUME FifoKept, UNCHANGED <<ledger, queue>>, state'.current = state.current,
           state'.completed = state.completed, NEW q, JobKept(q)
    PROVE  FifoKept' /\ JobKept(q)' /\ NotDropped
<1>1. FifoKept'
  BY DEF FifoKept
<1>2. JobKept(q)'
  BY DEF JobKept
<1>3. QED
  BY <1>1, <1>2 DEF NotDropped

\* No step of a job loses a task.
LEMMA MovesKept ==
    ASSUME Sound, FilesOnce, FifoKept, NEW q, NEW r, JobSound(r), Covers(r), JobOnce(r),
           JobKept(r), Moves(q, r)
    PROVE  FifoKept' /\ JobKept(q)' /\ NotDropped
<1>1. ASSUME UNCHANGED <<ledger, state, queue>>, JobKept(q)
      PROVE  FifoKept' /\ JobKept(q)' /\ NotDropped
  BY <1>1, SameIsKept
<1>2. CASE Held /\ (Plans(q, r) \/ ParksNode(q, r) \/ Reconciles(q, r) \/ Prepares(q, r))
  BY <1>1, <1>2, PreparesKept DEF Held
<1>3. CASE ParksRecord(q, r) /\ UNCHANGED <<graph, state, queue, cycle, dispatched>>
  <2>1. /\ r.pc = "parkLedger" /\ ledger' = Upsert(r.led, r.t) /\ r.t \in Task
        /\ q.pc = "putState" /\ q.cont = "park" /\ q.nxt \in Managed \cup {NoTask}
    BY <1>3 DEF ParksRecord
  <2>2. ledger \in Seq(Task) /\ IsInjective(ledger)
    BY DEF Sound, FilesTyped
  <2>3. r.led = ledger /\ state.current = r.t
    BY <2>1 DEF JobKept
  <2>4. ToSet(ledger') = ToSet(ledger) \cup {r.t}
    BY <2>1, <2>2, <2>3, UpsertFacts
  <2>5. FifoKept'
    BY <1>3, <2>4 DEF FifoKept
  <2>6. state'.current \in ToSet(ledger')
    BY <1>3, <2>3, <2>4
  <2>7. JobKept(q)'
    BY <2>1, <2>6 DEF JobKept, Storing, Clearing, Stored, Outside
  <2>8. QED
    BY <1>3, <2>5, <2>7 DEF NotDropped
<1>4. CASE Ends(q, r)
  BY <1>1, <1>4 DEF Ends, Held, IdleJob, JobKept, Storing, Clearing, Stored
<1>5. CASE Walks(q, r)
  <2>1. q.st = r.st /\ q.t = r.t /\ q.nxt = r.nxt /\ q.led = r.led /\ q.cont = r.cont
    BY <1>5 DEF Walks, Carries, Alike
  <2>2. \/ r.pc = "advCampaign" /\ q.pc = "putState"
        \/ r.pc = "advCycle" /\ q.pc = "after"
        \/ r.pc = "after" /\ q.pc = "recClear" /\ r.cont = "legacy"
        \/ r.pc = "campaign" /\ q.pc = "cycle"
        \/ r.pc = "campaign" /\ q.pc = "recLedger" /\ r.cont = "review"
        \/ r.pc = "recClearCampaign" /\ q.pc = "recLedger"
    BY <1>5 DEF Walks
  <2>3. JobKept(q)
    BY <2>1, <2>2 DEF JobKept, Storing, Clearing, Stored
  <2>4. QED
    BY <1>1, <1>5, <2>3 DEF Walks, Held
<1>6. CASE Looks(q, r)
  <2>1. /\ q.pc \in {"reviews", "poll", "advance", "park"}
        /\ q.cont \in {"none", "receipt", "park"}
    BY <1>6 DEF Looks
  <2>2. JobKept(q)
    BY <2>1 DEF JobKept, Storing, Clearing, Stored
  <2>3. QED
    BY <1>1, <1>6, <2>2 DEF Looks, Held
<1>7. CASE WritesGraph(q, r)
  <2>1. /\ q.st = r.st /\ q.t = r.t /\ q.nxt = r.nxt /\ q.cont = r.cont
        /\ \/ r.pc = "advGraph" /\ q.pc = "advCampaign" /\ q.led = r.led
           \/ r.pc = "recGraph" /\ q.pc = "recRead" /\ q.led = r.led
           \/ r.pc = "parkGraph" /\ q.pc = "parkLedger" /\ q.led = ledger
    BY <1>7 DEF WritesGraph
  <2>2. r.pc = "parkGraph" => r.cont = "park"
    BY DEF JobSound, Evident
  <2>3. JobKept(q)
    BY <2>1, <2>2 DEF JobKept, Storing, Clearing, Stored
  <2>4. QED
    BY <1>1, <1>7, <2>3 DEF WritesGraph
<1>8. CASE WritesState(q, r)
  <2>1. /\ r.pc = "putState" /\ q.pc = "putQueue" /\ state' = r.st /\ r.fresh
        /\ UNCHANGED <<ledger, queue>>
        /\ q.nxt = r.nxt /\ q.t = r.t /\ q.cont = r.cont /\ q.led = r.led
    BY <1>8 DEF WritesState, Alike
  <2>2. state.completed \subseteq r.st.completed
    BY <2>1 DEF Covers
  <2>3. /\ state.current \in {NoTask, r.st.current} \cup r.st.completed \cup ToSet(ledger)
        /\ Outside(r.nxt) => r.st.current = r.nxt
        /\ r.cont # "park" => r.t \in r.st.completed
    BY <2>1 DEF JobKept, Storing
  <2>4. ToSet(Fifo) \subseteq Task /\ NoTask \notin Task
    <3>1. \A i \in DOMAIN Fifo : Fifo[i] \in Task
      BY QueueAssumption
    <3>2. QED
      BY <3>1, NameAssumption DEF ToSet
  <2>5. FifoKept'
    BY <2>1, <2>2, <2>3, <2>4 DEF FifoKept
  <2>6. JobKept(q)'
    BY <2>1, <2>3 DEF JobKept, Storing, Clearing, Stored
  <2>7. QED
    BY <2>1, <2>3, <2>5, <2>6 DEF NotDropped
<1>9. CASE WritesQueue(q, r)
  <2>1. /\ r.pc = "putQueue" /\ q.pc \in {"campaign", "advCycle"} /\ queue' = r.q1
        /\ UNCHANGED <<ledger, state>>
        /\ q.nxt = r.nxt /\ q.t = r.t /\ q.cont = r.cont /\ q.led = r.led
    BY <1>9 DEF WritesQueue, Carries, Alike
  <2>2. ToSet(queue) \subseteq ToSet(r.q1) \cup {r.nxt}
    <3>1. r.pc \in QueuePlanned => ToSet(queue) \subseteq ToSet(r.q1) \cup {r.nxt}
      BY DEF JobOnce, NextFresh
    <3>2. QED
      BY <2>1, <3>1 DEF QueuePlanned
  <2>3. \A u \in ToSet(queue) : Outside(u)
    BY QueueIsNotOfGraph, NameAssumption DEF Outside
  <2>4. Outside(r.nxt) => state.current = r.nxt
    BY <2>1 DEF JobKept
  <2>5. FifoKept'
    BY <2>1, <2>2, <2>3, <2>4 DEF FifoKept
  <2>6. JobKept(q)'
    BY <2>1 DEF JobKept, Storing, Clearing, Stored
  <2>7. QED
    BY <2>1, <2>5, <2>6 DEF NotDropped
<1>10. CASE WritesCycle(q, r) \/ Dispatches(q, r) \/ ClearsState(q, r)
  <2>1. UNCHANGED <<ledger, state, queue>>
    BY <1>10 DEF WritesCycle, Dispatches, ClearsState, Held
  <2>2. \/ q = IdleJob
        \/ /\ q.t = r.t /\ q.led = r.led /\ q.cont = r.cont
           /\ \/ r.pc \in {"cycle", "advCycle"} /\ q.pc = "dispatch"
              \/ r.pc = "dispatch" /\ q.pc = "recLedger" /\ r.cont = "review"
              \/ r.pc = "dispatch" /\ q.pc = "after"
              \/ r.pc = "recClear" /\ q.pc = "recClearCampaign"
    BY <1>10 DEF WritesCycle, Dispatches, ClearsState, Carries, Alike
  <2>3. JobKept(q)
    BY <2>2 DEF JobKept, Storing, Clearing, Stored, IdleJob
  <2>4. QED
    BY <1>1, <2>1, <2>3
<1>11. CASE WritesLedger(q, r)
  <2>1. /\ r.pc = "recLedger" /\ ledger' = r.led /\ UNCHANGED <<state, queue>>
        /\ q.pc = "reviews" /\ q.cont = "none"
    BY <1>11 DEF WritesLedger
  <2>2. r.t \in state.completed /\ ToSet(ledger) \subseteq ToSet(r.led) \cup {r.t}
    BY <2>1 DEF JobKept, Clearing
  <2>3. FifoKept'
    BY <2>1, <2>2 DEF FifoKept
  <2>4. QED
    BY <2>1, <2>3 DEF JobKept, Storing, Clearing, Stored, NotDropped
<1>12. QED
  BY <1>2, <1>3, <1>4, <1>5, <1>6, <1>7, <1>8, <1>9, <1>10, <1>11 DEF Moves

\* With one group, no step loses a task.
LEMMA NoneIsLost ==
    ASSUME OneGroup, Standing, Sound, RecoveryInv, Once, Kept, [Next]_vars
    PROVE  Kept' /\ NotDropped
<1> PICK a \in Agent : a = Actor
  BY GateIsAgent, NameAssumption DEF Actor
<1> PICK r : r = job[a]
  OBVIOUS
<1> PICK q : q = job'[a]
  OBVIOUS
<1>1. OneMoves(q, r)
  BY OneJobMoves
<1>2. /\ FilesOnce /\ JobOnce(r) /\ JobSound(r) /\ r \in JobType /\ Covers(r)
      /\ FifoKept /\ JobKept(r)
  BY DEF Once, Sound, Standing, SnapshotsCover, Kept
<1>3. job'[Actor'] = q
  BY TargetStays DEF Actor
<1>4. CASE Moves(q, r) /\ UNCHANGED <<started, pr, target, crashes>>
  BY <1>2, <1>3, <1>4, MovesKept DEF Kept
<1>5. CASE SameCampaign /\ (q = IdleJob \/ Begins(q, r) \/ StandsBy(q, r))
  <2>1. JobKept(q)
    <3>1. CASE q = IdleJob
      BY <3>1 DEF IdleJob, JobKept, Storing, Clearing, Stored
    <3>2. CASE Begins(q, r)
      <4>1. q.pc \in {"idle", "reviews", "session", "status", "repair", "merge", "advance"}
        BY <3>2 DEF Begins
      <4>2. q.cont = "none" \/ ToSet(ledger) = {}
        BY <3>2 DEF Begins, RecoveryInv, SelfInv, SelfHosted, ToSet
      <4>3. QED
        BY <4>1, <4>2 DEF JobKept, Storing, Clearing, Stored
    <3>3. CASE StandsBy(q, r)
      <4>1. /\ q.pc = r.pc /\ q.st = r.st /\ q.t = r.t /\ q.nxt = r.nxt /\ q.led = r.led
            /\ q.cont = r.cont
        BY <1>2, <3>3, JobIs DEF StandsBy
      <4>2. QED
        BY <1>2, <4>1 DEF JobKept
    <3>4. QED
      BY <1>5, <3>1, <3>2, <3>3
  <2>2. FifoKept' /\ JobKept(q)' /\ NotDropped
    BY <1>2, <1>5, <2>1, SameIsKept DEF SameCampaign
  <2>3. QED
    BY <1>3, <2>2 DEF Kept
<1>6. QED
  BY <1>1, <1>4, <1>5 DEF OneMoves

\* The campaign starts with its whole queue.
LEMMA KeptInit == Init => Kept
<1> SUFFICES ASSUME Init PROVE Kept
  OBVIOUS
<1>1. FifoKept
  BY DEF Init, FifoKept
<1>2. job[Actor] = IdleJob
  BY GateIsAgent, NameAssumption DEF Init, Actor
<1>3. QED
  BY <1>1, <1>2 DEF Kept, JobKept, Storing, Clearing, Stored, IdleJob

\* When one concurrency group reaches the control branch, no task of the
\* project is lost, whichever write of whichever job is its last.
THEOREM NoTaskLost == OneGroup => (Spec => NoTaskIsLost)
<1> SUFFICES ASSUME OneGroup PROVE Spec => NoTaskIsLost
  OBVIOUS
<1>1. Init => Bounded
  BY RecoveryAssumption DEF Init, Bounded, Policy!NoRecovery, Policy!PolicyAssumption
<1>2. Standing /\ Sound /\ Ahead /\ RecoveryInv /\ Once /\ Kept /\ [Next]_vars =>
        Once' /\ Kept' /\ NotDropped
  BY OnceKept, NoneIsLost
<1>3. Kept => FifoKept
  BY DEF Kept
<1>4. Spec => [](FifoKept) /\ [][NotDropped]_vars
  BY <1>1, <1>2, <1>3, OnceInit, KeptInit, SoundInit, SoundKept, SoleKept, StandingInit,
     StandingKept, AheadInit, AheadKept, BoundedKept, RecoveryInit, RecoveryKept, PTL DEF Spec
<1>5. QED
  BY <1>4 DEF NotDropped, NoTaskIsLost, CurrentIsNotDropped

-----------------------------------------------------------------------------
\* The files agree.  While its one job is under way, each write takes them a step
\* nearer to a state in which they agree again: what the job has stored and what
\* it is about to store do.

Parked == {"park", "review"}

Exhausted(g) == \A m \in Managed : g[m] \in {"COMPLETED", "FAILED"}

\* The graph g, the current task cur, the parked tasks W, the completed tasks done
\* and the queued tasks Q agree.
Shelf(g, cur, W, done, Q) ==
    /\ \A m \in Managed : /\ g[m] = "RUNNING" <=> cur = m
                          /\ g[m] = "WAITING_REVIEW" <=> m \in W
    /\ cur \notin W /\ W \cap done = {} /\ W \cap Q = {}
    /\ \A u \in W \cup {cur} : Outside(u) => Exhausted(g)

\* The task cur has the cycle and was dispatched.
Handed(cur) == cur # NoTask => cur = cycle /\ cur \in dispatched

\* A status s that waits for a human shows a parked review.
Shown(s, W) == s = "HUMAN_WAIT" => W # {}

Agreed ==
    /\ Shelf(graph, state.current, ToSet(ledger), state.completed, ToSet(queue))
    /\ Handed(state.current) /\ Shown(state.status, ToSet(ledger))

\* The current task cur is the successor that job r hands over, or has been.
Coming(r, cur) == cur = r.nxt \/ (r.nxt = NoTask /\ Handed(cur))

\* The ledger when job r is done.
Aim(r) ==
    IF r.pc \in {"parkGraph", "parkLedger"} THEN ToSet(ledger) \cup {r.t}
    ELSE IF r.cont \in {"review", "legacy"} THEN ToSet(r.led) ELSE ToSet(ledger)

\* The graph when job r has written it.
AimGraph(r) == IF r.pc \in GraphWrite THEN r.g1 ELSE graph

\* What a job does not lose to another write.
Unspoiled(r) ==
    /\ r.pc \in GraphWrite => r.g0 = graph
    /\ r.pc \in Planning => r.fresh
    /\ r.pc \in QueuePlanned => r.q0 = queue
    /\ r.pc \in QueuePlanned /\ r.cont \notin Parked => r.c0 = cycle
    /\ r.pc = "advCycle" => r.cont \notin Parked /\ r.c0 = cycle

\* The reads that decide what a job does.
Decides(r) ==
    /\ r.pc = "poll" => r.t = state.current
    /\ r.pc = "advance" =>
         IF r.cont = "legacy"
         THEN r.t \notin Managed /\ r.t \in ToSet(ledger) /\ ToSet(r.led) = ToSet(ledger) \ {r.t}
         ELSE r.cont = "receipt" /\ r.t = state.current

\* What it is about to store in state.json.
Aims(r) ==
    /\ r.pc \in Storing =>
         /\ Coming(r, r.st.current) /\ Shown(r.st.status, Aim(r))
         /\ Shelf(AimGraph(r), r.st.current, Aim(r), r.st.completed, ToSet(queue))
    /\ r.pc \in {"parkGraph", "parkLedger"} =>
         /\ r.st.completed = state.completed
         /\ Shelf(AimGraph(r), r.nxt, Aim(r), state.completed, ToSet(queue))
    /\ r.pc \in {"recGraph", "recRead"} =>
         /\ r.cont = "review" /\ r.t # state.current /\ Handed(state.current)
         /\ state.current # NoTask => r.nxt = NoTask
         /\ Shelf(AimGraph(r), IF state.current = NoTask THEN r.nxt ELSE state.current,
                  ToSet(r.led), state.completed \cup {r.t}, ToSet(queue))

\* What it has stored there.
Follows(r) ==
    /\ r.pc \in Stored \cup Clearing =>
         /\ Shelf(graph, state.current, Aim(r), state.completed, ToSet(queue))
         /\ Shown(state.status, Aim(r))
    /\ r.pc \in Stored \ {"after"} => Coming(r, state.current)
    /\ r.pc \in {"cycle", "dispatch"} => state.current = r.nxt
    /\ r.pc = "dispatch" => r.nxt = cycle
    /\ r.pc \in Clearing \cup {"after"} => Handed(state.current)
    /\ r.pc \in Clearing => r.cont \in {"review", "legacy"}

InStep(r) ==
    /\ r.pc \in Resting => Agreed
    /\ Unspoiled(r) /\ Decides(r) /\ Aims(r) /\ Follows(r)

AllInStep == Undisturbed => InStep(job[MainWorker])

\* What the operations of the graph make of its one running task and of its
\* parked ones.
LEMMA OperationAims ==
    ASSUME NEW g \in [Managed -> Dag!Status], NEW t \in Managed, NEW h, NEW n
    PROVE  /\ Dag!AdvanceResult(g, t, h, n) /\ (\A m \in Managed : g[m] = "RUNNING" <=> m = t) =>
                /\ n \in Managed \cup {NoTask}
                /\ \A m \in Managed : /\ h[m] = "RUNNING" <=> m = n
                                      /\ h[m] = "WAITING_REVIEW" <=> g[m] = "WAITING_REVIEW"
           /\ Dag!ParkResult(g, t, h, n) /\ (\A m \in Managed : g[m] = "RUNNING" <=> m = t) =>
                /\ n \in Managed \cup {NoTask}
                /\ \A m \in Managed :
                     /\ h[m] = "RUNNING" <=> m = n
                     /\ h[m] = "WAITING_REVIEW" <=> g[m] = "WAITING_REVIEW" \/ m = t
           /\ Dag!ReconcileResult(g, t, h, n) /\ g[t] = "WAITING_REVIEW" =>
                /\ n \in Managed \cup {NoTask}
                /\ \A m \in Managed :
                     /\ h[m] = "RUNNING" <=> g[m] = "RUNNING" \/ m = n
                     /\ h[m] = "WAITING_REVIEW" <=> g[m] = "WAITING_REVIEW" /\ m # t
                     /\ g[m] = "RUNNING" => n = NoTask
<1> DEFINE c == Dag!WithStatus(g, t, "COMPLETED")
           w == Dag!WithStatus(g, t, "WAITING_REVIEW")
<1>1. /\ c \in [Managed -> Dag!Status] /\ c[t] = "COMPLETED"
      /\ \A m \in Managed : m # t => c[m] = g[m]
  BY DEF Dag!WithStatus, Dag!Status
<1>2. /\ w \in [Managed -> Dag!Status] /\ w[t] = "WAITING_REVIEW"
      /\ \A m \in Managed : m # t => w[m] = g[m]
  BY DEF Dag!WithStatus, Dag!Status
<1>3. NoTask \notin Managed
  BY NameAssumption
<1> HIDE DEF c, w
<1>4. ASSUME Dag!AdvanceResult(g, t, h, n), \A m \in Managed : g[m] = "RUNNING" <=> m = t
      PROVE  /\ n \in Managed \cup {NoTask}
             /\ \A m \in Managed : /\ h[m] = "RUNNING" <=> m = n
                                   /\ h[m] = "WAITING_REVIEW" <=> g[m] = "WAITING_REVIEW"
  <2>1. Dag!Selected(c, n) /\ h = Dag!Activated(c, n) /\ g[t] = "RUNNING"
    BY <1>4 DEF Dag!AdvanceResult, c
  <2>2. /\ n \in Managed \cup {NoTask} /\ (n \in Managed => c[n] = "PENDING")
        /\ \A m \in Managed : h[m] = IF m = n THEN "RUNNING" ELSE c[m]
    BY <1>1, <2>1, ActivationFacts
  <2>3. QED
    BY <1>1, <1>3, <1>4, <2>1, <2>2
<1>5. ASSUME Dag!ParkResult(g, t, h, n), \A m \in Managed : g[m] = "RUNNING" <=> m = t
      PROVE  /\ n \in Managed \cup {NoTask}
             /\ \A m \in Managed :
                  /\ h[m] = "RUNNING" <=> m = n
                  /\ h[m] = "WAITING_REVIEW" <=> g[m] = "WAITING_REVIEW" \/ m = t
  <2>1. Dag!Selected(w, n) /\ h = Dag!Activated(w, n)
    BY <1>5 DEF Dag!ParkResult, w
  <2>2. /\ n \in Managed \cup {NoTask} /\ (n \in Managed => w[n] = "PENDING")
        /\ \A m \in Managed : h[m] = IF m = n THEN "RUNNING" ELSE w[m]
    BY <1>2, <2>1, ActivationFacts
  <2>3. QED
    BY <1>2, <1>3, <1>5, <2>2
<1>6. ASSUME Dag!ReconcileResult(g, t, h, n), g[t] = "WAITING_REVIEW"
      PROVE  /\ n \in Managed \cup {NoTask}
             /\ \A m \in Managed :
                  /\ h[m] = "RUNNING" <=> g[m] = "RUNNING" \/ m = n
                  /\ h[m] = "WAITING_REVIEW" <=> g[m] = "WAITING_REVIEW" /\ m # t
                  /\ g[m] = "RUNNING" => n = NoTask
  <2>1. Dag!Selected(c, n) /\ h = Dag!Activated(c, n)
    BY <1>6 DEF Dag!ReconcileResult, c
  <2>2. /\ n \in Managed \cup {NoTask} /\ (n \in Managed => c[n] = "PENDING")
        /\ \A m \in Managed : h[m] = IF m = n THEN "RUNNING" ELSE c[m]
    BY <1>1, <2>1, ActivationFacts
  <2>3. \A m \in Managed : g[m] = "RUNNING" => c[m] = "RUNNING" /\ n = NoTask
    BY <1>1, <1>6, <2>1 DEF Dag!Selected
  <2>4. \A m \in Managed : c[m] = "WAITING_REVIEW" <=> g[m] = "WAITING_REVIEW" /\ m # t
    BY <1>1, <1>6
  <2>5. \A m \in Managed : c[m] = "RUNNING" <=> g[m] = "RUNNING"
    BY <1>1, <1>6
  <2>6. QED
    BY <1>3, <2>2, <2>3, <2>4, <2>5
<1>7. QED
  BY <1>4, <1>5, <1>6

\* A completion is planned.
LEMMA PlansInStep ==
    ASSUME Sound, FilesOnce, NEW q, NEW r, InStep(r), Plans(q, r)
    PROVE  InStep(q)
<1> PICK t : t = r.t
  OBVIOUS
<1> PICK L : L = ToSet(ledger)
  OBVIOUS
<1> PICK Q : Q = ToSet(queue)
  OBVIOUS
<1> PICK cur, done : cur = state.current /\ done = state.completed
  OBVIOUS
<1>1. /\ r.pc = "advance" /\ cur \in {NoTask, t} /\ t \in Task
      /\ q.pc = (IF t \in Managed THEN "advGraph" ELSE "advCampaign")
      /\ q.t = t /\ q.cont = r.cont /\ q.led = r.led
      /\ q.g0 = graph /\ q.q0 = queue /\ q.c0 = cycle /\ q.fresh
      /\ q.st.current = q.nxt /\ q.st.completed = done \cup {t}
      /\ q.st.status \in {"BLOCKED", "READY"}
  BY DEF Plans
<1>2. /\ t \notin Managed => q.g1 = graph
      /\ \/ /\ q.nxt \in Managed \cup {NoTask}
            /\ t \notin Managed => q.nxt = NoTask
            /\ t \in Managed => Dag!AdvanceResult(graph, t, q.g1, q.nxt)
         \/ /\ queue # <<>> /\ q.nxt = Head(queue)
            /\ t \in Managed => /\ Dag!AdvanceResult(graph, t, q.g1, NoTask)
                                /\ ~Dag!UnfinishedWork(q.g1)
  BY DEF Plans
<1>3. /\ IF r.cont = "legacy" THEN t \notin Managed /\ t \in L /\ ToSet(r.led) = L \ {t}
                              ELSE r.cont = "receipt" /\ t = cur
      /\ Shelf(graph, cur, L, done, Q)
  BY <1>1 DEF InStep, Decides, Agreed, Resting
<1>4. /\ \A m \in Managed : (graph[m] = "RUNNING" <=> cur = m)
                            /\ (graph[m] = "WAITING_REVIEW" <=> m \in L)
      /\ cur \notin L /\ L \cap done = {} /\ L \cap Q = {}
      /\ \A u \in L \cup {cur} : Outside(u) => Exhausted(graph)
  BY <1>3 DEF Shelf
<1>5. /\ NoTask \notin Task /\ Managed \subseteq Task
      /\ \A u \in Q : u \notin Managed /\ u \in Task /\ Outside(u)
      /\ L \subseteq Task
  <2>1. ledger \in Seq(Task)
    BY DEF Sound, FilesTyped
  <2>2. \A i \in DOMAIN ledger : ledger[i] \in Task
    BY <2>1
  <2>3. QED
    BY <2>2, QueueIsNotOfGraph DEF Outside, ToSet
<1>6. queue # <<>> => Head(queue) \in Q
  BY TailIsQueued DEF FilesOnce, Fresh
<1>7. Unspoiled(q)
  BY <1>1 DEF Unspoiled, GraphWrite
<1>8. Decides(q) /\ Follows(q) /\ (q.pc \in Resting => Agreed)
  BY <1>1 DEF Decides, Follows, Resting, Stored, Clearing
<1>9. Coming(q, q.st.current) /\ Shown(q.st.status, Aim(q))
  BY <1>1 DEF Coming, Shown
<1>10. CASE t \in Managed
  <2>1. cur = t /\ q.pc = "advGraph" /\ r.cont = "receipt" /\ q.cont = "receipt"
    BY <1>1, <1>3, <1>10
  <2>2. AimGraph(q) = q.g1 /\ Aim(q) = L
    BY <2>1 DEF AimGraph, Aim, GraphWrite
  <2>3. graph \in [Managed -> Dag!Status] /\ \A m \in Managed : graph[m] = "RUNNING" <=> m = t
    BY <1>4, <2>1 DEF Sound, FilesTyped
  <2>4. ~Exhausted(graph)
    BY <1>10, <2>3 DEF Exhausted
  <2>5. PICK n \in Managed \cup {NoTask} :
          /\ Dag!AdvanceResult(graph, t, q.g1, n)
          /\ \/ q.nxt = n
             \/ n = NoTask /\ q.nxt \in Q /\ ~Dag!UnfinishedWork(q.g1)
    BY <1>2, <1>6, <1>10
  <2>6. \A m \in Managed : (q.g1[m] = "RUNNING" <=> m = n)
                           /\ (q.g1[m] = "WAITING_REVIEW" <=> graph[m] = "WAITING_REVIEW")
    BY <1>10, <2>3, <2>5, OperationAims
  <2>7. \A m \in Managed : (q.g1[m] = "RUNNING" <=> q.nxt = m)
                           /\ (q.g1[m] = "WAITING_REVIEW" <=> m \in L)
    BY <1>4, <1>5, <2>5, <2>6
  <2>8. q.nxt \notin L
    BY <1>4, <1>5, <2>5, <2>7
  <2>9. L \cap (done \cup {t}) = {}
    BY <1>4, <2>1
  <2>10. \A u \in L : ~Outside(u)
    BY <1>4, <2>4
  <2>11. Outside(q.nxt) => Exhausted(q.g1)
    BY <2>5 DEF Outside, Exhausted, Dag!UnfinishedWork
  <2>12. Shelf(q.g1, q.nxt, L, done \cup {t}, Q)
    BY <1>4, <2>7, <2>8, <2>9, <2>10, <2>11 DEF Shelf
  <2>13. Aims(q)
    BY <1>1, <1>9, <2>1, <2>2, <2>12 DEF Aims
  <2>14. QED
    BY <1>7, <1>8, <2>13 DEF InStep
<1>11. CASE t \notin Managed
  <2>1. q.pc = "advCampaign" /\ q.nxt \in Q \cup {NoTask}
    BY <1>1, <1>2, <1>6, <1>11
  <2> PICK W : W = Aim(q)
    OBVIOUS
  <2>2. AimGraph(q) = graph /\ W = IF r.cont = "legacy" THEN L \ {t} ELSE L
    BY <1>1, <1>3, <2>1 DEF AimGraph, Aim, GraphWrite
  <2>3. /\ \A m \in Managed : (graph[m] = "RUNNING" <=> q.nxt = m)
                              /\ (graph[m] = "WAITING_REVIEW" <=> m \in W)
    BY <1>1, <1>4, <1>5, <1>11, <2>1, <2>2
  <2>4. q.nxt \notin W /\ W \cap (done \cup {t}) = {} /\ W \cap Q = {}
    BY <1>3, <1>4, <1>5, <2>1, <2>2
  <2>5. Outside(t) /\ t \in L \cup {cur}
    BY <1>1, <1>3, <1>5, <1>11 DEF Outside
  <2>6. Exhausted(graph)
    BY <1>4, <2>5
  <2>7. Shelf(graph, q.nxt, W, done \cup {t}, Q)
    BY <2>3, <2>4, <2>6 DEF Shelf
  <2>8. Aims(q)
    BY <1>1, <1>9, <2>1, <2>2, <2>7 DEF Aims
  <2>9. QED
    BY <1>7, <1>8, <2>8 DEF InStep
<1>12. QED
  BY <1>10, <1>11

\* The current task is about to be parked.
LEMMA ParksInStep ==
    ASSUME Sound, Ahead, FilesOnce, NEW q, NEW r, InStep(r), ParksNode(q, r)
    PROVE  InStep(q)
<1> PICK t : t = r.t
  OBVIOUS
<1> PICK L : L = ToSet(ledger)
  OBVIOUS
<1> PICK Q : Q = ToSet(queue)
  OBVIOUS
<1> PICK done : done = state.completed
  OBVIOUS
<1>1. /\ r.pc = "park" /\ state.current = t /\ t \in Task /\ r.nxt = NoTask
      /\ q.t = t /\ q.cont = "park" /\ q.fresh /\ q.st = state /\ q.g0 = graph
      /\ IF t \in Managed
         THEN /\ q.pc = "parkGraph" /\ q.nxt \in Managed \cup {NoTask}
              /\ Dag!ParkResult(graph, t, q.g1, q.nxt)
         ELSE q.pc = "parkLedger" /\ q.led = ledger /\ q.nxt = NoTask
  BY DEF ParksNode
<1>2. Shelf(graph, t, L, done, Q) /\ Handed(t)
  BY <1>1 DEF InStep, Agreed, Resting
<1>3. /\ \A m \in Managed : (graph[m] = "RUNNING" <=> t = m)
                            /\ (graph[m] = "WAITING_REVIEW" <=> m \in L)
      /\ t \notin L /\ L \cap done = {} /\ L \cap Q = {}
      /\ \A u \in L \cup {t} : Outside(u) => Exhausted(graph)
  BY <1>2 DEF Shelf
<1>4. /\ NoTask \notin Task /\ Managed \subseteq Task
      /\ \A u \in Q : u \notin Managed /\ u \in Task /\ Outside(u)
  BY QueueIsNotOfGraph DEF Outside
<1>5. t \notin Q
  <2>1. t = cycle
    BY <1>1, <1>2, <1>4 DEF Handed
  <2>2. ~Untouched(t)
    BY <2>1 DEF Untouched
  <2>3. QED
    BY <2>2 DEF FilesOnce, Fresh
<1>6. t \notin done
  <2>1. CASE t \in Managed
    <3>1. ~Done(t)
      BY <1>3, <2>1 DEF Done
    <3>2. QED
      BY <3>1 DEF Ahead
  <2>2. CASE t \notin Managed
    <3>1. Outside(t)
      BY <1>1, <1>4, <2>2 DEF Outside
    <3>2. QED
      BY <1>1, <3>1 DEF FilesOnce, OncePlanned
  <2>3. QED
    BY <2>1, <2>2
<1>7. Unspoiled(q) /\ Decides(q) /\ Follows(q) /\ (q.pc \in Resting => Agreed)
  BY <1>1 DEF Unspoiled, QueuePlanned, Decides, Follows, Resting, Stored, Clearing, GraphWrite
<1>8. Aim(q) = L \cup {t}
  BY <1>1 DEF Aim
<1>9. (L \cup {t}) \cap done = {} /\ (L \cup {t}) \cap Q = {}
  BY <1>3, <1>5, <1>6
<1>10. CASE t \in Managed
  <2>1. AimGraph(q) = q.g1 /\ q.pc = "parkGraph"
    BY <1>1, <1>10 DEF AimGraph, GraphWrite
  <2>2. graph \in [Managed -> Dag!Status] /\ \A m \in Managed : graph[m] = "RUNNING" <=> m = t
    BY <1>3 DEF Sound, FilesTyped
  <2>3. ~Exhausted(graph)
    BY <1>10, <2>2 DEF Exhausted
  <2>4. \A m \in Managed :
           /\ q.g1[m] = "RUNNING" <=> m = q.nxt
           /\ q.g1[m] = "WAITING_REVIEW" <=> graph[m] = "WAITING_REVIEW" \/ m = t
    BY <1>1, <1>10, <2>2, OperationAims
  <2>5. \A m \in Managed : (q.g1[m] = "RUNNING" <=> q.nxt = m)
                           /\ (q.g1[m] = "WAITING_REVIEW" <=> m \in L \cup {t})
    BY <1>3, <2>4
  <2>6. q.nxt \notin L \cup {t}
    <3>1. CASE q.nxt \in Managed
      BY <2>5, <3>1
    <3>2. CASE q.nxt = NoTask
      <4>1. ledger \in Seq(Task)
        BY DEF Sound, FilesTyped
      <4>2. \A i \in DOMAIN ledger : ledger[i] \in Task
        BY <4>1
      <4>3. QED
        BY <1>1, <1>4, <3>2, <4>2 DEF ToSet
    <3>3. QED
      BY <1>1, <1>10, <3>1, <3>2
  <2>7. \A u \in L \cup {t} \cup {q.nxt} : ~Outside(u)
    BY <1>1, <1>3, <1>10, <2>3 DEF Outside
  <2>8. Shelf(q.g1, q.nxt, L \cup {t}, done, Q)
    BY <1>9, <2>5, <2>6, <2>7 DEF Shelf
  <2>9. Aims(q)
    BY <1>1, <1>8, <2>1, <2>8 DEF Aims, Storing
  <2>10. QED
    BY <1>7, <2>9 DEF InStep
<1>11. CASE t \notin Managed
  <2>1. AimGraph(q) = graph /\ q.pc = "parkLedger" /\ q.nxt = NoTask
    BY <1>1, <1>11 DEF AimGraph, GraphWrite
  <2>2. Outside(t) /\ Exhausted(graph)
    BY <1>1, <1>3, <1>4, <1>11 DEF Outside
  <2>3. NoTask \notin L \cup {t}
    <3>1. ledger \in Seq(Task)
      BY DEF Sound, FilesTyped
    <3>2. \A i \in DOMAIN ledger : ledger[i] \in Task
      BY <3>1
    <3>3. QED
      BY <1>1, <1>4, <3>2 DEF ToSet
  <2>4. \A m \in Managed : (graph[m] = "RUNNING" <=> NoTask = m)
                           /\ (graph[m] = "WAITING_REVIEW" <=> m \in L \cup {t})
    BY <1>3, <1>4, <1>11
  <2>5. Shelf(graph, NoTask, L \cup {t}, done, Q)
    BY <1>9, <2>2, <2>3, <2>4 DEF Shelf
  <2>6. Aims(q)
    BY <1>1, <1>8, <2>1, <2>5 DEF Aims, Storing
  <2>7. QED
    BY <1>7, <2>6 DEF InStep
<1>12. QED
  BY <1>10, <1>11

\* The ledger has the record of the parked task.
LEMMA RecordInStep ==
    ASSUME Sound, NEW q, NEW r, InStep(r), JobKept(r), ParksRecord(q, r),
           UNCHANGED <<graph, state, queue, cycle, dispatched>>
    PROVE  InStep(q)'
<1> PICK t : t = r.t
  OBVIOUS
<1> PICK L : L = ToSet(ledger) \cup {t}
  OBVIOUS
<1>1. /\ r.pc = "parkLedger" /\ t \in Task /\ ledger' = Upsert(r.led, t)
      /\ q.pc = "putState" /\ q.cont = "park" /\ q.nxt = r.nxt
      /\ q.fresh = r.fresh /\ q.q0 = queue
      /\ q.st.current = r.nxt /\ q.st.completed = r.st.completed
  BY DEF ParksRecord
<1>2. r.led = ledger /\ ledger \in Seq(Task) /\ IsInjective(ledger)
  BY <1>1 DEF JobKept, Sound, FilesTyped
<1>3. ToSet(ledger') = L
  BY <1>1, <1>2, UpsertFacts
<1>4. /\ r.fresh /\ r.st.completed = state.completed
      /\ Shelf(graph, r.nxt, L, state.completed, ToSet(queue))
  BY <1>1 DEF InStep, Unspoiled, Planning, Aims, Aim, AimGraph, GraphWrite
<1>5. Aim(q)' = L /\ AimGraph(q)' = graph
  BY <1>1, <1>3 DEF Aim, AimGraph, GraphWrite
<1>6. Unspoiled(q)' /\ Decides(q)' /\ Follows(q)' /\ (q.pc \in Resting => Agreed')
  BY <1>1, <1>4
     DEF Unspoiled, Decides, Follows, Resting, Stored, Clearing, GraphWrite, Parked
<1>7. Coming(q, q.st.current)' /\ Shown(q.st.status, Aim(q)')
  BY <1>1, <1>5 DEF Coming, Shown
<1>8. Shelf(AimGraph(q)', q.st.current, Aim(q)', q.st.completed, ToSet(queue'))
  BY <1>1, <1>4, <1>5
<1>9. Aims(q)'
  BY <1>1, <1>7, <1>8 DEF Aims, Shown, Shelf
<1>10. QED
  BY <1>6, <1>9 DEF InStep

\* A merge is about to be reconciled.
LEMMA ReconcilesInStep ==
    ASSUME Sound, NEW q, NEW r, InStep(r), Reconciles(q, r)
    PROVE  InStep(q)
<1> PICK t : t = q.t
  OBVIOUS
<1> PICK L : L = ToSet(ledger)
  OBVIOUS
<1> PICK Q : Q = ToSet(queue)
  OBVIOUS
<1> PICK cur, done : cur = state.current /\ done = state.completed
  OBVIOUS
<1>1. r.pc = "reviews"
  BY DEF Reconciles
<1>2. Agreed
  BY <1>1 DEF InStep, Resting
<1>3. CASE q = IdleJob
  BY <1>2, <1>3
     DEF IdleJob, InStep, Unspoiled, Decides, Aims, Follows, Resting, Stored, Clearing,
         GraphWrite, Planning, QueuePlanned, Storing
<1>4. CASE q # IdleJob
  <2>1. /\ t \in L /\ t \in Task /\ q.led = Without(ledger, t) /\ q.g0 = graph
        /\ \/ /\ t \in Managed /\ q.pc = "recGraph" /\ q.cont = "review"
              /\ graph[t] = "WAITING_REVIEW"
              /\ Dag!ReconcileResult(graph, t, q.g1, q.nxt) /\ q.nxt \in Managed \cup {NoTask}
           \/ t \in Managed /\ graph[t] = "COMPLETED"
           \/ /\ t \notin Managed /\ q.cont = "legacy"
              /\ q.pc = (IF t \in done THEN "recClear" ELSE "advance")
    BY <1>4 DEF Reconciles
  <2>2. /\ \A m \in Managed : (graph[m] = "RUNNING" <=> cur = m)
                              /\ (graph[m] = "WAITING_REVIEW" <=> m \in L)
        /\ cur \notin L /\ L \cap done = {} /\ L \cap Q = {} /\ Handed(cur)
        /\ \A u \in L \cup {cur} : Outside(u) => Exhausted(graph)
    BY <1>2 DEF Agreed, Shelf
  <2>3. ledger \in Seq(Task) /\ IsInjective(ledger) /\ graph \in [Managed -> Dag!Status]
    BY DEF Sound, FilesTyped
  <2>4. ToSet(q.led) = L \ {t}
    BY <2>1, <2>3, RemoveFacts DEF Without
  <2>5. CASE t \notin Managed
    <3>1. q.pc = "advance" /\ q.cont = "legacy"
      BY <2>1, <2>2, <2>5
    <3>2. Decides(q)
      BY <2>1, <2>4, <2>5, <3>1 DEF Decides
    <3>3. QED
      BY <1>2, <3>1, <3>2
         DEF InStep, Unspoiled, Aims, Follows, Resting, Stored, Clearing, GraphWrite, Planning,
             QueuePlanned, Storing
  <2>6. CASE t \in Managed
    <3>1. /\ q.pc = "recGraph" /\ q.cont = "review" /\ graph[t] = "WAITING_REVIEW"
          /\ Dag!ReconcileResult(graph, t, q.g1, q.nxt)
      BY <2>1, <2>2, <2>6
    <3>2. /\ q.nxt \in Managed \cup {NoTask}
          /\ \A m \in Managed :
               /\ q.g1[m] = "RUNNING" <=> graph[m] = "RUNNING" \/ m = q.nxt
               /\ q.g1[m] = "WAITING_REVIEW" <=> graph[m] = "WAITING_REVIEW" /\ m # t
               /\ graph[m] = "RUNNING" => q.nxt = NoTask
      BY <2>3, <2>6, <3>1, OperationAims
    <3>3. ~Exhausted(graph)
      BY <2>6, <3>1 DEF Exhausted
    <3>4. \A u \in L \cup {cur} : ~Outside(u)
      BY <2>2, <3>3
    <3>5. cur # NoTask => q.nxt = NoTask
      BY <2>2, <3>2, <3>4 DEF Outside
    <3> PICK next : next = IF cur = NoTask THEN q.nxt ELSE cur
      OBVIOUS
    <3>6. NoTask \notin Managed /\ NoTask \notin L
      <4>1. \A i \in DOMAIN ledger : ledger[i] \in Task
        BY <2>3
      <4>2. QED
        BY <4>1, NameAssumption DEF ToSet
    <3>7. \A m \in Managed : (q.g1[m] = "RUNNING" <=> next = m)
                             /\ (q.g1[m] = "WAITING_REVIEW" <=> m \in L \ {t})
      BY <2>2, <3>2, <3>5, <3>6
    <3>8. next \notin L \ {t}
      BY <2>2, <3>2, <3>6, <3>7
    <3>9. ~Outside(next)
      BY <3>2, <3>4 DEF Outside
    <3>10. (L \ {t}) \cap (done \cup {t}) = {} /\ (L \ {t}) \cap Q = {}
      BY <2>2
    <3>11. Shelf(q.g1, next, L \ {t}, done \cup {t}, Q)
      BY <3>4, <3>7, <3>8, <3>9, <3>10 DEF Shelf
    <3>12. AimGraph(q) = q.g1 /\ t # cur
      BY <2>1, <2>2, <3>1 DEF AimGraph, GraphWrite
    <3>13. Aims(q)
      BY <2>2, <2>4, <3>1, <3>5, <3>11, <3>12 DEF Aims, Storing
    <3>14. QED
      BY <2>1, <3>1, <3>13
         DEF InStep, Unspoiled, Decides, Follows, Resting, Stored, Clearing, GraphWrite,
             Planning, QueuePlanned
  <2>7. QED
    BY <2>5, <2>6
<1>5. QED
  BY <1>3, <1>4

\* The reconciled state is about to be stored.
LEMMA PreparesInStep ==
    ASSUME Sound, NEW q, NEW r, JobSound(r), InStep(r), Prepares(q, r)
    PROVE  InStep(q)
<1> PICK cur : cur = state.current
  OBVIOUS
<1> PICK next : next = IF cur = NoTask THEN r.nxt ELSE cur
  OBVIOUS
<1>1. /\ r.pc = "recRead" /\ q.pc = "putState" /\ q.t = r.t /\ q.cont = r.cont /\ q.led = r.led
      /\ q.fresh /\ q.q0 = queue /\ q.st.completed = state.completed \cup {r.t}
      /\ IF cur \in {NoTask, r.t}
         THEN /\ q.nxt = r.nxt /\ q.st.current = r.nxt
              /\ q.st.status = (IF r.nxt = NoTask /\ r.led # <<>> THEN "HUMAN_WAIT" ELSE "READY")
         ELSE q.nxt = NoTask /\ q.st.current = cur /\ q.st.status = "RUNNING"
  BY DEF Prepares
<1>2. /\ r.cont = "review" /\ r.t # cur /\ Handed(cur)
      /\ cur # NoTask => r.nxt = NoTask
      /\ Shelf(graph, next, ToSet(r.led), state.completed \cup {r.t}, ToSet(queue))
  BY <1>1 DEF InStep, Aims, AimGraph, GraphWrite
<1>3. q.st.current = next /\ Coming(q, next)
  BY <1>1, <1>2 DEF Coming
<1>4. Aim(q) = ToSet(r.led) /\ AimGraph(q) = graph
  BY <1>1, <1>2 DEF Aim, AimGraph, GraphWrite
<1>5. Shown(q.st.status, Aim(q))
  <2>1. r.led \in Seq(Task)
    BY JobIs DEF JobSound, Records
  <2>2. r.led # <<>> => Head(r.led) \in ToSet(r.led)
    BY <2>1, TailIsQueued
  <2>3. q.st.status = "HUMAN_WAIT" => r.led # <<>>
    BY <1>1
  <2>4. QED
    BY <1>4, <2>2, <2>3 DEF Shown
<1>6. Aims(q)
  BY <1>1, <1>2, <1>3, <1>4, <1>5 DEF Aims
<1>7. QED
  BY <1>1, <1>2, <1>6
     DEF InStep, Unspoiled, Decides, Follows, Resting, Stored, Clearing, GraphWrite, Parked

\* The job goes on, and stores what it has planned.
LEMMA MovesInStep ==
    ASSUME Sound, Ahead, FilesOnce, NEW q, NEW r, JobSound(r), JobOnce(r), JobKept(r),
           InStep(r), Moves(q, r)
    PROVE  InStep(q)'
<1>1. ASSUME UNCHANGED <<graph, ledger, state, queue, cycle, dispatched>>, InStep(q)
      PROVE  InStep(q)'
  BY <1>1
     DEF InStep, Agreed, Unspoiled, Decides, Aims, Follows, Aim, AimGraph, Coming, Handed
<1>2. CASE Held /\ (Plans(q, r) \/ ParksNode(q, r) \/ Reconciles(q, r) \/ Prepares(q, r))
  BY <1>1, <1>2, PlansInStep, ParksInStep, ReconcilesInStep, PreparesInStep DEF Held
<1>3. CASE ParksRecord(q, r) /\ UNCHANGED <<graph, state, queue, cycle, dispatched>>
  BY <1>3, RecordInStep
<1>4. CASE Ends(q, r)
  <2>1. ~Stale(r)
    <3>1. r.pc # "advCycle" \/ cycle = r.c0
      BY DEF InStep, Unspoiled
    <3>2. r.pc \in {"putState", "putQueue"} \cup GraphWrite =>
            \/ r.pc \in GraphWrite /\ r.g0 = graph
            \/ r.pc = "putState" /\ r.fresh
            \/ r.pc = "putQueue" /\ r.q0 = queue
      BY DEF InStep, Unspoiled, Planning, QueuePlanned
    <3>3. QED
      BY <3>1, <3>2 DEF Stale, GraphWrite
  <2>2. Agreed
    <3>1. CASE r.pc \in Resting
      BY <3>1 DEF InStep
    <3>2. CASE r.pc = "after" /\ r.cont \in {"receipt", "gate"}
      <4>1. Aim(r) = ToSet(ledger)
        BY <3>2 DEF Aim
      <4>2. QED
        BY <3>2, <4>1 DEF InStep, Follows, Stored, Agreed
    <3>3. CASE r.pc = "campaign" /\ r.cont = "park" /\ r.nxt = NoTask
      <4>1. Aim(r) = ToSet(ledger)
        BY <3>3 DEF Aim
      <4>2. Handed(state.current)
        BY <3>3 DEF InStep, Follows, Stored, Coming, Handed
      <4>3. QED
        BY <3>3, <4>1, <4>2 DEF InStep, Follows, Stored, Agreed
    <3>4. QED
      BY <1>4, <2>1, <3>1, <3>2, <3>3 DEF Ends
  <2>3. q.pc = "idle"
    BY <1>4 DEF Ends, IdleJob
  <2>4. InStep(q)
    BY <2>2, <2>3
       DEF InStep, Unspoiled, Decides, Aims, Follows, Stored, Clearing,
           GraphWrite, Planning, QueuePlanned, Storing
  <2>5. QED
    BY <1>1, <1>4, <2>4 DEF Ends, Held
<1>5. CASE Walks(q, r)
  <2>1. /\ q.st = r.st /\ q.t = r.t /\ q.nxt = r.nxt /\ q.led = r.led /\ q.cont = r.cont
        /\ q.q0 = r.q0 /\ q.c0 = r.c0 /\ q.fresh = r.fresh
        /\ Coming(q, state.current) = Coming(r, state.current)
        /\ Coming(q, q.st.current) = Coming(r, r.st.current)
    BY <1>5 DEF Walks, Carries, Alike, Coming
  <2>2. InStep(q)
    <3>1. CASE r.pc = "advCampaign" /\ q.pc = "putState"
      <4>1. Aim(q) = Aim(r) /\ AimGraph(q) = AimGraph(r)
        BY <2>1, <3>1 DEF Aim, AimGraph, GraphWrite
      <4>2. QED
        BY <2>1, <3>1, <4>1
           DEF InStep, Resting, Unspoiled, Decides, Aims, Follows, Stored, Clearing,
               GraphWrite, Planning, QueuePlanned, Storing
    <3>2. CASE /\ r.pc \in {"advCycle", "campaign"} \cup Clearing \cup {"after"}
               /\ q.pc \in {"after", "cycle"} \cup Clearing
      <4>1. Aim(q) = Aim(r)
        BY <2>1, <3>2 DEF Aim, Clearing
      <4>2. /\ Shelf(graph, state.current, Aim(q), state.completed, ToSet(queue))
            /\ Shown(state.status, Aim(q))
        BY <3>2, <4>1 DEF InStep, Follows, Stored
      <4>3. q.pc = "cycle" => r.pc = "campaign" /\ r.nxt # NoTask
        BY <1>5 DEF Walks, Clearing
      <4>4. q.pc = "cycle" => state.current = q.nxt
        BY <2>1, <4>3 DEF InStep, Follows, Stored, Coming
      <4>5. q.pc # "cycle" => Handed(state.current)
        <5>1. \/ q.pc = "cycle" \/ r.pc \in Clearing \cup {"after"}
              \/ r.pc \in {"advCycle", "campaign"} /\ r.nxt = NoTask
          BY <1>5, <3>2 DEF Walks, Clearing
        <5>2. QED
          BY <5>1 DEF InStep, Follows, Stored, Coming, Handed
      <4>6. q.pc \in Clearing => q.cont \in {"review", "legacy"}
        <5>1. \/ q.pc \notin Clearing \/ r.cont \in {"review", "legacy"}
              \/ r.pc = "recClearCampaign"
          BY <1>5 DEF Walks, Clearing
        <5>2. QED
          BY <2>1, <5>1 DEF InStep, Follows, Clearing
      <4>7. Follows(q)
        BY <3>2, <4>2, <4>4, <4>5, <4>6 DEF Follows, Coming, Clearing, Stored
      <4>8. QED
        BY <3>2, <4>7
           DEF InStep, Resting, Unspoiled, Decides, Aims, Clearing, GraphWrite,
               Planning, QueuePlanned, Storing
    <3>3. QED
      BY <1>5, <3>1, <3>2 DEF Walks, Clearing
  <2>3. QED
    BY <1>1, <1>5, <2>2 DEF Walks, Held
<1>6. CASE Looks(q, r)
  <2>1. /\ q.pc \in {"reviews", "poll", "advance", "park"} /\ r.pc \in {"reviews", "poll"}
        /\ q.pc = "poll" => q.t = state.current
        /\ q.pc = "advance" => q.t = r.t /\ r.pc = "poll" /\ q.cont = "receipt"
    BY <1>6 DEF Looks
  <2>2. Agreed
    BY <2>1 DEF InStep, Resting
  <2>3. Decides(q)
    BY <2>1 DEF InStep, Decides
  <2>4. InStep(q)
    BY <2>1, <2>2, <2>3
       DEF InStep, Unspoiled, Aims, Follows, Stored, Clearing,
           GraphWrite, Planning, QueuePlanned, Storing
  <2>5. QED
    BY <1>1, <1>6, <2>4 DEF Looks, Held
<1>7. CASE WritesGraph(q, r)
  <2>1. /\ graph' = r.g1 /\ UNCHANGED <<ledger, state, queue, cycle, dispatched>>
        /\ q.t = r.t /\ q.cont = r.cont /\ q.nxt = r.nxt /\ q.st = r.st
        /\ q.fresh = r.fresh /\ q.q0 = r.q0 /\ q.c0 = r.c0
        /\ \/ r.pc = "advGraph" /\ q.pc = "advCampaign" /\ q.led = r.led
           \/ r.pc = "recGraph" /\ q.pc = "recRead" /\ q.led = r.led
           \/ r.pc = "parkGraph" /\ q.pc = "parkLedger" /\ q.led = ledger
    BY <1>7 DEF WritesGraph
  <2>2. AimGraph(r) = r.g1 /\ AimGraph(q)' = r.g1
    BY <2>1 DEF AimGraph, GraphWrite
  <2>3. Aim(q)' = Aim(r) \/ q.pc = "recRead"
    BY <2>1 DEF Aim
  <2>4. Unspoiled(q)' /\ Decides(q)' /\ Follows(q)' /\ (q.pc \in Resting => Agreed')
    BY <2>1 DEF InStep, Unspoiled, Decides, Follows, Resting, Stored, Clearing, GraphWrite,
                Planning, QueuePlanned
  <2>5. Aims(q)'
    <3>1. CASE r.pc = "advGraph" /\ q.pc = "advCampaign"
      <4>1. /\ Coming(r, r.st.current) /\ Shown(r.st.status, Aim(r))
            /\ Shelf(r.g1, r.st.current, Aim(r), r.st.completed, ToSet(queue))
        BY <2>2, <3>1 DEF InStep, Aims, Storing
      <4>2. Coming(q, q.st.current)' /\ Aim(q)' = Aim(r)
        BY <2>1, <2>3, <3>1, <4>1 DEF Coming, Handed
      <4>3. QED
        BY <2>1, <2>2, <3>1, <4>1, <4>2 DEF Aims, Shown, Shelf
    <3>2. CASE r.pc = "recGraph" /\ q.pc = "recRead"
      <4>1. /\ r.cont = "review" /\ r.t # state.current /\ Handed(state.current)
            /\ state.current # NoTask => r.nxt = NoTask
            /\ Shelf(r.g1, IF state.current = NoTask THEN r.nxt ELSE state.current,
                     ToSet(r.led), state.completed \cup {r.t}, ToSet(queue))
        BY <2>2, <3>2 DEF InStep, Aims
      <4>2. Handed(state.current)' /\ q.led = r.led
        BY <2>1, <3>2, <4>1 DEF Handed
      <4>3. QED
        BY <2>1, <2>2, <3>2, <4>1, <4>2 DEF Aims, Storing
    <3>3. CASE r.pc = "parkGraph" /\ q.pc = "parkLedger"
      <4>1. /\ r.st.completed = state.completed
            /\ Shelf(r.g1, r.nxt, Aim(r), state.completed, ToSet(queue))
        BY <2>2, <3>3 DEF InStep, Aims
      <4>2. Aim(q)' = Aim(r)
        BY <2>3, <3>3
      <4>3. QED
        BY <2>1, <2>2, <3>3, <4>1, <4>2 DEF Aims, Storing
    <3>4. QED
      BY <2>1, <3>1, <3>2, <3>3
  <2>6. QED
    BY <2>4, <2>5 DEF InStep
<1>8. CASE WritesState(q, r)
  <2>1. /\ r.pc = "putState" /\ q.pc = "putQueue" /\ state' = r.st
        /\ UNCHANGED <<graph, ledger, queue, cycle, dispatched>>
        /\ q.t = r.t /\ q.cont = r.cont /\ q.nxt = r.nxt /\ q.led = r.led
        /\ q.q0 = r.q0 /\ q.c0 = r.c0
    BY <1>8 DEF WritesState, Alike
  <2>2. /\ Coming(r, r.st.current) /\ Shown(r.st.status, Aim(r))
        /\ Shelf(graph, r.st.current, Aim(r), r.st.completed, ToSet(queue))
    BY <2>1 DEF InStep, Aims, Storing, AimGraph, GraphWrite
  <2>3. Aim(q)' = Aim(r)
    BY <2>1 DEF Aim
  <2>4. Coming(q, state.current)'
    BY <2>1, <2>2 DEF Coming, Handed
  <2>5. Follows(q)'
    BY <2>1, <2>2, <2>3, <2>4 DEF Follows, Stored, Clearing
  <2>6. QED
    BY <2>1, <2>5
       DEF InStep, Resting, Unspoiled, Decides, Aims, Clearing, GraphWrite,
           Planning, QueuePlanned, Storing
<1>9. CASE WritesQueue(q, r)
  <2>1. /\ r.pc = "putQueue" /\ queue' = r.q1 /\ q.pc \in {"campaign", "advCycle"}
        /\ q.pc = "advCycle" <=> r.cont \notin Parked
        /\ UNCHANGED <<graph, ledger, state, cycle, dispatched>>
        /\ q.t = r.t /\ q.cont = r.cont /\ q.nxt = r.nxt /\ q.led = r.led
        /\ q.c0 = r.c0
    BY <1>9 DEF WritesQueue, Carries, Alike, Parked
  <2>2. /\ Coming(r, state.current) /\ Shown(state.status, Aim(r))
        /\ Shelf(graph, state.current, Aim(r), state.completed, ToSet(queue))
    BY <2>1 DEF InStep, Follows, Stored
  <2>3. Aim(q)' = Aim(r)
    BY <2>1 DEF Aim
  <2>4. Coming(q, state.current)'
    BY <2>1, <2>2 DEF Coming, Handed
  <2>5. ToSet(queue') \subseteq ToSet(queue)
    BY <2>1 DEF JobOnce, NextFresh, QueuePlanned
  <2>6. Shelf(graph, state.current, Aim(r), state.completed, ToSet(queue'))
    BY <2>2, <2>5 DEF Shelf
  <2>7. Follows(q)'
    BY <2>1, <2>2, <2>3, <2>4, <2>6 DEF Follows, Stored, Clearing
  <2>8. Unspoiled(q)'
    BY <2>1 DEF InStep, Unspoiled, GraphWrite, Planning, QueuePlanned
  <2>9. QED
    BY <2>1, <2>7, <2>8
       DEF InStep, Resting, Decides, Aims, Clearing, GraphWrite, Planning, QueuePlanned, Storing
<1>10. CASE WritesCycle(q, r)
  <2>1. /\ r.pc = "cycle" \/ (r.pc = "advCycle" /\ r.nxt # NoTask)
        /\ q.pc = "dispatch" /\ cycle' = r.nxt
        /\ UNCHANGED <<graph, ledger, state, queue, dispatched>>
        /\ q.t = r.t /\ q.cont = r.cont /\ q.nxt = r.nxt /\ q.led = r.led
    BY <1>10 DEF WritesCycle, Carries, Alike
  <2>2. /\ state.current = r.nxt /\ Shown(state.status, Aim(r))
        /\ Shelf(graph, state.current, Aim(r), state.completed, ToSet(queue))
    BY <2>1 DEF InStep, Follows, Stored, Coming
  <2>3. Aim(q)' = Aim(r)
    BY <2>1 DEF Aim
  <2>4. Follows(q)'
    BY <2>1, <2>2, <2>3 DEF Follows, Stored, Clearing, Coming
  <2>5. QED
    BY <2>1, <2>4
       DEF InStep, Resting, Unspoiled, Decides, Aims, Clearing, GraphWrite,
           Planning, QueuePlanned, Storing
<1>11. CASE Dispatches(q, r)
  <2>1. /\ r.pc = "dispatch" /\ dispatched' = dispatched \cup {r.nxt}
        /\ UNCHANGED <<graph, ledger, state, queue, cycle>>
    BY <1>11 DEF Dispatches
  <2>2. /\ state.current = r.nxt /\ r.nxt = cycle /\ Shown(state.status, Aim(r))
        /\ Shelf(graph, state.current, Aim(r), state.completed, ToSet(queue))
    BY <2>1 DEF InStep, Follows, Stored
  <2>3. Handed(state.current)'
    BY <2>1, <2>2 DEF Handed
  <2>4. CASE r.cont = "park"
    <3>1. Aim(r) = ToSet(ledger) /\ q.pc = "idle"
      BY <1>11, <2>1, <2>4 DEF Aim, Dispatches, IdleJob
    <3>2. Agreed'
      BY <2>1, <2>2, <2>3, <3>1 DEF Agreed
    <3>3. QED
      BY <3>1, <3>2
         DEF InStep, Unspoiled, Decides, Aims, Follows, Stored, Clearing,
             GraphWrite, Planning, QueuePlanned, Storing
  <2>5. CASE r.cont # "park"
    <3>1. /\ q.t = r.t /\ q.cont = r.cont /\ q.nxt = r.nxt /\ q.led = r.led
          /\ q.pc = (IF r.cont = "review" THEN "recLedger" ELSE "after")
      BY <1>11, <2>5 DEF Dispatches, Carries, Alike
    <3>2. Aim(q)' = Aim(r)
      BY <2>1, <3>1 DEF Aim
    <3>3. Follows(q)'
      BY <2>1, <2>2, <2>3, <3>1, <3>2 DEF Follows, Stored, Clearing
    <3>4. QED
      BY <3>1, <3>3
         DEF InStep, Resting, Unspoiled, Decides, Aims, Clearing, GraphWrite,
             Planning, QueuePlanned, Storing
  <2>6. QED
    BY <2>4, <2>5
<1>12. CASE ClearsState(q, r)
  <2>1. /\ r.pc = "recClear" /\ q.pc = "recClearCampaign" /\ Held
        /\ q.t = r.t /\ q.cont = r.cont /\ q.led = r.led
    BY <1>12 DEF ClearsState
  <2>2. Aim(q) = Aim(r)
    BY <2>1 DEF Aim
  <2>3. Follows(q)
    BY <2>1, <2>2 DEF InStep, Follows, Stored, Clearing
  <2>4. InStep(q)
    BY <2>1, <2>3
       DEF InStep, Resting, Unspoiled, Decides, Aims, Clearing, GraphWrite,
           Planning, QueuePlanned, Storing
  <2>5. QED
    BY <1>1, <2>1, <2>4 DEF Held
<1>13. CASE WritesLedger(q, r)
  <2>1. /\ r.pc = "recLedger" /\ ledger' = r.led /\ q.pc = "reviews"
        /\ UNCHANGED <<graph, state, queue, cycle, dispatched>>
    BY <1>13 DEF WritesLedger
  <2>2. /\ Aim(r) = ToSet(r.led) /\ Handed(state.current) /\ Shown(state.status, Aim(r))
        /\ Shelf(graph, state.current, Aim(r), state.completed, ToSet(queue))
    BY <2>1 DEF InStep, Follows, Stored, Clearing, Aim
  <2>3. Agreed'
    BY <2>1, <2>2 DEF Agreed, Handed
  <2>4. QED
    BY <2>1, <2>3
       DEF InStep, Unspoiled, Decides, Aims, Follows, Stored, Clearing,
           GraphWrite, Planning, QueuePlanned, Storing
<1>14. QED
  BY <1>2, <1>3, <1>4, <1>5, <1>6, <1>7, <1>8, <1>9, <1>10, <1>11, <1>12, <1>13 DEF Moves

\* With one group, the files of a project are in step, or its job has them so
\* when it is done.
LEMMA InStepKept ==
    ASSUME OneGroup, Sound, Ahead, RecoveryInv, Once, Kept, AllInStep, [Next]_vars
    PROVE  AllInStep'
<1> SUFFICES ASSUME Undisturbed' PROVE InStep(job[MainWorker])'
  BY DEF AllInStep
<1> PICK a \in Agent : a = MainWorker
  BY GateIsAgent, NameAssumption
<1> PICK r : r = job[a]
  OBVIOUS
<1> PICK q : q = job'[a]
  OBVIOUS
<1>1. target' = "external" /\ target = "external" /\ crashes' = 0 /\ a = Actor
  BY TargetStays DEF Undisturbed, Actor
<1>2. OneMoves(q, r)
  BY <1>1, OneJobMoves
<1>3. crashes = 0
  BY <1>1, <1>2 DEF OneMoves
<1>4. /\ FilesOnce /\ JobOnce(r) /\ JobSound(r) /\ JobKept(r) /\ InStep(r)
  BY <1>1, <1>3 DEF Once, Sound, Kept, AllInStep, Undisturbed
<1>5. CASE Moves(q, r)
  BY <1>4, <1>5, MovesInStep
<1>6. CASE SameCampaign /\ (Begins(q, r) \/ StandsBy(q, r))
  <2>1. /\ UNCHANGED <<graph, ledger, queue, cycle, dispatched>>
        /\ state'.current = state.current /\ state'.completed = state.completed
        /\ state'.status \in {state.status, "RUNNING"}
    BY <1>1, <1>6 DEF SameCampaign, Begins, StandsBy
  <2>2. \A W : Shown(state.status, W) => Shown(state'.status, W)
    BY <2>1 DEF Shown
  <2>3. Agreed => Agreed'
    BY <2>1, <2>2 DEF Agreed, Handed
  <2>4. CASE Begins(q, r)
    <3>1. r.pc = "idle" /\ q.pc \in {"reviews", "session"}
      BY <1>1, <2>4 DEF Begins
    <3>2. Agreed'
      BY <1>4, <2>3, <3>1 DEF InStep, Resting
    <3>3. QED
      BY <3>1, <3>2
         DEF InStep, Unspoiled, Decides, Aims, Follows, Stored, Clearing,
             GraphWrite, Planning, QueuePlanned, Storing
  <2>5. CASE StandsBy(q, r)
    <3>1. q = r
      BY <1>1, <2>5 DEF StandsBy
    <3>2. Unspoiled(r)' /\ Decides(r)'
      BY <1>4, <2>1 DEF InStep, Unspoiled, Decides
    <3>3. Aim(r)' = Aim(r) /\ AimGraph(r)' = AimGraph(r)
      BY <2>1 DEF Aim, AimGraph
    <3>4. Aims(r)'
      BY <1>4, <2>1, <3>3 DEF InStep, Aims, Coming, Handed
    <3>5. Follows(r)'
      BY <1>4, <2>1, <2>2, <3>3 DEF InStep, Follows, Coming, Handed
    <3>6. QED
      BY <1>4, <2>3, <3>1, <3>2, <3>4, <3>5 DEF InStep
  <2>6. QED
    BY <1>6, <2>4, <2>5
<1>7. QED
  BY <1>1, <1>2, <1>5, <1>6 DEF OneMoves

\* The activated plan agrees with the files written with it.
LEMMA InStepInit == Init => AllInStep
<1> SUFFICES ASSUME Init PROVE InStep(job[MainWorker])
  BY DEF AllInStep
<1>1. /\ graph = [t \in Managed |-> IF t = First THEN "RUNNING" ELSE "PENDING"]
      /\ ledger = <<>> /\ state.current = First /\ state.status = "READY"
      /\ state.completed = {} /\ cycle = First /\ dispatched = {First}
  BY DEF Init
<1>2. ToSet(ledger) = {}
  BY <1>1 DEF ToSet
<1>3. Managed # {} => First \in Managed
  BY PlanAssumption DEF FirstOfPlan
<1>4. Outside(First) => Exhausted(graph)
  BY <1>3 DEF Outside, Exhausted
<1>5. Agreed
  BY <1>1, <1>2, <1>4 DEF Agreed, Shelf, Handed, Shown
<1>6. job[MainWorker] = IdleJob
  BY GateIsAgent, NameAssumption DEF Init
<1>7. QED
  BY <1>5, <1>6
     DEF InStep, Unspoiled, Decides, Aims, Follows, Stored, Clearing,
         GraphWrite, Planning, QueuePlanned, Storing, IdleJob

\* When one concurrency group reaches the control branch, the files are in step:
\* between jobs they agree with each other, and however jobs die none runs ahead
\* of the graph, of the merges or of the others, and no completion is counted
\* twice.
THEOREM FilesStayInStep == OneGroup => (Spec => []FilesInStep)
<1> SUFFICES ASSUME OneGroup PROVE Spec => []FilesInStep
  OBVIOUS
<1>1. Init => Bounded
  BY RecoveryAssumption DEF Init, Bounded, Policy!NoRecovery, Policy!PolicyAssumption
<1>2. /\ Sound /\ Ahead /\ RecoveryInv /\ Once /\ [Next]_vars => Once'
      /\ Standing /\ Sound /\ RecoveryInv /\ Once /\ Kept /\ [Next]_vars => Kept'
      /\ Sound /\ Ahead /\ RecoveryInv /\ Once /\ Kept /\ AllInStep /\ [Next]_vars => AllInStep'
  BY OnceKept, NoneIsLost, InStepKept
<1>3. Sound /\ AllInStep => FilesAgree
  <2> SUFFICES ASSUME Sound, AllInStep, Undisturbed, Quiescent
               PROVE  /\ \A t \in Managed :
                           /\ graph[t] = "RUNNING" <=> state.current = t
                           /\ graph[t] = "WAITING_REVIEW" <=> t \in ToSet(ledger)
                      /\ state.current # NoTask =>
                           state.current = cycle /\ state.current \in dispatched
                      /\ state.status = "HUMAN_WAIT" => ledger # <<>>
    BY DEF FilesAgree
  <2>1. job[MainWorker].pc = "idle"
    BY GateIsAgent, NameAssumption DEF Quiescent, At
  <2>2. Agreed
    BY <2>1 DEF AllInStep, InStep, Resting
  <2>3. ToSet(ledger) # {} => ledger # <<>>
    BY DEF ToSet
  <2>4. QED
    BY <2>2, <2>3 DEF Agreed, Shelf, Handed, Shown
<1>4. Once => CompletionCountedOnce
  BY DEF Once, FilesOnce, OncePlanned, CompletionCountedOnce
<1>5. Spec => [](FilesAgree /\ CompletionCountedOnce)
  BY <1>1, <1>2, <1>3, <1>4, OnceInit, KeptInit, InStepInit, SoundInit, SoundKept, SoleKept,
     StandingInit, StandingKept, AheadInit, AheadKept, BoundedKept, RecoveryInit, RecoveryKept,
     PTL DEF Spec
<1>6. TypeOK /\ FilesAgree /\ GraphAheadOfState /\ CompletedWasMerged /\ CampaignHonest
        /\ DispatchedAfterMerges /\ CompletionCountedOnce => FilesInStep
  BY DEF FilesInStep
<1>7. QED
  BY <1>5, <1>6, CampaignTypeCorrect, GraphIsAhead, CompletionsAreMerged, PTL

=============================================================================
