----------------------- MODULE RoutedExecutionProofs -----------------------
(***************************************************************************)
(* Proofs about RoutedExecution: its records can be trusted by the next    *)
(* call, each session of a task is explained, and what has ended stays.    *)
(*                                                                         *)
(* The argument.  A call under way and the checkpoint agree on the         *)
(* counters, and the call holds a session of its own task with its own     *)
(* provider (RunIsTrue, Named).  Whatever makes a further session possible *)
(* is counted before the session is (Counted): a call that is about to     *)
(* start one, or a checkpoint that will have one started, owes nothing.    *)
(* And as long as no call was killed, the provider of every session is     *)
(* known to the call or, between calls, to the checkpoint (OneProvider).   *)
(***************************************************************************)
EXTENDS RoutedExecution, FiniteSetTheorems, TLAPS

USE EngineAssumption

-----------------------------------------------------------------------------
\* The inductive invariant.

\* A call knows what the checkpoint says, and its session is its task's.
RunIsTrue ==
    run # None =>
        /\ run.pc = "start" => run.session = None
        /\ run.pc # "start" =>
              /\ run.session \in DOMAIN sessions
              /\ sessions[run.session].task = "this"
              /\ sessions[run.session].provider = run.provider
        /\ Known = None => run.attempt = 0 /\ run.replan = 0
        /\ Known # None => /\ run.attempt = Known.attempt /\ run.replan = Known.replan
                           /\ Known.state \notin Final

\* The checkpoint names a session that exists.
Named ==
    checkpoint # None /\ checkpoint.session # None => checkpoint.session \in DOMAIN sessions

\* Without a kill, the one provider of the task is on record.
OneProvider ==
    kills = 0 =>
        /\ run # None => \A s \in Sessions : sessions[s].provider = run.provider
        /\ run = None =>
              \A s \in Sessions : Known # None /\ sessions[s].provider = Known.provider

\* The decisions that the checkpoint accounts for.
Spent == IF Known = None THEN 0 ELSE Known.attempt + Known.replan

\* The next session is still to come.
Owed ==
    \/ run # None /\ run.pc = "start"
    \/ run = None /\ ~Monitors(Known) /\ (Known # None => Known.state \notin Final)

\* Every session is accounted for; before a new one, with one to spare.
Counted ==
    /\ IsFiniteSet(Sessions)
    /\ Cardinality(Sessions) <= 1 + Spent + pauses + kills
    /\ Owed => Cardinality(Sessions) <= Spent + pauses + kills

IInv == RecordsAreTrue /\ RunIsTrue /\ Named /\ OneProvider /\ Counted

-----------------------------------------------------------------------------
\* The decisions.

(* decide_repair answers with one of five decisions; a retry and a replan are *)
(* within their budgets, and only the quota pauses.                           *)
LEMMA Dispositions ==
    ASSUME NEW kind, NEW attempt, NEW replan
    PROVE  /\ Disposition(kind, attempt, replan) \in
                  {"PAUSE_QUOTA", "HUMAN_WAIT", "RETRY", "REPLAN", "FAIL"}
           /\ Disposition(kind, attempt, replan) = "RETRY" => attempt < MaxRetries
           /\ Disposition(kind, attempt, replan) = "REPLAN" => replan < MaxReplans
           /\ Disposition(kind, attempt, replan) = "PAUSE_QUOTA" => kind = "PROVIDER_QUOTA"
BY DEF Disposition

(* A call that was asked to retry is at its start again, and the checkpoint   *)
(* counts the retry.                                                          *)
LEMMA Retries ==
    ASSUME TypeOK, run # None, NEW kind, NEW session \in Nat \cup {None},
           Repair(kind, session),
           Disposition(kind, run.attempt, run.replan) = "RETRY"
    PROVE  /\ run'.pc = "start" /\ run'.session = None /\ run' # None
           /\ run'.provider = run.provider
           /\ run'.attempt = run.attempt + 1 /\ run'.replan = run.replan
           /\ checkpoint'.task = "this" /\ checkpoint'.state = "RUNNING"
           /\ checkpoint'.session = None /\ checkpoint' # None
           /\ checkpoint'.attempt = run.attempt + 1
           /\ checkpoint'.replan = run.replan
           /\ checkpoint'.provider \in {run.provider, None}
           /\ checkpoint' \in TaskCheckpoint /\ run' \in Runs
<1>1. run \in Runs /\ run.attempt < MaxRetries
  BY Dispositions DEF TypeOK
<1>2. run.attempt \in Nat /\ run.replan \in Nat
  BY <1>1 DEF Runs
<1>3. /\ NextAttempt("RETRY") = run.attempt + 1
      /\ NextReplan("RETRY") = run.replan
  BY <1>2 DEF NextAttempt, NextReplan
<1>4. run' = [run EXCEPT !.pc = "start", !.attempt = run.attempt + 1, !.session = None]
  BY <1>3 DEF Repair
<1>5. \E p \in {run.provider, None} :
          checkpoint' = CheckpointFor("RUNNING", run.attempt + 1, run.replan, None, p)
  BY <1>3 DEF Repair
<1>6. checkpoint' \in TaskCheckpoint
  BY <1>1, <1>5 DEF CheckpointFor, TaskCheckpoint, Runs
<1>7. run.attempt + 1 \in 0 .. MaxRetries
  BY <1>1, <1>2
<1>8. run' \in Runs
  BY <1>1, <1>4, <1>7 DEF Runs
<1>9. run'.pc = "start" /\ run'.session = None /\ run'.provider = run.provider
      /\ run'.attempt = run.attempt + 1 /\ run'.replan = run.replan
  BY <1>1, <1>4 DEF Runs
<1>10. QED BY <1>5, <1>6, <1>8, <1>9 DEF CheckpointFor

(* Any other decision ends the call; the checkpoint keeps the session and     *)
(* counts a replan.                                                           *)
LEMMA Ends ==
    ASSUME TypeOK, run # None, NEW kind, NEW session \in Nat \cup {None},
           Repair(kind, session),
           Disposition(kind, run.attempt, run.replan) # "RETRY"
    PROVE  /\ run' = None
           /\ checkpoint'.task = "this" /\ checkpoint' # None
           /\ checkpoint'.session = session /\ checkpoint'.provider = run.provider
           /\ checkpoint'.attempt = run.attempt
           /\ \/ checkpoint'.state = "REPLAN" /\ checkpoint'.replan = run.replan + 1
              \/ /\ checkpoint'.replan = run.replan
                 /\ checkpoint'.state \in {"HUMAN_WAIT", "FAILED"}
              \/ /\ checkpoint'.replan = run.replan
                 /\ checkpoint'.state = "PAUSED_QUOTA" /\ kind = "PROVIDER_QUOTA"
           /\ checkpoint'.replan <= MaxReplans
           /\ checkpoint' \in TaskCheckpoint
<1> DEFINE d == Disposition(kind, run.attempt, run.replan)
<1>1. run \in Runs /\ d \in {"PAUSE_QUOTA", "HUMAN_WAIT", "REPLAN", "FAIL"}
      /\ (d = "REPLAN" => run.replan < MaxReplans)
      /\ (d = "PAUSE_QUOTA" => kind = "PROVIDER_QUOTA")
  BY Dispositions DEF TypeOK
<1>2. run' = None
      /\ checkpoint' = CheckpointFor(StateAfter[d], run.attempt, NextReplan(d), session,
                                     run.provider)
  <2>1. run.attempt + 0 = run.attempt
    BY <1>1 DEF Runs
  <2>2. NextAttempt(d) = run.attempt
    BY <1>1, <2>1 DEF NextAttempt
  <2>3. QED BY <1>1, <2>2 DEF Repair
<1>3. run.attempt \in Nat /\ run.replan \in Nat /\ run.replan <= MaxReplans
      /\ run.provider \in Providers
  BY <1>1 DEF Runs
<1> HIDE DEF d
<1>4. CASE d = "REPLAN"
  BY <1>1, <1>2, <1>3, <1>4 DEF StateAfter, NextReplan, CheckpointFor, TaskCheckpoint
<1>5. CASE d # "REPLAN"
  <2>1. NextReplan(d) = run.replan
    BY <1>3, <1>5 DEF NextReplan
  <2>2. \/ StateAfter[d] \in {"HUMAN_WAIT", "FAILED"}
        \/ StateAfter[d] = "PAUSED_QUOTA" /\ kind = "PROVIDER_QUOTA"
    BY <1>1, <1>5 DEF StateAfter
  <2>3. checkpoint' = CheckpointFor(StateAfter[d], run.attempt, run.replan, session,
                                    run.provider)
    BY <1>2, <2>1
  <2>4. checkpoint' \in TaskCheckpoint
    BY <1>3, <2>2, <2>3 DEF CheckpointFor, TaskCheckpoint, Final
  <2>5. QED BY <1>2, <1>3, <2>2, <2>3, <2>4 DEF CheckpointFor
<1>6. QED BY <1>4, <1>5

-----------------------------------------------------------------------------
\* The sessions.

SessionRecord ==
    [task : {"this", "earlier"}, provider : Providers,
     state : {"OPEN", "COMPLETED", "FAILED", "AWAITING_USER_FEEDBACK", "PAUSED"}]

(* Each session has a provider.                                               *)
LEMMA SessionTyped ==
    ASSUME TypeOK, NEW s \in DOMAIN sessions
    PROVE  /\ sessions[s] \in SessionRecord
           /\ sessions[s].provider \in Providers
<1>1. sessions \in Seq(SessionRecord)
  BY DEF TypeOK, SessionRecord
<1>2. sessions[s] \in SessionRecord
  BY <1>1
<1>3. QED BY <1>2 DEF SessionRecord

(* NewSession adds one session of the task, with the provider of the call.    *)
LEMMA Added ==
    ASSUME TypeOK, run # None, NewSession, IsFiniteSet(Sessions)
    PROVE  /\ sessions' \in Seq(SessionRecord) /\ Len(sessions') = Len(sessions) + 1
           /\ \A s \in 1 .. Len(sessions) : sessions'[s] = sessions[s]
           /\ sessions'[Len(sessions) + 1].task = "this"
           /\ sessions'[Len(sessions) + 1].provider = run.provider
           /\ Sessions' = Sessions \cup {Len(sessions) + 1}
           /\ IsFiniteSet(Sessions')
           /\ Cardinality(Sessions') = Cardinality(Sessions) + 1
<1> DEFINE new == [task |-> "this", provider |-> run.provider, state |-> "OPEN"]
           n == Len(sessions)
<1>1. sessions \in Seq(SessionRecord) /\ new \in SessionRecord /\ n \in Nat
  BY DEF TypeOK, SessionRecord, Runs
<1>2. sessions' = Append(sessions, new)
  BY DEF NewSession
<1>3. /\ sessions' \in Seq(SessionRecord) /\ Len(sessions') = n + 1
      /\ \A s \in 1 .. n : sessions'[s] = sessions[s]
      /\ sessions'[n + 1] = new
  BY <1>1, <1>2
<1>4. Sessions' = Sessions \cup {n + 1}
  BY <1>1, <1>3 DEF Sessions
<1>5. n + 1 \notin Sessions
  BY <1>1 DEF Sessions
<1>6. /\ IsFiniteSet(Sessions \cup {n + 1})
      /\ Cardinality(Sessions \cup {n + 1}) = Cardinality(Sessions) + 1
  BY <1>5, FS_AddElement
<1>7. QED BY <1>3, <1>4, <1>6

(* A session that ends stays its task's and its provider's.                   *)
LEMMA Ended ==
    ASSUME TypeOK, SessionEnds
    PROVE  /\ sessions' \in Seq(SessionRecord) /\ Len(sessions') = Len(sessions)
           /\ \A s \in 1 .. Len(sessions) :
                 /\ sessions'[s].task = sessions[s].task
                 /\ sessions'[s].provider = sessions[s].provider
                 /\ sessions[s].state = "COMPLETED" => sessions'[s].state = "COMPLETED"
           /\ Sessions' = Sessions
<1>1. sessions \in Seq(SessionRecord)
  BY DEF TypeOK, SessionRecord
<1>2. PICK state \in {"COMPLETED", "FAILED", "AWAITING_USER_FEEDBACK", "PAUSED"} :
         sessions' = [sessions EXCEPT ![run.session].state = state]
  BY DEF SessionEnds
<1> DEFINE old == sessions[run.session]
           new == [old EXCEPT !.state = state]
<1>3. /\ \A s \in 1 .. Len(sessions) : sessions[s] \in SessionRecord
      /\ DOMAIN sessions = 1 .. Len(sessions)
  BY <1>1
<1>4. /\ sessions' = [sessions EXCEPT ![run.session] = new]
      /\ old.state = "OPEN"
  BY <1>2 DEF SessionEnds
<1>5. /\ sessions' \in Seq(SessionRecord) /\ Len(sessions') = Len(sessions)
      /\ \A s \in 1 .. Len(sessions) :
            sessions'[s] = IF s = run.session THEN new ELSE sessions[s]
  <2>1. CASE run.session \in 1 .. Len(sessions)
    <3>1. new \in SessionRecord
      BY <1>3, <2>1 DEF SessionRecord
    <3> HIDE DEF new
    <3>2. QED BY <1>1, <1>4, <2>1, <3>1
  <2>2. CASE run.session \notin 1 .. Len(sessions)
    <3>1. sessions' = sessions
      BY <1>1, <1>3, <1>4, <2>2
    <3>2. QED BY <1>1, <2>2, <3>1
  <2>3. QED BY <2>1, <2>2
<1>6. \A s \in 1 .. Len(sessions) :
         /\ sessions'[s].task = sessions[s].task
         /\ sessions'[s].provider = sessions[s].provider
         /\ sessions[s].state = "COMPLETED" => sessions'[s].state = "COMPLETED"
  <2>1. SUFFICES ASSUME NEW s \in 1 .. Len(sessions)
                 PROVE  /\ sessions'[s].task = sessions[s].task
                        /\ sessions'[s].provider = sessions[s].provider
                        /\ sessions[s].state = "COMPLETED" =>
                              sessions'[s].state = "COMPLETED"
    OBVIOUS
  <2>2. CASE s = run.session
    <3>1. sessions'[s] = new /\ sessions[s] = old /\ old \in SessionRecord
      BY <1>3, <1>5, <2>2
    <3>2. new.task = old.task /\ new.provider = old.provider
      BY <3>1 DEF SessionRecord
    <3>3. QED BY <1>4, <3>1, <3>2
  <2>3. CASE s # run.session
    BY <1>5, <2>3
  <2>4. QED BY <2>2, <2>3
<1>7. DOMAIN sessions = 1 .. Len(sessions) /\ DOMAIN sessions' = 1 .. Len(sessions)
  BY <1>1, <1>5
<1>8. QED BY <1>5, <1>6, <1>7 DEF Sessions

-----------------------------------------------------------------------------
\* The steps.

(* The checkpoint of the task is within its budget.                           *)
LEMMA KnownTyped ==
    ASSUME TypeOK, BudgetHolds, Known # None
    PROVE  /\ Known = checkpoint /\ Known \in TaskCheckpoint /\ checkpoint # None
           /\ Known.attempt \in 0 .. MaxRetries /\ Known.replan \in 0 .. MaxReplans
           /\ Known.session \in Nat \cup {None}
           /\ Known.task = "this"
<1>1. Known = checkpoint /\ Known \in TaskCheckpoint /\ Known.task = "this"
      /\ checkpoint # None
  BY DEF Known, TypeOK
<1>2. Known.attempt \in Nat /\ Known.replan \in Nat /\ Known.session \in Nat \cup {None}
  BY <1>1 DEF TaskCheckpoint
<1>3. QED BY <1>1, <1>2 DEF BudgetHolds

(* What was decided is a number.                                              *)
LEMMA SpentIsNat ==
    ASSUME IInv
    PROVE  /\ Spent \in Nat /\ pauses \in Nat /\ kills \in Nat
           /\ Cardinality(Sessions) \in Nat
<1>1. pauses \in Nat /\ kills \in Nat
  BY DEF IInv, RecordsAreTrue, TypeOK
<1>2. Spent \in Nat
  BY KnownTyped DEF IInv, RecordsAreTrue, Spent
<1>3. QED BY <1>1, <1>2, FS_CardinalityType DEF IInv, Counted

(* A call that begins takes over the checkpoint's counters, and its session   *)
(* if it monitors it; only if it does not is a new one to come.               *)
LEMMA BeginStep ==
    ASSUME IInv, run = None, NEW p \in Providers, Enter(Known, p),
           UNCHANGED <<checkpoint, sessions, world, counters>>
    PROVE  IInv'
<1>1. /\ run'.pc = (IF Monitors(Known) THEN "monitor" ELSE "start")
      /\ run'.provider = p
      /\ run'.attempt = (IF Known = None THEN 0 ELSE Known.attempt)
      /\ run'.replan = (IF Known = None THEN 0 ELSE Known.replan)
      /\ run'.session = (IF Monitors(Known) THEN Known.session ELSE None)
  BY DEF Enter
<1>2. run' \in Runs
  <2>1. (IF Known = None THEN 0 ELSE Known.attempt) \in 0 .. MaxRetries
        /\ (IF Known = None THEN 0 ELSE Known.replan) \in 0 .. MaxReplans
    BY KnownTyped DEF IInv, RecordsAreTrue
  <2>2. (IF Monitors(Known) THEN Known.session ELSE None) \in Nat \cup {None}
    BY KnownTyped DEF IInv, RecordsAreTrue, Monitors
  <2>3. QED BY <2>1, <2>2 DEF Enter, Runs
<1>3. run' # None
  BY <1>2
<1>4. Known' = Known /\ Sessions' = Sessions /\ Spent' = Spent
  BY DEF Known, Sessions, Spent
<1>5. RecordsAreTrue'
  BY <1>2 DEF IInv, RecordsAreTrue, TypeOK, BudgetHolds, CheckpointIsTrue, world, counters
<1>6. Named'
  BY DEF IInv, Named
<1>7. RunIsTrue'
  <2>1. Known # None => Known.state \notin Final /\ Known.provider \in {None, p}
    BY DEF Enter, Resumable
  <2>2. CASE Monitors(Known)
    <3>1. /\ Known # None /\ Known = checkpoint /\ Known.session # None
          /\ checkpoint # None /\ Known.task = "this"
      BY <2>2, KnownTyped DEF IInv, RecordsAreTrue, Monitors
    <3>2. /\ Known.session \in DOMAIN sessions
          /\ sessions[Known.session].task = "this"
          /\ sessions[Known.session].provider = Known.provider
      BY <3>1 DEF IInv, Named, RecordsAreTrue, CheckpointIsTrue
    <3>3. sessions[Known.session].provider \in Providers
      BY <3>2, SessionTyped DEF IInv, RecordsAreTrue
    <3>4. Known.provider = p
      BY <2>1, <3>1, <3>2, <3>3
    <3>5. QED BY <1>1, <1>4, <2>1, <2>2, <3>1, <3>2, <3>4 DEF RunIsTrue
  <2>3. CASE ~Monitors(Known)
    BY <1>1, <1>4, <2>1, <2>3 DEF RunIsTrue
  <2>4. QED BY <2>2, <2>3
<1>8. OneProvider'
  <2>1. SUFFICES ASSUME kills = 0, NEW s \in Sessions
                 PROVE  sessions[s].provider = p
    BY <1>1, <1>3, <1>4 DEF OneProvider, counters
  <2>2. Known # None /\ sessions[s].provider = Known.provider
    BY <2>1 DEF IInv, OneProvider
  <2>3. sessions[s].provider \in Providers
    BY SessionTyped DEF IInv, RecordsAreTrue, Sessions
  <2>4. QED BY <2>2, <2>3 DEF Enter, Resumable
<1>9. Counted'
  <2>1. Owed' => ~Monitors(Known)
    BY <1>1, <1>3 DEF Owed
  <2>2. ~Monitors(Known) => Owed
    BY DEF Owed, Enter, Resumable
  <2>3. QED BY <1>4, <2>1, <2>2 DEF IInv, Counted, counters
<1>10. QED BY <1>5, <1>6, <1>7, <1>8, <1>9 DEF IInv

(* Start takes a session of the task and the provider, or a new one.          *)
LEMMA StartStep ==
    ASSUME IInv, Start
    PROVE  IInv'
<1>1. /\ run # None /\ run.pc = "start" /\ run \in Runs
      /\ checkpoint' = checkpoint /\ Known' = Known /\ Spent' = Spent
      /\ UNCHANGED <<world, counters>>
  BY DEF IInv, RecordsAreTrue, TypeOK, Start, At, Known, Spent
<1>2. sessions \in Seq(SessionRecord)
  BY DEF IInv, RecordsAreTrue, TypeOK, SessionRecord
<1>3. PICK s \in Reusable \cup {Len(sessions) + 1} :
         /\ IF s \in Reusable THEN UNCHANGED sessions ELSE NewSession
         /\ run' = [run EXCEPT !.pc = "save", !.session = s]
  BY DEF Start
<1>4. s \in Nat \ {0}
  BY <1>2, <1>3 DEF Reusable
<1>5. /\ run' \in Runs /\ run' # None
      /\ run'.pc = "save" /\ run'.session = s /\ run'.provider = run.provider
      /\ run'.attempt = run.attempt /\ run'.replan = run.replan
  BY <1>1, <1>3, <1>4 DEF Runs
<1>6. /\ sessions' \in Seq(SessionRecord)
      /\ Len(sessions) <= Len(sessions')
      /\ \A t \in 1 .. Len(sessions) : sessions'[t] = sessions[t]
      /\ s \in 1 .. Len(sessions')
      /\ sessions'[s].task = "this" /\ sessions'[s].provider = run.provider
      /\ \A t \in Sessions' : t \in Sessions \/ sessions'[t].provider = run.provider
      /\ IsFiniteSet(Sessions')
      /\ Cardinality(Sessions') <= Cardinality(Sessions) + 1
  <2>1. CASE s \in Reusable
    <3>1. sessions' = sessions /\ Sessions' = Sessions
      BY <1>3, <2>1 DEF Sessions
    <3>2. s \in 1 .. Len(sessions) /\ sessions[s].task = "this"
          /\ sessions[s].provider = run.provider
      BY <1>2, <2>1 DEF Reusable
    <3>3. Cardinality(Sessions) <= Cardinality(Sessions) + 1
      BY SpentIsNat
    <3>4. QED BY <1>2, <3>1, <3>2, <3>3 DEF IInv, Counted
  <2>2. CASE s \notin Reusable
    <3>1. NewSession /\ s = Len(sessions) + 1
      BY <1>3, <2>2
    <3>2. /\ sessions' \in Seq(SessionRecord) /\ Len(sessions') = Len(sessions) + 1
          /\ \A t \in 1 .. Len(sessions) : sessions'[t] = sessions[t]
          /\ sessions'[s].task = "this" /\ sessions'[s].provider = run.provider
          /\ Sessions' = Sessions \cup {s}
          /\ IsFiniteSet(Sessions')
          /\ Cardinality(Sessions') = Cardinality(Sessions) + 1
      BY <1>1, <3>1, Added DEF IInv, RecordsAreTrue, Counted
    <3>3. QED BY <1>2, <3>1, <3>2, SpentIsNat
  <2>3. QED BY <2>1, <2>2
<1>7. RecordsAreTrue'
  <2>1. TypeOK'
    BY <1>1, <1>5, <1>6 DEF IInv, RecordsAreTrue, TypeOK, SessionRecord, world, counters
  <2>2. BudgetHolds'
    BY <1>1 DEF IInv, RecordsAreTrue, BudgetHolds
  <2>3. CheckpointIsTrue'
    BY <1>1, <1>2, <1>6 DEF IInv, RecordsAreTrue, CheckpointIsTrue, Named
  <2>4. QED BY <2>1, <2>2, <2>3 DEF RecordsAreTrue
<1>8. Named'
  BY <1>1, <1>2, <1>6 DEF IInv, Named
<1>9. RunIsTrue'
  BY <1>1, <1>5, <1>6 DEF IInv, RunIsTrue
<1>10. OneProvider'
  <2>1. SUFFICES ASSUME kills = 0, NEW t \in Sessions'
                 PROVE  sessions'[t].provider = run.provider
    BY <1>1, <1>5 DEF OneProvider, counters
  <2>2. CASE t \in Sessions
    BY <1>1, <1>2, <1>6, <2>1, <2>2 DEF IInv, OneProvider, Sessions
  <2>3. CASE t \notin Sessions
    BY <1>6, <2>3
  <2>4. QED BY <2>2, <2>3
<1>11. Counted'
  <2>1. Owed /\ ~Owed'
    BY <1>1, <1>5 DEF Owed
  <2>2. Cardinality(Sessions) <= Spent + pauses + kills
    BY <2>1 DEF IInv, Counted
  <2>3. Cardinality(Sessions') <= 1 + Spent + pauses + kills
    BY <1>6, <2>2, SpentIsNat, FS_CardinalityType
  <2>4. QED BY <1>1, <1>6, <2>1, <2>3 DEF Counted, counters
<1>12. QED BY <1>7, <1>8, <1>9, <1>10, <1>11 DEF IInv

(* SaveSession names the call's session in the checkpoint.                    *)
LEMMA SaveStep ==
    ASSUME IInv, SaveSession
    PROVE  IInv'
<1>1. /\ run # None /\ run.pc = "save" /\ run \in Runs
      /\ sessions' = sessions /\ Sessions' = Sessions
      /\ UNCHANGED <<world, counters>>
  BY DEF IInv, RecordsAreTrue, TypeOK, SaveSession, At, Sessions
<1>2. /\ run.session \in DOMAIN sessions /\ sessions[run.session].task = "this"
      /\ sessions[run.session].provider = run.provider
      /\ run.session \in Nat
  <2>1. run.session \in DOMAIN sessions /\ sessions \in Seq(SessionRecord)
    BY <1>1 DEF IInv, RunIsTrue, RecordsAreTrue, TypeOK, SessionRecord
  <2>2. QED BY <1>1, <2>1 DEF IInv, RunIsTrue
<1>3. /\ run' \in Runs /\ run' # None /\ run'.pc = "monitor"
      /\ run'.provider = run.provider /\ run'.session = run.session
      /\ run'.attempt = run.attempt /\ run'.replan = run.replan
  BY <1>1 DEF SaveSession, Runs
<1>4. /\ checkpoint' \in TaskCheckpoint /\ checkpoint' # None /\ Known' = checkpoint'
      /\ checkpoint'.task = "this" /\ checkpoint'.state = "RUNNING"
      /\ checkpoint'.session = run.session /\ checkpoint'.provider = run.provider
      /\ checkpoint'.attempt = run.attempt /\ checkpoint'.replan = run.replan
  <2>1. checkpoint' = CheckpointFor("RUNNING", run.attempt, run.replan, run.session,
                                    run.provider)
    BY DEF SaveSession
  <2>2. checkpoint' \in TaskCheckpoint
    BY <1>1, <2>1 DEF CheckpointFor, TaskCheckpoint, Runs
  <2>3. QED BY <2>1, <2>2 DEF CheckpointFor, Known
<1>5. Spent' = Spent
  <2>1. run.attempt + run.replan = Spent
    BY <1>1 DEF IInv, RunIsTrue, Spent
  <2>2. QED BY <1>4, <2>1 DEF Spent
<1>6. RecordsAreTrue'
  <2>1. TypeOK'
    BY <1>1, <1>3, <1>4 DEF IInv, RecordsAreTrue, TypeOK, world, counters
  <2>2. BudgetHolds'
    BY <1>1, <1>4 DEF BudgetHolds, Runs
  <2>3. CheckpointIsTrue'
    BY <1>1, <1>2, <1>4 DEF CheckpointIsTrue
  <2>4. QED BY <2>1, <2>2, <2>3 DEF RecordsAreTrue
<1>7. Named'
  BY <1>1, <1>2, <1>4 DEF Named
<1>8. RunIsTrue'
  BY <1>1, <1>2, <1>3, <1>4 DEF RunIsTrue, Final
<1>9. OneProvider'
  BY <1>1, <1>3 DEF IInv, OneProvider, counters
<1>10. Counted'
  <2>1. ~Owed'
    BY <1>3 DEF Owed
  <2>2. QED BY <1>1, <1>5, <2>1 DEF IInv, Counted, counters
<1>11. QED BY <1>6, <1>7, <1>8, <1>9, <1>10 DEF IInv

(* A completed session ends the call and the task.                            *)
LEMMA CompletedStep ==
    ASSUME IInv, Completed
    PROVE  IInv'
<1>1. /\ run # None /\ run.pc = "monitor" /\ run \in Runs /\ run' = None
      /\ sessions' = sessions /\ Sessions' = Sessions
      /\ UNCHANGED <<world, counters>>
  BY DEF IInv, RecordsAreTrue, TypeOK, Completed, At, Sessions
<1>2. /\ run.session \in DOMAIN sessions /\ sessions[run.session].task = "this"
      /\ sessions[run.session].provider = run.provider
      /\ sessions[run.session].state = "COMPLETED"
  BY <1>1 DEF IInv, RunIsTrue, Completed
<1>3. /\ checkpoint' \in TaskCheckpoint /\ checkpoint' # None /\ Known' = checkpoint'
      /\ checkpoint'.task = "this" /\ checkpoint'.state = "COMPLETED"
      /\ checkpoint'.session = run.session /\ checkpoint'.provider = run.provider
      /\ checkpoint'.attempt = run.attempt /\ checkpoint'.replan = run.replan
  <2>1. checkpoint' = CheckpointFor("COMPLETED", run.attempt, run.replan, run.session,
                                    run.provider)
    BY DEF Completed
  <2>2. checkpoint' \in TaskCheckpoint
    BY <1>1, <2>1 DEF CheckpointFor, TaskCheckpoint, Runs, Final
  <2>3. QED BY <2>1, <2>2 DEF CheckpointFor, Known
<1>4. Spent' = Spent
  <2>1. run.attempt + run.replan = Spent
    BY <1>1 DEF IInv, RunIsTrue, Spent
  <2>2. QED BY <1>3, <2>1 DEF Spent
<1>5. RecordsAreTrue'
  <2>1. TypeOK'
    BY <1>1, <1>3 DEF IInv, RecordsAreTrue, TypeOK, world, counters
  <2>2. BudgetHolds'
    BY <1>1, <1>3 DEF BudgetHolds, Runs
  <2>3. CheckpointIsTrue'
    BY <1>1, <1>2, <1>3 DEF CheckpointIsTrue
  <2>4. QED BY <2>1, <2>2, <2>3 DEF RecordsAreTrue
<1>6. Named' /\ RunIsTrue'
  BY <1>1, <1>2, <1>3 DEF Named, RunIsTrue
<1>7. OneProvider'
  BY <1>1, <1>3 DEF IInv, OneProvider, counters, Sessions
<1>8. Counted'
  <2>1. ~Owed'
    BY <1>1, <1>3 DEF Owed, Final
  <2>2. QED BY <1>1, <1>4, <2>1 DEF IInv, Counted, counters
<1>9. QED BY <1>5, <1>6, <1>7, <1>8 DEF IInv

(* A killed call leaves what it recorded; the kill answers for the session    *)
(* that the next call may start.                                              *)
LEMMA KillStep ==
    ASSUME IInv, Kill
    PROVE  IInv'
<1>1. /\ run' = None /\ kills' = kills + 1 /\ kills' \in 1 .. MaxKills
      /\ UNCHANGED <<checkpoint, sessions, world, pauses, faults>>
      /\ Sessions' = Sessions /\ Known' = Known /\ Spent' = Spent
  BY DEF IInv, RecordsAreTrue, TypeOK, Kill, Sessions, Known, Spent
<1>2. RecordsAreTrue'
  BY <1>1 DEF IInv, RecordsAreTrue, TypeOK, BudgetHolds, CheckpointIsTrue, world
<1>3. RunIsTrue' /\ Named' /\ OneProvider'
  BY <1>1 DEF IInv, RunIsTrue, Named, OneProvider
<1>4. Counted'
  BY <1>1, SpentIsNat DEF IInv, Counted
<1>5. QED BY <1>2, <1>3, <1>4 DEF IInv

(* The end of a session changes nothing that is on record.                    *)
LEMMA EndStep ==
    ASSUME IInv, SessionEnds
    PROVE  IInv'
<1>1. /\ UNCHANGED <<checkpoint, run, world, counters>>
      /\ Known' = Known /\ Spent' = Spent /\ sessions \in Seq(SessionRecord)
  BY DEF IInv, RecordsAreTrue, TypeOK, SessionEnds, Known, Spent, SessionRecord
<1>2. /\ sessions' \in Seq(SessionRecord) /\ Len(sessions') = Len(sessions)
      /\ \A s \in 1 .. Len(sessions) :
            /\ sessions'[s].task = sessions[s].task
            /\ sessions'[s].provider = sessions[s].provider
            /\ sessions[s].state = "COMPLETED" => sessions'[s].state = "COMPLETED"
      /\ Sessions' = Sessions
  BY Ended DEF IInv, RecordsAreTrue
<1>3. DOMAIN sessions = 1 .. Len(sessions) /\ DOMAIN sessions' = 1 .. Len(sessions)
  BY <1>1, <1>2
<1>4. RecordsAreTrue'
  <2>1. TypeOK' /\ BudgetHolds'
    BY <1>1, <1>2 DEF IInv, RecordsAreTrue, TypeOK, BudgetHolds, world, counters,
                      SessionRecord
  <2>2. CheckpointIsTrue'
    BY <1>1, <1>2, <1>3 DEF IInv, RecordsAreTrue, CheckpointIsTrue, Named
  <2>3. QED BY <2>1, <2>2 DEF RecordsAreTrue
<1>5. Named' /\ RunIsTrue'
  BY <1>1, <1>2, <1>3 DEF IInv, Named, RunIsTrue
<1>6. OneProvider'
  BY <1>1, <1>2, <1>3 DEF IInv, OneProvider, Sessions, counters
<1>7. Counted'
  <2>1. Owed' = Owed
    BY <1>1 DEF Owed
  <2>2. QED BY <1>1, <1>2, <2>1 DEF IInv, Counted, counters
<1>8. QED BY <1>4, <1>5, <1>6, <1>7 DEF IInv

(* Availability and the clock are nothing to the records of the task.         *)
LEMMA WorldStep ==
    ASSUME IInv, UNCHANGED <<checkpoint, sessions, run, counters>>,
           \/ Tick
           \/ \E p \in Providers : Upsert(p)
           \/ UNCHANGED world
    PROVE  IInv'
<1>1. Known' = Known /\ Spent' = Spent /\ Sessions' = Sessions /\ Owed' = Owed
  BY DEF Known, Spent, Sessions, Owed
<1>2. /\ availability' \in [Providers -> AvailabilityRecord \cup {None}]
      /\ now' \in 0 .. MaxTime /\ changes' \in 0 .. MaxChanges
  BY DEF IInv, RecordsAreTrue, TypeOK, Tick, Upsert, world
<1>3. RecordsAreTrue'
  BY <1>2 DEF IInv, RecordsAreTrue, TypeOK, BudgetHolds, CheckpointIsTrue, counters
<1>4. RunIsTrue' /\ Named' /\ OneProvider' /\ Counted'
  BY <1>1 DEF IInv, RunIsTrue, Named, OneProvider, Counted, counters
<1>5. QED BY <1>3, <1>4 DEF IInv

(* A decision after a failure.  At most one session more than was accounted   *)
(* for is there, and none if the quota refused it; the decision accounts for  *)
(* the one that may follow.                                                   *)
LEMMA RepairStep ==
    ASSUME IInv, run # None, NEW kind, Repair(kind, run.session),
           UNCHANGED <<world, kills>>,
           faults' \in 0 .. MaxFaults, pauses' \in 0 .. faults', pauses <= pauses',
           sessions' \in Seq(SessionRecord), Len(sessions) <= Len(sessions'),
           \A s \in 1 .. Len(sessions) : sessions'[s] = sessions[s],
           \A s \in Sessions' : s \in Sessions \/ sessions'[s].provider = run.provider,
           IsFiniteSet(Sessions'),
           Cardinality(Sessions') <= 1 + Spent + pauses + kills,
           kind = "PROVIDER_QUOTA" => Cardinality(Sessions') <= Spent + pauses' + kills
    PROVE  IInv'
<1> DEFINE d == Disposition(kind, run.attempt, run.replan)
<1>1. /\ TypeOK /\ run \in Runs /\ sessions \in Seq(SessionRecord)
      /\ run.attempt \in 0 .. MaxRetries /\ run.replan \in 0 .. MaxReplans
      /\ run.session \in Nat \cup {None} /\ run.provider \in Providers
  BY DEF IInv, RecordsAreTrue, TypeOK, SessionRecord, Runs
<1>2. Spent = run.attempt + run.replan
  BY <1>1 DEF IInv, RunIsTrue, Spent
<1>3. run.session # None =>
         /\ run.session \in 1 .. Len(sessions) /\ sessions[run.session].task = "this"
         /\ sessions[run.session].provider = run.provider
  BY <1>1 DEF IInv, RunIsTrue
<1>4. /\ checkpoint' \in TaskCheckpoint /\ checkpoint' # None /\ Known' = checkpoint'
      /\ checkpoint'.task = "this" /\ checkpoint'.state # "COMPLETED"
      /\ checkpoint'.session \in {run.session, None}
      /\ checkpoint'.session # None => checkpoint'.provider = run.provider
      /\ checkpoint'.attempt \in 0 .. MaxRetries /\ checkpoint'.replan \in 0 .. MaxReplans
      /\ run' \in Runs \cup {None}
  <2>1. CASE d = "RETRY"
    <3>1. /\ checkpoint' \in TaskCheckpoint /\ checkpoint' # None
          /\ checkpoint'.task = "this" /\ checkpoint'.state = "RUNNING"
          /\ checkpoint'.session = None
          /\ checkpoint'.attempt = run'.attempt /\ checkpoint'.replan = run'.replan
          /\ run' \in Runs
      BY <1>1, <2>1, Retries
    <3>2. QED BY <3>1 DEF Known, Runs
  <2>2. CASE d # "RETRY"
    <3>1. /\ checkpoint' \in TaskCheckpoint /\ checkpoint' # None
          /\ checkpoint'.task = "this" /\ checkpoint'.state # "COMPLETED"
          /\ checkpoint'.session = run.session /\ checkpoint'.provider = run.provider
          /\ checkpoint'.attempt = run.attempt /\ checkpoint'.replan <= MaxReplans
          /\ run' = None
      BY <1>1, <2>2, Ends
    <3>2. checkpoint'.replan \in Nat
      BY <3>1 DEF TaskCheckpoint
    <3>3. QED BY <1>1, <3>1, <3>2 DEF Known
  <2>3. QED BY <2>1, <2>2
<1>5. RecordsAreTrue'
  <2>1. TypeOK'
    BY <1>1, <1>4 DEF TypeOK, SessionRecord, world
  <2>2. BudgetHolds'
    BY <1>4 DEF BudgetHolds
  <2>3. CheckpointIsTrue'
    BY <1>1, <1>3, <1>4 DEF CheckpointIsTrue
  <2>4. QED BY <2>1, <2>2, <2>3 DEF RecordsAreTrue
<1>6. Named'
  BY <1>1, <1>3, <1>4 DEF Named
<1>7. \A s \in Sessions' : kills = 0 => sessions'[s].provider = run.provider
  <2>1. SUFFICES ASSUME NEW s \in Sessions', kills = 0, s \in Sessions
                 PROVE  sessions'[s].provider = run.provider
    OBVIOUS
  <2>2. s \in 1 .. Len(sessions)
    BY <1>1, <2>1 DEF Sessions
  <2>3. QED BY <2>1, <2>2 DEF IInv, OneProvider
<1>8. CASE d = "RETRY"
  <2>1. /\ run' # None /\ run'.pc = "start" /\ run'.session = None
        /\ run'.provider = run.provider
        /\ run'.attempt = run.attempt + 1 /\ run'.replan = run.replan
        /\ checkpoint'.attempt = run.attempt + 1 /\ checkpoint'.replan = run.replan
        /\ checkpoint'.state = "RUNNING"
    BY <1>1, <1>8, Retries
  <2>2. RunIsTrue'
    BY <1>4, <2>1 DEF RunIsTrue, Final
  <2>3. OneProvider'
    BY <1>7, <2>1 DEF OneProvider
  <2>4. Counted'
    <3>1. Spent' = Spent + 1
      BY <1>1, <1>2, <1>4, <2>1 DEF Spent
    <3>2. Cardinality(Sessions') \in Nat /\ Spent \in Nat /\ pauses \in Nat
          /\ pauses' \in Nat /\ kills \in Nat
      BY SpentIsNat, FS_CardinalityType
    <3>3. Cardinality(Sessions') <= Spent' + pauses' + kills
      BY <3>1, <3>2
    <3>4. Cardinality(Sessions') <= 1 + Spent' + pauses' + kills
      BY <3>1, <3>2, <3>3
    <3>5. QED BY <3>3, <3>4 DEF Counted
  <2>5. QED BY <1>5, <1>6, <2>2, <2>3, <2>4 DEF IInv
<1>9. CASE d # "RETRY"
  <2>1. /\ run' = None
        /\ checkpoint'.provider = run.provider /\ checkpoint'.attempt = run.attempt
        /\ \/ checkpoint'.state = "REPLAN" /\ checkpoint'.replan = run.replan + 1
           \/ /\ checkpoint'.replan = run.replan
              /\ checkpoint'.state \in {"HUMAN_WAIT", "FAILED"}
           \/ /\ checkpoint'.replan = run.replan
              /\ checkpoint'.state = "PAUSED_QUOTA" /\ kind = "PROVIDER_QUOTA"
    BY <1>1, <1>9, Ends
  <2>2. RunIsTrue'
    BY <2>1 DEF RunIsTrue
  <2>3. OneProvider'
    BY <1>4, <1>7, <2>1 DEF OneProvider
  <2>4. Counted'
    <3>1. Spent' = run.attempt + checkpoint'.replan
      BY <1>4, <2>1 DEF Spent
    <3>2. Spent' \in {Spent, Spent + 1}
      BY <1>1, <1>2, <2>1, <3>1
    <3>3. Cardinality(Sessions') \in Nat /\ Spent \in Nat /\ pauses \in Nat
          /\ pauses' \in Nat /\ kills \in Nat
      BY SpentIsNat, FS_CardinalityType
    <3>4. Cardinality(Sessions') <= 1 + Spent' + pauses' + kills
      BY <3>2, <3>3
    <3>5. CASE checkpoint'.state \in {"HUMAN_WAIT", "FAILED"}
      <4>1. ~Owed'
        BY <1>4, <2>1, <3>5 DEF Owed, Final
      <4>2. QED BY <3>4, <4>1 DEF Counted
    <3>6. CASE checkpoint'.state = "REPLAN"
      <4>1. Spent' = Spent + 1
        BY <1>1, <1>2, <2>1, <3>1, <3>6
      <4>2. QED BY <3>3, <3>4, <4>1 DEF Counted
    <3>7. CASE checkpoint'.state = "PAUSED_QUOTA"
      <4>1. Spent' = Spent /\ kind = "PROVIDER_QUOTA"
        BY <1>2, <2>1, <3>1, <3>7
      <4>2. QED BY <3>4, <4>1 DEF Counted
    <3>8. QED BY <2>1, <3>5, <3>6, <3>7
  <2>5. QED BY <1>5, <1>6, <2>2, <2>3, <2>4 DEF IInv
<1>10. QED BY <1>8, <1>9

(* A failed start: the session was created or was not.                        *)
LEMMA StartFailsStep ==
    ASSUME IInv, StartFails
    PROVE  IInv'
<1>1. /\ TypeOK /\ run # None /\ run.pc = "start" /\ run.session = None
      /\ faults' \in 0 .. MaxFaults /\ pauses' \in 0 .. faults' /\ pauses <= pauses'
      /\ pauses' = pauses /\ UNCHANGED <<world, kills>>
      /\ sessions \in Seq(SessionRecord) /\ Len(sessions) \in Nat
  BY DEF IInv, RecordsAreTrue, TypeOK, RunIsTrue, StartFails, At, SessionRecord
<1>2. Cardinality(Sessions) <= Spent + pauses + kills /\ IsFiniteSet(Sessions)
  BY <1>1 DEF IInv, Counted, Owed
<1>3. PICK kind \in StartFailures :
         /\ Repair(kind, None)
         /\ \/ UNCHANGED sessions
            \/ kind # "PROVIDER_QUOTA" /\ NewSession
  BY DEF StartFails
<1>4. Repair(kind, run.session)
  BY <1>1, <1>3
<1>5. CASE UNCHANGED sessions
  <2>1. Sessions' = Sessions
    BY <1>5 DEF Sessions
  <2>2. Cardinality(Sessions) <= 1 + Spent + pauses + kills
    BY DEF IInv, Counted
  <2>3. QED BY <1>1, <1>2, <1>4, <1>5, <2>1, <2>2, RepairStep
<1>6. CASE kind # "PROVIDER_QUOTA" /\ NewSession
  <2>1. /\ sessions' \in Seq(SessionRecord) /\ Len(sessions') = Len(sessions) + 1
        /\ \A s \in 1 .. Len(sessions) : sessions'[s] = sessions[s]
        /\ sessions'[Len(sessions) + 1].provider = run.provider
        /\ Sessions' = Sessions \cup {Len(sessions) + 1}
        /\ IsFiniteSet(Sessions')
        /\ Cardinality(Sessions') = Cardinality(Sessions) + 1
    BY <1>1, <1>2, <1>6, Added
  <2>2. Cardinality(Sessions') <= 1 + Spent + pauses + kills
    BY <1>2, <2>1, SpentIsNat
  <2>3. Len(sessions) <= Len(sessions')
    BY <1>1, <2>1
  <2>4. \A s \in Sessions' : s \in Sessions \/ sessions'[s].provider = run.provider
    BY <2>1
  <2>5. QED BY <1>1, <1>4, <1>6, <2>1, <2>2, <2>3, <2>4, RepairStep
<1>7. QED BY <1>3, <1>5, <1>6

(* A failure while the session is monitored: only the quota's is counted.     *)
LEMMA MonitorStep ==
    ASSUME IInv, Stopped \/ MonitorFails
    PROVE  IInv'
<1>1. /\ TypeOK /\ run # None /\ run \in Runs
      /\ sessions' = sessions /\ Sessions' = Sessions /\ UNCHANGED <<world, kills>>
      /\ sessions \in Seq(SessionRecord) /\ Len(sessions) \in Nat
  BY DEF IInv, RecordsAreTrue, TypeOK, Stopped, MonitorFails, At, SessionRecord, Sessions,
         counters
<1>2. Cardinality(Sessions) <= 1 + Spent + pauses + kills /\ IsFiniteSet(Sessions)
  BY DEF IInv, Counted
<1>3. PICK kind :
         /\ Repair(kind, run.session)
         /\ pauses' = pauses + IF kind = "PROVIDER_QUOTA" THEN 1 ELSE 0
         /\ faults' \in 0 .. MaxFaults /\ pauses' \in 0 .. faults' /\ pauses <= pauses'
  <2>1. CASE Stopped
    <3> DEFINE k == RaisedFor(sessions[run.session].state)
    <3>1. Repair(k, run.session) /\ UNCHANGED counters
      BY <2>1 DEF Stopped
    <3>2. k # "PROVIDER_QUOTA"
      <4>1. run.session \in DOMAIN sessions
        BY <1>1, <2>1 DEF IInv, RunIsTrue, Stopped, At
      <4>2. sessions[run.session] \in SessionRecord
        BY <1>1, <4>1, SessionTyped
      <4>3. sessions[run.session].state \in
                {"OPEN", "FAILED", "AWAITING_USER_FEEDBACK", "PAUSED"}
        BY <2>1, <4>2 DEF SessionRecord, Stopped
      <4>4. QED BY <4>3 DEF RaisedFor
    <3>3. pauses' = pauses + 0 /\ pauses' \in 0 .. faults' /\ faults' \in 0 .. MaxFaults
          /\ pauses <= pauses'
      BY <1>1, <3>1 DEF TypeOK, counters
    <3> HIDE DEF k
    <3>4. QED BY <3>1, <3>2, <3>3
  <2>2. CASE MonitorFails
    <3>1. PICK k \in StartFailures :
             /\ Repair(k, run.session)
             /\ pauses' = pauses + IF k = "PROVIDER_QUOTA" THEN 1 ELSE 0
      BY <2>2 DEF MonitorFails
    <3>2. faults' = faults + 1 /\ faults < MaxFaults
      BY <2>2 DEF MonitorFails
    <3>3. faults' \in 0 .. MaxFaults /\ pauses' \in 0 .. faults' /\ pauses <= pauses'
      BY <1>1, <3>1, <3>2 DEF TypeOK
    <3>4. QED BY <3>1, <3>3
  <2>3. QED BY <2>1, <2>2
<1>4. kind = "PROVIDER_QUOTA" => Cardinality(Sessions') <= Spent + pauses' + kills
  BY <1>1, <1>2, <1>3, SpentIsNat
<1>5. Len(sessions) <= Len(sessions') /\ IsFiniteSet(Sessions')
      /\ Cardinality(Sessions') <= 1 + Spent + pauses + kills
  BY <1>1, <1>2
<1>6. QED BY <1>1, <1>3, <1>4, <1>5, RepairStep

-----------------------------------------------------------------------------
\* The theorems.

(* No call is under way, and the task has no session.                         *)
LEMMA InitIInv == Init => IInv
<1>1. SUFFICES ASSUME Init PROVE IInv
  OBVIOUS
<1>2. Known = None /\ Sessions = {}
  BY <1>1 DEF Init, Known, Sessions
<1>3. RecordsAreTrue
  <2>1. CASE checkpoint = None /\ sessions = <<>>
    <3>1. TypeOK
      BY <1>1, <2>1 DEF Init, TypeOK, AvailabilityRecord
    <3>2. QED BY <2>1, <3>1 DEF RecordsAreTrue, BudgetHolds, CheckpointIsTrue
  <2>2. CASE \E p \in Providers :
                /\ checkpoint = [task |-> "earlier", state |-> "COMPLETED", attempt |-> 0,
                                 replan |-> 0, session |-> 1, provider |-> p]
                /\ sessions = <<[task |-> "earlier", provider |-> p, state |-> "COMPLETED"]>>
    <3>1. checkpoint \in TaskCheckpoint /\ sessions \in Seq(SessionRecord)
      BY <2>2 DEF TaskCheckpoint, Final, SessionRecord
    <3>2. TypeOK
      BY <1>1, <3>1 DEF Init, TypeOK, AvailabilityRecord, SessionRecord
    <3>3. BudgetHolds /\ CheckpointIsTrue
      BY <2>2 DEF BudgetHolds, CheckpointIsTrue
    <3>4. QED BY <3>2, <3>3 DEF RecordsAreTrue
  <2>3. QED BY <1>1, <2>1, <2>2 DEF Init
<1>4. Named
  BY <1>1 DEF Init, Named
<1>5. RunIsTrue /\ OneProvider
  BY <1>1, <1>2 DEF Init, RunIsTrue, OneProvider
<1>6. Counted
  <2>1. IsFiniteSet(Sessions) /\ Cardinality(Sessions) = 0
    BY <1>2, FS_EmptySet
  <2>2. QED BY <1>1, <1>2, <2>1 DEF Init, Counted, Spent
<1>7. QED BY <1>3, <1>4, <1>5, <1>6 DEF IInv

(* Whatever a call does, is killed at or meets, the invariant stays.          *)
LEMMA NextIInv == IInv /\ [Next]_vars => IInv'
<1>1. SUFFICES ASSUME IInv, [Next]_vars PROVE IInv'
  OBVIOUS
<1>2. CASE BeginSticky
  <2>1. Known.provider \in Providers
    BY <1>1, <1>2, KnownTyped DEF BeginSticky, Stuck, IInv, RecordsAreTrue, TaskCheckpoint
  <2>2. QED BY <1>1, <1>2, <2>1, BeginStep DEF BeginSticky
<1>3. CASE BeginRouted
  BY <1>1, <1>3, BeginStep DEF BeginRouted, Routed, Candidates
<1>4. CASE Start
  BY <1>1, <1>4, StartStep
<1>5. CASE StartFails
  BY <1>1, <1>5, StartFailsStep
<1>6. CASE SaveSession
  BY <1>1, <1>6, SaveStep
<1>7. CASE Completed
  BY <1>1, <1>7, CompletedStep
<1>8. CASE Stopped \/ MonitorFails
  BY <1>1, <1>8, MonitorStep
<1>9. CASE Kill
  BY <1>1, <1>9, KillStep
<1>10. CASE SessionEnds
  BY <1>1, <1>10, EndStep
<1>11. CASE Tick \/ (\E p \in Providers : Upsert(p)) \/ UNCHANGED vars
  BY <1>1, <1>11, WorldStep DEF Tick, Upsert, vars, world, counters
<1>12. QED
  BY <1>1, <1>2, <1>3, <1>4, <1>5, <1>6, <1>7, <1>8, <1>9, <1>10, <1>11
     DEF Next, Begin, RunStep

\* The invariant holds in every reachable state.
LEMMA Invariance == Spec => []IInv
BY InitIInv, NextIInv, PTL DEF Spec

(* The call that reads the checkpoint next can trust it: the task's budget is *)
(* kept over every kill, the session it names is the task's and its           *)
(* provider's, and COMPLETED is said of a completed session only              *)
(* (run_checkpointed_cycle).                                                  *)
THEOREM RecordsTrue == Spec => []RecordsAreTrue
<1>1. IInv => RecordsAreTrue
  BY DEF IInv
<1>2. QED BY <1>1, Invariance, PTL

(* Sessions are sticky unless a call was killed, and each one beyond the      *)
(* first answers for a retry, a replan, a quota pause or a kill.              *)
THEOREM SessionsExplained == Spec => []SessionsAreExplained
<1>1. IInv => SessionsAreExplained
  <2>1. SUFFICES ASSUME IInv PROVE SessionsAreExplained
    OBVIOUS
  <2>2. ASSUME kills = 0, NEW s \in Sessions, NEW t \in Sessions
        PROVE  sessions[s].provider = sessions[t].provider
    BY <2>1, <2>2 DEF IInv, OneProvider
  <2>3. ASSUME Known # None
        PROVE  Cardinality(Sessions) <= 1 + Known.attempt + Known.replan + pauses + kills
    <3>1. Known.attempt \in Nat /\ Known.replan \in Nat /\ pauses \in Nat /\ kills \in Nat
      BY <2>1, <2>3, KnownTyped, SpentIsNat DEF IInv, RecordsAreTrue
    <3>2. Cardinality(Sessions) <= 1 + (Known.attempt + Known.replan) + pauses + kills
      BY <2>1, <2>3 DEF IInv, Counted, Spent
    <3>3. QED BY <3>1, <3>2
  <2>4. QED BY <2>2, <2>3 DEF SessionsAreExplained
<1>2. QED BY <1>1, Invariance, PTL

(* A task that has ended, or waits for a human, is not touched again: no call *)
(* is under way on it, and none begins (run_routed_cycle, decide_resume).     *)
THEOREM EndStands == Spec => FinalStands
<1>1. IInv /\ [Next]_vars => [Settled(Known) => checkpoint' = checkpoint]_vars
  <2>1. SUFFICES ASSUME IInv, Next, Settled(Known)
                 PROVE  checkpoint' = checkpoint
    OBVIOUS
  <2>2. Known # None /\ Known \in TaskCheckpoint
    BY <2>1, KnownTyped DEF Settled, IInv, RecordsAreTrue
  <2>3. Known.state \in Final
    BY <2>1, <2>2 DEF Settled, ResumeAction, TaskCheckpoint, Final
  <2>4. run = None
    BY <2>1, <2>2, <2>3 DEF IInv, RunIsTrue
  <2>5. QED
    BY <2>1, <2>4 DEF Next, Begin, BeginSticky, BeginRouted, RunStep, Start, StartFails,
                      SaveSession, Completed, Stopped, MonitorFails, At, Kill, SessionEnds,
                      Tick, Upsert
<1>2. QED BY <1>1, Invariance, PTL DEF Spec, FinalStands

=============================================================================
