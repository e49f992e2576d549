----------------------- MODULE MultiAgentReviewProofs -----------------------
(***************************************************************************)
(* A clearance is earned, and reviewer sessions are accounted for, for any *)
(* number of heads, kills and refusals.  The invariant says, for each step *)
(* a run may stand at, which files it has already made to agree: a run is  *)
(* alone, so that a file it wrote or compared holds what it computed until *)
(* it ends, and a clearance, once there, keeps every later run from        *)
(* starting.  The pull request, the project and the dispatches may change  *)
(* beside a run as they will.                                              *)
(***************************************************************************)
EXTENDS MultiAgentReview, TLAPS

ProviderSessions ==
    [asked : Heads, state : {"RUNNING", "COMPLETED", "FAILED"}, reply : Replies \cup {None}]

Judging == {"observe", "contribute", "reconcile", "conclude", "request"}
Observed == Judging \ {"observe"}
Contributed == Observed \ {"contribute"}

(* A completed provider session has a reply. *)
RepliesInv ==
    \A i \in DOMAIN sessions : sessions[i].state = "COMPLETED" => sessions[i].reply \in Replies

(* A completed role is about a session that completed. *)
RoleInv ==
    role # None /\ role.state = "COMPLETED" => sessions[role.session].state = "COMPLETED"

(* What the files say when the run stands at a step. *)
RunInv ==
    run # None =>
        /\ run.at # "end" => clearance = None
        /\ run.at \in {"create", "persist"} => role = None
        /\ run.at = "persist" => run.session \in DOMAIN sessions
        /\ run.at = "poll" => role \in RoleSessions /\ role.state = "RUNNING"
        /\ run.at \in Judging => role \in RoleSessions /\ role.state = "COMPLETED"
        /\ run.at \in Observed =>
              /\ observation.head = run.head /\ observation.session = role.session
              /\ observation.verdict = sessions[role.session].reply.verdict
              /\ observation.verdict # None
              /\ observation \in Observations
        /\ run.at \in Contributed => contribution = ThisContribution
        /\ run.at = "conclude" => reconciliation = Reconciled({ThisContribution})
        /\ run.at = "request" => correction \in Loops /\ correction.rounds \in 1 .. MaxRounds

(* A session that no role file names was lost in a kill. *)
AccountInv ==
    IF role # None \/ (run # None /\ run.at = "persist")
    THEN Len(sessions) <= 1 + kills ELSE Len(sessions) <= kills

(* The types of what the review does not write. *)
DeliveryOK ==
    /\ pr \in [head : Heads, state : {"open", "merged", "verified"}]
    /\ project \in [task : {"current", "parked", "completed"},
                    receipt : {"PR_CREATED", "MERGED"}]
    /\ dispatches \in [sent : 0 .. MaxDispatches, waiting : 0 .. MaxDispatches,
                       picked : 0 .. MaxDispatches]

Inv == TypeOK /\ RepliesInv /\ RoleInv /\ RunInv /\ AccountInv /\ ClearanceIsEarned

USE DEF target, delivery, review, evidence, corrections, frozen

(* A lone verdict reconciles to CLEAR only when it is CLEAR. *)
LEMMA ClearDisposition ==
    ASSUME NEW v \in Verdicts, Disposition({v}) = "CLEAR"
    PROVE  v = "CLEAR"
BY DEF Disposition, Verdicts

(* The kinds of files depend on which sessions there are. *)
LEMMA SameTypes ==
    ASSUME UNCHANGED sessions
    PROVE  /\ Observations' = Observations /\ Contributions' = Contributions
           /\ Reconciliations' = Reconciliations /\ Clearances' = Clearances
           /\ Requests' = Requests
BY DEF Observations, Contributions, Reconciliations, Clearances, Requests

(* One contribution reconciles to a reconciliation, and clears as one. *)
LEMMA ReconciledType ==
    ASSUME NEW c \in Contributions
    PROVE  Reconciled({c}) \in Reconciliations
<1>1. \A v : Disposition(v) \in {"INCOMPLETE", "CLEAR", "CHANGES_REQUIRED", "HUMAN_WAIT"}
  BY DEF Disposition
<1>2. QED BY <1>1 DEF Reconciled, Reconciliations

(* What clears a contribution is a clearance. *)
LEMMA ClearanceType ==
    ASSUME NEW c \in Contributions, NEW h \in Heads, NEW s \in DOMAIN sessions
    PROVE  Clearance(h, s, c) \in Clearances
BY ReconciledType DEF Clearance, Clearances

(* Initially there are no files and no run. *)
LEMMA InitInv == Init => Inv
BY ReviewConstants
   DEF Init, Inv, TypeOK, RepliesInv, RoleInv, RunInv, AccountInv,
       ClearanceIsEarned, Heads

(* What happens outside the review, the pull request merging or the        *)
(* finalizer writing, leaves what the invariant is about.                  *)
LEMMA BystanderInv ==
    ASSUME Inv, UNCHANGED <<sessions, role, evidence, corrections, run, quotas>>,
           DeliveryOK',
           pause' \in {None, "NOT_DUE", "DUE"},
           kills' \in kills .. MaxKills
    PROVE  Inv'
<1>1. kills \in 0 .. MaxKills /\ kills' \in 0 .. MaxKills /\ kills' >= kills
  BY ReviewConstants DEF Inv, TypeOK
<1>2. TypeOK' BY <1>1, SameTypes DEF Inv, TypeOK, DeliveryOK
<1>3. (RepliesInv /\ RoleInv)' BY DEF Inv, RepliesInv, RoleInv
<1>4. RunInv' BY DEF Inv, RunInv, ThisContribution, Observations
<1>5. AccountInv' BY <1>1 DEF Inv, TypeOK, AccountInv
<1>6. ClearanceIsEarned' BY DEF Inv, ClearanceIsEarned, ThisContribution, Clearance
<1>7. QED BY <1>2, <1>3, <1>4, <1>5, <1>6 DEF Inv

(* A run that ends well is gone, or stands at its end. *)
LEMMA EndsWellFacts ==
    ASSUME Inv, run # None, EndsWell
    PROVE  run' = None \/ (run' \in Runs /\ run'.at = "end")
<1>1. run \in Runs BY DEF Inv, TypeOK
<1>2. [run EXCEPT !.at = "end"] \in Runs /\ [run EXCEPT !.at = "end"].at = "end"
  BY <1>1 DEF Runs, Steps
<1>3. run' = None \/ run' = [run EXCEPT !.at = "end"] BY DEF EndsWell, GoTo
<1>4. QED BY <1>2, <1>3

(* A run that ends where it stands, refused, given up or killed, leaves    *)
(* files that agree: no invariant of the files needs the run.  Only a kill *)
(* may lose a session, and is counted.                                     *)
LEMMA RunEndsInv ==
    ASSUME Inv, run # None, run' = None \/ (run' \in Runs /\ run'.at = "end"),
           UNCHANGED <<sessions, role, evidence, corrections>>, DeliveryOK',
           pause' \in {None, "NOT_DUE", "DUE"}, quotas' \in 0 .. MaxQuotas,
           \/ kills' = kills /\ run.at # "persist"
           \/ kills' = kills + 1 /\ kills < MaxKills
    PROVE  Inv'
<1>1. kills \in 0 .. MaxKills /\ kills' \in 0 .. MaxKills
  BY ReviewConstants DEF Inv, TypeOK
<1>2. TypeOK' BY <1>1, SameTypes DEF Inv, TypeOK, DeliveryOK
<1>3. (RepliesInv /\ RoleInv)' BY DEF Inv, RepliesInv, RoleInv
<1>4. RunInv' BY DEF RunInv, Judging, Observed, Contributed
<1>5. AccountInv' BY <1>1 DEF Inv, TypeOK, AccountInv
<1>6. ClearanceIsEarned' BY DEF Inv, ClearanceIsEarned, ThisContribution, Clearance
<1>7. QED BY <1>2, <1>3, <1>4, <1>5, <1>6 DEF Inv

(* A run begins; a resume happens here. *)
LEMMA BeginInv ==
    ASSUME Inv, Begin
    PROVE  Inv'
<1> USE ReviewConstants, NoneIsNoValue
<1>1. CASE BeginCreate
  <2>1. TypeOK'
    BY <1>1 DEF Inv, TypeOK, RepliesInv, RoleInv, RunInv, AccountInv,
       ClearanceIsEarned, Runs, Steps, Observations, Contributions,
       Reconciliations, Clearances, Loops, Requests, Judging, Observed,
       Contributed, ThisContribution, Clearance, MayBegin, NeedsSession,
       RunStarts, DeliveryOK, BeginCreate
  <2>2. (RepliesInv /\ RoleInv)'
    BY <1>1 DEF Inv, TypeOK, RepliesInv, RoleInv, RunInv, AccountInv,
       ClearanceIsEarned, Runs, Steps, Observations, Contributions,
       Reconciliations, Clearances, Loops, Requests, Judging, Observed,
       Contributed, ThisContribution, Clearance, MayBegin, NeedsSession,
       RunStarts, DeliveryOK, BeginCreate
  <2>3. RunInv'
    BY <1>1 DEF Inv, TypeOK, RepliesInv, RoleInv, RunInv, AccountInv,
       ClearanceIsEarned, Runs, Steps, Observations, Contributions,
       Reconciliations, Clearances, Loops, Requests, Judging, Observed,
       Contributed, ThisContribution, Clearance, MayBegin, NeedsSession,
       RunStarts, DeliveryOK, BeginCreate
  <2>4. AccountInv'
    BY <1>1 DEF Inv, TypeOK, RepliesInv, RoleInv, RunInv, AccountInv,
       ClearanceIsEarned, Runs, Steps, Observations, Contributions,
       Reconciliations, Clearances, Loops, Requests, Judging, Observed,
       Contributed, ThisContribution, Clearance, MayBegin, NeedsSession,
       RunStarts, DeliveryOK, BeginCreate
  <2>5. ClearanceIsEarned'
    BY <1>1 DEF Inv, TypeOK, RepliesInv, RoleInv, RunInv, AccountInv,
       ClearanceIsEarned, Runs, Steps, Observations, Contributions,
       Reconciliations, Clearances, Loops, Requests, Judging, Observed,
       Contributed, ThisContribution, Clearance, MayBegin, NeedsSession,
       RunStarts, DeliveryOK, BeginCreate
  <2>6. QED BY <2>1, <2>2, <2>3, <2>4, <2>5 DEF Inv
<1>2. CASE BeginPoll
  <2>0. role \in RoleSessions /\ role' \in RoleSessions /\ role # None /\ role' # None
        /\ role'.session = role.session
    <3>1. role # None BY <1>2 DEF BeginPoll, NeedsSession
    <3>2. role \in RoleSessions BY <3>1 DEF Inv, TypeOK
    <3>3. Resumed(role) \in RoleSessions /\ Resumed(role).session = role.session
      BY <3>2 DEF Resumed, RoleSessions
    <3>4. role' = role \/ role' = Resumed(role) BY <1>2 DEF BeginPoll
    <3>5. role' \in RoleSessions /\ role'.session = role.session BY <3>2, <3>3, <3>4
    <3>6. QED BY <3>1, <3>2, <3>5
  <2>1. TypeOK'
    <3>1. run' \in Runs
      BY <1>2 DEF BeginPoll, RunStarts, Inv, TypeOK, Runs, Steps
    <3>2. role.session \in DOMAIN sessions BY <2>0 DEF Inv, TypeOK
    <3>3. UNCHANGED <<pr, project, sessions, pause, evidence, corrections, kills, quotas>>
      BY <1>2 DEF BeginPoll
    <3>4. dispatches' = [dispatches EXCEPT !.waiting = 0]
      BY <1>2 DEF BeginPoll, RunStarts
    <3>5. DeliveryOK' BY <3>3, <3>4, ReviewConstants DEF DeliveryOK, Inv, TypeOK
    <3>6. QED BY <2>0, <3>1, <3>2, <3>3, <3>5, SameTypes DEF DeliveryOK, Inv, TypeOK
  <2>2. (RepliesInv /\ RoleInv)'
    BY <1>2 DEF Inv, TypeOK, RepliesInv, RoleInv, RunInv, AccountInv,
       ClearanceIsEarned, Runs, Steps, Observations, Contributions,
       Reconciliations, Clearances, Loops, Requests, Judging, Observed,
       Contributed, ThisContribution, Clearance, MayBegin, NeedsSession,
       RunStarts, RoleSessions, Resumed, BeginPoll
  <2>3. RunInv'
    BY <1>2 DEF Inv, TypeOK, RepliesInv, RoleInv, RunInv, AccountInv,
       ClearanceIsEarned, Runs, Steps, Observations, Contributions,
       Reconciliations, Clearances, Loops, Requests, Judging, Observed,
       Contributed, ThisContribution, Clearance, MayBegin, NeedsSession,
       RunStarts, RoleSessions, Resumed, BeginPoll
  <2>4. AccountInv'
    BY <1>2, <2>0 DEF BeginPoll, MayBegin, RunStarts, Inv, TypeOK, AccountInv
  <2>5. ClearanceIsEarned'
    BY <1>2 DEF Inv, TypeOK, RepliesInv, RoleInv, RunInv, AccountInv,
       ClearanceIsEarned, Runs, Steps, Observations, Contributions,
       Reconciliations, Clearances, Loops, Requests, Judging, Observed,
       Contributed, ThisContribution, Clearance, MayBegin, NeedsSession,
       RunStarts, RoleSessions, Resumed, BeginPoll
  <2>6. QED BY <2>1, <2>2, <2>3, <2>4, <2>5 DEF Inv
<1>3. CASE BeginJudge
  <2>1. TypeOK'
    <3>1. run' \in Runs
      BY <1>3 DEF BeginJudge, RunStarts, Inv, TypeOK, Runs, Steps
    <3>2. UNCHANGED <<pr, project, sessions, role, pause, evidence, corrections, kills, quotas>>
      BY <1>3 DEF BeginJudge
    <3>3. dispatches' = [dispatches EXCEPT !.waiting = 0]
      BY <1>3 DEF BeginJudge, RunStarts
    <3>4. DeliveryOK' BY <3>2, <3>3, ReviewConstants DEF DeliveryOK, Inv, TypeOK
    <3>5. QED BY <3>1, <3>2, <3>4, SameTypes DEF DeliveryOK, Inv, TypeOK
  <2>2. (RepliesInv /\ RoleInv)'
    BY <1>3 DEF Inv, TypeOK, RepliesInv, RoleInv, RunInv, AccountInv,
       ClearanceIsEarned, Runs, Steps, Observations, Contributions,
       Reconciliations, Clearances, Loops, Requests, Judging, Observed,
       Contributed, ThisContribution, Clearance, MayBegin, NeedsSession,
       RunStarts, DeliveryOK, BeginJudge
  <2>3. RunInv'
    BY <1>3 DEF Inv, TypeOK, RepliesInv, RoleInv, RunInv, AccountInv,
       ClearanceIsEarned, Runs, Steps, Observations, Contributions,
       Reconciliations, Clearances, Loops, Requests, Judging, Observed,
       Contributed, ThisContribution, Clearance, MayBegin, NeedsSession,
       RunStarts, DeliveryOK, BeginJudge
  <2>4. AccountInv'
    BY <1>3 DEF Inv, TypeOK, RepliesInv, RoleInv, RunInv, AccountInv,
       ClearanceIsEarned, Runs, Steps, Observations, Contributions,
       Reconciliations, Clearances, Loops, Requests, Judging, Observed,
       Contributed, ThisContribution, Clearance, MayBegin, NeedsSession,
       RunStarts, DeliveryOK, BeginJudge
  <2>5. ClearanceIsEarned'
    BY <1>3 DEF Inv, TypeOK, RepliesInv, RoleInv, RunInv, AccountInv,
       ClearanceIsEarned, Runs, Steps, Observations, Contributions,
       Reconciliations, Clearances, Loops, Requests, Judging, Observed,
       Contributed, ThisContribution, Clearance, MayBegin, NeedsSession,
       RunStarts, DeliveryOK, BeginJudge
  <2>6. QED BY <2>1, <2>2, <2>3, <2>4, <2>5 DEF Inv
<1>4. QED BY <1>1, <1>2, <1>3 DEF Begin

(* The steps that make a provider session and its file, and poll it. *)
LEMMA SessionInv ==
    ASSUME Inv, CreateSession \/ PersistSession \/ PollRefused \/ PollCompleted \/ ResumeDue
    PROVE  Inv'
<1> USE ReviewConstants, NoneIsNoValue
<1>1. CASE CreateSession
  <2> DEFINE s == [asked |-> run.head, state |-> "RUNNING", reply |-> None]
  <2>01. /\ run \in Runs /\ run # None /\ run.at = "create" /\ role = None
        /\ sessions \in Seq(ProviderSessions) /\ sessions' = Append(sessions, s)
        /\ run' = [run EXCEPT !.at = "persist", !.session = Len(sessions) + 1]
    BY <1>1 DEF CreateSession, Asked, At, Inv, TypeOK, RunInv, ProviderSessions
  <2>02. s \in ProviderSessions BY <2>01 DEF ProviderSessions, Runs
  <2>03. /\ sessions' \in Seq(ProviderSessions)
         /\ Len(sessions) \in Nat /\ Len(sessions') = Len(sessions) + 1
         /\ \A i \in DOMAIN sessions : i \in DOMAIN sessions' /\ sessions'[i] = sessions[i]
         /\ sessions'[Len(sessions) + 1] = s
         /\ DOMAIN sessions' = 1 .. Len(sessions) + 1
    BY <2>01, <2>02
  <2>04. run' \in Runs /\ run' # None /\ run'.at = "persist" /\ run'.session \in DOMAIN sessions'
    <3> DEFINE n == Len(sessions) + 1
    <3>0. n \in Nat \cup {None} BY <2>03
    <3>1. run' \in Runs
      <4>1. run' = [run EXCEPT !.at = "persist", !.session = n] BY <2>01
      <4> HIDE DEF n
      <4>2. QED BY <2>01, <3>0, <4>1 DEF Runs, Steps
    <3>2. run'.at = "persist" /\ run'.session = Len(sessions) + 1
      BY <2>01 DEF Runs
    <3>3. QED BY <2>03, <3>1, <3>2
  <2>1. TypeOK'
    BY <1>1, <2>01, <2>03, <2>04 DEF CreateSession, Asked, Inv, TypeOK, Observations, Contributions, Reconciliations, Clearances, Loops, Requests, ProviderSessions
  <2>2. (RepliesInv /\ RoleInv)'
    <3>1. \A i \in DOMAIN sessions' : i \in DOMAIN sessions \/ i = Len(sessions) + 1
      BY <2>01, <2>03
    <3>2. QED BY <1>1, <2>01, <2>03, <3>1 DEF CreateSession, Asked, Inv, RepliesInv, RoleInv
  <2>3. RunInv'
    BY <1>1, <2>01, <2>04
       DEF CreateSession, Asked, Inv, RunInv, Judging, Observed, Contributed
  <2>4. AccountInv'
    BY <1>1, <2>01, <2>03, <2>04 DEF CreateSession, Asked, Inv, TypeOK, AccountInv
  <2>5. ClearanceIsEarned'
    BY <1>1, <2>01 DEF CreateSession, Asked, Inv, RunInv, ClearanceIsEarned
  <2>6. QED BY <2>1, <2>2, <2>3, <2>4, <2>5 DEF Inv
<1>2. CASE PersistSession
  <2>1. TypeOK'
    <3>1. /\ run \in Runs /\ run.session \in DOMAIN sessions /\ run.session \in Nat \ {0}
          /\ run' = [run EXCEPT !.at = "poll"] /\ role' = Started(run.session)
      BY <1>2 DEF PersistSession, At, GoTo, Inv, TypeOK, RunInv
    <3>2. role' \in RoleSessions /\ role'.session = run.session
      BY <3>1 DEF Started, RoleSessions
    <3>3. run' \in Runs BY <3>1 DEF Runs, Steps
    <3>4. QED BY <1>2, <3>1, <3>2, <3>3, SameTypes DEF PersistSession, Inv, TypeOK
  <2>2. (RepliesInv /\ RoleInv)'
    BY <1>2 DEF Inv, TypeOK, RepliesInv, RoleInv, RunInv, AccountInv,
       ClearanceIsEarned, Runs, Steps, Observations, Contributions,
       Reconciliations, Clearances, Loops, Requests, Judging, Observed,
       Contributed, ThisContribution, Clearance, At, GoTo, Started,
       RoleSessions, PersistSession
  <2>3. RunInv'
    BY <1>2 DEF Inv, TypeOK, RepliesInv, RoleInv, RunInv, AccountInv,
       ClearanceIsEarned, Runs, Steps, Observations, Contributions,
       Reconciliations, Clearances, Loops, Requests, Judging, Observed,
       Contributed, ThisContribution, Clearance, At, GoTo, Started,
       RoleSessions, PersistSession
  <2>4. AccountInv'
    BY <1>2 DEF Inv, TypeOK, RepliesInv, RoleInv, RunInv, AccountInv,
       ClearanceIsEarned, Runs, Steps, Observations, Contributions,
       Reconciliations, Clearances, Loops, Requests, Judging, Observed,
       Contributed, ThisContribution, Clearance, At, GoTo, Started,
       RoleSessions, PersistSession
  <2>5. ClearanceIsEarned'
    BY <1>2 DEF Inv, TypeOK, RepliesInv, RoleInv, RunInv, AccountInv,
       ClearanceIsEarned, Runs, Steps, Observations, Contributions,
       Reconciliations, Clearances, Loops, Requests, Judging, Observed,
       Contributed, ThisContribution, Clearance, At, GoTo, Started,
       RoleSessions, PersistSession
  <2>6. QED BY <2>1, <2>2, <2>3, <2>4, <2>5 DEF Inv
<1>3. CASE PollRefused
  <2>0. /\ role \in RoleSessions /\ role' \in RoleSessions /\ role # None /\ role' # None
        /\ role'.session = role.session /\ role'.state = "PAUSED_QUOTA"
        /\ clearance = None /\ run.at = "poll" /\ run # None
        /\ (run' = None \/ (run' \in Runs /\ run'.at = "end"))
    BY <1>3, EndsWellFacts DEF PollRefused, At, Paused, Inv, RunInv, RoleSessions
  <2>1. TypeOK'
    BY <1>3, <2>0 DEF PollRefused, Inv, TypeOK, Observations, Contributions, Reconciliations, Clearances, Loops, Requests
  <2>2. (RepliesInv /\ RoleInv)'
    BY <1>3, <2>0 DEF Inv, TypeOK, RepliesInv, RoleInv, RunInv, AccountInv,
       ClearanceIsEarned, Runs, Steps, Observations, Contributions,
       Reconciliations, Clearances, Loops, Requests, Judging, Observed,
       Contributed, ThisContribution, Clearance, At, Paused, RoleSessions,
       PollRefused
  <2>3. RunInv'
    BY <1>3, <2>0 DEF Inv, TypeOK, RepliesInv, RoleInv, RunInv, AccountInv,
       ClearanceIsEarned, Runs, Steps, Observations, Contributions,
       Reconciliations, Clearances, Loops, Requests, Judging, Observed,
       Contributed, ThisContribution, Clearance, At, Paused, RoleSessions,
       PollRefused
  <2>4. AccountInv'
    BY <1>3, <2>0 DEF PollRefused, Inv, TypeOK, AccountInv
  <2>5. ClearanceIsEarned'
    BY <1>3, <2>0 DEF Inv, TypeOK, RepliesInv, RoleInv, RunInv, AccountInv,
       ClearanceIsEarned, Runs, Steps, Observations, Contributions,
       Reconciliations, Clearances, Loops, Requests, Judging, Observed,
       Contributed, ThisContribution, Clearance, At, Paused, RoleSessions,
       PollRefused
  <2>6. QED BY <2>1, <2>2, <2>3, <2>4, <2>5 DEF Inv
<1>4. CASE PollCompleted
  <2>1. TypeOK'
    <3>1. role' \in RoleSessions /\ role'.session = role.session
      BY <1>4 DEF PollCompleted, At, Completed, Inv, TypeOK, RunInv, RoleSessions
    <3>2. run' \in Runs
      BY <1>4 DEF PollCompleted, At, GoTo, Inv, TypeOK, Runs, Steps
    <3>3. role.session \in DOMAIN sessions
      BY <1>4 DEF PollCompleted, At, Inv, TypeOK, RunInv
    <3>4. QED BY <1>4, <3>1, <3>2, <3>3, SameTypes DEF PollCompleted, Inv, TypeOK
  <2>2. (RepliesInv /\ RoleInv)'
    BY <1>4 DEF Inv, TypeOK, RepliesInv, RoleInv, RunInv, AccountInv,
       ClearanceIsEarned, Runs, Steps, Observations, Contributions,
       Reconciliations, Clearances, Loops, Requests, Judging, Observed,
       Contributed, ThisContribution, Clearance, At, GoTo, Completed,
       RoleSessions, PollCompleted
  <2>3. RunInv'
    BY <1>4 DEF Inv, TypeOK, RepliesInv, RoleInv, RunInv, AccountInv,
       ClearanceIsEarned, Runs, Steps, Observations, Contributions,
       Reconciliations, Clearances, Loops, Requests, Judging, Observed,
       Contributed, ThisContribution, Clearance, At, GoTo, Completed,
       RoleSessions, PollCompleted
  <2>4. AccountInv'
    <3>1. /\ role # None /\ role' # None /\ UNCHANGED <<sessions, kills>>
      BY <1>4 DEF PollCompleted, At, Completed, Inv, RunInv, RoleSessions
    <3>2. QED BY <3>1 DEF Inv, AccountInv
  <2>5. ClearanceIsEarned'
    BY <1>4 DEF Inv, TypeOK, RepliesInv, RoleInv, RunInv, AccountInv,
       ClearanceIsEarned, Runs, Steps, Observations, Contributions,
       Reconciliations, Clearances, Loops, Requests, Judging, Observed,
       Contributed, ThisContribution, Clearance, At, GoTo, Completed,
       RoleSessions, PollCompleted
  <2>6. QED BY <2>1, <2>2, <2>3, <2>4, <2>5 DEF Inv
<1>5. CASE ResumeDue
  <2>1. TypeOK'
    <3>1. role \in RoleSessions /\ role' = [role EXCEPT !.resume = "DUE"]
          /\ role.resume = "NOT_DUE" /\ role.session \in DOMAIN sessions
      BY <1>5 DEF ResumeDue, Inv, TypeOK
    <3>2. role' \in RoleSessions /\ role'.session = role.session
      BY <3>1 DEF RoleSessions
    <3>3. QED BY <1>5, <3>1, <3>2, SameTypes DEF ResumeDue, Inv, TypeOK
  <2>2. (RepliesInv /\ RoleInv)'
    BY <1>5 DEF Inv, TypeOK, RepliesInv, RoleInv, RunInv, AccountInv,
       ClearanceIsEarned, Runs, Steps, Observations, Contributions,
       Reconciliations, Clearances, Loops, Requests, Judging, Observed,
       Contributed, ThisContribution, Clearance, RoleSessions, ResumeDue
  <2>3. RunInv'
    BY <1>5 DEF Inv, TypeOK, RepliesInv, RoleInv, RunInv, AccountInv,
       ClearanceIsEarned, Runs, Steps, Observations, Contributions,
       Reconciliations, Clearances, Loops, Requests, Judging, Observed,
       Contributed, ThisContribution, Clearance, RoleSessions, ResumeDue
  <2>4. AccountInv'
    BY <1>5 DEF Inv, TypeOK, RepliesInv, RoleInv, RunInv, AccountInv,
       ClearanceIsEarned, Runs, Steps, Observations, Contributions,
       Reconciliations, Clearances, Loops, Requests, Judging, Observed,
       Contributed, ThisContribution, Clearance, RoleSessions, ResumeDue
  <2>5. ClearanceIsEarned'
    BY <1>5 DEF Inv, TypeOK, RepliesInv, RoleInv, RunInv, AccountInv,
       ClearanceIsEarned, Runs, Steps, Observations, Contributions,
       Reconciliations, Clearances, Loops, Requests, Judging, Observed,
       Contributed, ThisContribution, Clearance, RoleSessions, ResumeDue
  <2>6. QED BY <2>1, <2>2, <2>3, <2>4, <2>5 DEF Inv
<1>6. QED BY <1>1, <1>2, <1>3, <1>4, <1>5

(* A provider session ends: the role file does not say so yet, and so no    *)
(* file speaks of its reply.                                               *)
LEMMA SessionEndsInv ==
    ASSUME Inv, SessionEnds
    PROVE  Inv'
<1> DEFINE i == role.session
<1>0. i \in DOMAIN sessions BY DEF SessionEnds, Inv, TypeOK
<1>1. PICK x \in ProviderSessions :
          /\ sessions' = [sessions EXCEPT ![i] = x]
          /\ x.state = "COMPLETED" => x.reply \in Replies
  <2>0. sessions \in Seq(ProviderSessions) BY DEF Inv, TypeOK, ProviderSessions
  <2>1. sessions[i] \in ProviderSessions BY <1>0, <2>0
  <2>2. CASE \E reply \in Replies :
               sessions' = [sessions EXCEPT ![i].state = "COMPLETED", ![i].reply = reply]
    <3>1. PICK reply \in Replies :
              sessions' = [sessions EXCEPT ![i].state = "COMPLETED", ![i].reply = reply]
      BY <2>2
    <3>2. sessions' = [sessions EXCEPT ![i] =
                          [sessions[i] EXCEPT !.state = "COMPLETED", !.reply = reply]]
      BY <3>1 DEF Inv, TypeOK
    <3> DEFINE y == [sessions[i] EXCEPT !.state = "COMPLETED", !.reply = reply]
    <3>3. y \in ProviderSessions /\ y.reply = reply BY <2>1 DEF ProviderSessions
    <3>4. QED BY <3>2, <3>3
  <2>3. CASE sessions' = [sessions EXCEPT ![i].state = "FAILED"]
    <3>1. sessions' = [sessions EXCEPT ![i] = [sessions[i] EXCEPT !.state = "FAILED"]]
      BY <2>3 DEF Inv, TypeOK
    <3> DEFINE y == [sessions[i] EXCEPT !.state = "FAILED"]
    <3>2. y \in ProviderSessions /\ y.state = "FAILED" BY <2>1 DEF ProviderSessions
    <3>3. QED BY <3>1, <3>2
  <2>4. QED BY <2>2, <2>3 DEF SessionEnds
<1>2. /\ sessions \in Seq(ProviderSessions) /\ sessions' \in Seq(ProviderSessions)
      /\ DOMAIN sessions' = DOMAIN sessions /\ Len(sessions') = Len(sessions)
      /\ sessions'[i] = x
      /\ \A j \in DOMAIN sessions \ {i} : sessions'[j] = sessions[j]
  BY <1>0, <1>1 DEF Inv, TypeOK, ProviderSessions
<1>3. role # None /\ role.state = "COMPLETED" =>
          sessions'[role.session] = sessions[role.session]
  <2>1. sessions[i].state = "RUNNING" BY DEF SessionEnds
  <2>2. QED BY <1>2, <2>1 DEF Inv, TypeOK, RoleInv
<1>4. UNCHANGED <<delivery, role, pause, evidence, corrections, run, kills, quotas>>
  BY DEF SessionEnds
<1>5. TypeOK'
  BY <1>2, <1>4 DEF Inv, TypeOK, Observations, Contributions, Reconciliations, Clearances, Loops, Requests, ProviderSessions
<1>6. (RepliesInv /\ RoleInv)'
  BY <1>1, <1>2, <1>3, <1>4 DEF Inv, RepliesInv, RoleInv
<1>7. RunInv'
  <2>1. run # None /\ run.at \in Judging => sessions'[role.session] = sessions[role.session]
    BY <1>3, NoneIsNoValue DEF Inv, RunInv
  <2>2. QED
    BY <1>2, <1>4, <2>1
       DEF Inv, RunInv, Judging, Observed, Contributed, ThisContribution, Observations
<1>8. AccountInv' BY <1>2, <1>4 DEF Inv, AccountInv
<1>9. ClearanceIsEarned'
  BY <1>3, <1>4 DEF Inv, ClearanceIsEarned, ThisContribution, Clearance
<1>10. QED BY <1>5, <1>6, <1>7, <1>8, <1>9 DEF Inv

(* The steps from the reply to the clearance or the correction request. *)
LEMMA JudgeInv ==
    ASSUME Inv, \/ Observe \/ Contribute \/ Reconcile
                \/ ConcludeClear \/ ConcludeChanges \/ WriteRequest
    PROVE  Inv'
<1> USE ReviewConstants, NoneIsNoValue
<1>1. CASE Observe
  <2>0. /\ run \in Runs /\ run # None /\ run.at = "observe" /\ clearance = None
        /\ role \in RoleSessions /\ role # None /\ role.state = "COMPLETED"
        /\ role.session \in DOMAIN sessions
        /\ sessions[role.session].reply \in Replies
    BY <1>1 DEF Observe, At, Inv, TypeOK, RunInv, RoleInv, RepliesInv, Judging
  <2> DEFINE reply == sessions[role.session].reply
             seen == [head |-> run.head, session |-> role.session,
                      verdict |-> reply.verdict, markers |-> reply.markers]
  <2>00. reply.verdict # None => seen \in Observations
    BY <2>0 DEF Replies, Observations, Runs, Verdicts
  <2>1. TypeOK'
    <3>1. CASE reply.verdict = None
      BY <1>1, <2>0, <3>1 DEF Observe, Inv, TypeOK, Observations, Contributions, Reconciliations, Clearances, Loops, Requests
    <3>2. CASE reply.verdict # None
      <4>1. observation' = seen /\ run' = [run EXCEPT !.at = "contribute"]
        BY <1>1, <3>2 DEF Observe, GoTo
      <4>2. run' \in Runs BY <2>0, <4>1 DEF Runs, Steps
      <4>3. QED BY <1>1, <2>00, <3>2, <4>1, <4>2 DEF Observe, Inv, TypeOK, Observations, Contributions, Reconciliations, Clearances, Loops, Requests
    <3>3. QED BY <3>1, <3>2
  <2>2. (RepliesInv /\ RoleInv)'
    BY <1>1 DEF Inv, TypeOK, RepliesInv, RoleInv, RunInv, AccountInv,
       ClearanceIsEarned, Runs, Steps, Observations, Contributions,
       Reconciliations, Clearances, Loops, Requests, Judging, Observed,
       Contributed, ThisContribution, Clearance, At, GoTo, Observe
  <2>3. RunInv'
    <3>1. CASE reply.verdict = None
      BY <1>1, <3>1 DEF Observe, RunInv
    <3>2. CASE reply.verdict # None
      <4>1. observation' = seen /\ run' = [run EXCEPT !.at = "contribute"]
        BY <1>1, <3>2 DEF Observe, GoTo
      <4>2. run'.at = "contribute" /\ run'.head = run.head
        BY <2>0, <4>1 DEF Runs
      <4>3. observation' \in Observations' BY <1>1, <2>00, <3>2, <4>1 DEF Observe, Observations
      <4>4. QED
        BY <1>1, <2>0, <3>2, <4>1, <4>2, <4>3
           DEF Observe, RunInv, Judging, Observed, Contributed
    <3>3. QED BY <3>1, <3>2
  <2>4. AccountInv'
    BY <1>1 DEF Inv, TypeOK, RepliesInv, RoleInv, RunInv, AccountInv,
       ClearanceIsEarned, Runs, Steps, Observations, Contributions,
       Reconciliations, Clearances, Loops, Requests, Judging, Observed,
       Contributed, ThisContribution, Clearance, At, GoTo, Observe
  <2>5. ClearanceIsEarned'
    BY <1>1 DEF Inv, TypeOK, RepliesInv, RoleInv, RunInv, AccountInv,
       ClearanceIsEarned, Runs, Steps, Observations, Contributions,
       Reconciliations, Clearances, Loops, Requests, Judging, Observed,
       Contributed, ThisContribution, Clearance, At, GoTo, Observe
  <2>6. QED BY <2>1, <2>2, <2>3, <2>4, <2>5 DEF Inv
<1>2. CASE Contribute
  <2>1. TypeOK'
    BY <1>2 DEF Inv, TypeOK, RepliesInv, RoleInv, RunInv, AccountInv,
       ClearanceIsEarned, Runs, Steps, Observations, Contributions,
       Reconciliations, Clearances, Loops, Requests, Judging, Observed,
       Contributed, ThisContribution, Clearance, At, GoTo, MayWrite, FirstOf,
       Contribute
  <2>2. (RepliesInv /\ RoleInv)'
    BY <1>2 DEF Inv, TypeOK, RepliesInv, RoleInv, RunInv, AccountInv,
       ClearanceIsEarned, Runs, Steps, Observations, Contributions,
       Reconciliations, Clearances, Loops, Requests, Judging, Observed,
       Contributed, ThisContribution, Clearance, At, GoTo, MayWrite, FirstOf,
       Contribute
  <2>3. RunInv'
    BY <1>2 DEF Inv, TypeOK, RepliesInv, RoleInv, RunInv, AccountInv,
       ClearanceIsEarned, Runs, Steps, Observations, Contributions,
       Reconciliations, Clearances, Loops, Requests, Judging, Observed,
       Contributed, ThisContribution, Clearance, At, GoTo, MayWrite, FirstOf,
       Contribute
  <2>4. AccountInv'
    BY <1>2 DEF Inv, TypeOK, RepliesInv, RoleInv, RunInv, AccountInv,
       ClearanceIsEarned, Runs, Steps, Observations, Contributions,
       Reconciliations, Clearances, Loops, Requests, Judging, Observed,
       Contributed, ThisContribution, Clearance, At, GoTo, MayWrite, FirstOf,
       Contribute
  <2>5. ClearanceIsEarned'
    BY <1>2 DEF Inv, TypeOK, RepliesInv, RoleInv, RunInv, AccountInv,
       ClearanceIsEarned, Runs, Steps, Observations, Contributions,
       Reconciliations, Clearances, Loops, Requests, Judging, Observed,
       Contributed, ThisContribution, Clearance, At, GoTo, MayWrite, FirstOf,
       Contribute
  <2>6. QED BY <2>1, <2>2, <2>3, <2>4, <2>5 DEF Inv
<1>3. CASE Reconcile
  <2>1. TypeOK'
    <3>1. Reconciled({ThisContribution}) \in Reconciliations
      <4>1. ThisContribution \in Contributions
        BY <1>3 DEF Reconcile, At, Inv, RunInv, Observed, Judging, Observations,
                    Contributions, ThisContribution
      <4>2. QED BY <4>1, ReconciledType
    <3>2. run' = None \/ run' \in Runs
      BY <1>3 DEF Reconcile, At, GoTo, Inv, TypeOK, Runs, Steps
    <3>3. QED
      BY <1>3, <3>1, <3>2, SameTypes DEF Reconcile, MayWrite, FirstOf, Inv, TypeOK
  <2>2. (RepliesInv /\ RoleInv)'
    BY <1>3 DEF Inv, TypeOK, RepliesInv, RoleInv, RunInv, AccountInv,
       ClearanceIsEarned, Runs, Steps, Observations, Contributions,
       Reconciliations, Clearances, Loops, Requests, Judging, Observed,
       Contributed, ThisContribution, Clearance, At, GoTo, MayWrite, FirstOf,
       Reconcile
  <2>3. RunInv'
    <3>1. /\ run \in Runs /\ run # None /\ run.at = "reconcile" /\ clearance = None
          /\ role \in RoleSessions /\ role.state = "COMPLETED"
          /\ observation.head = run.head /\ observation.session = role.session
          /\ observation.verdict = sessions[role.session].reply.verdict
          /\ observation.verdict # None /\ observation \in Observations
          /\ contribution = ThisContribution
      BY <1>3 DEF Reconcile, At, Inv, TypeOK, RunInv, Judging, Observed, Contributed
    <3>2. CASE run' = None BY <3>2 DEF RunInv
    <3>3. CASE run' # None
      <4>1. /\ reconciliation' = Reconciled({ThisContribution})
            /\ run' = [run EXCEPT !.at = "conclude"]
        BY <1>3, <3>3 DEF Reconcile, GoTo, MayWrite, FirstOf
      <4>2. run'.at = "conclude" /\ run'.head = run.head BY <3>1, <4>1 DEF Runs
      <4>3. UNCHANGED <<sessions, role, observation, contribution, clearance>>
        BY <1>3 DEF Reconcile
      <4>4. ThisContribution' = ThisContribution /\ Observations' = Observations
        BY <4>3, SameTypes DEF ThisContribution
      <4>5. Reconciled({ThisContribution})' = Reconciled({ThisContribution})
        BY <4>4 DEF Reconciled
      <4>6. QED
        BY <3>1, <4>1, <4>2, <4>3, <4>4, <4>5 DEF RunInv, Judging, Observed, Contributed
    <3>4. QED BY <3>2, <3>3
  <2>4. AccountInv'
    BY <1>3 DEF Inv, TypeOK, RepliesInv, RoleInv, RunInv, AccountInv,
       ClearanceIsEarned, Runs, Steps, Observations, Contributions,
       Reconciliations, Clearances, Loops, Requests, Judging, Observed,
       Contributed, ThisContribution, Clearance, At, GoTo, MayWrite, FirstOf,
       Reconcile
  <2>5. ClearanceIsEarned'
    BY <1>3 DEF Inv, TypeOK, RepliesInv, RoleInv, RunInv, AccountInv,
       ClearanceIsEarned, Runs, Steps, Observations, Contributions,
       Reconciliations, Clearances, Loops, Requests, Judging, Observed,
       Contributed, ThisContribution, Clearance, At, GoTo, MayWrite, FirstOf,
       Reconcile
  <2>6. QED BY <2>1, <2>2, <2>3, <2>4, <2>5 DEF Inv
<1>4. CASE ConcludeClear
  <2>0. run # None /\ run.at = "conclude" /\ (run' = None \/ (run' \in Runs /\ run'.at = "end"))
    <3>1. run # None /\ run.at = "conclude" BY <1>4 DEF ConcludeClear, At
    <3>2. run' = None \/ EndsWell BY <1>4 DEF ConcludeClear
    <3>3. QED BY <3>1, <3>2, EndsWellFacts
  <2>1. TypeOK'
    <3>1. Clearance(run.head, role.session, ThisContribution) \in Clearances
      <4>1. ThisContribution \in Contributions /\ run.head \in Heads
        BY <1>4 DEF ConcludeClear, At, Inv, TypeOK, Runs, RunInv, Observed, Judging,
                    Observations, Contributions, ThisContribution
      <4>2. role.session \in DOMAIN sessions
        BY <1>4 DEF ConcludeClear, At, Inv, TypeOK, RunInv, Judging
      <4>3. QED BY <4>1, <4>2, ClearanceType
    <3>2. run' = None \/ run' \in Runs BY <2>0
    <3>3. QED BY <1>4, <3>1, <3>2, SameTypes DEF ConcludeClear, MayWrite, FirstOf, Inv, TypeOK
  <2>2. (RepliesInv /\ RoleInv)'
    BY <1>4 DEF Inv, TypeOK, RepliesInv, RoleInv, RunInv, AccountInv,
       ClearanceIsEarned, Runs, Steps, Observations, Contributions,
       Reconciliations, Clearances, Loops, Requests, Judging, Observed,
       Contributed, ThisContribution, Clearance, At, MayWrite, FirstOf,
       ConcludeClear
  <2>3. RunInv'
    <3>1. run' = None \/ (run' \in Runs /\ run'.at = "end") BY <2>0
    <3>2. QED BY <3>1 DEF RunInv, Judging, Observed, Contributed
  <2>4. AccountInv'
    <3>1. run' = None \/ (run' \in Runs /\ run'.at = "end") BY <2>0
    <3>2. UNCHANGED <<role, sessions, kills>> BY <1>4 DEF ConcludeClear
    <3>3. QED BY <2>0, <3>1, <3>2 DEF Inv, AccountInv
  <2>5. ClearanceIsEarned'
    <3>1. /\ run # None /\ run.at = "conclude"
          /\ role \in RoleSessions /\ role.state = "COMPLETED"
          /\ observation.head = run.head /\ observation.session = role.session
          /\ observation.verdict = sessions[role.session].reply.verdict
          /\ observation \in Observations
          /\ contribution = ThisContribution /\ clearance = None
          /\ reconciliation = Reconciled({ThisContribution})
      BY <1>4 DEF ConcludeClear, At, Inv, RunInv, Judging, Observed, Contributed
    <3>2. observation.verdict = "CLEAR"
      BY <1>4, <3>1, ClearDisposition DEF ConcludeClear, Observations
    <3>3. clearance' = Clearance(observation.head, role.session, contribution)
      BY <1>4, <3>1 DEF ConcludeClear, MayWrite, FirstOf
    <3>4. /\ clearance'.head = observation.head
          /\ clearance'.reconciliation = reconciliation
      BY <3>1, <3>3 DEF Clearance
    <3>5. UNCHANGED <<sessions, role, observation, contribution, reconciliation>>
      BY <1>4 DEF ConcludeClear
    <3>6. ThisContribution' = ThisContribution BY <3>5 DEF ThisContribution
    <3>7. QED BY <3>1, <3>2, <3>3, <3>4, <3>5, <3>6 DEF ClearanceIsEarned, Clearance
  <2>6. QED BY <2>1, <2>2, <2>3, <2>4, <2>5 DEF Inv
<1>5. CASE ConcludeChanges
  <2>1. TypeOK'
    <3>1. correction' \in Loops
      BY <1>5 DEF ConcludeChanges, NextRound, InitialLoop, Loops
    <3>2. run' \in Runs
      BY <1>5 DEF ConcludeChanges, At, GoTo, Inv, TypeOK, Runs, Steps
    <3>3. QED BY <1>5, <3>1, <3>2, SameTypes DEF ConcludeChanges, Inv, TypeOK, Loops
  <2>2. (RepliesInv /\ RoleInv)'
    BY <1>5 DEF Inv, TypeOK, RepliesInv, RoleInv, RunInv, AccountInv,
       ClearanceIsEarned, Runs, Steps, Observations, Contributions,
       Reconciliations, Clearances, Loops, Requests, Judging, Observed,
       Contributed, ThisContribution, Clearance, At, GoTo, NextRound,
       InitialLoop, ConcludeChanges
  <2>3. RunInv'
    BY <1>5 DEF Inv, TypeOK, RepliesInv, RoleInv, RunInv, AccountInv,
       ClearanceIsEarned, Runs, Steps, Observations, Contributions,
       Reconciliations, Clearances, Loops, Requests, Judging, Observed,
       Contributed, ThisContribution, Clearance, At, GoTo, NextRound,
       InitialLoop, ConcludeChanges
  <2>4. AccountInv'
    BY <1>5 DEF Inv, TypeOK, RepliesInv, RoleInv, RunInv, AccountInv,
       ClearanceIsEarned, Runs, Steps, Observations, Contributions,
       Reconciliations, Clearances, Loops, Requests, Judging, Observed,
       Contributed, ThisContribution, Clearance, At, GoTo, NextRound,
       InitialLoop, ConcludeChanges
  <2>5. ClearanceIsEarned'
    BY <1>5 DEF Inv, TypeOK, RepliesInv, RoleInv, RunInv, AccountInv,
       ClearanceIsEarned, Runs, Steps, Observations, Contributions,
       Reconciliations, Clearances, Loops, Requests, Judging, Observed,
       Contributed, ThisContribution, Clearance, At, GoTo, NextRound,
       InitialLoop, ConcludeChanges
  <2>6. QED BY <2>1, <2>2, <2>3, <2>4, <2>5 DEF Inv
<1>6. CASE WriteRequest
  <2>0. run # None /\ run.at = "request" /\ (run' = None \/ (run' \in Runs /\ run'.at = "end"))
    BY <1>6, EndsWellFacts DEF WriteRequest, At
  <2>1. TypeOK'
    BY <1>6, <2>0 DEF Inv, TypeOK, RepliesInv, RoleInv, RunInv, AccountInv,
       ClearanceIsEarned, Runs, Steps, Observations, Contributions,
       Reconciliations, Clearances, Loops, Requests, Judging, Observed,
       Contributed, ThisContribution, Clearance, At, WriteRequest
  <2>2. (RepliesInv /\ RoleInv)'
    BY <1>6, <2>0 DEF Inv, TypeOK, RepliesInv, RoleInv, RunInv, AccountInv,
       ClearanceIsEarned, Runs, Steps, Observations, Contributions,
       Reconciliations, Clearances, Loops, Requests, Judging, Observed,
       Contributed, ThisContribution, Clearance, At, WriteRequest
  <2>3. RunInv'
    BY <1>6, <2>0 DEF Inv, TypeOK, RepliesInv, RoleInv, RunInv, AccountInv,
       ClearanceIsEarned, Runs, Steps, Observations, Contributions,
       Reconciliations, Clearances, Loops, Requests, Judging, Observed,
       Contributed, ThisContribution, Clearance, At, WriteRequest
  <2>4. AccountInv'
    BY <1>6, <2>0 DEF Inv, TypeOK, RepliesInv, RoleInv, RunInv, AccountInv,
       ClearanceIsEarned, Runs, Steps, Observations, Contributions,
       Reconciliations, Clearances, Loops, Requests, Judging, Observed,
       Contributed, ThisContribution, Clearance, At, WriteRequest
  <2>5. ClearanceIsEarned'
    BY <1>6, <2>0 DEF Inv, TypeOK, RepliesInv, RoleInv, RunInv, AccountInv,
       ClearanceIsEarned, Runs, Steps, Observations, Contributions,
       Reconciliations, Clearances, Loops, Requests, Judging, Observed,
       Contributed, ThisContribution, Clearance, At, WriteRequest
  <2>6. QED BY <2>1, <2>2, <2>3, <2>4, <2>5 DEF Inv
<1>7. QED BY <1>1, <1>2, <1>3, <1>4, <1>5, <1>6

(* Every step keeps the invariant. *)
LEMMA StepInv ==
    ASSUME Inv, [Next]_vars
    PROVE  Inv'
<1> USE ReviewConstants
<1>1. CASE Begin BY <1>1, BeginInv
<1>2. CASE CreateSession \/ PersistSession \/ PollRefused \/ PollCompleted \/ ResumeDue
  BY <1>2, SessionInv
<1>3. CASE Observe \/ Contribute \/ Reconcile \/ ConcludeClear \/ ConcludeChanges \/ WriteRequest
  BY <1>3, JudgeInv
<1>4. CASE CreateRefused \/ PollGivesUp \/ ConcludeHuman \/ Succeeds \/ Kill
  <2>1. run # None /\ UNCHANGED <<sessions, role, evidence, corrections>>
    BY <1>4 DEF CreateRefused, PollGivesUp, ConcludeHuman, Succeeds, Kill, At
  <2>2. run' = None \/ (run' \in Runs /\ run'.at = "end")
    <3>1. run' = None \/ EndsWell
      BY <1>4 DEF CreateRefused, PollGivesUp, ConcludeHuman, Succeeds, Kill
    <3>2. QED BY <2>1, <3>1, EndsWellFacts
  <2>3. DeliveryOK'
    <3>1. CASE Succeeds
      BY <2>1, <3>1 DEF Succeeds, At, DeliveryOK, Inv, TypeOK, Runs
    <3>2. CASE UNCHANGED delivery BY <3>2 DEF DeliveryOK, Inv, TypeOK
    <3>3. QED BY <1>4, <3>1, <3>2 DEF CreateRefused, PollGivesUp, ConcludeHuman, Kill
  <2>4. pause' \in {None, "NOT_DUE", "DUE"} /\ quotas' \in 0 .. MaxQuotas
    BY <1>4 DEF CreateRefused, PollGivesUp, ConcludeHuman, Succeeds, Kill, Inv, TypeOK
  <2>5. \/ kills' = kills /\ run.at # "persist"
        \/ kills' = kills + 1 /\ kills < MaxKills
    BY <1>4 DEF CreateRefused, PollGivesUp, ConcludeHuman, Succeeds, Kill, At
  <2>6. QED BY <2>1, <2>2, <2>3, <2>4, <2>5, RunEndsInv
<1>5. CASE BeginFreeze \/ Freeze \/ KillFinalizer \/ PauseDue
  <2>1. UNCHANGED <<delivery, sessions, role, evidence, corrections, run, quotas>>
    BY <1>5 DEF BeginFreeze, Freeze, KillFinalizer, PauseDue
  <2>2. DeliveryOK' BY <2>1 DEF DeliveryOK, Inv, TypeOK
  <2>3. pause' \in {None, "NOT_DUE", "DUE"} /\ kills' \in kills .. MaxKills
    BY <1>5 DEF BeginFreeze, Freeze, KillFinalizer, PauseDue, Inv, TypeOK
  <2>4. QED BY <2>1, <2>2, <2>3, BystanderInv
<1>6. CASE SessionEnds BY <1>6, SessionEndsInv
<1>7. CASE \/ HeadMoves \/ Merge \/ Verified \/ SendReview \/ DropWaiting
           \/ EndsAtOnce \/ Park \/ Completes \/ ReceiptMerged
  <2>1. UNCHANGED <<sessions, role, pause, evidence, corrections, run, kills, quotas>>
    BY <1>7 DEF HeadMoves, Merge, Verified, SendReview, DropWaiting, EndsAtOnce, Park,
                Completes, ReceiptMerged
  <2>2. DeliveryOK'
    <3>1. CASE HeadMoves \/ Merge \/ Verified
      <4>1. \/ /\ pr.head < MaxHeads /\ pr' = [pr EXCEPT !.head = pr.head + 1]
            \/ pr' = [pr EXCEPT !.state = "merged"]
            \/ pr' = [pr EXCEPT !.state = "verified"]
        BY <3>1 DEF HeadMoves, Merge, Verified
      <4>2. UNCHANGED <<project, dispatches>>
        BY <3>1 DEF HeadMoves, Merge, Verified
      <4>3. pr' \in [head : Heads, state : {"open", "merged", "verified"}]
        BY <4>1, ReviewConstants DEF Inv, TypeOK, Heads
      <4>4. DeliveryOK BY DEF DeliveryOK, Inv, TypeOK
      <4>5. project' = project /\ dispatches' = dispatches BY <4>2
      <4>6. QED BY <4>3, <4>4, <4>5 DEF DeliveryOK, Heads
    <3>2. CASE SendReview
      <4>1. DeliveryOK BY DEF DeliveryOK, Inv, TypeOK
      <4> DEFINE n == dispatches.sent + 1
                 d == [dispatches EXCEPT !.sent = n]
      <4>2. n \in 0 .. MaxDispatches
        BY <3>2, <4>1, ReviewConstants DEF SendReview, DeliveryOK
      <4>3. UNCHANGED target /\ dispatches' = [d EXCEPT !.waiting = n]
        BY <3>2 DEF SendReview
      <4> HIDE DEF n
      <4>4. d \in [sent : 0 .. MaxDispatches, waiting : 0 .. MaxDispatches,
                   picked : 0 .. MaxDispatches]
        BY <4>1, <4>2 DEF DeliveryOK
      <4> HIDE DEF d
      <4>5. dispatches' \in [sent : 0 .. MaxDispatches, waiting : 0 .. MaxDispatches,
                            picked : 0 .. MaxDispatches]
        BY <4>2, <4>3, <4>4
      <4>6. QED BY <4>1, <4>3, <4>5 DEF DeliveryOK, Heads
    <3>3. CASE DropWaiting BY <3>3 DEF DropWaiting, DeliveryOK, Inv, TypeOK
    <3>4. CASE EndsAtOnce
      <4> DEFINE p == IF NothingToDo THEN dispatches.waiting ELSE dispatches.picked
      <4>1. UNCHANGED target /\ dispatches' = [dispatches EXCEPT !.waiting = 0, !.picked = p]
        BY <3>4 DEF EndsAtOnce
      <4>2. p \in 0 .. MaxDispatches BY DEF Inv, TypeOK
      <4> HIDE DEF p
      <4>3. DeliveryOK BY DEF DeliveryOK, Inv, TypeOK
      <4> DEFINE d == [dispatches EXCEPT !.waiting = 0]
      <4>4. d \in [sent : 0 .. MaxDispatches, waiting : 0 .. MaxDispatches,
                   picked : 0 .. MaxDispatches]
        BY <4>3, ReviewConstants DEF DeliveryOK
      <4>5. dispatches' = [d EXCEPT !.picked = p] BY <4>1
      <4> HIDE DEF d
      <4>6. dispatches' \in [sent : 0 .. MaxDispatches, waiting : 0 .. MaxDispatches,
                            picked : 0 .. MaxDispatches]
        BY <4>2, <4>4, <4>5
      <4>7. QED BY <4>1, <4>3, <4>6 DEF DeliveryOK, Heads
    <3>5. CASE Park \/ Completes \/ ReceiptMerged
      BY <3>5 DEF Park, Completes, ReceiptMerged, DeliveryOK, Inv, TypeOK
    <3>6. QED BY <1>7, <3>1, <3>2, <3>3, <3>4, <3>5
  <2>3. pause' \in {None, "NOT_DUE", "DUE"} /\ kills' \in kills .. MaxKills
    BY <2>1 DEF Inv, TypeOK
  <2>4. QED BY <2>1, <2>2, <2>3, BystanderInv
<1>8. CASE UNCHANGED vars
  BY <1>8, BystanderInv DEF vars, Inv, TypeOK, DeliveryOK
<1>9. QED
  BY <1>1, <1>2, <1>3, <1>4, <1>5, <1>6, <1>7, <1>8 DEF Next, RunStep, FinalizerStep

(* The invariant holds throughout. *)
THEOREM InvHolds == Spec => []Inv
BY InitInv, StepInv, PTL DEF Spec

(* The files and the run keep their types, RoleSession's rule included. *)
THEOREM TypeCorrect == Spec => []TypeOK
BY InvHolds, PTL DEF Inv

(* A clearance agrees with every file it was made from, for any number of   *)
(* heads, kills and refusals (multi_agent_review_cycle.py main).           *)
THEOREM ClearancesAreEarned == Spec => []ClearanceIsEarned
BY InvHolds, PTL DEF Inv

(* One reviewer session, and one more for a kill at most. *)
THEOREM SessionsAreAccounted == Spec => []SessionsAccounted
<1>1. Inv => SessionsAccounted
  BY DEF Inv, TypeOK, AccountInv, SessionsAccounted
<1>2. QED BY <1>1, InvHolds, PTL

(* The role file keeps its session across pauses, resumes and kills: only   *)
(* a run that found no role file creates a session.                        *)
THEOREM RoleKeepsItsSession == Spec => SessionIsKept
<1> USE NoneIsNoValue
<1>1. ASSUME Inv, [Next]_vars, role # None
      PROVE  /\ role'.session = role.session
             /\ role.state = "COMPLETED" => role' = role
             /\ role.resume = "NOT_DUE" => role'.state = "PAUSED_QUOTA"
  <2>1. role \in RoleSessions BY <1>1 DEF Inv, TypeOK
  <2>2. CASE UNCHANGED role BY <2>1, <2>2 DEF RoleSessions
  <2>3. CASE BeginPoll BY <1>1, <2>1, <2>3 DEF BeginPoll, Resumed, RoleSessions
  <2>4. CASE PersistSession BY <1>1, <2>4 DEF PersistSession, At, Inv, RunInv
  <2>5. CASE PollRefused
    BY <1>1, <2>1, <2>5 DEF PollRefused, At, Paused, Inv, RunInv, RoleSessions
  <2>6. CASE PollCompleted
    BY <1>1, <2>1, <2>6 DEF PollCompleted, At, Completed, Inv, RunInv, RoleSessions
  <2>7. CASE ResumeDue BY <1>1, <2>1, <2>7 DEF ResumeDue, RoleSessions
  <2>8. QED
    BY <1>1, <2>2, <2>3, <2>4, <2>5, <2>6, <2>7
       DEF Next, Begin, RunStep, FinalizerStep, vars, BeginCreate, BeginJudge, CreateSession,
           CreateRefused, PollGivesUp, Observe, Contribute, Reconcile, ConcludeClear,
           ConcludeChanges, WriteRequest, ConcludeHuman, Succeeds, Kill, BeginFreeze, Freeze,
           KillFinalizer, SessionEnds, HeadMoves, Merge, Verified, PauseDue,
           SendReview, DropWaiting, EndsAtOnce, Park, Completes, ReceiptMerged
<1>2. Inv /\ [Next]_vars =>
        [role # None =>
          /\ role'.session = role.session
          /\ role.state = "COMPLETED" => role' = role
          /\ role.resume = "NOT_DUE" => role'.state = "PAUSED_QUOTA"]_vars
  BY <1>1
<1>3. QED BY <1>2, InvHolds, PTL DEF Spec, SessionIsKept

(***************************************************************************)
(* The frozen proof.  The finalizer works on copies that it audited before *)
(* the first write, so the invariant need not know what the review files   *)
(* say: it says how much of the copies is written.  A file left by a       *)
(* finalizer that was killed is either the very copy, or stops the next    *)
(* finalizer before the evidence.                                          *)
(***************************************************************************)
FreezeInv ==
    /\ proof = [a \in Artifacts |-> proof[a]]
    /\ finalizer # None =>
          /\ finalizer = [copies |-> finalizer.copies, next |-> finalizer.next]
          /\ finalizer.next \in 1 .. Len(Order)
          /\ proof["evidence"] = None
          /\ Audited(finalizer.copies)
          /\ finalizer.copies["evidence"] =
                [head |-> pr.head, review |-> finalizer.copies["provenance"]]
          /\ pr.state = "verified"
          /\ \A i \in 1 .. finalizer.next - 1 : proof[Order[i]] = finalizer.copies[Order[i]]
    /\ GraduatedAsReviewed

(* The artifacts, in the order they are frozen. *)
LEMMA OrderFacts ==
    /\ Artifacts = {"session", "observation", "contribution", "reconciliation",
                    "clearance", "provenance", "evidence"}
    /\ Len(Order) = 7 /\ Order[7] = "evidence"
    /\ \A i \in 1 .. 7 : Order[i] \in Artifacts /\ (Order[i] = "evidence" => i = 7)
    /\ \A a \in Artifacts : \E i \in 1 .. 7 : a = Order[i]
<1>1. /\ Order[1] = "session" /\ Order[2] = "observation" /\ Order[3] = "contribution"
      /\ Order[4] = "reconciliation" /\ Order[5] = "clearance" /\ Order[6] = "provenance"
      /\ Order[7] = "evidence" /\ Len(Order) = 7 /\ DOMAIN Order = 1 .. 7
  BY DEF Order
<1>2. \A i \in 1 .. 7 : i = 1 \/ i = 2 \/ i = 3 \/ i = 4 \/ i = 5 \/ i = 6 \/ i = 7
  OBVIOUS
<1>3. Artifacts = {"session", "observation", "contribution", "reconciliation",
                   "clearance", "provenance", "evidence"}
  <2>1. \A a : a \in Artifacts <=> \E i \in 1 .. 7 : a = Order[i]
    BY <1>1 DEF Artifacts
  <2>2. QED BY <1>1, <1>2, <2>1
<1>4. \A i \in 1 .. 7 : Order[i] \in Artifacts BY <1>1 DEF Artifacts
<1>5. \A i \in 1 .. 7 : Order[i] = "evidence" => i = 7 BY <1>1, <1>2
<1>6. \A a \in Artifacts : \E i \in 1 .. 7 : a = Order[i] BY <1>1 DEF Artifacts
<1>7. QED BY <1>1, <1>3, <1>4, <1>5, <1>6

(* The audit looks at the artifacts and at nothing else. *)
LEMMA SameArtifactsSameAudit ==
    ASSUME NEW a, NEW b, \A x \in Artifacts : a[x] = b[x], Audited(a)
    PROVE  Audited(b)
BY OrderFacts DEF Audited, AuditRebuilds, AuditBinds

(* A verified pull request stays as it is: nobody pushes to a merged one. *)
LEMMA VerifiedStands ==
    ASSUME [Next]_vars, pr.state = "verified"
    PROVE  UNCHANGED pr
BY DEF Next, Begin, RunStep, FinalizerStep, vars, BeginCreate, BeginPoll, BeginJudge,
       CreateSession, CreateRefused, PersistSession, PollRefused, PollCompleted, PollGivesUp,
       Observe, Contribute, Reconcile, ConcludeClear, ConcludeChanges, WriteRequest,
       ConcludeHuman, Kill, BeginFreeze, Freeze, KillFinalizer, SessionEnds, HeadMoves,
       Merge, Verified, PauseDue, ResumeDue, Succeeds,
       SendReview, DropWaiting, EndsAtOnce, Park, Completes, ReceiptMerged

(* What is not the finalizer's step leaves its files, and its kill writes  *)
(* nothing.                                                                *)
LEMMA OthersKeepProof ==
    ASSUME [Next]_vars, ~BeginFreeze, ~Freeze
    PROVE  UNCHANGED proof /\ (finalizer' = finalizer \/ finalizer' = None)
BY DEF Next, Begin, RunStep, FinalizerStep, vars, BeginCreate, BeginPoll, BeginJudge,
       CreateSession, CreateRefused, PersistSession, PollRefused, PollCompleted, PollGivesUp,
       Observe, Contribute, Reconcile, ConcludeClear, ConcludeChanges, WriteRequest,
       ConcludeHuman, Kill, KillFinalizer, SessionEnds, HeadMoves,
       Merge, Verified, PauseDue, ResumeDue, Succeeds,
       SendReview, DropWaiting, EndsAtOnce, Park, Completes, ReceiptMerged

(* The finalizer starts on what it has just audited. *)
LEMMA BeginFreezeInv ==
    ASSUME FreezeInv, BeginFreeze
    PROVE  FreezeInv'
<1>1. /\ finalizer' = [copies |-> Snapshot, next |-> 1]
      /\ Audited(Snapshot) /\ proof["evidence"] = None /\ pr.state = "verified"
      /\ UNCHANGED <<pr, proof>>
  BY DEF BeginFreeze, MergeProven
<1>2. Snapshot["evidence"] = [head |-> pr.head, review |-> Snapshot["provenance"]]
  BY DEF Snapshot, Evidence, MergedHead
<1>3. PICK copies : copies = Snapshot OBVIOUS
<1>4. finalizer'.copies = copies /\ finalizer'.next = 1 BY <1>1, <1>3
<1>5. Audited(finalizer'.copies) BY <1>1, <1>3, <1>4
<1>6. QED
  BY <1>1, <1>2, <1>3, <1>4, <1>5, OrderFacts DEF FreezeInv, GraduatedAsReviewed, Audited,
     AuditRebuilds, AuditBinds

(* One more artifact is the copy, or the finalizer stops.  When it is the  *)
(* evidence, all are, and the audit of the copies is one of the proof. *)
LEMMA FreezeStepInv ==
    ASSUME FreezeInv, Freeze
    PROVE  FreezeInv'
<1> DEFINE n == finalizer.next
           copies == finalizer.copies
           a == Order[n]
<1>1. /\ finalizer # None /\ n \in 1 .. 7 /\ a \in Artifacts /\ Audited(copies)
      /\ copies["evidence"] = [head |-> pr.head, review |-> copies["provenance"]]
      /\ pr.state = "verified" /\ UNCHANGED pr
      /\ proof["evidence"] = None /\ proof = [x \in Artifacts |-> proof[x]]
      /\ \A i \in 1 .. n - 1 : proof[Order[i]] = copies[Order[i]]
  BY OrderFacts DEF Freeze, FreezeInv
<1>2. CASE ~MayWrite(proof[a], copies[a])
  <2>1. proof' = [proof EXCEPT ![a] = proof[a]] /\ finalizer' = None
    BY <1>2 DEF Freeze
  <2>2. proof' = proof BY <1>1, <2>1
  <2>3. QED BY <1>1, <2>1, <2>2 DEF FreezeInv, GraduatedAsReviewed
<1>3. CASE MayWrite(proof[a], copies[a])
  <2>1. copies[a] # None BY <1>1 DEF Audited, AuditRebuilds
  <2>2. FirstOf(proof[a], copies[a]) = copies[a] BY <1>3 DEF MayWrite, FirstOf
  <2>3. proof' = [proof EXCEPT ![a] = copies[a]]
    BY <1>3, <2>2 DEF Freeze
  <2>4. \A x \in Artifacts : proof'[x] = IF x = a THEN copies[a] ELSE proof[x]
    BY <1>1, <2>3
  <2>5. proof' = [x \in Artifacts |-> proof'[x]]
    BY <1>1, <2>3
  <2>6. \A i \in 1 .. n : proof'[Order[i]] = copies[Order[i]]
    BY <1>1, <2>4, OrderFacts
  <2>7. CASE n < 7
    <3>1. finalizer' = [finalizer EXCEPT !.next = n + 1]
      BY <1>3, <2>7, OrderFacts DEF Freeze
    <3>2. finalizer = [copies |-> copies, next |-> n] BY <1>1 DEF FreezeInv
    <3>3. finalizer' = [copies |-> copies, next |-> n + 1] BY <3>1, <3>2
    <3>4. proof'["evidence"] = None BY <1>1, <2>4, <2>7, OrderFacts
    <3>5. PICK c, m : c = copies /\ m = n OBVIOUS
    <3>6. finalizer'.copies = c /\ finalizer'.next = m + 1
          /\ finalizer' = [copies |-> c, next |-> m + 1]
      BY <3>3, <3>5
    <3>7. \A i \in 1 .. m : proof'[Order[i]] = c[Order[i]] BY <2>6, <3>5
    <3>8. /\ Audited(c) /\ m \in 1 .. 7 /\ m < 7
          /\ c["evidence"] = [head |-> pr.head, review |-> c["provenance"]]
      BY <1>1, <2>7, <3>5
    <3>9. QED
      BY <1>1, <2>5, <3>4, <3>6, <3>7, <3>8, OrderFacts
         DEF FreezeInv, GraduatedAsReviewed, Audited, AuditRebuilds, AuditBinds, Order
  <2>8. CASE n = 7
    <3>1. finalizer' = None BY <2>8, OrderFacts DEF Freeze
    <3>2. \A x \in Artifacts : copies[x] = proof'[x]
      BY <2>6, <2>8, OrderFacts
    <3>3. PICK p : p = proof' OBVIOUS
    <3>4. Audited(p) BY <1>1, <3>2, <3>3, SameArtifactsSameAudit
    <3>5. proof'["evidence"] = [head |-> pr.head, review |-> proof'["provenance"]]
      BY <1>1, <3>2, OrderFacts
    <3>6. QED
      BY <1>1, <2>5, <3>1, <3>3, <3>4, <3>5
         DEF FreezeInv, GraduatedAsReviewed, Audited, AuditRebuilds, AuditBinds
  <2>9. QED BY <1>1, <2>7, <2>8
<1>4. QED BY <1>2, <1>3

(* Every step keeps what is frozen. *)
LEMMA FreezeStep ==
    ASSUME FreezeInv, [Next]_vars
    PROVE  FreezeInv'
<1>1. CASE BeginFreeze BY <1>1, BeginFreezeInv
<1>2. CASE Freeze BY <1>2, FreezeStepInv
<1>3. CASE ~BeginFreeze /\ ~Freeze
  <2>1. UNCHANGED proof /\ (finalizer' = finalizer \/ finalizer' = None)
    BY <1>3, OthersKeepProof
  <2>2. pr.state = "verified" => UNCHANGED pr BY VerifiedStands
  <2>3. QED
    BY <2>1, <2>2 DEF FreezeInv, GraduatedAsReviewed, Audited, AuditRebuilds, AuditBinds
<1>4. QED BY <1>1, <1>2, <1>3

(* What is frozen as proof passes the audit and is about the merged head,  *)
(* for any kills of the finalizer, and whatever a killed one left behind   *)
(* (v1_7_multi_agent_finalize.py, scripts/v1_7_multi_agent_audit.py).      *)
THEOREM ProofGraduatesAsReviewed == Spec => []GraduatedAsReviewed
<1>1. Init => FreezeInv
  BY OrderFacts DEF Init, FreezeInv, GraduatedAsReviewed
<1>2. FreezeInv => GraduatedAsReviewed BY DEF FreezeInv
<1>3. QED BY <1>1, <1>2, FreezeStep, PTL DEF Spec
=============================================================================
