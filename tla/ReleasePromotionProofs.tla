----------------------- MODULE ReleasePromotionProofs -----------------------
(***************************************************************************)
(* What a promotion may rely on, for any number of commits, campaigns and  *)
(* registry contents: a transition is deployed at most once and as it was  *)
(* approved, and its verdict is about its own deployment.  What is shown   *)
(* of a promotion only moves forward, and a campaign whose release failed  *)
(* carries nothing on.                                                     *)
(*                                                                         *)
(* The argument follows the chain of evidence.  A receipt stands on an     *)
(* approval, a deployment on a receipt that froze its registry, a check on *)
(* a deployed receipt, a verdict on a check.  Each link is written once    *)
(* and the one before it never changes afterwards.  A campaign ahead of    *)
(* the current one has requested nothing (NoneAhead), so that a failure,   *)
(* which takes COMPLETED from its campaign, leaves it without for good     *)
(* (FailureEnds).                                                          *)
(*                                                                         *)
(* The second part is about what a verified release starts: the            *)
(* improvement loop.  While a cycle is due to be retired nothing else is   *)
(* at work and every chain is planned (NothingBesides); and until the      *)
(* campaign of a receipt is planned nothing is retired, so that what it    *)
(* froze is still the present (CyclesInTurn, Carries).                     *)
(***************************************************************************)
EXTENDS ReleasePromotion, ImprovementLoop, FiniteSetTheorems, TLAPS

(* The chain of evidence of one transition, link by link. *)
Approvals == \A t \in Transitions : receipt[t] # NoReceipt => Approved(t)

Deployments ==
    \A k \in made :
        /\ receipt[k.transition].status \in {"DISPATCHED", "DEPLOYED"}
        /\ receipt[k.transition].registry = k.registry

OwnKeys ==
    \A t \in Transitions : receipt[t].status = "DEPLOYED" => receipt[t].id.transition = t

Checked == \A t \in Transitions : check[t] # "NONE" => receipt[t].status = "DEPLOYED"

Concluded ==
    \A t \in Transitions :
        /\ outcome[t] = "VERIFIED" => check[t] = "VERIFIED" /\ receipt[t].id \in seen
        /\ outcome[t] # "NONE" => check[t] # "NONE"

(* What a run holds in memory: the deployment it made, or the one it saw. *)
Holds ==
    /\ run.step = "deployed" => run.id.transition = run.of
    /\ run.step \in {"located", "reported"} => run.id \in seen

Chain == Approvals /\ Deployments /\ OwnKeys /\ Checked /\ Concluded /\ Holds

Inv == TypeOK /\ Chain

(* A campaign that is still to come has no approval request.               *)
NoneAhead ==
    \A t \in Transitions : t.version > campaign.version => decision[t] = "NONE"

USE DEF durable, target

(* A receipt moves on as a receipt. *)
LEMMA ReceiptMoves ==
    ASSUME NEW r \in Receipts, NEW k \in Keys
    PROVE  /\ r.status = "ARMED" =>
                  /\ [r EXCEPT !.status = "DISPATCHED"] \in Receipts
                  /\ [r EXCEPT !.status = "DISPATCHED"].status = "DISPATCHED"
                  /\ [r EXCEPT !.status = "DISPATCHED"].registry = r.registry
           /\ r.status = "DISPATCHED" =>
                  /\ Deployed(r, k) \in Receipts
                  /\ Deployed(r, k).status = "DEPLOYED"
                  /\ Deployed(r, k).registry = r.registry
                  /\ Deployed(r, k).id = k
<1>1. CASE r = NoReceipt BY <1>1 DEF NoReceipt
<1>2. CASE r \in [status : {"ARMED", "DISPATCHED"}, registry : Registries, id : {Nobody}]
  BY <1>2 DEF Receipts, Deployed
<1>3. CASE r \in [status : {"DEPLOYED"}, registry : Registries, id : Keys]
  BY <1>3
<1>4. QED BY <1>1, <1>2, <1>3 DEF Receipts

(* The key of an invocation. *)
LEMMA KeyType ==
    ASSUME TypeOK, NEW t \in Transitions
    PROVE  KeyOf(t) \in Keys /\ KeyOf(t).transition = t /\ KeyOf(t).registry = registry
BY DEF KeyOf, Keys, TypeOK

(* What happens elsewhere leaves the evidence of every transition alone. *)
LEMMA Bystander ==
    ASSUME Inv, TypeOK', Holds', UNCHANGED <<decision, receipt, check, outcome, made>>,
           seen \subseteq seen'
    PROVE  Inv'
BY DEF Inv, Chain, Approvals, Approved, Deployments, OwnKeys, Checked, Concluded

(* At the start there is no evidence. *)
LEMMA InitInv == Init => Inv
BY PromotionConstants
   DEF Init, Inv, TypeOK, Chain, Approvals, Deployments, OwnKeys, Checked, Concluded, Holds,
       Transitions, Versions, Environments, Registries, Keys, Receipts, NoReceipt, Runs, NoRun, Reports, Decisions, Checks, Outcomes

(* Every step keeps the chain of evidence. *)
LEMMA StepInv ==
    ASSUME Inv, [Next]_vars
    PROVE  Inv'
<1> USE PromotionConstants
<1>1. CASE CampaignStarts
  <2>1. TypeOK'
    <3>1. campaign.version + 1 \in 0..MaxVersions
      BY <1>1 DEF CampaignStarts, Inv, TypeOK
    <3>2. QED BY <1>1, <3>1 DEF CampaignStarts, Inv, TypeOK
  <2>2. Holds'
    BY <1>1 DEF CampaignStarts, Inv, Chain, Holds, NoRun
  <2>3. UNCHANGED <<decision, receipt, check, outcome, made>> /\ seen \subseteq seen'
    BY <1>1 DEF CampaignStarts
  <2>4. QED BY <2>1, <2>2, <2>3, Bystander
<1>2. CASE CampaignCompletes
  <2>1. TypeOK'
    <3>1. PICK s \in Sources : sourceOf' = [sourceOf EXCEPT ![campaign.version] = s]
      BY <1>2 DEF CampaignCompletes
    <3>2. sourceOf' \in [Versions -> Sources \cup {Nobody}]
      BY <3>1 DEF Inv, TypeOK
    <3>3. campaign' \in [version : 0..MaxVersions, proven : BOOLEAN,
                         status : {"NONE", "RUNNING", "COMPLETED", "HUMAN_WAIT"}]
      BY <1>2 DEF CampaignCompletes, Inv, TypeOK
    <3>4. QED BY <1>2, <3>2, <3>3 DEF CampaignCompletes, Inv, TypeOK
  <2>2. Holds'
    BY <1>2 DEF CampaignCompletes, Inv, Chain, Holds, NoRun
  <2>3. UNCHANGED <<decision, receipt, check, outcome, made>> /\ seen \subseteq seen'
    BY <1>2 DEF CampaignCompletes
  <2>4. QED BY <2>1, <2>2, <2>3, Bystander
<1>3. CASE MergeVerdict
  <2>1. TypeOK'
    BY <1>3 DEF MergeVerdict, Inv, TypeOK
  <2>2. Holds'
    BY <1>3 DEF MergeVerdict, Inv, Chain, Holds, NoRun
  <2>3. UNCHANGED <<decision, receipt, check, outcome, made>> /\ seen \subseteq seen'
    BY <1>3 DEF MergeVerdict
  <2>4. QED BY <2>1, <2>2, <2>3, Bystander
<1>4. ASSUME NEW t \in Transitions, Prepare(t) PROVE Inv'
  <2>1. TypeOK'
    BY <1>4 DEF Prepare, Inv, TypeOK, Decisions
  <2>2. Approvals'
    BY <1>4 DEF Prepare, Inv, TypeOK, Chain, Approvals, Approved, NoReceipt
  <2>3. (Deployments /\ OwnKeys /\ Checked /\ Concluded /\ Holds)'
    BY <1>4 DEF Prepare, Inv, Chain, Deployments, OwnKeys, Checked,
                Concluded, Holds
  <2>4. QED BY <2>1, <2>2, <2>3 DEF Inv, Chain
<1>5. ASSUME NEW t \in Transitions, Answer(t) PROVE Inv'
  <2>1. TypeOK'
    BY <1>5 DEF Answer, Inv, TypeOK, Decisions
  <2>2. Approvals'
    BY <1>5 DEF Answer, Inv, TypeOK, Chain, Approvals, Approved, NoReceipt
  <2>3. (Deployments /\ OwnKeys /\ Checked /\ Concluded /\ Holds)'
    BY <1>5 DEF Answer, Inv, Chain, Deployments, OwnKeys, Checked,
                Concluded, Holds
  <2>4. QED BY <2>1, <2>2, <2>3 DEF Inv, Chain
<1>6. ASSUME NEW t \in Transitions, Arm(t) PROVE Inv'
  <2>1. TypeOK'
    BY <1>6 DEF Arm, Inv, TypeOK, Receipts
  <2>2. Approvals'
    BY <1>6 DEF Arm, ToArm, Approved, Inv, TypeOK, Chain, Approvals,
                Approved, NoReceipt
  <2>3. Deployments'
    BY <1>6 DEF Arm, ToArm, Approved, Inv, TypeOK, Chain, Deployments,
                NoReceipt
  <2>4. OwnKeys'
    BY <1>6 DEF Arm, ToArm, Approved, Inv, TypeOK, Chain, OwnKeys, NoReceipt
  <2>5. Checked'
    BY <1>6 DEF Arm, ToArm, Approved, Inv, TypeOK, Chain, Checked, NoReceipt
  <2>6. Concluded'
    BY <1>6 DEF Arm, ToArm, Approved, Inv, TypeOK, Chain, Concluded,
                NoReceipt
  <2>7. (Holds)'
    BY <1>6 DEF Arm, Inv, Chain, Holds
  <2>8. QED BY <2>1, <2>2, <2>3, <2>4, <2>5, <2>6, <2>7 DEF Inv, Chain
<1>7. ASSUME NEW t \in Transitions, Dispatch(t) PROVE Inv'
  <2> DEFINE r == [receipt[t] EXCEPT !.status = "DISPATCHED"]
  <2>0. /\ receipt' = [receipt EXCEPT ![t] = r] /\ receipt[t].status = "ARMED"
        /\ r \in Receipts /\ r.status = "DISPATCHED" /\ r.registry = receipt[t].registry
    <3>1. KeyOf(t) \in Keys BY KeyType DEF Inv
    <3>2. receipt[t] \in Receipts BY DEF Inv, TypeOK
    <3>3. receipt[t].status = "ARMED" BY <1>7 DEF Dispatch
    <3>4. receipt' = [receipt EXCEPT ![t] = r] BY <1>7 DEF Dispatch, Inv, TypeOK
    <3>5. QED BY <3>1, <3>2, <3>3, <3>4, ReceiptMoves
  <2>1. TypeOK'
    BY <1>7, <2>0 DEF Dispatch, Inv, TypeOK
  <2>2. Approvals'
    BY <1>7, <2>0 DEF Dispatch, ReceiptMatches, Inv, TypeOK, Chain,
                      Approvals, Approved, NoReceipt
  <2>3. Deployments'
    BY <1>7, <2>0 DEF Dispatch, ReceiptMatches, Inv, TypeOK, Chain,
                      Deployments
  <2>4. OwnKeys'
    BY <1>7, <2>0 DEF Dispatch, ReceiptMatches, Inv, TypeOK, Chain, OwnKeys
  <2>5. Checked'
    BY <1>7, <2>0 DEF Dispatch, ReceiptMatches, Inv, TypeOK, Chain, Checked
  <2>6. Concluded'
    BY <1>7, <2>0 DEF Dispatch, ReceiptMatches, Inv, TypeOK, Chain, Concluded
  <2>7. (Holds)'
    BY <1>7 DEF Dispatch, Inv, Chain, Holds
  <2>8. QED BY <2>1, <2>2, <2>3, <2>4, <2>5, <2>6, <2>7 DEF Inv, Chain
<1>8. ASSUME NEW t \in Transitions, Execute(t) PROVE Inv'
  <2>0. KeyOf(t) \in Keys /\ KeyOf(t).transition = t /\ KeyOf(t).registry = registry
    BY KeyType DEF Inv
  <2>1. TypeOK'
    <3>1. live' \in [Environments -> Keys \cup {Nobody}]
      BY <1>8, <2>0 DEF Execute, Inv, TypeOK
    <3>2. run' \in Runs BY <1>8, <2>0 DEF Execute, Runs
    <3>3. QED BY <1>8, <2>0, <3>1, <3>2 DEF Execute, Inv, TypeOK
  <2>2. Deployments'
    BY <1>8, <2>0 DEF Execute, ReceiptMatches, KeyOf, Inv, TypeOK, Chain,
                      Deployments, ReceiptMatches
  <2>3. Holds'
    BY <1>8, <2>0 DEF Execute, ReceiptMatches, KeyOf, Inv, TypeOK, Chain,
                      Holds, NoRun
  <2>4. (Approvals /\ OwnKeys /\ Checked /\ Concluded)'
    BY <1>8 DEF Execute, Inv, Chain, Approvals, OwnKeys, Checked, Concluded,
                Approved
  <2>5. QED BY <2>1, <2>2, <2>3, <2>4 DEF Inv, Chain
<1>9. ASSUME NEW t \in Transitions, Observe(t) PROVE Inv'
  <2> DEFINE r == Deployed(receipt[t], run.id)
  <2>0. /\ receipt' = [receipt EXCEPT ![t] = r] /\ receipt[t].status = "DISPATCHED"
        /\ r \in Receipts /\ r.status = "DEPLOYED" /\ r.registry = receipt[t].registry
        /\ r.id = run.id /\ run.id.transition = t
    <3>1. run.id \in Keys /\ run.id.transition = t
      BY <1>9 DEF Observe, Inv, TypeOK, Runs, NoRun, Chain, Holds
    <3>2. receipt[t] \in Receipts BY DEF Inv, TypeOK
    <3>3. receipt[t].status = "DISPATCHED" BY <1>9 DEF Observe
    <3>4. receipt' = [receipt EXCEPT ![t] = r] BY <1>9 DEF Observe
    <3>5. QED BY <3>1, <3>2, <3>3, <3>4, ReceiptMoves
  <2>1. TypeOK'
    BY <1>9, <2>0 DEF Observe, Inv, TypeOK, Runs
  <2>2. Approvals'
    BY <1>9, <2>0 DEF Observe, ReceiptMatches, Deployed, Inv, TypeOK, Chain,
                      Approvals, Approved, NoReceipt
  <2>3. Deployments'
    BY <1>9, <2>0 DEF Observe, ReceiptMatches, Deployed, Inv, TypeOK, Chain,
                      Deployments
  <2>4. OwnKeys'
    BY <2>0 DEF Inv, TypeOK, Chain, OwnKeys
  <2>5. Checked'
    BY <1>9, <2>0 DEF Observe, ReceiptMatches, Deployed, Inv, TypeOK, Chain,
                      Checked
  <2>6. Concluded'
    <3>1. \A u \in Transitions : u # t => receipt'[u] = receipt[u]
      BY <2>0 DEF Inv, TypeOK
    <3>2. check[t] = "NONE" BY <2>0 DEF Inv, Chain, Checked
    <3>3. outcome[t] = "NONE" BY <3>2 DEF Inv, Chain, Concluded
    <3>4. UNCHANGED <<outcome, check, seen>> BY <1>9 DEF Observe
    <3>5. QED BY <3>1, <3>3, <3>4 DEF Inv, Chain, Concluded
  <2>7. Holds'
    BY <1>9, <2>0 DEF Observe, ReceiptMatches, Deployed, Inv, TypeOK, Chain,
                      Holds, NoRun
  <2>8. QED BY <2>1, <2>2, <2>3, <2>4, <2>5, <2>6, <2>7 DEF Inv, Chain
<1>10. ASSUME NEW t \in Transitions, ArmCheck(t) PROVE Inv'
  <2>1. TypeOK'
    BY <1>10 DEF ArmCheck, Inv, TypeOK, Checks
  <2>2. Checked'
    BY <1>10 DEF ArmCheck, Inv, TypeOK, Chain, Checked
  <2>3. Concluded'
    BY <1>10 DEF ArmCheck, Inv, TypeOK, Chain, Concluded
  <2>4. (Approvals /\ Deployments /\ OwnKeys /\ Holds)'
    BY <1>10 DEF ArmCheck, Inv, Chain, Approvals, Deployments, OwnKeys,
                 Holds, Approved
  <2>5. QED BY <2>1, <2>2, <2>3, <2>4 DEF Inv, Chain
<1>11. ASSUME NEW t \in Transitions, DispatchCheck(t) PROVE Inv'
  <2>1. TypeOK'
    BY <1>11 DEF DispatchCheck, Inv, TypeOK, Checks
  <2>2. Checked'
    BY <1>11 DEF DispatchCheck, Inv, TypeOK, Chain, Checked
  <2>3. Concluded'
    BY <1>11 DEF DispatchCheck, Inv, TypeOK, Chain, Concluded
  <2>4. (Approvals /\ Deployments /\ OwnKeys /\ Holds)'
    BY <1>11 DEF DispatchCheck, Inv, Chain, Approvals, Deployments, OwnKeys,
                 Holds, Approved
  <2>5. QED BY <2>1, <2>2, <2>3, <2>4 DEF Inv, Chain
<1>12. ASSUME NEW t \in Transitions, Locate(t) PROVE Inv'
  <2>1. TypeOK'
    BY <1>12 DEF Locate, Inv, TypeOK, Runs, NoRun, Transitions, Environments
  <2>2. Concluded'
    BY <1>12 DEF Locate, Inv, TypeOK, Chain, Concluded
  <2>3. Holds'
    BY <1>12 DEF Locate, Inv, TypeOK, Chain, Holds, NoRun
  <2>4. (Approvals /\ Deployments /\ OwnKeys /\ Checked)'
    BY <1>12 DEF Locate, Inv, Chain, Approvals, Deployments, OwnKeys,
                 Checked, Approved
  <2>5. QED BY <2>1, <2>2, <2>3, <2>4 DEF Inv, Chain
<1>13. ASSUME NEW t \in Transitions, Finalize(t) PROVE Inv'
  <2> DEFINE d == Disposition(run.report)
  <2>0. /\ d \in {"VERIFIED", "PENDING", "HUMAN_WAIT"}
        /\ outcome' = [outcome EXCEPT ![t] = d]
        /\ check' = [check EXCEPT ![t] = IF d = "PENDING" THEN @ ELSE d]
        /\ check[t] = "DISPATCHED" /\ run.id = receipt[t].id /\ run.id \in seen
        /\ UNCHANGED <<receipt, seen, made, decision>> /\ run' = NoRun
    <3>1. run.step = "reported" BY <1>13 DEF Finalize
    <3>2. run.report \in Reports BY <3>1 DEF Inv, TypeOK, Runs, NoRun
    <3>3. run.id \in seen BY <3>1 DEF Inv, Chain, Holds
    <3>4. d \in {"VERIFIED", "PENDING", "HUMAN_WAIT"} BY <3>2 DEF Disposition, Reports
    <3>5. QED BY <1>13, <3>3, <3>4 DEF Finalize, TargetMatches
  <2>1. TypeOK'
    <3>1. check' \in [Transitions -> Checks] /\ outcome' \in [Transitions -> Outcomes]
      BY <2>0 DEF Inv, TypeOK, Checks, Outcomes
    <3>2. campaign' \in [version : 0..MaxVersions, proven : BOOLEAN,
                         status : {"NONE", "RUNNING", "COMPLETED", "HUMAN_WAIT"}]
      BY <1>13 DEF Finalize, CampaignAfter, Inv, TypeOK
    <3>3. QED BY <1>13, <3>1, <3>2 DEF Finalize, Inv, TypeOK, Runs
  <2>2. Checked'
    BY <2>0 DEF Inv, TypeOK, Chain, Checked
  <2>3. Concluded'
    BY <2>0 DEF Inv, TypeOK, Chain, Concluded
  <2>4. Holds'
    BY <1>13 DEF Finalize, TargetMatches, Disposition, CampaignAfter,
                 Inv, TypeOK, Chain, Holds, NoRun
  <2>5. (Approvals /\ Deployments /\ OwnKeys)'
    BY <1>13 DEF Finalize, Inv, Chain, Approvals, Deployments, OwnKeys,
                 Approved
  <2>6. QED BY <2>1, <2>2, <2>3, <2>4, <2>5 DEF Inv, Chain
<1>14. CASE Probe
  <2>1. TypeOK'
    <3>1. run.of \in Transitions /\ run.id \in Keys
      BY <1>14 DEF Probe, Inv, TypeOK, Runs, NoRun
    <3>2. PICK r \in Reports :
              run' = [step |-> "reported", of |-> run.of, id |-> run.id, report |-> r]
      BY <1>14 DEF Probe
    <3>3. run' \in Runs BY <3>1, <3>2 DEF Runs
    <3>4. QED BY <1>14, <3>3 DEF Probe, Inv, TypeOK
  <2>2. Holds'
    BY <1>14 DEF Probe, Inv, Chain, Holds, NoRun
  <2>3. UNCHANGED <<decision, receipt, check, outcome, made>> /\ seen \subseteq seen'
    BY <1>14 DEF Probe
  <2>4. QED BY <2>1, <2>2, <2>3, Bystander
<1>15. CASE Kill
  <2>1. TypeOK'
    BY <1>15 DEF Kill, Inv, TypeOK, Runs
  <2>2. Holds'
    BY <1>15 DEF Kill, Inv, Chain, Holds, NoRun
  <2>3. UNCHANGED <<decision, receipt, check, outcome, made>> /\ seen \subseteq seen'
    BY <1>15 DEF Kill
  <2>4. QED BY <2>1, <2>2, <2>3, Bystander
<1>16. CASE NewRegistry
  <2>1. TypeOK'
    BY <1>16 DEF NewRegistry, Inv, TypeOK, Registries
  <2>2. Holds'
    BY <1>16 DEF NewRegistry, Inv, Chain, Holds, NoRun
  <2>3. UNCHANGED <<decision, receipt, check, outcome, made>> /\ seen \subseteq seen'
    BY <1>16 DEF NewRegistry
  <2>4. QED BY <2>1, <2>2, <2>3, Bystander
<1>17. ASSUME NEW e \in Environments, Replaced(e) PROVE Inv'
  <2>1. TypeOK'
    BY <1>17 DEF Replaced, Inv, TypeOK
  <2>2. Holds'
    BY <1>17 DEF Replaced, Inv, Chain, Holds, NoRun
  <2>3. UNCHANGED <<decision, receipt, check, outcome, made>> /\ seen \subseteq seen'
    BY <1>17 DEF Replaced
  <2>4. QED BY <2>1, <2>2, <2>3, Bystander
<1>18. CASE UNCHANGED vars
  BY <1>18 DEF vars, Inv, TypeOK, Chain, Approvals, Deployments, OwnKeys,
               Checked, Concluded, Holds, Approved
<1>19. QED BY <1>1, <1>2, <1>3, <1>4, <1>5, <1>6, <1>7, <1>8, <1>9, <1>10,
              <1>11, <1>12, <1>13, <1>14, <1>15, <1>16, <1>17, <1>18 DEF Next

(* The chain of evidence holds throughout. *)
THEOREM ChainHolds == Spec => []Inv
BY InitInv, StepInv, PTL DEF Spec

(* Durable records, registry and run keep their types. *)
THEOREM TypeCorrect == Spec => []TypeOK
BY ChainHolds, PTL DEF Inv

(* A transition is deployed at most once, and only as it was approved,     *)
(* whatever run is killed and whatever the registry becomes                *)
(* (arm_release_deployment, execute_trusted_release_deployment).           *)
THEOREM OneApprovedDeployment == Spec => []DeployedOnceAsApproved
<1>1. Inv => DeployedOnceAsApproved
  <2> SUFFICES ASSUME Inv PROVE DeployedOnceAsApproved OBVIOUS
  <2>1. ASSUME NEW k \in made PROVE decision[k.transition] = "approve"
    <3>1. k.transition \in Transitions BY DEF Inv, TypeOK, Keys
    <3>2. receipt[k.transition] # NoReceipt BY DEF Inv, Chain, Deployments, NoReceipt
    <3>3. QED BY <3>1, <3>2 DEF Inv, Chain, Approvals, Approved
  <2>2. ASSUME NEW k \in made, NEW l \in made, k.transition = l.transition PROVE k = l
    <3>1. k.registry = l.registry BY <2>2 DEF Inv, Chain, Deployments
    <3>2. QED BY <2>2, <3>1 DEF Inv, TypeOK, Keys
  <2>3. QED BY <2>1, <2>2 DEF DeployedOnceAsApproved
<1>2. QED BY <1>1, ChainHolds, PTL

(* A verified transition was verified by a run that saw the deployment its *)
(* own receipt names (_validate_target_resolution).                        *)
THEOREM VerdictOfItsOwn == Spec => []VerdictNamesItsDeployment
<1>1. Inv => VerdictNamesItsDeployment
  BY DEF Inv, Chain, Concluded, Checked, OwnKeys, VerdictNamesItsDeployment
<1>2. QED BY <1>1, ChainHolds, PTL

-----------------------------------------------------------------------------
(* A failure is final and takes COMPLETED from its campaign.               *)
FailureEnds ==
    \A t \in Transitions : outcome[t] = "HUMAN_WAIT" =>
        /\ check[t] = "HUMAN_WAIT"
        /\ t.version = campaign.version => campaign.status = "HUMAN_WAIT"

Contained == Inv /\ NoneAhead /\ FailureEnds

(* What has an outcome was approved, of a campaign that has started.        *)
LEMMA RequestedFirst ==
    ASSUME Inv, NoneAhead, NEW t \in Transitions, outcome[t] # "NONE"
    PROVE  decision[t] = "approve" /\ t.version <= campaign.version
<1>1. decision[t] = "approve"
  BY DEF Inv, Chain, Concluded, Checked, Approvals, Approved, NoReceipt
<1>2. t.version \in Nat /\ campaign.version \in Nat
  BY DEF Transitions, Versions, Inv, TypeOK
<1>3. QED BY <1>1, <1>2 DEF NoneAhead

(* No step requests anything of a campaign that is still to come,           *)
LEMMA StepNoneAhead ==
    ASSUME Inv, NoneAhead, [Next]_vars
    PROVE  NoneAhead'
<1>0. campaign.version \in Nat /\ \A t \in Transitions : t.version \in Nat
  BY DEF Inv, TypeOK, Transitions, Versions
<1>1. CASE CampaignStarts
  <2>1. campaign'.version = campaign.version + 1 /\ UNCHANGED decision
    BY <1>1 DEF CampaignStarts
  <2>2. QED BY <1>0, <2>1 DEF NoneAhead
<1>2. ASSUME NEW t \in Transitions, Prepare(t) \/ Answer(t) PROVE NoneAhead'
  <2>1. /\ t.version = campaign.version \/ decision[t] # "NONE"
        /\ \A u \in Transitions : u # t => decision'[u] = decision[u]
        /\ UNCHANGED campaign
    BY <1>2 DEF Prepare, Answer, Inv, TypeOK
  <2>2. QED BY <1>0, <2>1 DEF NoneAhead
<1>3. CASE UNCHANGED decision /\ campaign'.version = campaign.version
  BY <1>3 DEF NoneAhead
<1>4. ASSUME CampaignCompletes \/ MergeVerdict \/ \E t \in Transitions : Finalize(t)
      PROVE  UNCHANGED decision /\ campaign'.version = campaign.version
  BY <1>4 DEF CampaignCompletes, MergeVerdict, Finalize, Inv, TypeOK
<1>5. QED
  BY <1>1, <1>2, <1>3, <1>4
     DEF Next, vars, Arm, Dispatch, Execute, Observe, ArmCheck, DispatchCheck, Locate,
         Probe, Kill, NewRegistry, Replaced

(* and every step lets a failure stand.                                     *)
LEMMA StepFailureEnds ==
    ASSUME Contained, [Next]_vars
    PROVE  FailureEnds'
<1>0. Inv /\ NoneAhead /\ FailureEnds /\ Inv'
  BY StepInv DEF Contained
<1>1. CASE CampaignStarts
  <2>1. campaign'.version = campaign.version + 1 /\ UNCHANGED <<outcome, check>>
    BY <1>1 DEF CampaignStarts
  <2>2. campaign.version \in Nat /\ \A t \in Transitions : t.version \in Nat
    BY <1>0 DEF Inv, TypeOK, Transitions, Versions
  <2>3. \A t \in Transitions : outcome[t] # "NONE" => t.version # campaign'.version
    BY <1>0, <2>1, <2>2, RequestedFirst
  <2>4. QED BY <1>0, <2>1, <2>3 DEF FailureEnds
<1>2. CASE CampaignCompletes \/ MergeVerdict
  <2>1. /\ campaign'.version = campaign.version /\ UNCHANGED <<outcome, check>>
        /\ campaign.status # "HUMAN_WAIT"
    BY <1>0, <1>2 DEF CampaignCompletes, MergeVerdict, Inv, TypeOK
  <2>2. QED BY <1>0, <2>1 DEF FailureEnds
<1>4. ASSUME NEW t \in Transitions, Finalize(t) PROVE FailureEnds'
  <2> DEFINE d == Disposition(run.report)
  <2>1. /\ outcome' = [outcome EXCEPT ![t] = d] /\ check[t] = "DISPATCHED"
        /\ check' = [check EXCEPT ![t] = IF d = "PENDING" THEN @ ELSE d]
        /\ t.version = campaign.version /\ campaign'.version = campaign.version
        /\ campaign'.status = CampaignAfter(d) /\ campaign.status = "COMPLETED"
    BY <1>0, <1>4 DEF Finalize, Inv, TypeOK
  <2>2. ASSUME NEW u \in Transitions, outcome'[u] = "HUMAN_WAIT", u # t
        PROVE  /\ check'[u] = "HUMAN_WAIT"
               /\ u.version = campaign'.version => campaign'.status = "HUMAN_WAIT"
    <3>1. outcome[u] = "HUMAN_WAIT" /\ check'[u] = check[u]
      BY <1>0, <2>1, <2>2 DEF Inv, TypeOK
    <3>2. QED BY <1>0, <2>1, <3>1 DEF FailureEnds
  <2>3. ASSUME outcome'[t] = "HUMAN_WAIT"
        PROVE  check'[t] = "HUMAN_WAIT" /\ campaign'.status = "HUMAN_WAIT"
    <3>1. d = "HUMAN_WAIT"
      BY <1>0, <2>1, <2>3 DEF Inv, TypeOK
    <3>2. QED BY <1>0, <2>1, <3>1 DEF Inv, TypeOK, CampaignAfter
  <2>4. QED BY <2>1, <2>2, <2>3 DEF FailureEnds
<1>6. ASSUME NEW t \in Transitions, ArmCheck(t) \/ DispatchCheck(t) PROVE FailureEnds'
  <2>1. /\ UNCHANGED <<campaign, outcome>>
        /\ \A u \in Transitions : check[u] = "HUMAN_WAIT" => check'[u] = "HUMAN_WAIT"
    BY <1>0, <1>6 DEF ArmCheck, DispatchCheck, Inv, TypeOK
  <2>2. QED BY <1>0, <2>1 DEF FailureEnds
<1>7. CASE UNCHANGED <<campaign, outcome, check>>
  BY <1>0, <1>7 DEF FailureEnds
<1>8. QED
  BY <1>1, <1>2, <1>4, <1>6, <1>7
     DEF Next, vars, Prepare, Answer, Arm, Dispatch, Execute, Observe, Locate, Probe, Kill,
         NewRegistry, Replaced

(* After a failure its campaign requests and verifies nothing more.         *)
LEMMA StepContainment ==
    ASSUME Contained, [Next]_vars, NEW t \in Transitions, NEW u \in Transitions,
           outcome[t] = "HUMAN_WAIT", u.version = t.version
    PROVE  /\ decision[u] = "NONE" => decision'[u] = "NONE"
           /\ outcome'[u] = "VERIFIED" => outcome[u] = "VERIFIED"
<1>0. Inv /\ (t.version = campaign.version => campaign.status = "HUMAN_WAIT")
  BY DEF Contained, FailureEnds
<1>1. ASSUME NEW v \in Transitions, Prepare(v)
      PROVE  decision'[u] = decision[u] /\ UNCHANGED outcome
  <2>1. v.version = campaign.version /\ campaign.status = "COMPLETED"
    BY <1>1 DEF Prepare, Ready
  <2>2. v # u
    BY <1>0, <2>1
  <2>3. QED BY <1>0, <1>1, <2>2 DEF Prepare, Inv, TypeOK
<1>2. ASSUME NEW v \in Transitions, Finalize(v)
      PROVE  outcome'[u] = outcome[u] /\ UNCHANGED decision
  <2>1. v.version = campaign.version /\ campaign.status = "COMPLETED"
    BY <1>2 DEF Finalize
  <2>2. v # u
    BY <1>0, <2>1
  <2>3. QED BY <1>0, <1>2, <2>2 DEF Finalize, Inv, TypeOK
<1>3. ASSUME NEW v \in Transitions, Answer(v)
      PROVE  UNCHANGED outcome /\ (decision[u] = "NONE" => decision'[u] = "NONE")
  BY <1>0, <1>3 DEF Answer, Inv, TypeOK
<1>4. CASE UNCHANGED <<decision, outcome>>
  BY <1>4
<1>5. QED
  BY <1>1, <1>2, <1>3, <1>4
     DEF Next, vars, CampaignStarts, CampaignCompletes, MergeVerdict, Arm, Dispatch, Execute,
         Observe, ArmCheck, DispatchCheck, Locate, Probe, Kill, NewRegistry, Replaced

(* What is shown of a transition whose records do not change does not.      *)
LEMMA SameView ==
    ASSUME NEW t \in Transitions, outcome'[t] = outcome[t], receipt'[t] = receipt[t],
           decision'[t] = decision[t]
    PROVE  View(t)' = View(t)
BY DEF View, Approved

(* A step changes the records of one transition, and shows it further on.   *)
LEMMA StepView ==
    ASSUME Contained, [Next]_vars, NEW t \in Transitions, View(t)' # View(t)
    PROVE  Rank[View(t)] < Rank[View(t)']
<1>0. Inv /\ FailureEnds
  BY DEF Contained
<1>1. /\ outcome[t] # "NONE" => check[t] # "NONE"
      /\ check[t] # "NONE" => receipt[t].status = "DEPLOYED"
      /\ receipt[t].status # "NONE" => decision[t] = "approve"
      /\ outcome[t] \in {"VERIFIED", "HUMAN_WAIT"} => check[t] # "DISPATCHED"
      /\ receipt[t].status \in {"NONE", "ARMED", "DISPATCHED", "DEPLOYED"}
      /\ decision[t] \in Decisions /\ outcome[t] \in Outcomes
  BY <1>0 DEF Inv, TypeOK, Chain, Concluded, Checked, Approvals, Approved, NoReceipt, FailureEnds,
              Receipts
<1>2. CASE Prepare(t)
  <2>1. decision[t] = "NONE" /\ decision'[t] = "OPEN" /\ UNCHANGED <<receipt, outcome>>
    BY <1>0, <1>2 DEF Prepare, Inv, TypeOK
  <2>2. receipt[t].status = "NONE" /\ outcome[t] = "NONE"
    BY <1>1, <2>1
  <2>3. View(t) = "CANDIDATE_READY" /\ View(t)' = "AWAITING_APPROVAL"
    BY <2>1, <2>2 DEF View, Approved
  <2>4. QED BY <2>3 DEF Rank
<1>3. CASE Answer(t)
  <2>1. /\ decision[t] = "OPEN" /\ decision'[t] \in {"approve", "reject", "text"}
        /\ UNCHANGED <<receipt, outcome>>
    BY <1>0, <1>3 DEF Answer, Inv, TypeOK
  <2>2. receipt[t].status = "NONE" /\ outcome[t] = "NONE"
    BY <1>1, <2>1
  <2>3. View(t) = "AWAITING_APPROVAL" /\ View(t)' \in {"APPROVED", "REJECTED", "AWAITING_APPROVAL"}
    BY <2>1, <2>2 DEF View, Approved
  <2>4. QED BY <2>3 DEF Rank
<1>4. CASE Arm(t)
  <2>1. /\ receipt[t].status = "NONE" /\ receipt'[t].status = "ARMED" /\ decision[t] = "approve"
        /\ UNCHANGED <<decision, outcome>>
    BY <1>0, <1>4 DEF Arm, ToArm, NoReceipt, Approved, Inv, TypeOK
  <2>2. outcome[t] = "NONE"
    BY <1>1, <2>1
  <2>3. View(t) = "APPROVED" /\ View(t)' = "DEPLOYMENT_ARMED"
    BY <2>1, <2>2 DEF View, Approved
  <2>4. QED BY <2>3 DEF Rank
<1>5. CASE Dispatch(t)
  <2>1. /\ receipt[t].status = "ARMED" /\ receipt'[t].status = "DISPATCHED"
        /\ UNCHANGED <<decision, outcome>>
    BY <1>0, <1>5, ReceiptMoves DEF Dispatch, Inv, TypeOK
  <2>2. outcome[t] = "NONE"
    BY <1>1, <2>1
  <2>3. View(t) = "DEPLOYMENT_ARMED" /\ View(t)' = "DEPLOYING"
    BY <2>1, <2>2 DEF View, Approved
  <2>4. QED BY <2>3 DEF Rank
<1>6. CASE Observe(t)
  <2>1. /\ receipt[t].status = "DISPATCHED" /\ receipt'[t].status = "DEPLOYED"
        /\ UNCHANGED <<decision, outcome>>
    <3>1. /\ run.step = "deployed" /\ receipt[t].status = "DISPATCHED" /\ receipt[t] \in Receipts
          /\ receipt' = [receipt EXCEPT ![t] = Deployed(receipt[t], run.id)]
          /\ UNCHANGED <<decision, outcome>>
      BY <1>0, <1>6 DEF Observe, Inv, TypeOK
    <3>2. run.id \in Keys
      BY <1>0, <3>1 DEF Inv, TypeOK, Runs, NoRun
    <3>3. receipt'[t].status = "DEPLOYED"
      BY <1>0, <3>1, <3>2, ReceiptMoves DEF Inv, TypeOK
    <3>4. QED BY <3>1, <3>3
  <2>2. outcome[t] = "NONE"
    BY <1>1, <2>1
  <2>3. View(t) = "DEPLOYING" /\ View(t)' = "DEPLOYED_AWAITING_VERIFICATION"
    BY <2>1, <2>2 DEF View, Approved
  <2>4. QED BY <2>3 DEF Rank
<1>7. CASE Finalize(t)
  <2>1. /\ check[t] = "DISPATCHED" /\ outcome'[t] = Disposition(run.report)
        /\ UNCHANGED <<decision, receipt>> /\ run.step = "reported"
    BY <1>0, <1>7 DEF Finalize, Inv, TypeOK
  <2>2. Disposition(run.report) \in {"VERIFIED", "PENDING", "HUMAN_WAIT"}
    <3>1. run.report \in Reports BY <1>0, <2>1 DEF Inv, TypeOK, Runs, NoRun
    <3>2. QED BY <3>1 DEF Disposition, Reports
  <2>3. outcome[t] \in {"NONE", "PENDING"} /\ receipt[t].status = "DEPLOYED"
    BY <1>1, <2>1 DEF Outcomes
  <2>4. View(t) \in {"DEPLOYED_AWAITING_VERIFICATION", "VERIFYING"}
    BY <2>3 DEF View, Approved
  <2>5. CASE outcome'[t] = "VERIFIED"
    <3>1. View(t)' = "VERIFIED" BY <2>5 DEF View, Approved
    <3>2. QED BY <2>4, <3>1 DEF Rank
  <2>6. CASE outcome'[t] = "PENDING"
    <3>1. View(t)' = "VERIFYING" BY <2>6 DEF View, Approved
    <3>2. QED BY <2>4, <3>1 DEF Rank
  <2>7. CASE outcome'[t] = "HUMAN_WAIT"
    <3>1. View(t)' = "HUMAN_WAIT" BY <2>7 DEF View, Approved
    <3>2. QED BY <2>4, <3>1 DEF Rank
  <2>8. QED BY <2>1, <2>2, <2>5, <2>6, <2>7
<1>8. ASSUME NEW u \in Transitions, u # t,
             \/ Prepare(u) \/ Answer(u) \/ Arm(u) \/ Dispatch(u) \/ Observe(u) \/ Finalize(u)
      PROVE  FALSE
  <2>1. outcome'[t] = outcome[t] /\ receipt'[t] = receipt[t] /\ decision'[t] = decision[t]
    BY <1>0, <1>8 DEF Prepare, Answer, Arm, Dispatch, Observe, Finalize, Inv, TypeOK
  <2>2. QED BY <2>1, SameView
<1>9. ASSUME UNCHANGED <<outcome, receipt, decision>> PROVE FALSE
  BY <1>9, SameView
<1>10. QED
  BY <1>2, <1>3, <1>4, <1>5, <1>6, <1>7, <1>8, <1>9
     DEF Next, vars, CampaignStarts, CampaignCompletes, MergeVerdict, Execute, ArmCheck,
         DispatchCheck, Locate, Probe, Kill, NewRegistry, Replaced

(* A campaign whose release failed requests and verifies nothing more, and   *)
(* what is shown of a promotion only moves forward: no rerun, late answer,   *)
(* late report, new campaign or redeployed environment gives back what a     *)
(* verdict took away.                                                        *)
THEOREM PromotionsGoForward == Spec => NothingGoesBack
<1>1. Init => Contained
  <2>1. Init => Inv BY InitInv
  <2>2. Init => NoneAhead /\ FailureEnds
    BY DEF Init, NoneAhead, FailureEnds
  <2>3. QED BY <2>1, <2>2 DEF Contained
<1>2. Contained /\ [Next]_vars => Contained'
  BY StepInv, StepNoneAhead, StepFailureEnds DEF Contained
<1>3. Contained /\ [Next]_vars =>
          [\A t, u \in Transitions : outcome[t] = "HUMAN_WAIT" /\ u.version = t.version =>
              /\ decision[u] = "NONE" => decision'[u] = "NONE"
              /\ outcome'[u] = "VERIFIED" => outcome[u] = "VERIFIED"]_vars
  BY StepContainment
<1>4. Contained /\ [Next]_vars =>
          [\A t \in Transitions : View(t)' # View(t) => Rank[View(t)] < Rank[View(t)']]_vars
  BY StepView
<1>5. QED
  BY <1>1, <1>2, <1>3, <1>4, PTL DEF Spec, NothingGoesBack, ContainmentStands, ViewNeverRegresses
-----------------------------------------------------------------------------
\* The resolution.

\* A finite set and a part of it.
LEMMA Parts ==
    ASSUME NEW S, NEW T, IsFiniteSet(S), T \subseteq S
    PROVE  /\ IsFiniteSet(T) /\ IsFiniteSet(S \ T)
           /\ Cardinality(T) \in Nat /\ Cardinality(S \ T) \in Nat
           /\ Cardinality(S) = Cardinality(T) + Cardinality(S \ T)
<1>1. IsFiniteSet(T) /\ IsFiniteSet(S \ T)
  BY FS_Subset, FS_Difference
<1>2. Cardinality(T) \in Nat /\ Cardinality(S \ T) \in Nat /\ Cardinality(S) \in Nat
  BY <1>1, FS_CardinalityType
<1>3. S \cap T = T
  OBVIOUS
<1>4. Cardinality(S \ T) = Cardinality(S) - Cardinality(T)
  BY <1>3, FS_Difference
<1> QED
  BY <1>1, <1>2, <1>4

\* The ranking decides: at most one signal is CURRENT.
LEMMA OneCurrent ==
    ASSUME NEW l \in SUBSET Signals, NEW rets
    PROVE  \A s, t \in Current(l, rets) : s = t
<1>1. SUFFICES ASSUME NEW s \in Current(l, rets), NEW t \in Current(l, rets), s # t
               PROVE  FALSE
  OBVIOUS
<1>2. s \in l /\ t \in l /\ Outranks(s, t) /\ Outranks(t, s)
  BY <1>1 DEF Current, Actionable, Deliverable, Unsettled
<1>3. \A u \in Signals : /\ u \in Nat /\ About[u].kind \in Kinds /\ About[u].generation \in Nat
  BY LoopConstants DEF Descriptions
<1>4. \A k \in Kinds : Priority[k] \in Nat
  BY DEF Kinds, Priority
<1> DEFINE p == Priority[About[s].kind]   q == Priority[About[t].kind]
           g == About[s].generation       h == About[t].generation
<1>5. s \in Nat /\ t \in Nat /\ p \in Nat /\ q \in Nat /\ g \in Nat /\ h \in Nat
  BY <1>2, <1>3, <1>4
<1>6. /\ p < q \/ (p = q /\ g < h) \/ (p = q /\ g = h /\ s < t)
      /\ q < p \/ (q = p /\ h < g) \/ (q = p /\ h = g /\ t < s)
  BY <1>2 DEF Outranks
<1> HIDE DEF p, q, g, h
<1> QED
  BY <1>5, <1>6

\* Every signal of a ledger is in one of the seven states.
LEMMA OneStateEach ==
    ASSUME NEW l \in SUBSET Signals, NEW rets
    PROVE  LET shown == Resolution(l, rets)
               n == [k \in DOMAIN shown |-> Cardinality(shown[k])]
           IN  /\ n.RETIRED + n.CYCLE_LIMIT + n.CONFLICTED + n.SUPERSEDED
                     + n.OBSERVATION_ONLY + n.CURRENT + n.COOLDOWN = Cardinality(l)
               /\ n.CURRENT <= 1
<1> DEFINE R == Retired(l, rets)        U == Unsettled(l, rets)
           C == Conflicted(l, rets)     S == Superseded(l, rets)
           D == Deliverable(l, rets)    A == Actionable(l, rets)
           N == Current(l, rets)
<1>1. IsFiniteSet(l)
  BY LoopConstants, FS_Subset
<1>2. R \subseteq l /\ U \subseteq l \ R /\ C \subseteq U /\ S \subseteq U \ C
      /\ A \subseteq D /\ N \subseteq A
  BY DEF Retired, Unsettled, Conflicted, Superseded, Actionable, Current
<1>3. D = (U \ C) \ S
  BY DEF Deliverable
<1>4. \A s, t \in N : s = t
  BY OneCurrent
<1>5. /\ Resolution(l, rets).RETIRED = R /\ Resolution(l, rets).CYCLE_LIMIT = (l \ R) \ U
      /\ Resolution(l, rets).CONFLICTED = C /\ Resolution(l, rets).SUPERSEDED = S
      /\ Resolution(l, rets).OBSERVATION_ONLY = D \ A /\ Resolution(l, rets).CURRENT = N
      /\ Resolution(l, rets).COOLDOWN = A \ N
      /\ DOMAIN Resolution(l, rets) = {"RETIRED", "CYCLE_LIMIT", "CONFLICTED", "SUPERSEDED",
                                       "OBSERVATION_ONLY", "CURRENT", "COOLDOWN"}
  BY DEF Resolution
<1> HIDE DEF R, U, C, S, D, A, N
<1>6. /\ IsFiniteSet(R) /\ IsFiniteSet(l \ R)
      /\ Cardinality(R) \in Nat /\ Cardinality(l \ R) \in Nat
      /\ Cardinality(l) = Cardinality(R) + Cardinality(l \ R)
  BY <1>1, <1>2, Parts
<1>7. /\ IsFiniteSet(U) /\ Cardinality(U) \in Nat /\ Cardinality((l \ R) \ U) \in Nat
      /\ Cardinality(l \ R) = Cardinality(U) + Cardinality((l \ R) \ U)
  BY <1>2, <1>6, Parts
<1>8. /\ IsFiniteSet(U \ C) /\ Cardinality(C) \in Nat /\ Cardinality(U \ C) \in Nat
      /\ Cardinality(U) = Cardinality(C) + Cardinality(U \ C)
  BY <1>2, <1>7, Parts
<1>9. /\ IsFiniteSet(D) /\ Cardinality(S) \in Nat /\ Cardinality(D) \in Nat
      /\ Cardinality(U \ C) = Cardinality(S) + Cardinality(D)
  BY <1>2, <1>3, <1>8, Parts
<1>10. /\ IsFiniteSet(A) /\ Cardinality(A) \in Nat /\ Cardinality(D \ A) \in Nat
       /\ Cardinality(D) = Cardinality(A) + Cardinality(D \ A)
  BY <1>2, <1>9, Parts
<1>11. /\ IsFiniteSet(N) /\ Cardinality(N) \in Nat /\ Cardinality(A \ N) \in Nat
       /\ Cardinality(A) = Cardinality(N) + Cardinality(A \ N)
  BY <1>2, <1>10, Parts
<1>12. Cardinality(N) <= 1
  <2>1. CASE N = {}
    BY <2>1, FS_EmptySet
  <2>2. CASE N # {}
    <3>1. PICK s : N = {s}
      BY <1>4, <2>2
    <3> QED
      BY <3>1, FS_Singleton
  <2> QED
    BY <2>1, <2>2
<1>13. Cardinality(R) + Cardinality((l \ R) \ U) + Cardinality(C) + Cardinality(S)
          + Cardinality(D \ A) + Cardinality(N) + Cardinality(A \ N) = Cardinality(l)
  BY <1>6, <1>7, <1>8, <1>9, <1>10, <1>11
<1> QED
  BY <1>5, <1>12, <1>13

\* The lineage of a signal holds it, and is in every ledger that does.
LEMMA LineageHolds ==
    ASSUME NEW s \in Signals
    PROVE  /\ s \in Lineage[s]
           /\ \A l \in Ledgers : s \in l => Lineage[s] \subseteq l
BY DEF Lineage

\* What is handed off was CURRENT, so neither retired nor of a retired subject.
LEMMA CurrentIsNew ==
    ASSUME NEW l, NEW rets, NEW s \in Current(l, rets)
    PROVE  s \in l /\ Subject(s) \notin {r.subject : r \in rets}
<1>1. s \in l \ Retired(l, rets)
  BY DEF Current, Actionable, Deliverable, Unsettled
<1> QED
  BY <1>1 DEF Retired

\* A chain that is handed off is of its own ledger, its signal CURRENT there.
LEMMA HandoffsAreCurrent ==
    ASSUME NEW pool, NEW l, NEW rets, NEW b \in Handoffs(pool, l, rets)
    PROVE  /\ b.ledger = l /\ b.retirements = rets /\ b.signal \in Current(l, rets)
           /\ b # None
<1>1. PICK s \in Current(l, rets) : b = Bridge(s, l, rets)
  BY DEF Handoffs
<1>2. b = [signal |-> s, ledger |-> l, retirements |-> rets]
  BY <1>1 DEF Bridge
<1>3. b # None
  <2>1. DOMAIN b = {"signal", "ledger", "retirements"} /\ DOMAIN None = {"file"}
    BY <1>2 DEF None
  <2>2. "signal" \notin {"file"}
    OBVIOUS
  <2> QED
    BY <2>1, <2>2
<1> QED
  BY <1>1, <1>2, <1>3

-----------------------------------------------------------------------------
\* The inductive invariant.

\* What a successor at work carries: the cycles before its own are settled,
\* its own is not armed, and its chain is frozen or of the current state.
Carries ==
    successor.pc # "idle" =>
        LET c == successor.cycle
            b == successor.activation
        IN  /\ c \in Cycles /\ c \notin project.armed
            /\ \A d \in 1 .. c - 1 : Settled(d)
            /\ b # None /\ b.signal \in Current(b.ledger, b.retirements)
            /\ successor.pc \in {"receipt", "goal", "state"}
            /\ IF receipts[c] = None THEN successor.pc = "receipt" /\ b.retirements = retirements
               ELSE receipts[c] = b

\* A cycle has a receipt when those before it are settled; until its campaign
\* is planned nothing is retired.
CyclesInTurn ==
    \A c \in Cycles : receipts[c] # None =>
        /\ \A d \in 1 .. c - 1 : Settled(d)
        /\ receipts[c].signal \in Current(receipts[c].ledger, receipts[c].retirements)
        /\ receipts[c] \notin planned => receipts[c].retirements = retirements

\* A candidate's campaign is planned once and ends once.
CampaignsOnce ==
    /\ \A o \in outcomes : o.candidate \in planned
    /\ \A o, q \in outcomes : o.candidate = q.candidate => o = q
    /\ project.task # None =>
           project.task \in planned /\ \A o \in outcomes : o.candidate # project.task

\* A retirement is of an armed cycle and can be proved again.
Retirable == \A r \in retirements : \E c \in project.armed : r = LineageRetirement(c) /\ Proves(c)

\* The projection is of a cycle that has its receipt, and as far as that got.
Projected ==
    mission # None =>
        /\ mission.cycle \in Cycles /\ receipts[mission.cycle] # None
        /\ mission.retirements \subseteq retirements
        /\ mission.state = "VERIFIED_RETIRED" => \E r \in retirements : r.cycle = mission.cycle

\* Together they are inductive.
LoopInv ==
    /\ LoopTypeOK /\ CampaignHasReceipt
    /\ Carries /\ CyclesInTurn /\ CampaignsOnce /\ Retirable /\ Projected

\* The cycles that have receipts, and what is settled, only grow.
LEMMA SettledStays ==
    ASSUME NEW c \in Cycles, Settled(c), project.armed \subseteq project'.armed,
           retirements \subseteq retirements', outcomes \subseteq outcomes',
           receipts'[c] = receipts[c]
    PROVE  Settled(c)'
BY DEF Settled

\* So do the proofs: they read the frozen receipt and the campaign's end only.
LEMMA ProvesStays ==
    ASSUME NEW c \in Cycles, Proves(c), outcomes \subseteq outcomes', receipts'[c] = receipts[c]
    PROVE  Proves(c)' /\ LineageRetirement(c)' = LineageRetirement(c)
<1>1. LineageRetirement(c)' = LineageRetirement(c)
  BY DEF LineageRetirement, BacklogRetirement
<1>2. CampaignVerified(receipts[c])'
  BY DEF Proves, CampaignVerified
<1>3. ChainRebuilt(receipts[c])'
  BY DEF Proves, ChainRebuilt
<1>4. LoopCloses(c)'
  BY <1>1 DEF Proves, LoopCloses
<1> QED
  BY <1>1, <1>2, <1>3, <1>4 DEF Proves

\* While a cycle is due to be retired, it is the last one that has a receipt,
\* no successor is at work, and every chain's campaign is planned.
LEMMA NothingBesides ==
    ASSUME LoopInv, NEW c \in Cycles, RetireDue(c), Proves(c)
    PROVE  /\ successor.pc = "idle"
           /\ \A d \in Cycles : receipts[d] # None => d <= c /\ receipts[d] \in planned
<1>0. /\ Carries /\ CyclesInTurn /\ CampaignsOnce /\ Retirable
      /\ Cycles \subseteq Nat /\ c \in Nat
      /\ project.armed \subseteq {d \in Cycles : receipts[d] # None}
  BY LoopConstants DEF LoopInv, LoopTypeOK, Cycles
<1>1. /\ c \in project.armed /\ \A r \in retirements : r.cycle # c
      /\ receipts[c] # None /\ [candidate |-> receipts[c], result |-> "VERIFIED"] \in outcomes
  BY DEF RetireDue, Proves, CampaignVerified
<1>2. ~Settled(c)
  <2>1. [candidate |-> receipts[c], result |-> "FAILED"] \notin outcomes
    <3> DEFINE o == [candidate |-> receipts[c], result |-> "FAILED"]
               q == [candidate |-> receipts[c], result |-> "VERIFIED"]
    <3>1. o.candidate = q.candidate /\ o.result # q.result
      OBVIOUS
    <3> HIDE DEF o
    <3>2. q \in outcomes
      BY <1>1
    <3> HIDE DEF q
    <3>3. o \notin outcomes
      BY <1>0, <3>1, <3>2 DEF CampaignsOnce
    <3> QED
      BY <3>3 DEF o
  <2> QED
    BY <1>1, <2>1 DEF Settled
<1>3. ASSUME NEW e \in Cycles, \A d \in 1 .. e - 1 : Settled(d)
      PROVE  e <= c
  BY <1>0, <1>2, <1>3 DEF Cycles
<1>4. ASSUME NEW d \in Cycles, Settled(d)
      PROVE  receipts[d] \in planned /\ d \in project.armed
  <2>1. CASE [candidate |-> receipts[d], result |-> "FAILED"] \in outcomes
    BY <1>0, <1>4, <2>1 DEF CampaignsOnce, Settled
  <2>2. CASE \E r \in retirements : r.cycle = d
    <3>1. PICK e \in project.armed : LineageRetirement(e).cycle = d /\ Proves(e)
      BY <1>0, <2>2 DEF Retirable
    <3>2. e = d
      BY <3>1 DEF LineageRetirement
    <3>3. [candidate |-> receipts[d], result |-> "VERIFIED"] \in outcomes
      BY <3>1, <3>2 DEF Proves, CampaignVerified
    <3> QED
      BY <1>0, <1>4, <3>3 DEF CampaignsOnce, Settled
  <2> QED
    BY <1>4, <2>1, <2>2 DEF Settled
<1>5. ASSUME NEW d \in Cycles, receipts[d] # None
      PROVE  d <= c /\ receipts[d] \in planned
  <2>1. d <= c
    BY <1>0, <1>3, <1>5 DEF CyclesInTurn
  <2>2. CASE d = c
    BY <1>0, <1>1, <2>2 DEF CampaignsOnce
  <2>3. CASE d # c
    <3>1. d \in 1 .. c - 1
      BY <1>0, <2>1, <2>3 DEF Cycles
    <3>2. Settled(d)
      BY <1>0, <1>1, <3>1 DEF CyclesInTurn
    <3> QED
      BY <1>4, <2>1, <3>2
  <2> QED
    BY <2>1, <2>2, <2>3
<1>6. ASSUME successor.pc # "idle"
      PROVE  FALSE
  <2> DEFINE e == successor.cycle
  <2>1. e \in Cycles /\ e \notin project.armed /\ \A d \in 1 .. e - 1 : Settled(d)
    BY <1>0, <1>6 DEF Carries
  <2> HIDE DEF e
  <2>2. e <= c /\ e # c
    BY <1>1, <1>3, <2>1
  <2>3. e \in 1 .. c - 1
    BY <1>0, <2>1, <2>2 DEF Cycles
  <2>4. Settled(e)
    BY <1>0, <1>1, <2>3 DEF CyclesInTurn
  <2> QED
    BY <1>4, <2>1, <2>4
<1> QED
  BY <1>5, <1>6

-----------------------------------------------------------------------------
\* The invariant holds at the start,
LEMMA LoopInvInit ==
    LoopInit => LoopInv
<1> SUFFICES ASSUME LoopInit
             PROVE  LoopInv
  OBVIOUS
<1> USE LoopConstants DEF LoopInit, Idle
<1>1. Candidates = {}
  BY DEF Candidates
<1>2. ledger \in Ledgers
  BY DEF Ledgers
<1>3. LoopTypeOK
  BY <1>1, <1>2 DEF LoopTypeOK, IsReceipt, IsActivation
<1>4. CampaignHasReceipt /\ Carries /\ CyclesInTurn /\ CampaignsOnce /\ Retirable /\ Projected
  BY DEF CampaignHasReceipt, Carries, CyclesInTurn, CampaignsOnce, Retirable, Projected
<1> QED
  BY <1>3, <1>4 DEF LoopInv

\* and is kept by the steps that leave the receipts alone: by those that arm,
\* plan, finish, observe or only change the run,
LEMMA QuietStep ==
    ASSUME LoopInv, UNCHANGED <<backlog, receipts, retirements, mission>>,
           ledger \subseteq ledger', ledger' \in Ledgers, kills' \in 0 .. MaxKills,
           project.armed \subseteq project'.armed,
           project'.armed \subseteq {c \in Cycles : receipts[c] # None},
           planned \subseteq planned', outcomes \subseteq outcomes',
           planned' \cup ({goal'} \ {None}) \subseteq Candidates,
           IsActivation(successor)', Carries', CampaignsOnce'
    PROVE  LoopInv'
<1>0. LoopTypeOK /\ CampaignHasReceipt /\ CyclesInTurn /\ Retirable /\ Projected
  BY DEF LoopInv
<1>1. Candidates' = Candidates /\ Retirements' = Retirements
  BY DEF Candidates, Retirements, LineageRetirement, BacklogRetirement
<1>2. Snapshots' = Snapshots
  BY <1>1 DEF Snapshots
<1>3. \A c \in Cycles : IsReceipt(receipts[c])'
  BY <1>0 DEF LoopTypeOK, IsReceipt, IsBundle, IsCandidate
<1>4. LoopTypeOK'
  BY <1>0, <1>1, <1>2, <1>3 DEF LoopTypeOK
<1>5. CampaignHasReceipt'
  BY <1>1 DEF CampaignHasReceipt
<1>6. \A d \in Cycles : Settled(d) => Settled(d)'
  BY SettledStays
<1>7. CyclesInTurn'
  <2>1. SUFFICES ASSUME NEW c \in Cycles, receipts[c] # None
                 PROVE  /\ \A d \in 1 .. c - 1 : Settled(d)'
                        /\ receipts[c].signal \in Current(receipts[c].ledger, receipts[c].retirements)
                        /\ receipts[c] \notin planned' => receipts[c].retirements = retirements
    BY DEF CyclesInTurn
  <2>2. 1 .. c - 1 \subseteq Cycles
    BY LoopConstants DEF Cycles
  <2> QED
    BY <1>0, <1>6, <2>1, <2>2 DEF CyclesInTurn
<1>8. Retirable'
  <2>1. \A c \in project.armed : Proves(c) =>
            Proves(c)' /\ LineageRetirement(c)' = LineageRetirement(c)
    BY <1>0, ProvesStays DEF LoopTypeOK
  <2> QED
    BY <1>0, <2>1 DEF Retirable
<1>9. Projected'
  BY <1>0 DEF Projected
<1> QED
  BY <1>4, <1>5, <1>7, <1>8, <1>9 DEF LoopInv

\* which are these,
LEMMA QuietActions ==
    ASSUME LoopInv,
           \/ \E s \in Signals : Extract(s)
           \/ \E c \in Cycles : Begin(c)
           \/ SubmitGoal \/ ArmState \/ KillSuccessor \/ Plan
           \/ \E result \in {"VERIFIED", "FAILED"} : Finish(result)
    PROVE  LoopInv'
<1>0. /\ LoopTypeOK /\ CampaignHasReceipt /\ Carries /\ CampaignsOnce
      /\ planned \cup ({goal} \ {None}) \subseteq Candidates
      /\ Cycles \subseteq Nat
      /\ ledger \in Ledgers /\ kills \in 0 .. MaxKills /\ IsActivation(successor)
      /\ project.armed \subseteq {c \in Cycles : receipts[c] # None}
  BY DEF LoopInv, LoopTypeOK, CampaignHasReceipt, Cycles
<1>1. ASSUME NEW s \in Signals, Extract(s)
      PROVE  LoopInv'
  <2>1. ledger \subseteq ledger' /\ ledger' \in Ledgers
    BY <1>0, <1>1 DEF Extract, Ledgers
  <2>2. Carries' /\ CampaignsOnce'
    BY <1>0, <1>1 DEF Extract, Carries, CampaignsOnce, Settled
  <2>3. IsActivation(successor)'
    BY <1>0, <1>1, <2>1 DEF Extract, IsActivation, IsBundle, IsCandidate
  <2> QED
    BY <1>0, <1>1, <2>1, <2>2, <2>3, QuietStep DEF Extract
<1>2. ASSUME NEW c \in Cycles, Begin(c)
      PROVE  LoopInv'
  <2>1. PICK b \in Activations(c) :
           successor' = [pc |-> NextWrite("begin"), cycle |-> c, activation |-> b]
    BY <1>2 DEF Begin
  <2>2. NextWrite("begin") = "receipt"
    BY DEF NextWrite
  <2>3. /\ b # None /\ b.signal \in Current(b.ledger, b.retirements)
        /\ IF receipts[c] = None THEN b.retirements = retirements ELSE receipts[c] = b
        /\ IsBundle(b)
    <3>1. CASE receipts[c] = None
      <4>1. b.ledger = ledger /\ b.retirements = retirements /\ b # None
            /\ b.signal \in Current(ledger, retirements)
        BY <2>1, <3>1, HandoffsAreCurrent DEF Activations
      <4>2. b.signal \in ledger
        BY <4>1, CurrentIsNew
      <4> QED
        BY <1>0, <3>1, <4>1, <4>2 DEF IsBundle, IsCandidate
    <3>2. CASE receipts[c] # None
      <4>1. b = receipts[c]
        BY <2>1, <3>2 DEF Activations
      <4> QED
        BY <1>0, <3>2, <4>1 DEF LoopInv, CyclesInTurn, LoopTypeOK, IsReceipt
    <3> QED
      BY <3>1, <3>2
  <2>4. /\ successor'.pc = "receipt" /\ successor'.cycle = c /\ successor'.activation = b
        /\ UNCHANGED <<ledger, backlog, receipts, goal, project, planned, outcomes,
                       retirements, mission, kills>>
    BY <1>2, <2>1, <2>2 DEF Begin
  <2>5. c \notin project.armed /\ \A d \in 1 .. c - 1 : Settled(d)
    BY <1>2 DEF Begin
  <2>6. Carries'
    BY <2>3, <2>4, <2>5 DEF Carries, Settled
  <2>7. IsActivation(successor)'
    BY <2>3, <2>4 DEF IsActivation, IsBundle
  <2>8. CampaignsOnce'
    BY <1>0, <2>4 DEF CampaignsOnce
  <2> QED
    BY <1>0, <2>4, <2>6, <2>7, <2>8, QuietStep
<1>3. ASSUME SubmitGoal
      PROVE  LoopInv'
  <2>1. /\ successor.pc = "goal" /\ goal' = successor.activation
        /\ UNCHANGED <<ledger, backlog, receipts, project, planned, outcomes, retirements,
                       mission, kills>>
    BY <1>3 DEF SubmitGoal
  <2>2. successor' = [successor EXCEPT !.pc = "state"]
    BY <1>3, <2>1 DEF SubmitGoal, Advance, NextWrite
  <2>3. successor.cycle \in Cycles /\ receipts[successor.cycle] = successor.activation
        /\ successor.activation # None
    BY <1>0, <2>1 DEF Carries
  <2>4. goal' \in Candidates
    BY <2>1, <2>3 DEF Candidates
  <2>5. successor'.pc = "state" /\ successor'.cycle = successor.cycle
        /\ successor'.activation = successor.activation
    BY <1>0, <2>1, <2>2 DEF IsActivation
  <2>6. Carries'
    BY <1>0, <2>1, <2>3, <2>5 DEF Carries, Settled
  <2>7. IsActivation(successor)'
    BY <1>0, <2>1, <2>5 DEF IsActivation, IsBundle
  <2>8. CampaignsOnce'
    BY <1>0, <2>1 DEF CampaignsOnce
  <2> QED
    BY <1>0, <2>1, <2>4, <2>6, <2>7, <2>8, QuietStep
<1>4. ASSUME ArmState
      PROVE  LoopInv'
  <2>1. /\ successor.pc = "state"
        /\ project' = [task |-> None, armed |-> project.armed \cup {successor.cycle}]
        /\ UNCHANGED <<ledger, backlog, receipts, goal, planned, outcomes, retirements,
                       mission, kills>>
    BY <1>4 DEF ArmState
  <2>2. successor' = Idle
    BY <1>4, <2>1 DEF ArmState, Advance, NextWrite
  <2>3. successor.cycle \in Cycles /\ receipts[successor.cycle] # None
    BY <1>0, <2>1 DEF Carries
  <2>4. Carries' /\ CampaignsOnce' /\ IsActivation(successor)'
    BY <1>0, <2>1, <2>2 DEF Carries, CampaignsOnce, IsActivation, Idle
  <2> QED
    BY <1>0, <2>1, <2>3, <2>4, QuietStep
<1>5. ASSUME KillSuccessor
      PROVE  LoopInv'
  <2>1. /\ successor' = Idle /\ kills < MaxKills /\ kills' = kills + 1
        /\ UNCHANGED <<ledger, backlog, receipts, goal, project, planned, outcomes,
                       retirements, mission>>
    BY <1>5 DEF KillSuccessor
  <2>2. kills' \in 0 .. MaxKills
    BY <1>0, <2>1, LoopConstants
  <2>3. Carries' /\ CampaignsOnce' /\ IsActivation(successor)'
    BY <1>0, <2>1 DEF Carries, CampaignsOnce, IsActivation, Idle
  <2> QED
    BY <1>0, <2>1, <2>2, <2>3, QuietStep
<1>6. ASSUME Plan
      PROVE  LoopInv'
  <2>1. /\ goal # None /\ goal \notin planned
        /\ planned' = planned \cup {goal}
        /\ project' = [project EXCEPT !.task = goal]
        /\ UNCHANGED <<ledger, backlog, receipts, successor, goal, outcomes, retirements,
                       mission, kills>>
    BY <1>6 DEF Plan
  <2>2. project'.armed = project.armed /\ (project'.task = goal \/ project' = project)
    BY <2>1
  <2>3. Carries' /\ IsActivation(successor)'
    BY <1>0, <2>1, <2>2 DEF Carries, IsActivation, Settled, IsBundle
  <2>4. CampaignsOnce'
    BY <1>0, <2>1, <2>2 DEF CampaignsOnce
  <2> QED
    BY <1>0, <2>1, <2>2, <2>3, <2>4, QuietStep
<1>7. ASSUME NEW result, Finish(result)
      PROVE  LoopInv'
  <2>1. /\ project.task # None
        /\ outcomes' = outcomes \cup {[candidate |-> project.task, result |-> result]}
        /\ project' = [project EXCEPT !.task = None]
        /\ UNCHANGED <<ledger, backlog, receipts, successor, goal, planned, retirements,
                       mission, kills>>
    BY <1>7 DEF Finish
  <2>2. project'.armed = project.armed /\ (project'.task = None \/ project' = project)
    BY <2>1
  <2>3. \A d \in Cycles : Settled(d) => Settled(d)'
    BY <2>1, <2>2, SettledStays
  <2>4. Carries' /\ IsActivation(successor)'
    <3>1. \A c \in Cycles : 1 .. c - 1 \subseteq Cycles
      BY LoopConstants DEF Cycles
    <3>2. Carries'
      BY <1>0, <2>1, <2>2, <2>3, <3>1 DEF Carries
    <3> QED
      BY <1>0, <2>1, <3>2 DEF IsActivation, IsBundle
  <2>5. CampaignsOnce'
    BY <1>0, <2>1, <2>2 DEF CampaignsOnce
  <2> QED
    BY <1>0, <2>1, <2>2, <2>4, <2>5, QuietStep
<1> QED
  BY <1>1, <1>2, <1>3, <1>4, <1>5, <1>6, <1>7

\* by the write of a receipt,
LEMMA ReceiptStep ==
    ASSUME LoopInv, WriteReceipt
    PROVE  LoopInv'
<1> DEFINE c == successor.cycle
           b == successor.activation
<1>0. /\ LoopTypeOK /\ CampaignHasReceipt /\ Carries /\ CyclesInTurn /\ CampaignsOnce
      /\ Retirable /\ Projected
      /\ Cycles \subseteq Nat /\ IsActivation(successor)
      /\ project.armed \subseteq {d \in Cycles : receipts[d] # None}
  BY DEF LoopInv, LoopTypeOK, Cycles
<1>1. /\ successor.pc = "receipt"
      /\ receipts' = [receipts EXCEPT ![c] = b]
      /\ backlog' = backlog \cup {b}
      /\ mission' = Snapshot(c, b, {})
      /\ UNCHANGED <<ledger, goal, project, planned, outcomes, retirements, kills>>
  BY DEF WriteReceipt
<1>2. successor' = [successor EXCEPT !.pc = "goal"]
  BY <1>1 DEF WriteReceipt, Advance, NextWrite
<1>3. /\ c \in Cycles /\ c \notin project.armed
      /\ \A d \in 1 .. c - 1 : Settled(d)
      /\ b # None /\ b.signal \in Current(b.ledger, b.retirements)
      /\ receipts[c] = None => b.retirements = retirements
      /\ receipts[c] # None => receipts[c] = b
  BY <1>0, <1>1 DEF Carries
<1>4. IsBundle(b)
  BY <1>0, <1>1 DEF IsActivation
<1> HIDE DEF c, b
<1>5. DOMAIN receipts = Cycles
  BY <1>0 DEF LoopInv, LoopTypeOK
<1>6. receipts'[c] = b /\ \A d \in Cycles \ {c} : receipts'[d] = receipts[d]
  BY <1>1, <1>3, <1>5
<1>7. \A d \in Cycles : receipts[d] # None => receipts'[d] = receipts[d]
  BY <1>3, <1>6
<1>8. \A d \in Cycles : Settled(d) => Settled(d)'
  <2>1. SUFFICES ASSUME NEW d \in Cycles, Settled(d)
                 PROVE  Settled(d)'
    OBVIOUS
  <2>2. receipts'[d] = receipts[d]
    BY <1>0, <1>7, <2>1 DEF Settled
  <2> QED
    BY <1>1, <2>1, <2>2, SettledStays
<1>9. \A d \in project.armed : Proves(d) =>
          Proves(d)' /\ LineageRetirement(d)' = LineageRetirement(d)
  BY <1>0, <1>1, <1>7, ProvesStays
<1>10. Candidates' = Candidates \cup {b}
  <2>1. \A x : x \in Candidates' <=> x \in Candidates \cup {b}
    BY <1>3, <1>6, <1>7 DEF Candidates
  <2> QED
    BY <2>1
<1>11. Retirements \subseteq Retirements'
  BY <1>7 DEF Retirements, LineageRetirement, BacklogRetirement
<1>12. LoopTypeOK'
  <2>1. \A d \in Cycles : IsReceipt(receipts[d])'
    BY <1>0, <1>1, <1>4, <1>6 DEF LoopTypeOK, IsReceipt, IsBundle
  <2>2. IsActivation(successor)'
    <3>1. successor'.pc = "goal" /\ successor'.cycle = c /\ successor'.activation = b
      BY <1>0, <1>1, <1>2 DEF IsActivation, c, b
    <3> QED
      BY <1>1, <1>3, <1>4, <3>1 DEF IsActivation, IsBundle
  <2>3. mission' \in Snapshots'
    <3>1. CycleState(b, {}) = "HANDED_OFF"
      BY DEF CycleState
    <3> QED
      BY <1>1, <1>3, <3>1 DEF Snapshots, Snapshot
  <2>4. project'.armed \subseteq {d \in Cycles : receipts'[d] # None}
    BY <1>0, <1>1, <1>7
  <2>5. DOMAIN receipts' = Cycles
    BY <1>1, <1>5
  <2> QED
    BY <1>0, <1>1, <1>10, <1>11, <2>1, <2>2, <2>3, <2>4, <2>5 DEF LoopTypeOK
<1>13. CampaignHasReceipt'
  BY <1>0, <1>1, <1>10 DEF CampaignHasReceipt
<1>14. Carries'
  <2>1. successor'.pc = "goal" /\ successor'.cycle = c /\ successor'.activation = b
    BY <1>0, <1>1, <1>2 DEF IsActivation, c, b
  <2>2. 1 .. c - 1 \subseteq Cycles
    BY <1>3, LoopConstants DEF Cycles
  <2> QED
    BY <1>1, <1>3, <1>6, <1>8, <2>1, <2>2 DEF Carries
<1>15. CyclesInTurn'
  <2>1. SUFFICES ASSUME NEW d \in Cycles, receipts'[d] # None
                 PROVE  /\ \A e \in 1 .. d - 1 : Settled(e)'
                        /\ receipts'[d].signal
                              \in Current(receipts'[d].ledger, receipts'[d].retirements)
                        /\ receipts'[d] \notin planned => receipts'[d].retirements = retirements
    BY <1>1 DEF CyclesInTurn
  <2>2. 1 .. d - 1 \subseteq Cycles
    BY LoopConstants DEF Cycles
  <2>3. CASE receipts[d] # None
    BY <1>0, <1>7, <1>8, <2>2, <2>3 DEF CyclesInTurn
  <2>4. CASE receipts[d] = None
    BY <1>3, <1>6, <1>8, <2>1, <2>2, <2>4
  <2> QED
    BY <2>3, <2>4
<1>16. CampaignsOnce'
  BY <1>0, <1>1 DEF CampaignsOnce
<1>17. Retirable'
  BY <1>0, <1>1, <1>9 DEF Retirable
<1>18. Projected'
  <2>1. mission'.cycle = c /\ mission'.retirements = {} /\ mission'.state # "VERIFIED_RETIRED"
    BY <1>1 DEF Snapshot, CycleState
  <2> QED
    BY <1>1, <1>3, <1>6, <2>1 DEF Projected
<1> QED
  BY <1>12, <1>13, <1>14, <1>15, <1>16, <1>17, <1>18 DEF LoopInv

\* and by a retirement.
LEMMA RetireStep ==
    ASSUME LoopInv, NEW c \in Cycles, Retire(c)
    PROVE  LoopInv'
<1> DEFINE R == LineageRetirement(c)
           m == Snapshot(c, receipts[c], {R})
<1>0. /\ LoopTypeOK /\ CampaignHasReceipt /\ Carries /\ CyclesInTurn /\ CampaignsOnce
      /\ Retirable /\ Projected
      /\ Cycles \subseteq Nat
      /\ project.armed \subseteq {d \in Cycles : receipts[d] # None}
  BY DEF LoopInv, LoopTypeOK, Cycles
<1>1. /\ RetireDue(c) /\ Proves(c)
      /\ retirements' = retirements \cup {R} /\ mission' = m
      /\ project' = [project EXCEPT !.task = None]
      /\ UNCHANGED <<ledger, backlog, receipts, successor, goal, planned, outcomes, kills>>
  BY DEF Retire, FinalProof
<1>2. /\ successor.pc = "idle"
      /\ \A d \in Cycles : receipts[d] # None => receipts[d] \in planned
  BY <1>1, NothingBesides
<1>3. c \in project.armed /\ receipts[c] # None
  BY <1>1 DEF RetireDue, Proves
<1>4. project'.armed = project.armed /\ (project'.task = None \/ project' = project)
  BY <1>1
<1>5. R.cycle = c /\ m.cycle = c /\ m.retirements = {R}
      /\ m.state \in {"HANDED_OFF", "VERIFIED_RETIRED"}
  BY DEF LineageRetirement, Snapshot, CycleState
<1>6. m \in Snapshots /\ R \in Retirements
  <2>1. R \in Retirements
    BY <1>3 DEF Retirements
  <2> QED
    BY <2>1 DEF Snapshots, Snapshot, CycleState
<1> HIDE DEF R, m
<1>7. Candidates' = Candidates /\ Retirements' = Retirements /\ Snapshots' = Snapshots
  BY <1>1 DEF Candidates, Retirements, LineageRetirement, BacklogRetirement, Snapshots
<1>8. \A d \in Cycles : Settled(d) => Settled(d)'
  BY <1>1, <1>4, SettledStays
<1>9. LoopTypeOK'
  <2>1. (\A d \in Cycles : IsReceipt(receipts[d])') /\ IsActivation(successor)'
    BY <1>0, <1>1 DEF LoopTypeOK, IsReceipt, IsBundle, IsActivation
  <2> QED
    BY <1>0, <1>1, <1>4, <1>6, <1>7, <2>1 DEF LoopTypeOK
<1>10. CampaignHasReceipt' /\ Carries'
  BY <1>0, <1>1, <1>2, <1>7 DEF CampaignHasReceipt, Carries
<1>11. CyclesInTurn'
  <2>1. \A d \in Cycles : 1 .. d - 1 \subseteq Cycles
    BY LoopConstants DEF Cycles
  <2> QED
    BY <1>0, <1>1, <1>2, <1>8, <2>1 DEF CyclesInTurn
<1>12. CampaignsOnce'
  BY <1>0, <1>1, <1>4 DEF CampaignsOnce
<1>13. Retirable'
  <2>1. \A d \in project.armed : Proves(d) =>
            Proves(d)' /\ LineageRetirement(d)' = LineageRetirement(d)
    BY <1>0, <1>1, ProvesStays
  <2> QED
    BY <1>0, <1>1, <1>3, <1>4, <2>1 DEF Retirable, R
<1>14. Projected'
  BY <1>1, <1>3, <1>5 DEF Projected
<1> QED
  BY <1>9, <1>10, <1>11, <1>12, <1>13, <1>14 DEF LoopInv

\* No step breaks it.
LEMMA LoopInvStep ==
    LoopInv /\ [LoopNext]_loopVars => LoopInv'
<1> SUFFICES ASSUME LoopInv, [LoopNext]_loopVars
             PROVE  LoopInv'
  OBVIOUS
<1>1. CASE UNCHANGED loopVars
  <2>1. LoopTypeOK /\ IsActivation(successor) /\ CampaignsOnce /\ Carries /\ CampaignHasReceipt
    BY DEF LoopInv, LoopTypeOK
  <2>2. IsActivation(successor)' /\ CampaignsOnce' /\ Carries'
    BY <1>1, <2>1 DEF loopVars, IsActivation, IsBundle, CampaignsOnce, Carries, Settled
  <2> QED
    BY <1>1, <2>1, <2>2, QuietStep DEF loopVars, LoopTypeOK, CampaignHasReceipt
<1>2. ASSUME NEW c \in Cycles, Retire(c)
      PROVE  LoopInv'
  BY <1>2, RetireStep
<1> QED
  BY <1>1, <1>2, QuietActions, ReceiptStep DEF LoopNext, Step

-----------------------------------------------------------------------------
\* The theorems.

\* The loop keeps its invariant, for any signals, policies, cycles and kills.
THEOREM LoopInvariant ==
    LoopSpec => []LoopInv
<1> QED
  BY LoopInvInit, LoopInvStep, PTL DEF LoopSpec

\* A retirement takes its signal's lineage, in its own ledger, with it.
LEMMA RetirementsEarned ==
    ASSUME LoopInv, NEW r \in retirements
    PROVE  /\ [candidate |-> r.candidate, result |-> "VERIFIED"] \in outcomes
           /\ r.candidate.signal \in Current(r.candidate.ledger, r.candidate.retirements)
           /\ r.candidate.signal \in r.lineage /\ r.lineage \subseteq r.candidate.ledger
<1>1. PICK c \in project.armed : r = LineageRetirement(c) /\ Proves(c)
  BY DEF LoopInv, Retirable
<1> DEFINE b == receipts[c]
<1>2. c \in Cycles /\ b # None /\ IsReceipt(b)
  BY <1>1 DEF LoopInv, LoopTypeOK
<1>3. /\ b.ledger \in Ledgers /\ b.signal \in b.ledger
      /\ b.signal \in Current(b.ledger, b.retirements)
  BY <1>2 DEF IsReceipt, IsBundle, IsCandidate, LoopInv, CyclesInTurn
<1>4. r.candidate = b /\ r.lineage = Lineage[b.signal]
  BY <1>1 DEF LineageRetirement, BacklogRetirement
<1>5. [candidate |-> b, result |-> "VERIFIED"] \in outcomes
  BY <1>1 DEF Proves, CampaignVerified
<1> HIDE DEF b
<1>6. b.signal \in Signals
  BY <1>3 DEF Ledgers
<1> QED
  BY <1>3, <1>4, <1>5, <1>6, LineageHolds

\* The audit of a retired cycle.
LEMMA AuditPasses ==
    ASSUME LoopInv, NEW c \in Cycles, NEW r \in retirements, r.cycle = c
    PROVE  Audited(c)
<1> DEFINE R == LineageRetirement(c)
           b == receipts[c]
<1>1. PICK e \in project.armed : r = LineageRetirement(e) /\ Proves(e)
  BY DEF LoopInv, Retirable
<1>2. e = c
  BY <1>1 DEF LineageRetirement
<1>3. c \in project.armed /\ R \in retirements /\ Proves(c) /\ r = R
  BY <1>1, <1>2
<1>4. R.candidate = b /\ b.signal \in R.lineage /\ b.signal \in Current(b.ledger, b.retirements)
  BY <1>3, RetirementsEarned DEF LineageRetirement, BacklogRetirement
<1>5. CycleState(b, {R}) = "VERIFIED_RETIRED"
  BY <1>4 DEF CycleState
<1>6. b.signal \notin Current(b.ledger, b.retirements \cup {R})
  BY <1>4 DEF Current, Actionable, Deliverable, Unsettled, Retired
<1>7. b \notin Selections({b}, b.retirements \cup {R})
  BY <1>4 DEF Selections, Eligible, Open
<1>8. AuditCloses(c)
  BY <1>5, <1>6, <1>7 DEF AuditCloses, FinalProof, Snapshot, Resolution
<1> QED
  BY <1>3, <1>8 DEF Audited, AuditRebuilds, FinalProof

(* At any step of a successor and after a kill: every campaign has the       *)
(* receipt its retirement needs, what is retired was CURRENT and verified,   *)
(* the published counts reconcile, and the audit of a retired cycle passes   *)
(* ever after.                                                              *)
THEOREM LoopIsConsistent ==
    LoopSpec => []LoopConsistent
<1>1. ASSUME LoopInv
      PROVE  LoopConsistent
  <2>1. LoopTypeOK /\ CampaignHasReceipt
    BY <1>1 DEF LoopInv
  <2>2. RetirementIsEarned
    BY <1>1, RetirementsEarned DEF RetirementIsEarned
  <2>3. MissionReconciles
    <3>1. SUFFICES ASSUME mission # None
                   PROVE  LET shown == Shown(mission)
                              n == [k \in DOMAIN shown |-> Cardinality(shown[k])]
                          IN  /\ n.RETIRED + n.CYCLE_LIMIT + n.CONFLICTED + n.SUPERSEDED
                                    + n.OBSERVATION_ONLY + n.CURRENT + n.COOLDOWN
                                  = Cardinality(receipts[mission.cycle].ledger)
                              /\ n.CURRENT <= 1
                              /\ mission.state = "VERIFIED_RETIRED" =>
                                     mission.retirements \subseteq retirements
      BY DEF MissionReconciles
    <3> DEFINE b == receipts[mission.cycle]
    <3>2. b # None /\ IsReceipt(b) /\ mission.retirements \subseteq retirements
      BY <1>1, <3>1 DEF LoopInv, Projected, LoopTypeOK
    <3>3. b.ledger \in SUBSET Signals
      BY <3>2 DEF IsReceipt, IsBundle, IsCandidate, Ledgers
    <3>4. Shown(mission) = Resolution(b.ledger, b.retirements \cup mission.retirements)
      BY DEF Shown
    <3> DEFINE shown == Resolution(b.ledger, b.retirements \cup mission.retirements)
               n == [k \in DOMAIN shown |-> Cardinality(shown[k])]
    <3>5. /\ n.RETIRED + n.CYCLE_LIMIT + n.CONFLICTED + n.SUPERSEDED
                + n.OBSERVATION_ONLY + n.CURRENT + n.COOLDOWN
              = Cardinality(b.ledger)
          /\ n.CURRENT <= 1
      BY <3>3, OneStateEach
    <3> QED
      BY <3>2, <3>4, <3>5
  <2>4. AuditHolds
    BY <1>1, AuditPasses DEF AuditHolds
  <2> QED
    BY <2>1, <2>2, <2>3, <2>4 DEF LoopConsistent
<1> QED
  BY <1>1, LoopInvariant, PTL

(* No improvement that was verified is planned again, however it is observed *)
(* anew, and the projection never goes back, whichever run publishes last.   *)
THEOREM LoopGoesOn ==
    LoopSpec => LoopGoesForward
<1>1. ASSUME LoopInv, [LoopNext]_loopVars
      PROVE  [\A b \in planned' \ planned :
                 Subject(b.signal) \notin {r.subject : r \in retirements}]_loopVars
  <2>1. SUFFICES ASSUME NEW b \in planned' \ planned
                 PROVE  Subject(b.signal) \notin {r.subject : r \in retirements}
    OBVIOUS
  <2>2. planned' # planned
    BY <2>1
  <2>3. Plan
    BY <1>1, <2>2 DEF LoopNext, loopVars, Extract, Begin, Retire, Step, WriteReceipt, SubmitGoal,
       ArmState, KillSuccessor, Finish
  <2>4. b = goal /\ goal # None
    BY <2>1, <2>3 DEF Plan
  <2>5. PICK c \in Cycles : receipts[c] = b /\ b # None
    BY <1>1, <2>4 DEF LoopInv, CampaignHasReceipt, Candidates
  <2>6. b.signal \in Current(b.ledger, b.retirements) /\ b.retirements = retirements
    BY <1>1, <2>1, <2>5 DEF LoopInv, CyclesInTurn
  <2> QED
    BY <2>6, CurrentIsNew
<1>2. ASSUME LoopInv, [LoopNext]_loopVars
      PROVE  [mission # None =>
                 \/ mission'.cycle > mission.cycle
                 \/ /\ mission'.cycle = mission.cycle
                    /\ mission.state = "VERIFIED_RETIRED" => mission' = mission]_loopVars
  <2>1. SUFFICES ASSUME mission # None, mission' # mission
                 PROVE  \/ mission'.cycle > mission.cycle
                        \/ mission'.cycle = mission.cycle /\ mission.state # "VERIFIED_RETIRED"
    OBVIOUS
  <2>2. /\ mission.cycle \in Cycles /\ receipts[mission.cycle] # None
        /\ mission.state = "VERIFIED_RETIRED" => \E r \in retirements : r.cycle = mission.cycle
    BY <1>2, <2>1 DEF LoopInv, Projected
  <2>3. /\ Cycles \subseteq Nat /\ Carries /\ CyclesInTurn
        /\ \A r \in retirements : r.cycle \in project.armed
    BY <1>2 DEF LoopInv, Retirable, LineageRetirement, Cycles
  <2>4. ASSUME WriteReceipt
        PROVE  /\ mission'.cycle >= mission.cycle
               /\ mission'.cycle = mission.cycle => mission.state # "VERIFIED_RETIRED"
    <3>1. mission'.cycle = successor.cycle /\ successor.pc = "receipt"
      BY <2>4 DEF WriteReceipt, Snapshot
    <3>2. successor.cycle \in Cycles /\ successor.cycle \notin project.armed
      BY <2>3, <3>1 DEF Carries
    <3> DEFINE e == successor.cycle
               f == mission.cycle
    <3>3. ~(f > e)
      <4>1. SUFFICES ASSUME f > e
                     PROVE  FALSE
        OBVIOUS
      <4>2. e \in 1 .. f - 1
        BY <2>2, <2>3, <3>2, <4>1 DEF Cycles
      <4>3. Settled(e)
        BY <2>2, <2>3, <4>2 DEF CyclesInTurn
      <4> QED
        BY <3>2, <4>3 DEF Settled
    <3>4. f = e => mission.state # "VERIFIED_RETIRED"
      BY <2>2, <2>3, <3>2
    <3>5. e \in Nat /\ f \in Nat
      BY <2>2, <2>3, <3>2
    <3>6. mission'.cycle = e
      BY <3>1
    <3> HIDE DEF e, f
    <3>7. e >= f
      BY <3>3, <3>5
    <3> QED
      BY <3>4, <3>6, <3>7 DEF f
  <2>5. ASSUME NEW c \in Cycles, Retire(c)
        PROVE  /\ mission'.cycle >= mission.cycle
               /\ mission'.cycle = mission.cycle => mission.state # "VERIFIED_RETIRED"
    <3>1. mission'.cycle = c /\ RetireDue(c) /\ Proves(c)
      BY <2>5 DEF Retire, FinalProof, Snapshot
    <3>2. mission.cycle <= c
      BY <1>2, <2>2, <3>1, NothingBesides
    <3>3. mission.cycle = c => mission.state # "VERIFIED_RETIRED"
      BY <2>2, <3>1 DEF RetireDue
    <3> QED
      BY <2>2, <2>3, <3>1, <3>2, <3>3
  <2>6. WriteReceipt \/ \E c \in Cycles : Retire(c)
    BY <1>2, <2>1 DEF LoopNext, loopVars, Extract, Begin, Step, SubmitGoal, ArmState,
       KillSuccessor, Plan, Finish
  <2>7. mission'.cycle \in Nat /\ mission.cycle \in Nat
    <3>1. successor.pc = "receipt" => successor.cycle \in Nat
      BY <2>3 DEF Carries
    <3>2. WriteReceipt => mission'.cycle \in Nat
      BY <3>1 DEF WriteReceipt, Snapshot
    <3>3. ASSUME NEW c \in Cycles, Retire(c)
          PROVE  mission'.cycle \in Nat
      <4>1. mission'.cycle = c
        BY <3>3 DEF Retire, FinalProof, Snapshot
      <4> QED
        BY <2>3, <4>1
    <3> QED
      BY <2>2, <2>3, <2>6, <3>2, <3>3
  <2> QED
    BY <2>4, <2>5, <2>6, <2>7
<1>3. LoopSpec => NoRecurrence
  BY <1>1, LoopInvariant, PTL DEF LoopSpec, NoRecurrence
<1>4. LoopSpec => MissionGoesForward
  BY <1>2, LoopInvariant, PTL DEF LoopSpec, MissionGoesForward
<1> QED
  BY <1>3, <1>4 DEF LoopGoesForward
=============================================================================
