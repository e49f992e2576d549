-------------------------- MODULE ReleasePromotion --------------------------
(***************************************************************************)
(* From a verified campaign to a verified environment (release_*.py).       *)
(*                                                                         *)
(* A completed campaign whose merge was verified is evidence for a release  *)
(* candidate; a candidate and the next environment make a transition, which *)
(* a human approves; an approved transition is deployed through a trusted   *)
(* adapter under a durable receipt ARMED, DISPATCHED, DEPLOYED; the          *)
(* deployment is verified in its own right, and a failure gives the campaign *)
(* back to a human.                                                         *)
(*                                                                         *)
(* The library functions are pure; whoever calls them commits their result. *)
(* A durable write is one commit and one action here, and a run may be       *)
(* killed between any two, which loses what `run' holds.  Fingerprints bind  *)
(* every field of a value, so a value is its own fingerprint: the campaign's *)
(* version stands for the evidence of its candidate, the pair of version and *)
(* target environment for the transition, the pair of transition and        *)
(* registry for the idempotency key and for the deployment made under it.    *)
(***************************************************************************)
EXTENDS Naturals, FiniteSets

CONSTANTS
    Sources,        \* source commits a campaign may end on
    MaxVersions,    \* bound: campaigns, counting a resumed one again
    Stages,         \* how many of the three environments are considered
    MaxRegistries,  \* bound: contents the adapter registry ever has
    MaxRequests     \* bound: approval requests ever filed

ASSUME PromotionConstants ==
    /\ MaxVersions \in Nat /\ Stages \in 1..3 /\ MaxRegistries \in Nat \ {0}
    /\ MaxRequests \in Nat

Versions == 1..MaxVersions
Environments == 1..Stages       \* preview, staging, production
Registries == 1..MaxRegistries
Transitions == [version : Versions, to : Environments]
Keys == [transition : Transitions, registry : Registries]
CONSTANT Nobody                 \* no source, no key, nothing of ours live

NoRun == [step |-> "idle"]

VARIABLES
    campaign,   \* campaign.json with the receipt of its last merge
    sourceOf,   \* the commit each completed campaign ended on
    decision,   \* decisions.json: what became of each approval request
    registry,   \* the adapter registry's content
    receipt,    \* the deployment receipt of each transition
    check,      \* the runtime receipt of each deployment's own verification
    outcome,    \* the last finalisation of each transition
    live,       \* the target: what each environment runs
    made,       \* the target: every deployment ever made, by key
    seen,       \* history: deployments a run observed to be live
    run         \* what the running controller holds in memory

durable == <<campaign, sourceOf, decision, receipt, check, outcome>>
target == <<registry, live, made>>
vars == <<durable, target, seen, run>>

NoReceipt == [status |-> "NONE", registry |-> 0, id |-> Nobody]
\* The answers to an approval request, and what stands when there is none yet.
Decisions == {"NONE", "OPEN", "approve", "reject", "text"}

Receipts ==
    {NoReceipt}
        \cup [status : {"ARMED", "DISPATCHED"}, registry : Registries, id : {Nobody}]
        \cup [status : {"DEPLOYED"}, registry : Registries, id : Keys]
Checks == {"NONE", "ARMED", "DISPATCHED", "VERIFIED", "HUMAN_WAIT"}
Outcomes == {"NONE", "PENDING", "VERIFIED", "HUMAN_WAIT"}
Reports == {"VERIFIED", "PENDING", "FAILED"}
Runs ==
    {NoRun}
        \cup [step : {"deployed", "located"}, of : Transitions, id : Keys]
        \cup [step : {"reported"}, of : Transitions, id : Keys,
              report : Reports]

TypeOK ==
    /\ campaign \in [version : 0..MaxVersions, proven : BOOLEAN,
                     status : {"NONE", "RUNNING", "COMPLETED", "HUMAN_WAIT"}]
    /\ sourceOf \in [Versions -> Sources \cup {Nobody}]
    /\ decision \in [Transitions -> Decisions]
    /\ registry \in Registries
    /\ receipt \in [Transitions -> Receipts]
    /\ check \in [Transitions -> Checks]
    /\ outcome \in [Transitions -> Outcomes]
    /\ live \in [Environments -> Keys \cup {Nobody}]
    /\ made \subseteq Keys
    /\ seen \subseteq Keys
    /\ run \in Runs

Init ==
    /\ campaign = [version |-> 0, proven |-> FALSE, status |-> "NONE"]
    /\ sourceOf = [v \in Versions |-> Nobody]
    /\ decision = [t \in Transitions |-> "NONE"]
    /\ registry = 1
    /\ receipt = [t \in Transitions |-> NoReceipt]
    /\ check = [t \in Transitions |-> "NONE"]
    /\ outcome = [t \in Transitions |-> "NONE"]
    /\ live = [e \in Environments |-> Nobody]
    /\ made = {} /\ seen = {}
    /\ run = NoRun
-----------------------------------------------------------------------------
(***************************************************************************)
(* The campaign that feeds the releases (its own modules say how it gets    *)
(* there): one starts, completes on a commit, and that merge is verified or *)
(* contained.  A contained or a finished campaign is followed by another.   *)
(***************************************************************************)
CampaignStarts ==
    /\ campaign.status # "RUNNING" /\ campaign.version < MaxVersions
    /\ campaign' = [version |-> campaign.version + 1, proven |-> FALSE, status |-> "RUNNING"]
    /\ UNCHANGED <<sourceOf, decision, receipt, check, outcome, target, seen, run>>

CampaignCompletes ==
    /\ campaign.status = "RUNNING"
    /\ campaign' = [campaign EXCEPT !.status = "COMPLETED"]
    /\ \E s \in Sources : sourceOf' = [sourceOf EXCEPT ![campaign.version] = s]
    /\ UNCHANGED <<decision, receipt, check, outcome, target, seen, run>>

MergeVerdict ==
    /\ campaign.status = "COMPLETED" /\ ~campaign.proven
    /\ \/ campaign' = [campaign EXCEPT !.proven = TRUE]
       \/ campaign' = [campaign EXCEPT !.status = "HUMAN_WAIT"]
    /\ UNCHANGED <<sourceOf, decision, receipt, check, outcome, target, seen, run>>
-----------------------------------------------------------------------------
(***************************************************************************)
(* derive_release_readiness: the campaign is COMPLETED with every task of   *)
(* its plan, and the receipt of its last task is the VERIFIED one of this   *)
(* very commit.  plan_release_transition: the candidate's target is the      *)
(* environment after the one verified last; production is terminal.  Which   *)
(* one that is the caller says, and nothing keeps it to compare: the one     *)
(* caller of the repository, v1_8_release_proof_prepare.py, always says none. *)
(***************************************************************************)
Ready == campaign.status = "COMPLETED" /\ campaign.proven

NextEnvironment(last, e) == e = last + 1

Planned(last, t) == NextEnvironment(last, t.to)

\* The request is filed once and is open until answered.
Prepare(t) ==
    /\ t.version = campaign.version /\ Ready
    /\ \E last \in 0..Stages : Planned(last, t)
    /\ decision[t] = "NONE"
    /\ Cardinality({u \in Transitions : decision[u] # "NONE"}) < MaxRequests
    /\ decision' = [decision EXCEPT ![t] = "OPEN"]
    /\ UNCHANGED <<campaign, sourceOf, receipt, check, outcome, target, seen, run>>

\* DecisionStore.resolve: an open request is answered once, by an option or by free text.
Answer(t) ==
    /\ decision[t] = "OPEN"
    /\ \E a \in {"approve", "reject", "text"} : decision' = [decision EXCEPT ![t] = a]
    /\ UNCHANGED <<campaign, sourceOf, receipt, check, outcome, target, seen, run>>

\* evaluate_release_approval: only the option counts, and only of this transition's request.
Approved(t) == decision[t] = "approve"
-----------------------------------------------------------------------------
(***************************************************************************)
(* release_deployment.py.  Every run arms first: a receipt that is there    *)
(* must be of the same key, which the registry is part of.                  *)
(***************************************************************************)
KeyOf(t) == [transition |-> t, registry |-> registry]

ReceiptAnyRegistry(t) == TRUE           \* mutant: the registry is left out of the identity
ReceiptMatches(t) == receipt[t].registry = registry

ToArm(t) == receipt[t] = NoReceipt

Arm(t) ==
    /\ run = NoRun /\ Approved(t) /\ ToArm(t)
    /\ receipt' = [receipt EXCEPT ![t] = [status |-> "ARMED", registry |-> registry, id |-> Nobody]]
    /\ UNCHANGED <<campaign, sourceOf, decision, check, outcome, target, seen, run>>

Dispatch(t) ==
    /\ run = NoRun /\ Approved(t) /\ receipt[t].status = "ARMED" /\ ReceiptMatches(t)
    /\ receipt' = [receipt EXCEPT ![t].status = "DISPATCHED"]
    /\ UNCHANGED <<campaign, sourceOf, decision, check, outcome, target, seen, run>>

\* The adapter is given the key and makes one deployment for it, however often it is called.
Execute(t) ==
    /\ run = NoRun /\ receipt[t].status = "DISPATCHED" /\ ReceiptMatches(t)
    /\ made' = made \cup {KeyOf(t)}
    /\ live' = IF KeyOf(t) \in made THEN live ELSE [live EXCEPT ![t.to] = KeyOf(t)]
    /\ run' = [step |-> "deployed", of |-> t, id |-> KeyOf(t)]
    /\ UNCHANGED <<durable, registry, seen>>

Deployed(r, id) == [r EXCEPT !.status = "DEPLOYED", !.id = id]

Observe(t) ==
    /\ run.step = "deployed" /\ run.of = t
    /\ receipt[t].status = "DISPATCHED" /\ ReceiptMatches(t)
    /\ receipt' = [receipt EXCEPT ![t] = Deployed(receipt[t], run.id)]
    /\ run' = NoRun
    /\ UNCHANGED <<campaign, sourceOf, decision, check, outcome, target, seen>>
-----------------------------------------------------------------------------
(***************************************************************************)
(* release_post_verification.py, over the probes and targets of Runtime     *)
(* verification.  The target's evidence and the report live in the run.      *)
(***************************************************************************)
ArmCheck(t) ==
    /\ run = NoRun /\ receipt[t].status = "DEPLOYED" /\ check[t] = "NONE"
    /\ check' = [check EXCEPT ![t] = "ARMED"]
    /\ UNCHANGED <<campaign, sourceOf, decision, receipt, outcome, target, seen, run>>

DispatchCheck(t) ==
    /\ run = NoRun /\ check[t] = "ARMED"
    /\ check' = [check EXCEPT ![t] = "DISPATCHED"]
    /\ UNCHANGED <<campaign, sourceOf, decision, receipt, outcome, target, seen, run>>

\* The registry resolves a target only of the contract's source commit.
Locate(t) ==
    /\ run = NoRun /\ check[t] = "DISPATCHED" /\ live[t.to] # Nobody
    /\ sourceOf[live[t.to].transition.version] = sourceOf[t.version]
    /\ run' = [step |-> "located", of |-> t, id |-> live[t.to]]
    /\ seen' = seen \cup {live[t.to]}
    /\ UNCHANGED <<durable, target>>

Probe ==
    /\ run.step = "located"
    /\ \E r \in Reports :
           run' = [step |-> "reported", of |-> run.of, id |-> run.id, report |-> r]
    /\ UNCHANGED <<durable, target, seen>>

TargetOfSource(t, id) == TRUE           \* mutant: the same commit is taken for the same deployment
TargetMatches(t, id) == id = receipt[t].id

Disposition(report) == IF report = "FAILED" THEN "HUMAN_WAIT" ELSE report

KeptCompleted(d) == campaign.status     \* mutant: a failed release leaves the campaign COMPLETED
CampaignAfter(d) == IF d = "HUMAN_WAIT" THEN d ELSE campaign.status

\* Only of a COMPLETED campaign, which a failure gives back to a human.
Finalize(t) ==
    /\ run.step = "reported" /\ run.of = t
    /\ check[t] = "DISPATCHED" /\ TargetMatches(t, run.id)
    /\ campaign.status = "COMPLETED" /\ campaign.version = t.version
    /\ LET d == Disposition(run.report) IN
       /\ outcome' = [outcome EXCEPT ![t] = d]
       /\ check' = [check EXCEPT ![t] = IF d = "PENDING" THEN @ ELSE d]
       /\ campaign' = [campaign EXCEPT !.status = CampaignAfter(d)]
    /\ run' = NoRun
    /\ UNCHANGED <<sourceOf, decision, receipt, target, seen>>
-----------------------------------------------------------------------------
(***************************************************************************)
(* The environment: a run is killed or refuses what it holds, the registry  *)
(* is changed, an environment is redeployed by other means.                 *)
(***************************************************************************)
Kill ==
    /\ run # NoRun
    /\ run' = NoRun
    /\ UNCHANGED <<durable, target, seen>>

NewRegistry ==
    /\ registry < MaxRegistries
    /\ registry' = registry + 1
    /\ UNCHANGED <<durable, live, made, seen, run>>

Replaced(e) ==
    /\ live[e] # Nobody
    /\ live' = [live EXCEPT ![e] = Nobody]
    /\ UNCHANGED <<durable, registry, made, seen, run>>

Next ==
    \/ CampaignStarts \/ CampaignCompletes \/ MergeVerdict
    \/ \E t \in Transitions :
           \/ Prepare(t) \/ Answer(t)
           \/ Arm(t) \/ Dispatch(t) \/ Execute(t) \/ Observe(t)
           \/ ArmCheck(t) \/ DispatchCheck(t) \/ Locate(t) \/ Finalize(t)
    \/ Probe \/ Kill \/ NewRegistry
    \/ \E e \in Environments : Replaced(e)

Spec == Init /\ [][Next]_vars
-----------------------------------------------------------------------------
(***************************************************************************)
(* build_release_observability_snapshot: what Mission Control shows of a    *)
(* transition, from the finest evidence there is.                           *)
(***************************************************************************)
View(t) ==
    IF outcome[t] = "PENDING" THEN "VERIFYING"
    ELSE IF outcome[t] # "NONE" THEN outcome[t]
    ELSE IF receipt[t].status # "NONE"
    THEN [ARMED |-> "DEPLOYMENT_ARMED", DISPATCHED |-> "DEPLOYING",
          DEPLOYED |-> "DEPLOYED_AWAITING_VERIFICATION"][receipt[t].status]
    ELSE [NONE |-> "CANDIDATE_READY", OPEN |-> "AWAITING_APPROVAL", text |-> "AWAITING_APPROVAL",
          approve |-> "APPROVED", reject |-> "REJECTED"][decision[t]]

Rank == [CANDIDATE_READY |-> 0, AWAITING_APPROVAL |-> 1, APPROVED |-> 2, REJECTED |-> 9,
         DEPLOYMENT_ARMED |-> 3, DEPLOYING |-> 4, DEPLOYED_AWAITING_VERIFICATION |-> 5,
         VERIFYING |-> 6, VERIFIED |-> 9, HUMAN_WAIT |-> 9]
-----------------------------------------------------------------------------
\* Whatever was killed and repeated, and whatever became of the registry in between, a
\* transition is deployed at most once, and only one that a human approved by the option
\* (arm_release_deployment, execute_trusted_release_deployment).
DeployedOnceAsApproved ==
    /\ \A k \in made : decision[k.transition] = "approve"
    /\ \A k, l \in made : k.transition = l.transition => k = l

\* A promotion counts as verified only if a run saw the very deployment its receipt names
\* serving the environment, not another one of the same commit (_validate_target_resolution).
VerdictNamesItsDeployment ==
    \A t \in Transitions : outcome[t] = "VERIFIED" =>
        receipt[t].id \in seen /\ receipt[t].id.transition = t

\* What is shown of a promotion never goes back, and ends where it ends: a finished, failed
\* or rejected one stays so (the durable receipts against every rerun and answer).
ViewNeverRegresses ==
    [][\A t \in Transitions : View(t)' # View(t) => Rank[View(t)] < Rank[View(t)']]_vars

\* Once a campaign's release failed in an environment, that campaign is evidence for nothing
\* more, in whatever order its environments were asked for: no further promotion of it is
\* requested, and none that is on its way is verified any more, however its own probes ended
\* (contain_runtime_verification_failure against readiness and every later finalisation).
ContainmentStands ==
    [][\A t, u \in Transitions : outcome[t] = "HUMAN_WAIT" /\ u.version = t.version =>
           /\ decision[u] = "NONE" => decision'[u] = "NONE"
           /\ outcome'[u] = "VERIFIED" => outcome[u] = "VERIFIED"]_vars

\* A promotion only moves forward, and a campaign that was contained carries nothing on: no
\* rerun, late answer, late report or redeployed environment gives back what a verdict took.
NothingGoesBack == ContainmentStands /\ ViewNeverRegresses

=============================================================================
