------------------------------- MODULE Hardening -------------------------------
(***************************************************************************)
(* difficulty/hardening.py: from a corroborated failure to a child Release   *)
(* that is harder for the right reason.  A failure is routed to hardening,   *)
(* repair or quarantine; thirteen transitions then read the evidence in      *)
(* order, and the first that objects ends the demonstration.  A digest of a  *)
(* value is the value; the edges of the required lineage are its positions.  *)
(***************************************************************************)
EXTENDS Diagnostics

HardeningStages ==
    <<"baseline-eligibility", "failure-analysis", "failure-routing", "class-promotion",
      "requirement-freeze", "child-generation", "challenge-preflight", "matched-remeasurement",
      "target-comparison", "challenge-admission", "sealed-non-regression",
      "independent-review", "hardening-transition">>
RequiredLineage == 1..28
StageEdges ==
    <<1..3, 4..13, {}, {14}, {15}, 16..17, {18}, 19..21, 22..23, 24..25, {26}, {27}, {28}>>
HardeningLayers == {"agent-capability", "coordination"}
RepairLayers == {"game", "artifact", "runtime", "provider", "evaluator"}
ForbiddenMutations ==
    {"contradiction", "ambiguity", "impossibility", "hidden-required-action",
     "authorization-gap", "answer-bearing-hint", "runtime-degradation", "evaluator-change"}

-----------------------------------------------------------------------------
(* The evidence *)

\* FailureEvidenceSummary: contrasts counts its successful Contrasts.
Summary(finding, corroborated, principals, status, causes, defects, contrasts, open, controlled) ==
    IF Cardinality(Range(principals)) # 2 THEN Refused
    ELSE [finding |-> finding, corroborated |-> corroborated, status |-> status,
          causes |-> causes, defects |-> defects, contrasts |-> contrasts, open |-> open,
          controlled |-> controlled]

\* route_failure: there is no favourable default.
RouteOf(summary) ==
    CASE summary.defects \cap RepairLayers # {} -> "repair"
      [] OTHER ->
         IF \/ ~summary.corroborated
            \/ summary.status \notin {"accepted", "partially-attributed"}
            \/ summary.contrasts < 2
            \/ ~(summary.open \subseteq summary.controlled)
         THEN "quarantine"
         ELSE IF summary.causes \cap HardeningLayers = {} THEN "repair" ELSE "harden"
RouteFailure(summary) == [route |-> RouteOf(summary), evidence |-> summary]

\* TaskHardeningRequirement
Requirement(class, finding, target, allowed, selected, lineage) ==
    IF selected \cap ForbiddenMutations # {} \/ ~(selected \subseteq allowed) \/ lineage = {}
    THEN Refused
    ELSE [class |-> class, finding |-> finding, target |-> target, allowed |-> allowed,
          selected |-> selected, lineage |-> lineage]

\* ChallengePreflight: whether all its gates hold, which artifacts are expected and
\* which attested - accepted or not - and six principals.
Preflight(child, gates, expected, attested, principals, findings) ==
    IF DOMAIN attested # expected \/ Cardinality(Range(principals)) # 6 THEN Refused
    ELSE [child |-> child, gates |-> gates, attested |-> attested, findings |-> findings]
PreflightEligible(preflight) ==
    /\ preflight.gates /\ preflight.findings = {}
    /\ \A artifact \in DOMAIN preflight.attested : preflight.attested[artifact]

\* MatchedHardeningComparison: targeted and control are intervals of a difference.
ComparisonEligible(comparison) ==
    /\ comparison.panels[1] = comparison.panels[2]
    /\ comparison.instruments[1] = comparison.instruments[2]
    /\ comparison.complete /\ ~comparison.countsInvalid
    /\ comparison.dominance = "child-dominates"
    /\ comparison.classification = "supported-target-band"
    /\ comparison.targeted[1] > 0
    /\ comparison.control[1] <= 0 /\ 0 <= comparison.control[2]
    /\ comparison.gates /\ comparison.noRegression

\* FinalChallengeAdmission
AdmissionEligible(admission) ==
    admission.suite = "generated-challenge" /\ admission.binding # None

\* SealedGovernanceEvidence: the cohort is spent only when the framework changed.
SealedEligible(sealed) ==
    /\ ~sealed.exposed /\ sealed.result = "pass"
    /\ IF sealed.parent = sealed.child
       THEN sealed.qualification # None /\ sealed.cohort = None
       ELSE sealed.cohort # None /\ sealed.consumedOnce

\* HardeningReview
ReviewEligible(review) ==
    /\ review.reviewer \notin review.contributors
    /\ review.decision = "accept" /\ ~review.mutated /\ review.gates

-----------------------------------------------------------------------------
(* run_hardening_demonstration *)

\* Mutant: the admission may be of another comparison.
AdmissionOfPreflight(admission, evidence) ==
    /\ admission.preflight = evidence.preflight
    /\ admission.child = evidence.child
    /\ AdmissionEligible(admission)
AdmissionBinds(admission, evidence) ==
    /\ admission.preflight = evidence.preflight
    /\ admission.comparison = evidence.comparison
    /\ admission.child = evidence.child
    /\ AdmissionEligible(admission)

RejectUnless(holds) == IF holds THEN "passed" ELSE "rejected"
StatusOfRoute(route) ==
    CASE route = "repair" -> "repair-required"
      [] route = "quarantine" -> "quarantined"
      [] OTHER -> "passed"

\* What each transition makes of the evidence.
StageStatus(contract, evidence, stage) ==
    CASE stage = "baseline-eligibility" ->
            RejectUnless(/\ evidence.baselineValid /\ evidence.baselineComplete
                         /\ evidence.baselinePanel = contract.panel
                         /\ evidence.baselineInstrument = contract.instrument)
      [] stage = "failure-analysis" ->
            IF evidence.failure.corroborated THEN "passed" ELSE "quarantined"
      [] stage = "failure-routing" ->
            IF evidence.route # RouteFailure(evidence.failure) THEN "rejected"
            ELSE StatusOfRoute(evidence.route.route)
      [] stage = "class-promotion" ->
            RejectUnless(/\ evidence.classStage = "promoted" /\ evidence.classFixtures
                         /\ evidence.classAtlas = contract.atlas)
      [] stage = "requirement-freeze" ->
            RejectUnless(/\ evidence.requirement.class = evidence.class
                         /\ evidence.requirement.target = contract.target
                         /\ evidence.requirement.finding = evidence.failure.finding)
      [] stage = "child-generation" ->
            RejectUnless(/\ evidence.builder # evidence.reviewer
                         /\ evidence.preflight.child = evidence.child)
      [] stage = "challenge-preflight" -> RejectUnless(PreflightEligible(evidence.preflight))
      [] stage = "matched-remeasurement" ->
            RejectUnless(/\ evidence.childMeasured /\ evidence.childPanel = contract.panel
                         /\ evidence.childInstrument = contract.instrument)
      [] stage = "target-comparison" ->
            RejectUnless(/\ ComparisonEligible(evidence.comparison)
                         /\ evidence.comparison.target = contract.target)
      [] stage = "challenge-admission" ->
            RejectUnless(AdmissionBinds(evidence.admission, evidence))
      [] stage = "sealed-non-regression" -> RejectUnless(SealedEligible(evidence.sealed))
      [] stage = "independent-review" -> RejectUnless(ReviewEligible(evidence.review))
      [] stage = "hardening-transition" -> "passed"

\* _stage_receipt: its route is known once the route is taken to be the right one.
StageReceipt(contract, evidence, i, status) ==
    [stage |-> i, status |-> status,
     route |-> IF \/ i < 3
                  \/ evidence.route # RouteFailure(evidence.failure)
               THEN None ELSE evidence.route.route,
     edges |-> IF status = "passed" THEN StageEdges[i] \cap evidence.edges ELSE {}]

\* The whole run; a lineage that turns out to have gaps is found out after the last
\* transition, which then has a second receipt.
RunHardening(contract, evidence) ==
    LET status == [i \in DOMAIN HardeningStages |->
                      StageStatus(contract, evidence, HardeningStages[i])]
        halts == {i \in DOMAIN status : status[i] # "passed"}
        last == IF halts = {} THEN 13 ELSE Min(halts)
        receipts == [i \in 1..last |-> StageReceipt(contract, evidence, i, status[i])]
        recorded == UNION {receipts[i].edges : i \in 1..last}
        Result(s, rs) == [status |-> s, route |-> Last(receipts).route, receipts |-> rs,
                          edges |-> recorded]
    IN IF halts # {} THEN Result(status[last], receipts)
       ELSE IF contract.required \subseteq recorded THEN Result("accepted", receipts)
       ELSE Result("rejected",
                   Append(receipts, StageReceipt(contract, evidence, 13, "rejected")))
=============================================================================
