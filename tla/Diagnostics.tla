----------------------------- MODULE Diagnostics ------------------------------
(***************************************************************************)
(* difficulty/scheduling.py, difficulty/suites.py and difficulty/atlas.py:  *)
(* values that a caller threads through calls.  Which diagnostic work is    *)
(* scheduled on which budget; which suite a case is bound to and how a      *)
(* sealed cohort is used up; what enters a Published Failure Atlas.  An      *)
(* operation that raises returns Refused.                                    *)
(***************************************************************************)
EXTENDS Integers, SequencesExt, FiniteSetsExt

CONSTANTS None, Refused

-----------------------------------------------------------------------------
(* Scheduling *)

ProtectedBudgets == {"standing", "invalid-replacements", "diagnostics", "counterfactuals",
                     "promoted-regression", "sealed", "contingency"}

\* BudgetEnvelope
Remaining(budget, category) == budget.limits[category] - budget.spent[category]
Reserve(budget, category, amount) ==
    IF category \notin ProtectedBudgets \/ amount < 0 \/ amount > Remaining(budget, category)
    THEN Refused
    ELSE [budget EXCEPT !.spent[category] = @ + amount]

\* SealedCohortHandle
Handle(id, cost) == [id |-> id, cost |-> cost]

\* EvidenceWorkPackage: vector is its priority_vector without cost and latency,
\* complete says that all seven parts of the evidence are there.
WorkPackage(id, category, complete, level, required, vector, cost, latency, handle) ==
    [id |-> id, category |-> category, complete |-> complete, level |-> level,
     required |-> required, vector |-> vector, cost |-> cost, latency |-> latency,
     handle |-> handle]
PriorityVector(package) ==
    Append(Append(package.vector, 0 - package.cost), 0 - package.latency)

\* Mutant: a package may spend any protected budget.
AffordableAnywhere(package, budget) ==
    package.category \in ProtectedBudgets /\ package.cost <= Remaining(budget, package.category)
Affordable(package, budget) ==
    /\ package.category \in ProtectedBudgets \ {"standing", "invalid-replacements"}
    /\ package.cost <= Remaining(budget, package.category)
SealedProperly(package, handles, used) ==
    package.handle # None =>
       /\ package.category = "sealed"
       /\ package.handle \notin used
       /\ \E h \in handles : h.id = package.handle /\ h.cost = package.cost
Eligible(package, budget, handles, used) ==
    /\ package.complete
    /\ package.level >= package.required
    /\ Affordable(package, budget)
    /\ SealedProperly(package, handles, used)

\* The lexicographic order of priority vectors; the lesser id breaks a tie.
Precedes(v, w) ==
    \E i \in DOMAIN v : v[i] > w[i] /\ \A j \in 1..(i - 1) : v[j] = w[j]
GoesFirst(p, q) ==
    \/ Precedes(PriorityVector(p), PriorityVector(q))
    \/ PriorityVector(p) = PriorityVector(q) /\ p.id < q.id

\* What the reasons of a rejection say of a budget, in words that hold the word.
SpeaksOfBudget(package, budget) ==
    \/ ~Affordable(package, budget)
    \/ package.handle # None /\ package.category # "sealed"

\* schedule_diagnostic_work
Schedule(packages, budget, handles, used) ==
    LET eligible == {p \in packages : Eligible(p, budget, handles, used)}
    IN IF eligible = {}
       THEN [selected |-> None, budget |-> budget,
             stop |-> IF \E p \in packages : SpeaksOfBudget(p, budget)
                      THEN "unresolved-budget" ELSE "saturated"]
       ELSE LET first == CHOOSE p \in eligible : \A q \in eligible \ {p} : GoesFirst(p, q)
            IN [selected |-> first, budget |-> Reserve(budget, first.category, first.cost),
                stop |-> "scheduled"]

-----------------------------------------------------------------------------
(* Suites *)

EvaluationSuites == {"generated-challenge", "sealed-standing"}
Suites == {"development"} \cup EvaluationSuites

\* ChallengeAdmission: the designer, two solvers and a reviewer, all different.
Admission(case, designer, solvers, reviewer, gates) ==
    IF Cardinality({designer, reviewer} \cup Range(solvers)) # 4 THEN Refused
    ELSE [case |-> case, admitted |-> gates]

SuiteBinding(case, suite, admission, independent, source) ==
    IF suite = "sealed-standing" /\ ~independent THEN Refused
    ELSE [case |-> case, suite |-> suite, admission |-> admission,
          independent |-> independent, source |-> source]

\* SuiteRegistry: the bindings in order, of which the last of a case counts.
CurrentBinding(registry, case) ==
    LET of == {i \in DOMAIN registry : registry[i].case = case}
    IN IF of = {} THEN None ELSE registry[Max(of)]

Bind(registry, case, suite, admission, independent) ==
    LET binding == SuiteBinding(case, suite, admission, independent, None)
    IN IF \/ CurrentBinding(registry, case) # None
          \/ /\ suite \in EvaluationSuites
             /\ admission = None \/ admission.case # case \/ ~admission.admitted
          \/ binding = Refused
       THEN Refused ELSE Append(registry, binding)

RetireExposedSealed(registry, case) ==
    LET current == CurrentBinding(registry, case)
    IN IF current = None \/ current.suite # "sealed-standing" THEN Refused
       ELSE Append(registry, SuiteBinding(case, "development", current.admission, FALSE, current))

\* SealedCohort.consume
Consume(cohort, attempt) ==
    IF cohort.consumed # None THEN Refused ELSE [cohort EXCEPT !.consumed = attempt]

-----------------------------------------------------------------------------
(* The Failure Atlas *)

\* An AtlasRevisionProposal of a class version; gates are those of
\* evaluate_atlas_proposal that hold of it besides the two computed here, and
\* "minimal-reproduction" when the class has one.
Proposal(id, parent, version, class, change, sources, curator, contributors, stage, incidents, lineages, axes, gates) ==
    [id |-> id, parent |-> parent, version |-> version, class |-> class, change |-> change,
     sources |-> sources, curator |-> curator, contributors |-> contributors, stage |-> stage,
     incidents |-> incidents, lineages |-> lineages, axes |-> axes, gates |-> gates]

ContentGates == {"definition-complete", "adjacent-distinctions", "counterexamples",
                 "rerunnable-measurement", "positive-fixture", "non-manifesting-control",
                 "support-refute-unresolved-preserved", "sealed-non-regression",
                 "complete-lineage"}
StageEvidence(proposal) ==
    CASE proposal.stage = "proposed" -> proposal.incidents >= 1
      [] proposal.stage = "experimental" ->
            "minimal-reproduction" \in proposal.gates \/ proposal.lineages >= 2
      [] proposal.stage = "promoted" ->
            \/ "minimal-reproduction" \in proposal.gates
            \/ proposal.lineages >= 3 /\ proposal.axes >= 2
GatesHolding(proposal) ==
    (proposal.gates \cap ContentGates)
    \cup (IF StageEvidence(proposal) THEN {"stage-evidence"} ELSE {})
    \cup (IF proposal.curator \notin proposal.contributors THEN {"principal-independence"} ELSE {})
AllGates == ContentGates \cup {"stage-evidence", "principal-independence"}
RequiredGates(stage) ==
    CASE stage = "proposed" ->
            {"principal-independence", "stage-evidence", "definition-complete",
             "complete-lineage"}
      [] stage = "experimental" ->
            {"principal-independence", "stage-evidence", "definition-complete",
             "adjacent-distinctions", "counterexamples", "rerunnable-measurement",
             "complete-lineage"}
      [] stage = "promoted" -> AllGates

\* evaluate_atlas_proposal
EvaluateProposal(proposal) ==
    [proposal |-> proposal.id, gates |-> GatesHolding(proposal),
     eligible |-> RequiredGates(proposal.stage) \subseteq GatesHolding(proposal)]

\* review_atlas_proposal, and AtlasReview, which lets nobody accept over a failed
\* gate - required of the stage or not.
ReviewProposal(proposal, eligibility, reviewer, accept) ==
    LET decision == IF accept /\ eligibility.eligible THEN "accept" ELSE "reject"
    IN IF \/ reviewer \in {proposal.curator} \cup proposal.contributors
          \/ eligibility.proposal # proposal.id
          \/ decision = "accept" /\ eligibility.gates # AllGates
       THEN Refused
       ELSE [proposal |-> proposal.id, reviewer |-> reviewer, decision |-> decision]

\* Of which classes the proposed one is a change, and which.
LinksOf(proposal) ==
    IF proposal.change = "add" THEN << >>
    ELSE [i \in DOMAIN proposal.sources |->
            <<proposal.sources[i], proposal.class, proposal.change>>]

\* publish_atlas_revision.  Whose eligibility and whose review it is handed, it does
\* not ask.
Publish(atlas, proposal, eligibility, review, receipt) ==
    IF \/ proposal.parent # atlas
       \/ ~eligibility.eligible \/ review.decision # "accept"
       \/ proposal.stage # "promoted" \/ proposal.class \in atlas.classes
    THEN Refused
    ELSE [version |-> proposal.version, parent |-> atlas,
          classes |-> atlas.classes \cup {proposal.class},
          links |-> atlas.links \o LinksOf(proposal), receipt |-> receipt]
=============================================================================
