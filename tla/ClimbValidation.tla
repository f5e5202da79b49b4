--------------------------- MODULE ClimbValidation ----------------------------
(***************************************************************************)
(* climb/validation.py: validate_climb_bundle, one predicate for each kind  *)
(* of record.  A bundle is the sequence of records of the ledger; it is     *)
(* closed when the code would report no finding.  Checks that a reference   *)
(* is spelt like a SHA-256 digest, or a text is not blank, are left out.    *)
(***************************************************************************)
EXTENDS ClimbRecords

Collection(bundle, kind) ==
    {bundle[i] : i \in {n \in DOMAIN bundle : bundle[n].record = kind}}

Kinds == {"experiment_plan", "authority", "instrument", "task", "model_receipt",
          "human_receipt", "exposure", "finding", "requirement", "evaluation",
          "proposal", "human_review", "agent_review", "transition", "standing",
          "trial_binding", "selection", "playtest_protocol", "playtest_run",
          "evidence_comparison"}

\* _kind_and_id
SameId(a, b) ==
    /\ a.record = b.record
    /\ IF a.record = "authority" THEN a.id = b.id ELSE a = b

NoDuplicates(bundle) ==
    \A i, j \in DOMAIN bundle : SameId(bundle[i], bundle[j]) => i = j

Authorities(bundle) == Collection(bundle, "authority")

\* A registered Authority of that id of which the test holds.
IsRegistered(bundle, id) == \E a \in Authorities(bundle) : a.id = id
AuthorityOf(bundle, id) == CHOOSE a \in Authorities(bundle) : a.id = id
HasRole(bundle, id, kinds, roles) ==
    \E a \in Authorities(bundle) : a.id = id /\ a.kind \in kinds /\ a.role \in roles
PrincipalsOf(bundle, ids) ==
    {a.principal : a \in {x \in Authorities(bundle) : x.id \in ids}}

PlansClosed(bundle) ==
    /\ Cardinality(Collection(bundle, "experiment_plan")) <= 1
    /\ \A plan \in Collection(bundle, "experiment_plan") :
         plan.instrument \in Collection(bundle, "instrument")

AuthorityRoles == {"builder", "fixer", "judge", "reviewer", "release-reviewer",
                   "publisher", "validator", "participant", "facilitator", "observer"}
AuthoritiesClosed(bundle) ==
    \A a \in Authorities(bundle) :
       /\ a.kind \in {"agent", "human", "system"}
       /\ a.role \in AuthorityRoles
       /\ a.role \in {"publisher", "participant", "facilitator", "observer"}
            => a.kind = "human"
       /\ a.role = "release-reviewer" => a.kind = "agent"

InstrumentsClosed(bundle) ==
    \A instrument \in Collection(bundle, "instrument") :
       /\ DOMAIN instrument.weights # {}
       /\ \A d \in DOMAIN instrument.weights : instrument.weights[d] > 0
       /\ instrument.rules # << >>

\* Roles that may occupy a Task; none of a kind that is not supported.
RolesFor(kind) ==
    CASE kind = "build" -> {"builder"}
      [] kind = "fix" -> {"builder", "fixer"}
      [] kind = "review" -> {"reviewer"}
      [] kind \in {"harvest", "blind-measure"} -> {"judge"}
      [] kind = "deterministic-validate" -> {"validator"}
      [] OTHER -> {}

TasksClosed(bundle) ==
    \A task \in Collection(bundle, "task") :
       /\ IsInjective(task.occupants)
       /\ task.instrument \in Collection(bundle, "instrument")
       /\ \A id \in ToSet(task.occupants) :
            /\ HasRole(bundle, id, {"agent", "human", "system"}, RolesFor(task.kind))
            /\ id \notin task.excluded

ModelReceiptsClosed(bundle) ==
    \A receipt \in Collection(bundle, "model_receipt") :
       /\ HasRole(bundle, receipt.authority, {"agent"}, {receipt.role})
       /\ receipt.class \in {"unstated", "live-model", "recorded-model",
                           "capability-fixture"}

HumanReceiptsClosed(bundle) ==
    \A receipt \in Collection(bundle, "human_receipt") :
       /\ HasRole(bundle, receipt.authority, {"human"}, {"judge"})
       /\ receipt.task \in Collection(bundle, "task")
       /\ receipt.authority \in ToSet(receipt.task.occupants)
       /\ receipt.class \in {"fresh-human", "recorded-human"}

\* A Requirement's brief must not repeat what only judges have seen.
RequirementsClosed(bundle) ==
    \A requirement \in Collection(bundle, "requirement") :
       /\ ToSet(requirement.sources) \subseteq Collection(bundle, "finding")
       /\ \A finding \in ToSet(requirement.sources) :
            {finding.quote, finding.locus} \cap requirement.brief = {}

ExposuresClosed(bundle) ==
    \A exposure \in Collection(bundle, "exposure") :
       /\ IsRegistered(bundle, exposure.authority)
       /\ exposure.task \in Collection(bundle, "task")

ForbiddenBlindExposures == {"answer-key", "atlas", "builder-rationale",
                            "finding-detail", "prior-score", "trusted-truth"}

ExposuresOf(bundle, judge, task) ==
    {e.category : e \in {x \in Collection(bundle, "exposure") :
                           x.authority = judge /\ x.task = task}}

IsScored(scores, instrument) ==
    /\ DOMAIN scores = DOMAIN instrument.weights
    /\ \A d \in DOMAIN scores : scores[d] \in 0..100

\* What a blind Evaluation must show beside what every Evaluation must.
IsBlind(bundle, evaluation) ==
    /\ evaluation.task.kind = "blind-measure"
    /\ IsScored(evaluation.scores, evaluation.instrument)
    /\ ToSet(evaluation.judges) = ToSet(evaluation.task.occupants)
    /\ \A judge \in ToSet(evaluation.judges) :
         /\ HasRole(bundle, judge, {"agent", "human", "system"}, {"judge"})
         /\ judge \notin evaluation.task.excluded
         /\ ExposuresOf(bundle, judge, evaluation.task) # {}
         /\ ExposuresOf(bundle, judge, evaluation.task)
              \cap ForbiddenBlindExposures = {}
    /\ {r.authority : r \in ToSet(evaluation.models) \cup ToSet(evaluation.humans)}
         = ToSet(evaluation.judges)
    /\ evaluation.outcome
         = Outcome(evaluation.instrument, evaluation.scores, evaluation.gates)

EvaluationsClosed(bundle) ==
    \A evaluation \in Collection(bundle, "evaluation") :
       /\ evaluation.task \in Collection(bundle, "task")
       /\ evaluation.instrument \in Collection(bundle, "instrument")
       /\ evaluation.mode \in {"harvest", "blind"}
       /\ evaluation.mode = "harvest" => DOMAIN evaluation.scores = {}
       /\ evaluation.mode = "blind" => IsBlind(bundle, evaluation)
       /\ ToSet(evaluation.models) \subseteq Collection(bundle, "model_receipt")
       /\ ToSet(evaluation.humans) \subseteq Collection(bundle, "human_receipt")
       /\ DOMAIN evaluation.gates = evaluation.instrument.gates
       /\ evaluation.outcome = "pass" => AllHold(evaluation.gates)

ProposalsClosed(bundle) ==
    \A proposal \in Collection(bundle, "proposal") :
       /\ proposal.task \in Collection(bundle, "task")
       /\ IsRegistered(bundle, proposal.builder)
       /\ proposal.receipt \in Collection(bundle, "model_receipt")
       /\ proposal.task.kind \in {"build", "fix"}
       /\ Head(proposal.task.occupants) = proposal.builder
       /\ proposal.receipt.authority = proposal.builder
       /\ ToSet(proposal.requirements) \subseteq Collection(bundle, "requirement")

Reviews(bundle) == Collection(bundle, "human_review") \cup Collection(bundle, "agent_review")

\* An agent's review needs its own receipt, and another principal's work.
IsIndependentAgent(bundle, review) ==
    /\ review.receipt \in Collection(bundle, "model_receipt")
    /\ review.receipt.authority = review.reviewer
    /\ IsRegistered(bundle, review.proposal.builder) =>
         PrincipalsOf(bundle, {review.reviewer})
           # PrincipalsOf(bundle, {review.proposal.builder})

ReviewsClosed(bundle) ==
    \A review \in Reviews(bundle) :
       /\ review.proposal \in Collection(bundle, "proposal")
       /\ HasRole(bundle, review.reviewer,
                  IF review.record = "human_review" THEN {"human"} ELSE {"agent"},
                  {"reviewer"})
       /\ review.record = "agent_review" => IsIndependentAgent(bundle, review)
       /\ review.decision \in {"approved", "rejected"}
       /\ review.decision = "approved" =>
            ToSet(review.approved) = ToSet(review.proposal.requirements)

TransitionsClosed(bundle) ==
    \A transition \in Collection(bundle, "transition") :
       /\ transition.proposal \in Collection(bundle, "proposal")
       /\ transition.review \in Reviews(bundle)
       /\ transition.review.proposal = transition.proposal
       /\ transition.review.decision = "approved"
       /\ transition.reviewer = transition.review.reviewer
       /\ transition.parent = transition.proposal.baseline
       /\ transition.data = transition.proposal.data

ProtocolsClosed(bundle) ==
    \A protocol \in Collection(bundle, "playtest_protocol") :
       /\ protocol.binding \in Collection(bundle, "trial_binding")
       /\ protocol.instrument \in Collection(bundle, "instrument")
       /\ protocol.terms.runs >= 2
       /\ protocol.terms.participants >= 1
       /\ protocol.terms.tolerance >= 0
       /\ protocol.terms.categories # {}
       /\ protocol.terms.individual \subseteq protocol.terms.stages

\* The principals of the registered participants of a Run, one for each.
Cohort(bundle, run) ==
    LET known == SelectSeq(run.participants, LAMBDA id : IsRegistered(bundle, id))
    IN [i \in DOMAIN known |-> AuthorityOf(bundle, known[i]).principal]

\* Runs of one Protocol: distinct keys, Sessions and casts.
RunsDistinct(bundle) ==
    \A a, b \in Collection(bundle, "playtest_run") :
       a # b /\ a.protocol = b.protocol =>
          /\ a.key # b.key
          /\ a.session # b.session
          /\ ToBag(Cohort(bundle, a)) # ToBag(Cohort(bundle, b))

Roster(run) == run.participants \o <<run.facilitator>> \o run.observers
RoleIn(run, id) ==
    CASE id \in ToSet(run.observers) -> "observer"
      [] id = run.facilitator -> "facilitator"
      [] OTHER -> "participant"

ScopesFor(role) ==
    {"record-observations", "retain-anonymized-quotes"}
      \cup IF role = "participant" THEN {"participate"} ELSE {}

ConsentsClosed(run) ==
    /\ {c.authority : c \in run.consents} = ToSet(Roster(run))
    /\ \A c \in run.consents :
         /\ c.version = run.protocol.terms.consent
         /\ ScopesFor(RoleIn(run, c.authority)) \subseteq c.scopes

ObservationsClosed(bundle, run) ==
    LET terms == run.protocol.terms
        stages == IF terms.stages = {} THEN {"in_play"} ELSE terms.stages
    IN /\ terms.categories \subseteq {o.category : o \in run.observations}
       /\ terms.stages \subseteq {o.stage : o \in run.observations}
       /\ \A id \in ToSet(run.participants) :
            terms.individual
              \subseteq {o.stage : o \in {x \in run.observations : x.authority = id}}
       /\ \A o \in run.observations :
            /\ o.authority \in ToSet(Roster(run))
            /\ HasRole(bundle, o.authority, {"agent", "human", "system"}, {o.role})
            /\ o.category \in terms.categories
            /\ o.stage \in stages
            /\ o.owner \in terms.owners \cup {"none"}

RunsClosed(bundle) ==
    \A run \in Collection(bundle, "playtest_run") :
       /\ run.protocol \in Collection(bundle, "playtest_protocol")
       /\ run.package = run.protocol.binding.package
       /\ IsInjective(Roster(run))
       /\ Len(run.participants) >= run.protocol.terms.participants
       /\ \A id \in ToSet(Roster(run)) :
            HasRole(bundle, id, {"human"}, {RoleIn(run, id)})
       /\ ConsentsClosed(run)
       /\ ObservationsClosed(bundle, run)
       /\ IsScored(run.scores, run.protocol.instrument)
       /\ DOMAIN run.gates = run.protocol.instrument.gates
       /\ ToSet(run.findings) \subseteq Collection(bundle, "finding")
       /\ run.outcome = Outcome(run.protocol.instrument, run.scores, run.gates)

ComparisonsClosed(bundle) ==
    \A comparison \in Collection(bundle, "evidence_comparison") :
       /\ comparison.protocol \in Collection(bundle, "playtest_protocol")
       /\ comparison.evaluation \in Collection(bundle, "evaluation")
       /\ comparison.runs # << >>
       /\ ToSet(comparison.runs) \subseteq Collection(bundle, "playtest_run")
       /\ comparison.protocol.binding.trial = comparison.evaluation.task.inputs.trial
       /\ comparison.evaluation.candidate = comparison.candidate
       /\ comparison.evaluation.instrument = comparison.protocol.instrument
       /\ comparison.evaluation.mode = "blind"
       /\ comparison.evaluation.models # << >>
       /\ \A run \in ToSet(comparison.runs) : run.protocol = comparison.protocol
       /\ comparison.deltas = Deltas(comparison.evaluation, comparison.runs)
       /\ comparison.conclusion = Conclusion(comparison.protocol, comparison.deltas)

\* machine_qualified: two blind passes of two principals under one Instrument,
\* reviewed by an agent that is none of the judges and no builder.
MachineQualified(bundle, standing) ==
    LET judges == UNION {ToSet(e.judges) : e \in ToSet(standing.evaluations)}
        builders == {p.builder : p \in Collection(bundle, "proposal")}
    IN /\ HasRole(bundle, standing.reviewer, {"agent"}, {"reviewer"})
       /\ standing.reviewer \notin judges
       /\ PrincipalsOf(bundle, {standing.reviewer})
            \cap PrincipalsOf(bundle, judges \cup builders) = {}
       /\ {"model-blind-panel", "independent-agentic-review"} \subseteq standing.kinds
       /\ Len(standing.evaluations) >= 2
       /\ \A e \in ToSet(standing.evaluations) : e.mode = "blind" /\ e.outcome = "pass"
       /\ Cardinality({e.instrument : e \in ToSet(standing.evaluations)}) = 1
       /\ Cardinality(PrincipalsOf(bundle, judges)) >= 2

\* accepted: enough passing fresh Runs of one Protocol, compared with the model,
\* reviewed by a human whose authority_id is on none of their rosters.
Accepted(bundle, standing) ==
    /\ HasRole(bundle, standing.reviewer, {"human"}, {"reviewer", "publisher"})
    /\ {"fresh-human-play", "independent-standing-review", "model-human-comparison"}
         \subseteq standing.kinds
    /\ standing.runs # << >>
    /\ ToSet(standing.runs) \subseteq Collection(bundle, "playtest_run")
    /\ \E protocol \in Collection(bundle, "playtest_protocol") :
         /\ \A run \in ToSet(standing.runs) :
              /\ run.protocol = protocol
              /\ run.outcome = "pass"
              /\ standing.reviewer \notin ToSet(Roster(run))
         /\ Len(standing.runs) >= protocol.terms.runs
         /\ protocol.terms.compare =>
              /\ standing.comparison \in Collection(bundle, "evidence_comparison")
              /\ ToSet(standing.comparison.runs) = ToSet(standing.runs)
              /\ standing.comparison.protocol = protocol
              /\ standing.comparison.evaluation \in ToSet(standing.evaluations)

StandingsClosed(bundle) ==
    \A standing \in Collection(bundle, "standing") :
       /\ HasRole(bundle, standing.reviewer, {"agent", "human", "system"},
                  {"reviewer", "publisher"})
       /\ ToSet(standing.evaluations) \subseteq Collection(bundle, "evaluation")
       /\ \A e \in ToSet(standing.evaluations) : e.candidate = standing.candidate
       /\ standing.level \in {"development_only", "machine_qualified", "accepted"}
       /\ standing.level = "machine_qualified" => MachineQualified(bundle, standing)
       /\ standing.level = "accepted" => Accepted(bundle, standing)

BindingsClosed(bundle) ==
    \A binding \in Collection(bundle, "trial_binding") :
       DOMAIN binding.gates # {} /\ AllHold(binding.gates)

SelectionsClosed(bundle) ==
    \A selection \in Collection(bundle, "selection") :
       /\ selection.instrument \in Collection(bundle, "instrument")
       /\ {selection.baseline, selection.child} \subseteq Collection(bundle, "evaluation")
       /\ selection.baseline.instrument = selection.instrument
       /\ selection.child.instrument = selection.instrument
       /\ selection = DecideSelection(selection.instrument, selection.baseline,
                                      selection.child)

\* validate_climb_bundle has no finding.
Closed(bundle) ==
    /\ NoDuplicates(bundle)
    /\ PlansClosed(bundle) /\ AuthoritiesClosed(bundle) /\ InstrumentsClosed(bundle)
    /\ TasksClosed(bundle) /\ ModelReceiptsClosed(bundle) /\ HumanReceiptsClosed(bundle)
    /\ RequirementsClosed(bundle) /\ ExposuresClosed(bundle) /\ EvaluationsClosed(bundle)
    /\ ProposalsClosed(bundle) /\ ReviewsClosed(bundle) /\ TransitionsClosed(bundle)
    /\ ProtocolsClosed(bundle) /\ RunsDistinct(bundle) /\ RunsClosed(bundle)
    /\ ComparisonsClosed(bundle) /\ StandingsClosed(bundle) /\ BindingsClosed(bundle)
    /\ SelectionsClosed(bundle)
=============================================================================
