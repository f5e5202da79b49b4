----------------------------- MODULE ClimbRecords -----------------------------
(***************************************************************************)
(* climb/model.py, playtest/model.py and climb/selection.py: the records of *)
(* the climb ledger.  A record's id is a digest of its content, so a record *)
(* stands for its own id, and a field that holds an id in the code holds    *)
(* the record here; only an Authority is named, by authority_id.  Texts,    *)
(* hashes of prompts and the objects a record points to are model values    *)
(* or small strings.                                                        *)
(***************************************************************************)
EXTENDS Integers, SequencesExt, FiniteSetsExt

ExperimentPlan(instrument, branch) ==
    [record |-> "experiment_plan", instrument |-> instrument, branch |-> branch]

Authority(id, kind, role, principal) ==
    [record |-> "authority", id |-> id, kind |-> kind, role |-> role, principal |-> principal]

\* weights maps each dimension to its weight; protocol is the blind protocol:
\* size, lenses and aggregation of a panel, and the evidence classes a Selection admits.
FrozenInstrument(weights, rules, protocol, gates) ==
    [record |-> "instrument", weights |-> weights, rules |-> rules,
     protocol |-> protocol, gates |-> gates]

\* occupants: the assigned Authority, then the participants.
Task(key, kind, candidate, instrument, occupants, excluded, inputs) ==
    [record |-> "task", key |-> key, kind |-> kind, candidate |-> candidate,
     instrument |-> instrument, occupants |-> occupants, excluded |-> excluded,
     inputs |-> inputs]

\* input: what the replay envelope holds of the invocation.  class is "unstated" where
\* evidence_class is None.
ModelReceipt(authority, role, input, output, class) ==
    [record |-> "model_receipt", authority |-> authority, role |-> role,
     input |-> input, output |-> output, class |-> class]

HumanReceipt(authority, task, response, class) ==
    [record |-> "human_receipt", authority |-> authority, task |-> task,
     response |-> response, class |-> class]

Exposure(authority, object, category, task) ==
    [record |-> "exposure", authority |-> authority, object |-> object,
     category |-> category, task |-> task]

Finding(code, quote, locus) ==
    [record |-> "finding", code |-> code, quote |-> quote, locus |-> locus]

\* brief: the spans its text contains.
Requirement(code, brief, sources) ==
    [record |-> "requirement", code |-> code, brief |-> brief, sources |-> sources]

Evaluation(task, mode, judges, models, humans, scores, findings, gates, outcome) ==
    [record |-> "evaluation", task |-> task, candidate |-> task.candidate,
     instrument |-> task.instrument, mode |-> mode, judges |-> judges,
     models |-> models, humans |-> humans, scores |-> scores, findings |-> findings,
     gates |-> gates, outcome |-> outcome]

Proposal(task, baseline, data, requirements, builder, receipt) ==
    [record |-> "proposal", task |-> task, baseline |-> baseline, data |-> data,
     requirements |-> requirements, builder |-> builder, receipt |-> receipt]

HumanReview(proposal, reviewer, decision, approved) ==
    [record |-> "human_review", proposal |-> proposal, reviewer |-> reviewer,
     decision |-> decision, approved |-> approved]

AgentReview(proposal, reviewer, receipt, decision, approved) ==
    [record |-> "agent_review", proposal |-> proposal, reviewer |-> reviewer,
     receipt |-> receipt, decision |-> decision, approved |-> approved]

Transition(proposal, review, reviewer, parent, data, child) ==
    [record |-> "transition", proposal |-> proposal, review |-> review,
     reviewer |-> reviewer, parent |-> parent, data |-> data, child |-> child]

StandingAttestation(candidate, level, evaluations, kinds, reviewer, runs, comparison) ==
    [record |-> "standing", candidate |-> candidate, level |-> level,
     evaluations |-> evaluations, kinds |-> kinds, reviewer |-> reviewer,
     runs |-> runs, comparison |-> comparison]

\* package: the Release and the Physical Export; trial: the Blind Trial.
TrialBinding(candidate, package, trial, gates) ==
    [record |-> "trial_binding", candidate |-> candidate, package |-> package,
     trial |-> trial, gates |-> gates]

SelectionDecision(instrument, baseline, child, outcome, selected) ==
    [record |-> "selection", instrument |-> instrument, baseline |-> baseline,
     child |-> child, outcome |-> outcome, selected |-> selected]

\* terms: consent version, minimum runs and participants, categories, stages,
\* individual stages, defect owners, tolerance and the two switches.
PlaytestProtocol(binding, instrument, terms) ==
    [record |-> "playtest_protocol", binding |-> binding, instrument |-> instrument,
     terms |-> terms]

ParticipantConsent(authority, version, scopes) ==
    [authority |-> authority, version |-> version, scopes |-> scopes]

PlayObservation(authority, role, phase, category, stage, seconds, owner) ==
    [authority |-> authority, role |-> role, phase |-> phase, category |-> category,
     stage |-> stage, seconds |-> seconds, owner |-> owner]

PlaytestRun(protocol, key, package, session, participants, facilitator, observers, consents, observations, scores, findings, gates, outcome) ==
    [record |-> "playtest_run", protocol |-> protocol, key |-> key, package |-> package,
     session |-> session, participants |-> participants, facilitator |-> facilitator,
     observers |-> observers, consents |-> consents, observations |-> observations,
     scores |-> scores, findings |-> findings, gates |-> gates, outcome |-> outcome]

EvidenceComparison(protocol, evaluation, runs, deltas, conclusion) ==
    [record |-> "evidence_comparison", protocol |-> protocol,
     candidate |-> protocol.binding.candidate, instrument |-> protocol.instrument,
     evaluation |-> evaluation, runs |-> runs, deltas |-> deltas, conclusion |-> conclusion]

-----------------------------------------------------------------------------
(* Scores, outcomes and selections *)

AllHold(gates) == \A g \in DOMAIN gates : gates[g]

\* Evaluation.overall_score, times the total weight.
Weighted(scores, weights) ==
    MapThenSumSet(LAMBDA d : scores[d] * weights[d], DOMAIN weights)
TotalWeight(weights) == MapThenSumSet(LAMBDA d : weights[d], DOMAIN weights)

\* _compare: "all" is for hard gates, the others for numbers.
Compare(actual, operator, expected) ==
    CASE operator = ">=" -> actual >= expected
      [] operator = ">" -> actual > expected
      [] operator = "<=" -> actual <= expected
      [] operator = "<" -> actual < expected
      [] OTHER -> actual = expected

\* One acceptance rule of the Instrument on what was scored.
Meets(rule, weights, scores, gates) ==
    CASE rule.metric = "overall" ->
           Compare(Weighted(scores, weights), rule.operator,
                   rule.value * TotalWeight(weights))
      [] rule.metric = "hard_gates" ->
           Compare(DOMAIN gates # {} /\ AllHold(gates), rule.operator, rule.value)
      [] OTHER -> Compare(scores[rule.metric], rule.operator, rule.value)

\* evaluation_passes
EvaluationPasses(instrument, scores, gates) ==
    /\ DOMAIN scores # {}
    /\ \A i \in DOMAIN instrument.rules :
         Meets(instrument.rules[i], instrument.weights, scores, gates)

Outcome(instrument, scores, gates) ==
    IF EvaluationPasses(instrument, scores, gates) THEN "pass" ELSE "fail"

\* The evidence classes two Evaluations rest on.
EvidenceClasses(baseline, child) ==
    {r.class : r \in ToSet(baseline.models) \cup ToSet(baseline.humans)
                     \cup ToSet(child.models) \cup ToSet(child.humans)}

\* decide_selection: the child must be better, pass, and rest on evidence the
\* Instrument admits.
ChildWins(instrument, baseline, child) ==
    /\ DOMAIN baseline.scores # {} /\ DOMAIN child.scores # {}
    /\ Weighted(child.scores, instrument.weights)
         > Weighted(baseline.scores, instrument.weights)
    /\ EvaluationPasses(instrument, child.scores, child.gates)
    /\ EvidenceClasses(baseline, child) # {}
    /\ EvidenceClasses(baseline, child) \subseteq instrument.protocol.classes

DecideSelection(instrument, baseline, child) ==
    LET wins == ChildWins(instrument, baseline, child)
    IN SelectionDecision(instrument, baseline, child,
         IF wins THEN "select_child" ELSE "retain_baseline",
         IF wins THEN child.candidate ELSE baseline.candidate)

\* Twice the median of a non-empty sequence of numbers.
DoubleMedian(values) ==
    LET sorted == SortSeq(values, <)
        n == Len(values)
    IN IF n % 2 = 1 THEN 2 * sorted[(n + 1) \div 2]
       ELSE sorted[n \div 2] + sorted[n \div 2 + 1]

\* Model score and human median of each dimension, doubled, and whether any
\* two differ by more than the Protocol tolerates.
Deltas(evaluation, runs) ==
    [d \in DOMAIN evaluation.instrument.weights |->
       DoubleMedian([i \in DOMAIN runs |-> runs[i].scores[d]]) - 2 * evaluation.scores[d]]
Conclusion(protocol, deltas) ==
    IF \E d \in DOMAIN deltas :
         \/ deltas[d] > 2 * protocol.terms.tolerance
         \/ -deltas[d] > 2 * protocol.terms.tolerance
    THEN "divergent" ELSE "aligned"
=============================================================================
