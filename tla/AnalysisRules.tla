---------------------------- MODULE AnalysisRules ----------------------------
(***************************************************************************)
(* difficulty/instrument.py and difficulty/transitions.py: the frozen        *)
(* Analysis Instrument (twelve assignments, what each may see and must       *)
(* return) and the mechanical eligibility of a finished lineage.             *)
(***************************************************************************)
EXTENDS Evidence

\* ASSIGNMENTS, in roster order, and the view contract of each.
Roster == <<"sweep-outcome-progress", "sweep-knowledge-support",
            "sweep-coordination-allocation", "sweep-host-dependence",
            "sweep-runtime-authorization-evaluator", "incident-assembler",
            "semantic-interpreter", "attribution-a", "attribution-b", "atlas-curator",
            "challenge-designer", "independent-reviewer">>
Sweeps == {Roster[i] : i \in 1..5}
Assignments == Range(Roster)
Place(a) == CHOOSE i \in DOMAIN Roster : Roster[i] = a
IsSweep(a) == a \in Sweeps
Contract(a) ==
    CASE IsSweep(a) -> "discovery"
      [] a = "incident-assembler" -> "assembly"
      [] a = "semantic-interpreter" -> "interpretation"
      [] a \in {"attribution-a", "attribution-b"} -> "attribution"
      [] a = "atlas-curator" -> "curation"
      [] a = "challenge-designer" -> "challenge"
      [] a = "independent-reviewer" -> "review"

\* VIEW_CONTRACTS: of the categories in play, those a contract allows and denies.
Allow(contract) ==
    CASE contract = "discovery" -> {"verified_actions"}
      [] contract = "assembly" -> {"frozen_discovery_outputs", "sweep_coverage"}
      [] contract = "interpretation" -> {"verified_actions", "frozen_incident"}
      [] contract = "attribution" ->
            {"frozen_incident", "frozen_semantic_interpretation",
             "canonical_episode_evidence", "canonical_world_truth"}
      [] contract = "curation" ->
            {"reviewed_incident_packages", "both_frozen_attributions",
             "attribution_disagreement"}
      [] contract = "challenge" -> {"generation_intent"}
      [] contract = "review" ->
            {"frozen_proposal", "deterministic_verification", "all_analysis_receipts"}
Deny(contract) ==
    CASE contract \in {"discovery", "interpretation"} ->
            {"canonical_world_truth", "comparison_side"}
      [] contract = "assembly" ->
            {"canonical_episode_evidence", "canonical_world_truth", "comparison_side"}
      [] contract = "attribution" -> {"comparison_side", "other_attribution_output"}
      [] contract \in {"curation", "challenge"} -> {"sealed_case_results"}
      [] contract = "review" -> {"comparison_side"}

-----------------------------------------------------------------------------
(* Applications and views *)

\* AnalysisInstrumentApplication of the one Definition: prefix keeps the principals of
\* one application from those of another, and drifted has the assignments for which
\* another model or endpoint is requested than the Definition pins - none when
\* apply_instrument makes it.
Principal(application, a) == <<application.prefix, a>>
Application(prefix, episode, drifted) ==
    [prefix |-> prefix, episode |-> episode, drifted |-> drifted]

\* EvidenceGrant
Grant(category, object, spans) == [category |-> category, object |-> object, spans |-> spans]

\* build_analysis_view: of what is available, what the contract allows.
BuildView(application, a, available) ==
    LET grants == {g \in available : g.category \in Allow(Contract(a))}
    IN Object("analysis_evidence_view",
              [application |-> application.prefix, assignment |-> a,
               categories |-> {g.category : g \in grants},
               spans |-> UNION {g.spans : g \in grants}],
              {g.object : g \in grants})

\* AnalysisEvidenceView.__post_init__, which raises otherwise.
IsView(view) ==
    LET contract == Contract(view.value.assignment)
    IN /\ view.value.categories \subseteq Allow(contract)
       /\ view.value.categories \cap Deny(contract) = {}

-----------------------------------------------------------------------------
(* What a model returns *)

\* A call of a model fails, or returns an output: complete or partial, with or
\* without a cursor, citing spans.  The id is what the provider says of the response
\* and not in it (provider_response_id, usage).
Failure(how) == [how |-> how, id |-> 1]
Output(text, status, cursor, cited) ==
    [how |-> "returned", id |-> 1, text |-> text, status |-> status, cursor |-> cursor, cited |-> cited,
     decision |-> "accept", gates |-> TRUE]

\* _validate_output: TRUE when it finds nothing.
OutputValid(a, output, spans) ==
    /\ output.status \in {"complete", "partial", "invalid", "incomplete"}
    /\ IsSweep(a) => (output.status = "partial" => output.cursor)
    /\ IsSweep(a) => (output.status = "complete" => ~output.cursor)
    /\ output.cited \subseteq spans
    /\ a = "independent-reviewer" =>
          /\ output.decision \in {"accept", "reject"}
          /\ output.decision = "accept" => output.gates

-----------------------------------------------------------------------------
(* evaluate_analysis_eligibility *)

CountOf(kind, attempts) == Cardinality({i \in DOMAIN attempts : attempts[i].kind = kind})

\* What is found against one assignment's part of a lineage.
AssignmentFindings(lineage, a) ==
    LET state == lineage.assignments[a]
    IN (IF state.view = None THEN {"view.missing"} ELSE {})
       \cup (IF state.denied # {} THEN {"view.denied-exposure"} ELSE {})
       \cup (IF state.complete THEN {} ELSE {"receipt.incomplete"})
       \cup (IF None \in {state.attempts[i].receipt : i \in DOMAIN state.attempts}
             THEN {"attempt.unreceipted"} ELSE {})
       \cup (IF {state.attempts[i].kind : i \in DOMAIN state.attempts}
                   \subseteq {"initial", "transport-retry", "schema-repair"}
             THEN {} ELSE {"attempt.forbidden"})
       \cup (IF CountOf("transport-retry", state.attempts) > 2
             THEN {"attempt.transport-exhausted"} ELSE {})
       \cup (IF CountOf("schema-repair", state.attempts) > 1
             THEN {"attempt.schema-exhausted"} ELSE {})
       \cup (IF IsSweep(a) /\ state.status = "partial" /\ lineage.claims # {}
             THEN {"discovery.partial-claim"} ELSE {})
       \cup (IF state.principal \in lineage.actors THEN {"principal.episode-actor"} ELSE {})

ConflictFindings(lineage) ==
    IF \E a, b \in Assignments :
          a # b /\ lineage.assignments[a].principal = lineage.assignments[b].principal
    THEN {"principal.conflict"} ELSE {}

\* What is found against the analysts' isolation and against the reviewer.
AuthorityFindings(lineage) ==
    (IF lineage.crossed THEN {"attribution.cross-exposure"} ELSE {})
    \cup (IF lineage.mutated THEN {"reviewer.proposal-mutation"} ELSE {})
    \cup (IF lineage.waived THEN {"reviewer.gate-waiver"} ELSE {})

\* An Application of another Definition has not come this far (build_analysis_view).
Eligibility(application, lineage) ==
    LET drift == IF application.drifted = {} THEN {} ELSE {"application.drift"}
        findings == drift \cup ConflictFindings(lineage) \cup AuthorityFindings(lineage)
                    \cup UNION {AssignmentFindings(lineage, a) : a \in Assignments}
    IN Object("analysis_eligibility_result", findings, {})
=============================================================================
