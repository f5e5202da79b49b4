---------------------------- MODULE ClimbPlanning -----------------------------
(***************************************************************************)
(* climb/planning.py: the pure policy of a climb - which loop a Finding is  *)
(* routed to, what a change invalidates, which EfficiencyPlans exist, and   *)
(* how a bounded preflight advances.  Scores are integers.                  *)
(***************************************************************************)
EXTENDS Integers, SequencesExt, FiniteSetsExt

CONSTANTS
    None,       \* what is not given
    Refused     \* the code raises

Targets == {"coherent_build", "gameplay", "accessibility", "artifact_realism",
            "human_play", "public_release"}

\* FINDING_ROUTES: the cheapest loop that can repair a class of Finding.
FindingRoutes ==
    [canonical_contradiction |-> "canonical_capability_tests",
     incomplete_proof |-> "affected_blind_gameplay",
     accessibility_mismatch |-> "parity_and_channel_replay",
     shared_renderer_defect |-> "representative_renderer_benchmark",
     artifact_form_defect |-> "emitter_source_contract",
     character_social_defect |-> "dossier_human_playtest",
     release_standing_ambiguity |-> "trace_qualification_verification"]

\* route_finding: another loop than the default needs a reason.
RouteFinding(class, units, primary, requested, reason) ==
    LET default == FindingRoutes[class]
        loop == IF requested = None THEN default ELSE requested
    IN IF loop # default /\ reason = None THEN Refused
       ELSE [class |-> class, loop |-> loop, units |-> units, primary |-> primary,
             broader |-> loop # default]

-----------------------------------------------------------------------------
(* assess_impact *)

ChangeKinds == {"renderer_only", "accessible_contract", "critical_player_evidence",
                "host_only_clarification", "artifact_content", "canonical_fact",
                "instrument"}

\* A ContractChange: identical when both hashes are given and equal.
ContractChange(kind, units, dependents, identical, visible) ==
    [kind |-> kind, units |-> units, dependents |-> dependents,
     identical |-> identical, visible |-> visible]

\* A change of the renderer that players can see has no branch of its own: the
\* chain of elifs falls through to its last line, which raises.
IsHandled(change) == change.identical \/ change.kind # "renderer_only" \/ ~change.visible

Rebuilds(change) ==
    CASE change.identical \/ change.kind = "instrument" -> {}
      [] change.kind = "canonical_fact" -> change.units \cup change.dependents
      [] OTHER -> change.units
Measures(change) ==
    CASE change.identical -> {}
      [] change.kind \in {"renderer_only", "artifact_content"} -> {"artifact_realism"}
      [] change.kind = "accessible_contract" -> {"accessibility_parity"}
      [] change.kind = "instrument" -> {"formal_measurement"}
      [] OTHER -> {}
Replays(change) ==
    CASE change.identical -> {}
      [] change.kind = "accessible_contract" -> {"affected_evidence_channel"}
      [] change.kind = "critical_player_evidence" -> {"fresh_blind_gameplay"}
      [] change.kind = "canonical_fact" -> {"dependent_projections", "fresh_blind_gameplay"}
      [] OTHER -> {}

\* Mutant: what one change rebuilds another may still carry forward.
AssessImpactCarryingRebuilt(changes) ==
    [rebuild |-> UNION {Rebuilds(c) : c \in changes},
     carry |-> UNION {c.units : c \in {x \in changes : x.identical}},
     measure |-> UNION {Measures(c) : c \in changes},
     replay |-> UNION {Replays(c) : c \in changes},
     lineage |-> \E c \in changes : c.kind = "instrument" /\ ~c.identical]

AssessImpact(changes) ==
    IF changes = {} \/ \E c \in changes : ~IsHandled(c) THEN Refused
    ELSE LET rebuild == UNION {Rebuilds(c) : c \in changes}
         IN [rebuild |-> rebuild,
             carry |-> (UNION {c.units : c \in {x \in changes : x.identical}}) \ rebuild,
             measure |-> UNION {Measures(c) : c \in changes},
             replay |-> UNION {Replays(c) : c \in changes},
             lineage |-> \E c \in changes : c.kind = "instrument" /\ ~c.identical]

-----------------------------------------------------------------------------
(* Plans *)

PreflightBudget(iterations, calls, tokens, improvement, failures) ==
    [iterations |-> iterations, calls |-> calls, tokens |-> tokens,
     improvement |-> improvement, failures |-> failures]
IsBudget(b) ==
    /\ b.iterations >= 1 /\ b.calls >= 0
    /\ b.tokens # None => b.tokens >= 1
    /\ b.improvement > 0 /\ b.failures >= 1

\* routes is a set; budget or candidate is None in the mode without it.
EfficiencyPlan(target, mode, instrument, loop, routes, units, budget, score, candidate, fixers, judges) ==
    [target |-> target, mode |-> mode, instrument |-> instrument, loop |-> loop,
     routes |-> routes, units |-> units, budget |-> budget, score |-> score,
     candidate |-> candidate, fixers |-> fixers, judges |-> judges]

IsEfficiencyPlan(plan) ==
    LET primary == {r \in plan.routes : r.primary}
    IN /\ plan.target \in Targets
       /\ plan.mode \in {"bounded_preflight", "formal_measurement"}
       /\ primary # {} /\ \A r \in primary : r.loop = plan.loop
       /\ plan.units \subseteq UNION {r.units : r \in primary}
       /\ plan.mode = "bounded_preflight" =>
            /\ plan.budget # None /\ IsBudget(plan.budget)
            /\ Cardinality(plan.units) \in 1..2
            /\ plan.candidate = None
       /\ plan.mode = "formal_measurement" =>
            /\ plan.budget = None /\ plan.units = {} /\ plan.candidate # None
            /\ plan.judges # << >> /\ IsInjective(plan.judges)
            /\ plan.fixers \cap ToSet(plan.judges) = {}

-----------------------------------------------------------------------------
(* advance_preflight *)

Observation(id, score, calls, tokens, passed, class) ==
    [id |-> id, score |-> score, calls |-> calls, tokens |-> tokens,
     passed |-> passed, class |-> class]

\* failures counts what has failed of each structural class, as a bag.
InitialState(plan) ==
    [seen |-> << >>, iterations |-> 0, calls |-> 0, tokens |-> 0,
     best |-> plan.score, failures |-> << >>, status |-> "active"]

FailuresOf(state, class) ==
    IF class \in DOMAIN state.failures THEN state.failures[class] ELSE 0

IsUseful(plan, state, o) ==
    state.best = None \/ o.score - state.best >= plan.budget.improvement

\* The counts of other classes are kept: failures need not be consecutive.
FailuresAfter(plan, state, o) ==
    (o.class :> IF o.passed \/ IsUseful(plan, state, o) THEN 0
                ELSE FailuresOf(state, o.class) + 1) @@ state.failures

\* Passing comes first, then escalation, then the budget.
StatusAfter(plan, next, o) ==
    CASE o.passed -> "ready_for_formal_measurement"
      [] FailuresOf(next, o.class) >= plan.budget.failures -> "escalated"
      [] \/ next.iterations >= plan.budget.iterations
         \/ next.calls >= plan.budget.calls
         \/ plan.budget.tokens # None /\ next.tokens >= plan.budget.tokens -> "parked"
      [] OTHER -> "active"

\* Mutant: a repeated observation is counted again.
AdvanceAgain(plan, state, o) ==
    IF state.status # "active" THEN Refused
    ELSE LET next == [seen |-> Append(state.seen, o.id), iterations |-> state.iterations + 1,
                      calls |-> state.calls + o.calls, tokens |-> state.tokens + o.tokens,
                      best |-> o.score, failures |-> FailuresAfter(plan, state, o),
                      status |-> "active"]
         IN [next EXCEPT !.status = StatusAfter(plan, next, o)]

AdvancePreflight(plan, state, o) ==
    CASE plan.mode # "bounded_preflight" -> Refused
      [] o.id \in ToSet(state.seen) -> state
      [] state.status # "active" -> Refused
      [] OTHER ->
           LET next == [seen |-> Append(state.seen, o.id),
                        iterations |-> state.iterations + 1,
                        calls |-> state.calls + o.calls,
                        tokens |-> state.tokens + o.tokens,
                        best |-> IF state.best = None THEN o.score
                                 ELSE Max({state.best, o.score}),
                        failures |-> FailuresAfter(plan, state, o),
                        status |-> "active"]
           IN [next EXCEPT !.status = StatusAfter(plan, next, o)]
=============================================================================
