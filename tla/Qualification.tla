---------------------------- MODULE Qualification -----------------------------
(***************************************************************************)
(* experiment/efficiency.py and experiment/standing.py: what the operational *)
(* journal says about EfficiencyPlans and the qualification journal about   *)
(* selected rungs.  Both are read whole by every call, so a state, a        *)
(* projection and a verification are operators on logs; which files hold    *)
(* the projections, and who appends, is in Experiment.                      *)
(***************************************************************************)
EXTENDS ClimbPlanning

-----------------------------------------------------------------------------
(* The efficiency events of the operational journal *)

PlanEvent(plan) ==
    [key |-> <<"efficiency-plan", plan>>, type |-> "plan_recorded", plan |-> plan]
BoundaryEvent(plan, boundary) ==
    [key |-> <<"efficiency-auth", plan, boundary>>, type |-> "boundary_authorized",
     plan |-> plan, boundary |-> boundary]

\* Mutant: an observation is keyed by the state it leads to as well.
ObservationEventByState(plan, observation, state) ==
    [key |-> <<"efficiency-observation", plan, observation.id, state>>,
     type |-> "observation_recorded", plan |-> plan, observation |-> observation,
     state |-> state]
ObservationEvent(plan, observation, state) ==
    [key |-> <<"efficiency-observation", plan, observation.id>>,
     type |-> "observation_recorded", plan |-> plan, observation |-> observation,
     state |-> state]
FormalEvent(plan, judges) ==
    [key |-> <<"efficiency-formal", plan>>, type |-> "formal_measurement_recorded",
     plan |-> plan, judges |-> judges]

EfficiencyTypes == {"plan_recorded", "boundary_authorized", "observation_recorded",
                    "formal_measurement_recorded"}
EventsOf(log, type) == {e \in ToSet(log) : e.type = type}
Latest(log, type) == log[Max({i \in DOMAIN log : log[i].type = type})]

\* get_plan
IsPlanned(log, plan) == \E e \in EventsOf(log, "plan_recorded") : e.plan = plan

\* authorized_boundaries: the target is authorized with the plan.
BoundariesOf(log, plan) ==
    {IF e.type = "plan_recorded" THEN "target_and_instrument" ELSE e.boundary :
       e \in {x \in EventsOf(log, "plan_recorded") \cup EventsOf(log, "boundary_authorized") :
                x.plan = plan}}

IsMeasured(log, plan) ==
    \E e \in EventsOf(log, "formal_measurement_recorded") : e.plan = plan

\* EfficiencyController.state: every recorded observation, advanced again.
Advanced(plan, state, e) ==
    IF state = Refused \/ e.type # "observation_recorded" \/ e.plan # plan THEN state
    ELSE AdvancePreflight(plan, state, e.observation)
StateOf(log, plan) ==
    FoldLeft(LAMBDA state, e : Advanced(plan, state, e), InitialState(plan), log)

\* _authorization, and the boundaries the mode of a plan has.
MayAuthorize(log, plan, boundary) ==
    /\ IsPlanned(log, plan)
    /\ boundary \notin BoundariesOf(log, plan)
    /\ \/ boundary = "repair_tranche" /\ plan.mode = "bounded_preflight"
       \/ boundary = "completed_exact_candidate" /\ plan.mode = "formal_measurement"
       \/ /\ boundary = "disposition" /\ plan.mode = "formal_measurement"
          /\ IsMeasured(log, plan)

\* record_observation, up to the state it computes.
MayObserve(log, plan) ==
    /\ IsPlanned(log, plan)
    /\ {"target_and_instrument", "repair_tranche"} \subseteq BoundariesOf(log, plan)
StateAfter(log, plan, observation) ==
    IF StateOf(log, plan) = Refused THEN Refused
    ELSE AdvancePreflight(plan, StateOf(log, plan), observation)

\* record_formal_measurement
MayMeasure(log, plan, candidate, instrument, judges) ==
    /\ IsPlanned(log, plan)
    /\ plan.mode = "formal_measurement"
    /\ "completed_exact_candidate" \in BoundariesOf(log, plan)
    /\ candidate = plan.candidate /\ instrument = plan.instrument
    /\ ToBag(judges) = ToBag(plan.judges)

\* EfficiencyController.derive_projection.  heads are those of the manifest of
\* the process that derives it.
NextTransition(log, plan) ==
    LET boundaries == BoundariesOf(log, plan)
    IN IF plan.mode = "bounded_preflight"
       THEN IF "repair_tranche" \notin boundaries THEN "repair_tranche"
            ELSE StateOf(log, plan).status
       ELSE CASE "completed_exact_candidate" \notin boundaries -> "completed_exact_candidate"
              [] ~IsMeasured(log, plan) -> "run_complete_blind_instrument_once"
              [] "disposition" \notin boundaries -> "disposition"
              [] OTHER -> "qualification_transition_complete"

\* It raises when the observations of the plan cannot be replayed.
Derivable(log) ==
    LET plan == Latest(log, "plan_recorded").plan
    IN EventsOf(log, "plan_recorded") # {} /\ plan.mode = "bounded_preflight"
         => StateOf(log, plan) # Refused

ActiveProjection(log, heads) ==
    LET plan == Latest(log, "plan_recorded").plan
    IN [plan |-> plan, boundaries |-> BoundariesOf(log, plan),
        state |-> IF plan.mode = "bounded_preflight" THEN StateOf(log, plan) ELSE None,
        next |-> NextTransition(log, plan), head |-> heads.operational]

\* What EfficiencyController.verify asks of the event at a place: that the
\* events before it allowed it, and that a recorded state is replayed.
EfficiencyEventVerifies(log, i) ==
    LET before == SubSeq(log, 1, i - 1)
        e == log[i]
    IN CASE e.type = "plan_recorded" -> ~IsPlanned(before, e.plan)
         [] e.type = "boundary_authorized" -> MayAuthorize(before, e.plan, e.boundary)
         [] e.type = "observation_recorded" ->
              /\ MayObserve(before, e.plan)
              /\ e.state = StateAfter(before, e.plan, e.observation)
         [] e.type = "formal_measurement_recorded" ->
              /\ MayMeasure(before, e.plan, e.plan.candidate, e.plan.instrument, e.judges)
              /\ ~IsMeasured(before, e.plan)

EfficiencyEventsVerify(log) == \A i \in DOMAIN log : EfficiencyEventVerifies(log, i)

\* EfficiencyController.verify; active is what active-experiment.json says.
EfficiencyVerifies(log, active, heads) ==
    /\ EfficiencyEventsVerify(log)
    /\ EventsOf(log, "plan_recorded") # {} =>
         Derivable(log) /\ active = ActiveProjection(log, heads)

-----------------------------------------------------------------------------
(* The qualification journal *)

AnchorEvent(candidate) ==
    [key |-> <<"lineage-anchor", candidate>>, type |-> "lineage_anchor_recorded",
     candidate |-> candidate]

\* approvals: the candidate, the artifact collection and the decision each
\* names; standings: status and cited evidence of each evidence class.
RungEvent(candidate, parent, collection, approvals, evidence, standings) ==
    [key |-> <<"selected-rung", candidate>>, type |-> "selected_rung_recorded",
     candidate |-> candidate, parent |-> parent, collection |-> collection,
     approvals |-> approvals, evidence |-> evidence, standings |-> standings]

CandidatesIn(log) == {e.candidate : e \in ToSet(log)}

Statuses ==
    [coherent_build |-> {"passed", "not_accepted", "unmeasured"},
     gameplay |-> {"passed", "not_accepted", "unmeasured"},
     accessibility |-> {"passed", "not_accepted", "unmeasured"},
     artifact_realism |-> {"accepted", "not_accepted", "measurement_required", "unmeasured"},
     human_play |-> {"passed", "not_accepted", "unmeasured"},
     public_release |-> {"qualified", "not_qualified", "unclaimed"}]

\* _validate_standings: every class separately, on evidence of this Rung.
StandingsValid(standings, available) ==
    /\ DOMAIN standings = DOMAIN Statuses
    /\ \A class \in DOMAIN standings :
         /\ standings[class].status \in Statuses[class]
         /\ standings[class].refs \subseteq available

\* _validate_approval
ApprovalValid(approval, candidate, collection) ==
    /\ approval.candidate = candidate
    /\ approval.collection = collection
    /\ approval.decision \in {"approved", "approved-for-independent-measurement"}

\* record_selected_rung, the checks before it appends.
RungValid(log, rung) ==
    /\ rung.parent = None \/ rung.parent \in CandidatesIn(log)
    /\ \A a \in rung.approvals : ApprovalValid(a, rung.candidate, rung.collection)
    /\ StandingsValid(rung.standings, rung.evidence \cup {rung.collection})

\* ExperimentSpine.verify(include_projection=False).  Unlike the recorder it
\* refuses an anchor of a Candidate that is known.
RungVerifies(log, i) ==
    LET before == SubSeq(log, 1, i - 1)
    IN IF log[i].type = "lineage_anchor_recorded"
       THEN log[i].candidate \notin CandidatesIn(before)
       ELSE RungValid(before, log[i])
SpineEventsVerify(log) == \A i \in DOMAIN log : RungVerifies(log, i)

HasRung(log) == EventsOf(log, "selected_rung_recorded") # {}

\* ExperimentSpine.derive_projection
StandingProjection(operational, qualification, heads) ==
    LET rung == Latest(qualification, "selected_rung_recorded")
        active == IF EventsOf(operational, "plan_recorded") = {} THEN None
                  ELSE ActiveProjection(operational, heads)
    IN [selected |-> rung.candidate, parent |-> rung.parent,
        standings |-> rung.standings, active |-> active, heads |-> heads,
        ok |-> SpineEventsVerify(qualification), events |-> Len(qualification)]

\* ExperimentSpine.verify; standing is what current-standing.json says.
SpineVerifies(operational, qualification, standing, heads) ==
    /\ SpineEventsVerify(qualification)
    /\ HasRung(qualification) =>
         /\ Derivable(operational)
         /\ standing = StandingProjection(operational, qualification, heads)
=============================================================================
