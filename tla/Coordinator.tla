----------------------------- MODULE Coordinator -----------------------------
(***************************************************************************)
(* generation/coordinator.py over experiment/api.py and climb/: run() goes *)
(* from a brief to a Candidate that passes.  Everything it does is a       *)
(* record under an idempotency key (climb journal, lineage, operational    *)
(* journal); a process that died, or whose driver raised, is started again *)
(* with run(), which finds out from the records where it was.              *)
(*                                                                         *)
(* A stage is a build, <<"initial", a>> or <<"revision", r>>, and also     *)
(* names the Draft it proposes and the Candidate of that Draft: builders   *)
(* are assumed never to return the same Blueprint twice.                   *)
(***************************************************************************)
EXTENDS Integers, Sequences, FiniteSets, SequencesExt

CONSTANTS
    Panel,              \* the judges, in the order of the Plan
    Dimensions,         \* of the Instrument
    Weight,
    Marks,              \* scores a judge may give, per Dimension
    Floor, OverallFloor,\* acceptance rules; the overall score is a weighted sum
    EvidenceAdmissible, \* the drivers' evidence class may select
    ArtifactsRequired,  \* the Plan has an artifact suite
    MaxRounds, MaxCalls, MaxTokens, MaxInvalid,
    Usages,             \* tokens a driver may report
    MaxBadBuilds,       \* bound: first builds that may be invalid
    Faults,             \* what goes wrong: "crash", "driver", "build"
    None

ASSUME MarksAssumption == Marks \subseteq [Dimensions -> Nat] /\ IsFiniteSet(Dimensions) /\ Panel # << >>
ASSUME PanelAssumption == Panel \in Seq(Range(Panel)) /\ IsInjective(Panel) /\ None \notin Nat
ASSUME BudgetAssumption == {MaxRounds, MaxCalls, MaxTokens, MaxInvalid, MaxBadBuilds} \subseteq Nat /\ Usages \subseteq Nat
ASSUME PolicyAssumption == {EvidenceAdmissible, ArtifactsRequired} \subseteq BOOLEAN /\ OverallFloor \in Nat

VARIABLES
    \* The climb journal, by kind of record.
    receipts, tasks, proposals, reviews, transitions, bindings, evaluations, selections,
    lineage,        \* moves of the branch
    operational,    \* generation events, by type and key
    run             \* the call of run() under way

climb == <<receipts, tasks, proposals, reviews, transitions, bindings, evaluations, selections>>
vars == <<receipts, tasks, proposals, reviews, transitions, bindings, evaluations, selections,
          lineage, operational, run>>

Brief == <<"brief", 0>>
Initial(stage) == stage[1] = "initial"
Revision(stage) == stage[1] = "revision"

\* current_draft_ref
Current == IF lineage = << >> THEN Brief ELSE Last(lineage).to

Keys(records) == {r.key : r \in records}
Receipt(key) == CHOOSE r \in receipts : r.key = key
Verdict(key) == Receipt(key).output.verdict

\* _usage
Tokens == FoldSet(LAMBDA r, total : r.tokens + total, 0, receipts)
Remaining == IF Tokens < MaxTokens THEN MaxTokens - Tokens ELSE 0
Overspent == Tokens > MaxTokens

Idle == [at |-> "idle", then |-> "idle", stage |-> Brief, round |-> 0, asked |-> << >>, pending |-> {},
         failed |-> FALSE, started |-> Brief, baseline |-> None, measured |-> None,
         result |-> "none"]

Init ==
    /\ receipts = {} /\ tasks = {} /\ proposals = {} /\ reviews = {}
    /\ transitions = {} /\ bindings = {} /\ evaluations = << >> /\ selections = << >>
    /\ lineage = << >> /\ operational = {} /\ run = Idle

-----------------------------------------------------------------------------
(* How a run moves on *)

At(place) == run.at = place
Goto(place) == run' = [run EXCEPT !.at = place]
GotoThen(place, then) == run' = [run EXCEPT !.at = place, !.then = then]
Return == run' = [run EXCEPT !.at = run.then]
Ends(result) == run' = [Idle EXCEPT !.result = result]

\* An exception leaves run(); what was recorded stays.
Raise(result) == Ends(result) /\ UNCHANGED <<climb, lineage, operational>>

Event(type, key) == operational' = operational \cup {<<type, key>>}

\* _stop: first the event, then GenerationStopped.
Stop(reason) == GotoThen("stop", reason) /\ UNCHANGED <<climb, lineage, operational>>
Stopped ==
    /\ At("stop")
    /\ Event("stopped", <<run.then, 0>>)
    /\ Ends("stopped")
    /\ UNCHANGED <<climb, lineage>>

\* The process dies; the next run() starts from the records.
Interrupt == "crash" \in Faults /\ ~At("idle") /\ Raise("interrupted")

-----------------------------------------------------------------------------
(* execute_model_task and execute_model_tasks_concurrently *)

\* Mutant: only the calls are counted.
BudgetAllowsAnyTokens(n) == Cardinality(receipts) + n <= MaxCalls

\* _check_budget
BudgetAllows(n) == Cardinality(receipts) + n <= MaxCalls /\ Tokens < MaxTokens

\* Positions of the keys without a receipt.
Missing(keys) == {i \in DOMAIN keys : keys[i] \notin Keys(receipts)}

\* The drivers are called; their answers are awaited, then recorded one by one,
\* in the order of the keys.
Invoke(keys, then) ==
    run' = [run EXCEPT !.at = "answers", !.then = then, !.asked = keys,
                       !.pending = Missing(keys), !.failed = FALSE]

Awaited == run.asked[Min(run.pending)]
Received == run.pending \ {Min(run.pending)}

Unscored == [d \in Dimensions |-> 0]

Outputs(key) ==
    CASE key[1] = "builder" ->
             [verdict : {"valid"} \cup (IF Initial(key[2]) /\ key[2][2] > MaxBadBuilds THEN {} ELSE {"invalid"}),
              scores : {Unscored}]
      [] key[1] = "reviewer" -> [verdict : {"approved", "rejected", "invalid"}, scores : {Unscored}]
      [] OTHER -> [verdict : {"scored"}, scores : Marks] \cup
                  [verdict : {"invalid"}, scores : {Unscored}]

\* The context of the first build holds what is left of the token budget.
Context(key) == IF Initial(key[2]) /\ key[1] = "builder" THEN Remaining ELSE 0

Answer(output, tokens) ==
    LET key == Awaited IN
    /\ output \in Outputs(key)
    /\ receipts' = receipts \cup
           {[key |-> key, context |-> Context(key), output |-> output, tokens |-> tokens]}
    /\ run' = [run EXCEPT !.pending = Received]
    /\ UNCHANGED <<tasks, proposals, reviews, transitions, bindings, evaluations, selections,
                   lineage, operational>>

DriverRaises ==
    /\ "driver" \in Faults
    /\ run' = [run EXCEPT !.pending = Received, !.failed = TRUE]
    /\ UNCHANGED <<climb, lineage, operational>>

Answers ==
    /\ At("answers")
    /\ IF run.pending # {}
       THEN \/ \E output \in Outputs(Awaited), tokens \in Usages : Answer(output, tokens)
            \/ DriverRaises
       ELSE IF run.failed THEN Raise("driver raised")
       ELSE /\ run' = [run EXCEPT !.at = run.then, !.asked = << >>]
            /\ UNCHANGED <<climb, lineage, operational>>

\* One model task of a stage: the recorded receipt, or a call within the budget.
ModelTask(key, then) ==
    /\ UNCHANGED <<climb, lineage, operational>>
    /\ IF key \in Keys(receipts)
       THEN IF Initial(key[2]) /\ Receipt(key).context # Context(key)
            THEN Ends("model key reused")
            ELSE Goto(then)
       ELSE IF BudgetAllows(1) THEN Invoke(<<key>>, then) ELSE GotoThen("stop", "budget")

-----------------------------------------------------------------------------
(* run, _align_selected_draft *)

Begin ==
    /\ At("idle")
    /\ run' = [Idle EXCEPT !.at = "align", !.then = "draft"]
    /\ UNCHANGED <<climb, lineage, operational>>

Selected == IF selections = << >> THEN Current ELSE Last(selections).selected
Aligned == Current = Selected
SelectKey == <<"select", <<"rung", Len(selections)>>>>

Align ==
    /\ At("align")
    /\ Aligned
    /\ Return
    /\ UNCHANGED <<climb, lineage, operational>>

\* select_revision: the same key for another move is a conflict.
AlignMove ==
    /\ At("align")
    /\ ~Aligned
    /\ IF SelectKey \in Keys(Range(lineage))
       THEN Raise("selection key reused")
       ELSE /\ lineage' = Append(lineage, [key |-> SelectKey, from |-> Current, to |-> Selected])
            /\ Goto("aligned")
            /\ UNCHANGED <<climb, operational>>

AlignEvent ==
    /\ At("aligned")
    /\ Event("draft selected", SelectKey[2])
    /\ Return
    /\ UNCHANGED <<climb, lineage>>

-----------------------------------------------------------------------------
(* generate_initial_blueprint, and the first half of climb_once *)

Attempt == 1 + Cardinality({e \in operational : e[1] = "invalid"})

Draft ==
    /\ At("draft")
    /\ run' = IF Current = Brief
              THEN [run EXCEPT !.at = "builder", !.stage = <<"initial", Attempt>>]
              ELSE [run EXCEPT !.at = "build", !.stage = Brief, !.started = Current]
    /\ UNCHANGED <<climb, lineage, operational>>

\* Where a Candidate was evaluated, and what was found the last time.
Measured(candidate) == {i \in DOMAIN evaluations : evaluations[i].candidate = candidate}
Latest(candidate) == evaluations[Max(Measured(candidate))]

\* Mutant: whatever was measured last is the baseline.
BaselineLatest == Last(evaluations)

Baseline == IF selections = << >> THEN Last(evaluations) ELSE Latest(Selected)

\* climb_once up to the builder.
Climb ==
    /\ At("climb")
    /\ LET round == Len(selections) + 1 IN
       IF round > MaxRounds THEN Stop("rounds")
       ELSE /\ run' = [run EXCEPT !.at = "builder", !.stage = <<"revision", round>>,
                                  !.round = round, !.baseline = Baseline]
            /\ UNCHANGED <<climb, lineage, operational>>

Builder == At("builder") /\ ModelTask(<<"builder", run.stage>>, "built")

\* _validate_receipt and the parse of the first Blueprint.
InvalidOutput ==
    /\ At("built") /\ Initial(run.stage)
    /\ ~Overspent
    /\ Verdict(<<"builder", run.stage>>) = "invalid"
    /\ Event("invalid", run.stage)
    /\ IF run.stage[2] >= MaxInvalid THEN GotoThen("stop", "invalid outputs") ELSE Goto("draft")
    /\ UNCHANGED <<climb, lineage>>

\* Mutant: a refused revision is tried again, as a refused first Blueprint is.
InvalidRevisionAgain ==
    /\ At("built") /\ Revision(run.stage)
    /\ Verdict(<<"builder", run.stage>>) = "invalid"
    /\ Goto("builder")
    /\ UNCHANGED <<climb, lineage, operational>>

\* apply_builder_output refuses a revision.
InvalidRevision ==
    /\ At("built") /\ Revision(run.stage)
    /\ Verdict(<<"builder", run.stage>>) = "invalid"
    /\ Raise("invalid revision")

OverspentBuild ==
    /\ At("built") /\ Initial(run.stage)
    /\ Overspent
    /\ Stop("tokens")

\* record_proposal, found again by a resumed run; a receipt of a revision is
\* validated after it.
Propose ==
    /\ At("built")
    /\ Verdict(<<"builder", run.stage>>) = "valid"
    /\ Initial(run.stage) => ~Overspent
    /\ proposals' = IF \E p \in proposals : p.stage = run.stage THEN proposals
                    ELSE proposals \cup {[stage |-> run.stage, parent |-> Current]}
    /\ IF Overspent THEN GotoThen("stop", "tokens") ELSE Goto("review")
    /\ UNCHANGED <<receipts, tasks, reviews, transitions, bindings, evaluations, selections,
                   lineage, operational>>

\* _review_proposal
Review == At("review") /\ ModelTask(<<"reviewer", run.stage>>, "reviewed")

Decision(stage) == Verdict(<<"reviewer", stage>>)

ReviewStopped ==
    /\ At("reviewed")
    /\ Overspent \/ Decision(run.stage) = "invalid"
    /\ Stop("review")

RecordReview ==
    /\ At("reviewed")
    /\ ~Overspent /\ Decision(run.stage) # "invalid"
    /\ reviews' = reviews \cup {[stage |-> run.stage, decision |-> Decision(run.stage)]}
    /\ Goto("decided")
    /\ UNCHANGED <<receipts, tasks, proposals, transitions, bindings, evaluations, selections,
                   lineage, operational>>

\* Mutant: any review lets the Proposal through.
DecidedAnyhow == At("decided") /\ Goto("apply") /\ UNCHANGED <<climb, lineage, operational>>

Decided ==
    /\ At("decided")
    /\ IF [stage |-> run.stage, decision |-> "approved"] \in reviews
       THEN Goto("apply") /\ UNCHANGED <<climb, lineage, operational>>
       ELSE Stop("rejected")

ApplyKey == <<"apply", run.stage>>

\* A revision that was applied has to be the current Draft.
ResumeApplied ==
    /\ At("apply")
    /\ Revision(run.stage) /\ run.stage \in transitions
    /\ IF Current = run.stage
       THEN Goto("build") /\ UNCHANGED <<climb, lineage, operational>>
       ELSE Raise("not the current Draft")

\* apply_approved_transition: commit_draft returns a child it committed before,
\* wherever the branch is now; then the Transition is recorded.
Parent(stage) == (CHOOSE p \in proposals : p.stage = stage).parent

Apply ==
    /\ At("apply")
    /\ ~(Revision(run.stage) /\ run.stage \in transitions)
    /\ IF ApplyKey \in Keys(Range(lineage))
       THEN Goto("transition") /\ UNCHANGED <<climb, lineage, operational>>
       ELSE IF Parent(run.stage) # Current THEN Raise("ConcurrencyConflict")
       ELSE /\ lineage' = Append(lineage, [key |-> ApplyKey, from |-> Current, to |-> run.stage])
            /\ Goto("transition")
            /\ UNCHANGED <<climb, operational>>

RecordTransition ==
    /\ At("transition")
    /\ transitions' = transitions \cup {run.stage}
    /\ Goto(IF Initial(run.stage) THEN "applied" ELSE "build")
    /\ UNCHANGED <<receipts, tasks, proposals, reviews, bindings, evaluations, selections,
                   lineage, operational>>

InitialApplied ==
    /\ At("applied")
    /\ Event("applied", run.stage)
    /\ Goto("draft")
    /\ UNCHANGED <<climb, lineage>>

-----------------------------------------------------------------------------
(* build_current, measure_current *)

\* _bound_event
Bound == <<"bound", Current>> \in operational
Suite == ArtifactsRequired => <<"artifacts", Current>> \in operational

AlreadyBuilt == At("build") /\ Bound /\ Goto("measure") /\ UNCHANGED <<climb, lineage, operational>>

\* The materializer and the compiler are asked outside, and may fail.
Materialize ==
    /\ At("build")
    /\ ~Bound /\ ~Suite
    /\ Event("artifacts", Current)
    /\ UNCHANGED <<climb, lineage, run>>

Bind ==
    /\ At("build")
    /\ ~Bound /\ Suite
    /\ bindings' = bindings \cup {Current}
    /\ Goto("bind event")
    /\ UNCHANGED <<receipts, tasks, proposals, reviews, transitions, evaluations, selections,
                   lineage, operational>>

BuildFails == "build" \in Faults /\ At("build") /\ ~Bound /\ Raise("build failed")

BindEvent ==
    /\ At("bind event")
    /\ Event("bound", Current)
    /\ Goto("measure")
    /\ UNCHANGED <<climb, lineage>>

\* run() only measures a Candidate without an Evaluation, as round 0.
Measure ==
    /\ At("measure")
    /\ run' = IF run.stage # Brief \/ Measured(Current) = {}
              THEN [run EXCEPT !.at = "panel", !.round = IF run.stage = Brief THEN 0 ELSE @]
              ELSE [run EXCEPT !.at = "outcome", !.measured = Latest(Current)]
    /\ UNCHANGED <<climb, lineage, operational>>

Evaluated(round) == {i \in DOMAIN evaluations : evaluations[i].round = round}
PanelKeys(round) == [i \in DOMAIN Panel |-> <<Panel[i], <<"measure", round>>>>]

\* _existing_panel, _prepare_panel_task and the calls.
AskPanel ==
    /\ At("panel")
    /\ LET keys == PanelKeys(run.round) IN
       IF Missing(keys) # {} /\ ~BudgetAllows(Cardinality(Missing(keys))) THEN Stop("budget")
       ELSE IF Evaluated(run.round) # {}
       THEN /\ run' = [run EXCEPT !.at = "measured",
                                  !.measured = evaluations[Min(Evaluated(run.round))]]
            /\ UNCHANGED <<climb, lineage, operational>>
       ELSE IF \E t \in tasks : t.round = run.round /\ t.candidate # Current
       THEN Raise("Task of other inputs")
       ELSE /\ tasks' = tasks \cup {[round |-> run.round, candidate |-> Current]}
            /\ Invoke(keys, "judged")
            /\ UNCHANGED <<receipts, proposals, reviews, transitions, bindings, evaluations,
                           selections, lineage, operational>>

Given(round) == [i \in DOMAIN Panel |-> Receipt(PanelKeys(round)[i]).output.scores]
PanelSays(verdict) == \E i \in DOMAIN Panel : Verdict(PanelKeys(run.round)[i]) = verdict

\* MedianPerDimension
MedianOf(values) ==
    LET sorted == SortSeq(values, <)
        n == Len(values)
    IN (sorted[(n + 1) \div 2] + sorted[(n + 2) \div 2]) \div 2
Aggregate(marks) == [d \in Dimensions |-> MedianOf([i \in DOMAIN marks |-> marks[i][d]])]

Overall(scores) == FoldSet(LAMBDA d, total : Weight[d] * scores[d] + total, 0, Dimensions)
\* evaluation_passes: bound Candidates have passed every hard gate.
Passes(e) == Overall(e.scores) >= OverallFloor /\ \A d \in Dimensions : e.scores[d] >= Floor[d]

InvalidJudgement ==
    /\ At("judged")
    /\ PanelSays("invalid")
    /\ Raise("invalid judgement")

\* _finalize_panel
Evaluate ==
    /\ At("judged")
    /\ ~PanelSays("invalid")
    /\ LET e == [round |-> run.round, candidate |-> Current, scores |-> Aggregate(Given(run.round))] IN
       /\ evaluations' = Append(evaluations, e)
       /\ run' = [run EXCEPT !.at = "measured", !.measured = e]
    /\ UNCHANGED <<receipts, tasks, proposals, reviews, transitions, bindings, selections,
                   lineage, operational>>

MeasuredEvent ==
    /\ At("measured")
    /\ IF Overspent THEN Stop("tokens")
       ELSE /\ Event("measured", <<"measure", run.measured.round>>)
            /\ Goto(IF run.stage = Brief THEN "outcome" ELSE "select")
            /\ UNCHANGED <<climb, lineage>>

-----------------------------------------------------------------------------
(* select, and the end of a round *)

ChildWins(baseline, child) ==
    /\ EvidenceAdmissible
    /\ Overall(child.scores) > Overall(baseline.scores)
    /\ Passes(child)

Select ==
    /\ At("select")
    /\ LET baseline == run.baseline
           child == run.measured
           winner == IF ChildWins(baseline, child) THEN child ELSE baseline
       IN IF baseline.candidate = child.candidate THEN Raise("not distinct Candidates")
          ELSE /\ selections' = Append(selections, [baseline |-> baseline, child |-> child,
                                                    selected |-> winner.candidate])
               /\ GotoThen("align", "rung")
               /\ UNCHANGED <<receipts, tasks, proposals, reviews, transitions, bindings,
                              evaluations, lineage, operational>>

Rung ==
    /\ At("rung")
    /\ Event("rung", run.stage)
    /\ run' = [run EXCEPT !.at = "outcome", !.stage = Brief, !.measured = Latest(Selected)]
    /\ UNCHANGED <<climb, lineage>>

\* Mutant: the overall score decides.
OutcomeOverall ==
    /\ At("outcome")
    /\ IF Overall(run.measured.scores) >= OverallFloor THEN Goto("complete") ELSE GotoThen("align", "climb")
    /\ UNCHANGED <<climb, lineage, operational>>

Outcome ==
    /\ At("outcome")
    /\ IF Passes(run.measured) THEN Goto("complete") ELSE GotoThen("align", "climb")
    /\ UNCHANGED <<climb, lineage, operational>>

Complete ==
    /\ At("complete")
    /\ Event("completed", IF selections = << >> THEN run.started ELSE Selected)
    /\ Ends("completed")
    /\ UNCHANGED <<climb, lineage>>

-----------------------------------------------------------------------------
Step ==
    \/ Stopped \/ Answers \/ Align \/ AlignMove \/ AlignEvent \/ Draft \/ Climb \/ Builder
    \/ InvalidOutput \/ InvalidRevision \/ OverspentBuild \/ Propose \/ Review \/ ReviewStopped
    \/ RecordReview \/ Decided \/ ResumeApplied \/ Apply \/ RecordTransition \/ InitialApplied
    \/ AlreadyBuilt \/ Materialize \/ Bind \/ BuildFails \/ BindEvent \/ Measure \/ AskPanel
    \/ InvalidJudgement \/ Evaluate \/ MeasuredEvent \/ Select \/ Rung \/ Outcome \/ Complete

Next == Begin \/ Step \/ Interrupt

\* Code that runs goes on.
Spec == Init /\ [][Next]_vars /\ WF_vars(Step)

-----------------------------------------------------------------------------
(* Properties *)

Stages == {<<"initial", a>> : a \in 1..MaxCalls} \cup {<<"revision", r>> : r \in 1..MaxRounds}
Drafts == Stages \cup {Brief}

\* Every record of climb/model.py and every event is well formed.
TypeOK ==
    /\ \A r \in receipts : r.output \in Outputs(r.key) /\ r.tokens \in Usages
    /\ Cardinality(Keys(receipts)) = Cardinality(receipts)
    /\ proposals \subseteq [stage : Stages, parent : Drafts]
    /\ reviews \subseteq [stage : Stages, decision : {"approved", "rejected"}]
    /\ transitions \subseteq Stages /\ bindings \subseteq Stages
    /\ tasks \subseteq [round : 0..MaxRounds, candidate : Stages]
    /\ \A e \in Range(evaluations) : e.round \in 0..MaxRounds /\ e.candidate \in bindings
    /\ Len(selections) <= MaxRounds
    /\ Range(lineage) \subseteq [key : {"apply", "select"} \X (Stages \cup {<<"rung", r>> : r \in 1..MaxRounds}),
                                from : Drafts, to : Stages]

\* _check_budget is made before and apart from the calls: a run, however often
\* it was interrupted, calls no driver for what is receipted, none beyond
\* the calls of the Plan and none once its tokens are used up.
CallsAreBudgeted ==
    [][LET new == {run'.asked[i] : i \in run'.pending} IN
       ~At("answers") /\ new # {} =>
                   /\ new \cap Keys(receipts) = {}
                   /\ Cardinality(receipts) + Cardinality(new) <= MaxCalls
                   /\ Tokens < MaxTokens]_vars

\* A move to an approved child of the Draft it leaves, or to one evidence selected.
Authorized(move) ==
    \/ /\ move.key = <<"apply", move.to>>
       /\ [stage |-> move.to, parent |-> move.from] \in proposals
       /\ [stage |-> move.to, decision |-> "approved"] \in reviews
       /\ Decision(move.to) = "approved"
    \/ \E n \in DOMAIN selections :
          move.key = <<"select", <<"rung", n>>>> /\ move.to = selections[n].selected

\* The branch moves to a Draft only from the parent its Proposal was built on and
\* with the receipted approval of another, and back only where evidence said
\* (climb_once, _align_selected_draft).
MovesAreAuthorized ==
    \A i \in DOMAIN lineage :
        /\ lineage[i].from = (IF i = 1 THEN Brief ELSE lineage[i - 1].to)
        /\ Authorized(lineage[i])

\* Each round starts from what the round before selected, both its baseline
\* Evaluation and the Draft its builder was given, and selects its child only
\* for a passing, better score: the standing Candidate never gets worse.
RungsChain ==
    \A n \in DOMAIN selections :
        LET s == selections[n]
            started == IF n = 1 THEN evaluations[1].candidate ELSE selections[n - 1].selected
        IN /\ s.baseline.candidate = started
           /\ [stage |-> <<"revision", n>>, parent |-> started] \in proposals
           /\ s.child.candidate = <<"revision", n>>
           /\ \/ s.selected = s.baseline.candidate
              \/ /\ s.selected = s.child.candidate
                 /\ Passes(s.child)
                 /\ Overall(s.child.scores) > Overall(s.baseline.scores)

\* generation_completed names the current Draft's Candidate, which passed a
\* panel of its own.
CompletedPassed ==
    \A candidate \in Stages :
        <<"completed", candidate>> \in operational =>
            /\ Current = candidate
            /\ \E i \in DOMAIN evaluations : evaluations[i].candidate = candidate /\ Passes(evaluations[i])

\* run() comes to an end: its two while loops are bounded by the stop policy
\* and the rounds, whatever builders, reviewers and judges answer.
RunsEnd == ~At("idle") ~> At("idle")

\* "run may therefore be interrupted and called again against the same
\* directory" (GenerationCoordinator): no run stumbles over the records of an
\* earlier one.
InterruptedRunsResume ==
    run.result \notin {"model key reused", "selection key reused", "not the current Draft",
                       "not distinct Candidates", "Task of other inputs", "ConcurrencyConflict"}

=============================================================================
