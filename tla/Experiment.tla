------------------------------ MODULE Experiment ------------------------------
(***************************************************************************)
(* experiment/, climb/ and playtest/: operators (processes) run scripts of  *)
(* calls on one Experiment directory.  A call reads the ledger, registers   *)
(* records one at a time - each validated with the whole ledger, then       *)
(* appended, with no lock over the two - rebuilds the manifest, and writes   *)
(* the projections.  A process may die anywhere; its operator opens the      *)
(* Experiment again and repeats the call.                                    *)
(***************************************************************************)
EXTENDS PlaytestCalls, Qualification

CONSTANTS
    Operators,      \* processes
    Scenarios,
    Script,         \* what each Operator calls, one after the other, in each
    Crashable,      \* processes that may die half-way
    MaxCrashes      \* bound, of each scenario

\* Calls are given what their signatures say; what is registered alone is an Authority
\* or the receipt of a call of a model.  A plan has an initial state, which
\* Refused is not.
IsAuthority(value) == value.record = "authority"
IsList(value) == value \in Seq(Range(value))
Operations ==
    {"create", "bind", "panel", "translate", "propose", "review", "apply", "select", "attest",
     "register", "freeze", "run", "translate_run", "compare", "issue", "finalize", "plan",
     "authorize", "observe", "measure", "anchor", "rung"}
IsCall(call) ==
    /\ call.op \in Operations
    /\ CASE call.op = "create" -> /\ call.plan.record = "experiment_plan"
                                  /\ call.plan.instrument.record = "instrument"
                                  /\ IsAuthority(call.reviewer)
         [] call.op = "bind" -> call.binding.record = "trial_binding"
         [] call.op = "panel" -> IsList(call.members) /\ call.kind \in {"agent", "human"}
         [] call.op \in {"translate", "translate_run"} -> IsList(call.briefs)
         [] call.op = "propose" -> IsList(call.briefs) /\ IsAuthority(call.builder)
         [] call.op = "register" -> call.record.record \in {"authority", "model_receipt"}
         [] call.op = "run" -> /\ IsList(People(call)) /\ IsList(call.observations)
                               /\ \A i \in DOMAIN People(call) : IsAuthority(People(call)[i])
         [] call.op \in {"issue", "finalize"} -> IsAuthority(call.reviewer)
         [] call.op = "plan" -> InitialState(call.plan) # Refused
         [] call.op = "rung" -> /\ DOMAIN call.rung \cap {"record", "child"} = {}
                                /\ call.rung.type = "selected_rung_recorded"
         [] OTHER -> TRUE

\* Where the code names a Run by its run_id, a call names it by the run_key: no two Runs
\* of a scenario have one under different idempotency keys.
RunsAreNamed(s) ==
    \A p, q \in Operators : \A i \in DOMAIN Script[s][p], j \in DOMAIN Script[s][q] :
       LET run == Script[s][p][i]
           other == Script[s][q][j]
       IN run.op = "run" /\ other.op = "run" /\ run.key = other.key => run.id = other.id

ASSUME OperatorsAssumption == Crashable \subseteq Operators
ASSUME ScriptAssumption ==
    /\ DOMAIN Script = Scenarios /\ DOMAIN MaxCrashes = Scenarios
    /\ \A s \in Scenarios : MaxCrashes[s] \in Nat /\ DOMAIN Script[s] = Operators
    /\ \A s \in Scenarios, p \in Operators :
         IsList(Script[s][p]) /\ \A i \in DOMAIN Script[s][p] : IsCall(Script[s][p][i])
    /\ \A s \in Scenarios : RunsAreNamed(s)

VARIABLES
    scenario,
    climb, operational, qualification,  \* journals
    drafts,         \* the lineage journal
    active,         \* active-experiment.json
    standing,       \* current-standing.json
    view,           \* the journal heads in self.workspace.manifest of each process
    work,           \* where each process is
    results,        \* how its calls have ended
    raced,          \* a journal grew between a check and the append it allowed
    mixed,          \* two calls have been in flight at once
    crashes

journals == <<climb, operational, qualification, drafts>>
projections == <<active, standing>>
vars == <<scenario, climb, operational, qualification, drafts, active, standing, view,
          work, results, raced, mixed, crashes>>

Heads == [climb |-> Len(climb), operational |-> Len(operational),
          qualification |-> Len(qualification), lineage |-> Len(drafts)]

\* A process between calls; it has not opened the Experiment.
Idle == [phase |-> "closed", stage |-> 1, todo |-> << >>, next |-> "stage",
         task |-> None, seen |-> [climb |-> 0, operational |-> 0, qualification |-> 0,
                                  lineage |-> 0],
         added |-> 0, interrupted |-> FALSE]

Init ==
    /\ scenario \in Scenarios
    /\ climb = << >> /\ operational = << >> /\ qualification = << >> /\ drafts = << >>
    /\ active = None /\ standing = None
    /\ view = [p \in Operators |-> Heads]
    /\ work = [p \in Operators |-> Idle]
    /\ results = [p \in Operators |-> << >>]
    /\ raced = FALSE /\ mixed = FALSE
    /\ crashes = 0

Remaining(p) == Len(results[p]) < Len(Script[scenario][p])
CallOf(p) == Script[scenario][p][Len(results[p]) + 1]

-----------------------------------------------------------------------------
(* What each call does *)

CurrentDraft == Last(drafts).child

\* Experiment.create: the directory must be new, the reviewer a reviewer.
Create(call) ==
    IF call.reviewer.kind \notin {"agent", "human"} \/ call.reviewer.role # "reviewer"
       \/ drafts # << >>
    THEN Raises(<< >>)
    ELSE Returns(<<Commit(<<"workspace-created">>, None),
                   Commit(<<"experiment-create">>, Draft(None, call.data)),
                   Entry(<<"instrument", call.plan.instrument>>, call.plan.instrument),
                   Entry(<<"authority", call.reviewer.id>>, call.reviewer),
                   Entry(<<"experiment-plan">>, call.plan)>>)

RecordPlan(call) ==
    IF IsEfficiencyPlan(call.plan) THEN Returns(<<PlanEvent(call.plan)>>) ELSE Raises(<< >>)

\* Mutant: a boundary is authorized whatever was authorized before.
AuthorizeAnyBoundary(call) == Returns(<<BoundaryEvent(call.plan, call.boundary)>>)

AuthorizeBoundary(call) ==
    IF MayAuthorize(operational, call.plan, call.boundary)
    THEN Returns(<<BoundaryEvent(call.plan, call.boundary)>>) ELSE Raises(<< >>)

RecordObservation(call) ==
    IF ~MayObserve(operational, call.plan) THEN Raises(<< >>)
    ELSE LET state == StateAfter(operational, call.plan, call.observation)
         IN IF state = Refused THEN Raises(<< >>)
            ELSE Returns(<<ObservationEvent(call.plan, call.observation, state)>>)

RecordFormalMeasurement(call) ==
    IF MayMeasure(operational, call.plan, call.candidate, call.instrument, call.judges)
    THEN Returns(<<FormalEvent(call.plan, call.judges)>>) ELSE Raises(<< >>)

RecordSelectedRung(call) ==
    IF RungValid(qualification, call.rung) THEN Returns(<<call.rung>>) ELSE Raises(<< >>)

\* What a stage of the call does, given what drivers would answer now.
StageOf(call, n, task, given) ==
    LET bundle == Records(climb)
    IN CASE call.op = "create" -> Create(call)
         [] call.op = "bind" -> Bind(bundle, call)
         [] call.op = "panel" -> PanelStage(climb, call, n, task, given)
         [] call.op = "translate" -> Translate(bundle, call)
         [] call.op = "propose" -> ProposeStage(climb, call, n, task, given, CurrentDraft)
         [] call.op = "review" -> Review(bundle, call)
         [] call.op = "apply" -> ApplyStage(bundle, call, n)
         [] call.op = "select" -> Select(bundle, call)
         [] call.op = "attest" -> Attest(bundle, call)
         [] call.op = "register" -> Returns(<<Entry(call.key, call.record)>>)
         [] call.op = "freeze" -> FreezeProtocol(bundle, call)
         [] call.op = "run" -> RunStage(climb, call, n)
         [] call.op = "translate_run" -> TranslateRun(bundle, call)
         [] call.op = "compare" -> Compared(bundle, call)
         [] call.op = "issue" -> IssueStanding(bundle, call)
         [] call.op = "finalize" -> FinalizeStanding(bundle, call)
         [] call.op = "plan" -> RecordPlan(call)
         [] call.op = "authorize" -> AuthorizeBoundary(call)
         [] call.op = "observe" -> RecordObservation(call)
         [] call.op = "measure" -> RecordFormalMeasurement(call)
         [] call.op = "anchor" -> Returns(<<AnchorEvent(call.candidate)>>)
         [] call.op = "rung" -> RecordSelectedRung(call)

\* What drivers may answer: an output of each, or None for one that raises.
Answers(call, n) ==
    CASE call.op = "panel" /\ call.kind = "agent" /\ n = 2 ->
           [DOMAIN call.members -> call.outputs]
      [] call.op = "propose" /\ n = 4 -> call.outputs
      [] OTHER -> {None}

-----------------------------------------------------------------------------
(* Steps of a call *)

Goto(p, phase) == work' = [work EXCEPT ![p].phase = phase]

\* The call has ended.  Its caller keeps the Experiment it has opened; a command
\* is a process of its own.
End(p, outcome) ==
    /\ results' = [results EXCEPT ![p] =
         Append(@, [outcome |-> outcome, added |-> work[p].added,
                    interrupted |-> work[p].interrupted])]
    /\ work' = [work EXCEPT ![p] = [Idle EXCEPT !.phase =
         IF \/ outcome = "unopenable" \/ CallOf(p).command
            \/ CallOf(p).op = "create" /\ outcome # "done"
         THEN "closed" ELSE "ready"]]

\* The projections that there is something to say in, with the journal heads that
\* the Workspace of the process has read.
ActiveNow(heads) ==
    IF EventsOf(operational, "plan_recorded") = {} THEN active
    ELSE ActiveProjection(operational, heads)
StandingNow(heads) ==
    IF HasRung(qualification) THEN StandingProjection(operational, qualification, heads)
    ELSE standing
CanOpen ==
    /\ drafts # << >>
    /\ Derivable(operational)
    /\ Cardinality(Collection(Records(climb), "experiment_plan")) = 1

Waits(p) == \A q \in Operators \ {p} : Len(results[q]) >= CallOf(p).after

Busy(p) == work[p].phase \notin {"closed", "ready"}
Mixes(p) == mixed' = (mixed \/ \E q \in Operators \ {p} : Busy(q))

\* Experiment.__init__, with which a command (ingestion, a review, a baseline)
\* begins: there must be a Workspace, whose spine writes current-standing.json ...
Open(p) ==
    /\ Remaining(p) /\ Waits(p)
    /\ work[p].phase \in {"closed", "ready"} /\ work[p].stage = 1
    /\ work[p].phase = "ready" => CallOf(p).command
    /\ CallOf(p).op # "create"
    /\ IF drafts # << >> /\ (HasRung(qualification) => Derivable(operational))
       THEN /\ standing' = StandingNow(Heads)
            /\ view' = [view EXCEPT ![p] = Heads]
            /\ Goto(p, "open")
            /\ UNCHANGED results
       ELSE End(p, "unopenable") /\ UNCHANGED <<standing, view>>
    /\ Mixes(p)
    /\ UNCHANGED <<scenario, journals, active, raced, crashes>>

\* ... then active-experiment.json and the standing once more, whether or not
\* there turns out to be one plan.
OpenActive(p) ==
    /\ work[p].phase = "open"
    /\ IF Derivable(operational)
       THEN active' = ActiveNow(view[p]) /\ standing' = StandingNow(view[p])
       ELSE UNCHANGED projections
    /\ IF CanOpen THEN Goto(p, "run") /\ UNCHANGED results ELSE End(p, "unopenable")
    /\ UNCHANGED <<scenario, journals, view, raced, mixed, crashes>>

\* The call, or its next stage, reads the journals.
Stage(p) ==
    /\ Remaining(p) /\ Waits(p)
    /\ \/ work[p].phase = "run"
       \/ work[p].phase = "ready" /\ ~CallOf(p).command
       \/ work[p].phase = "closed" /\ CallOf(p).op = "create"
    /\ \E given \in Answers(CallOf(p), work[p].stage) :
         LET stage == StageOf(CallOf(p), work[p].stage, work[p].task, given)
         IN work' = [work EXCEPT ![p].phase = "write", ![p].todo = stage.writes,
                                 ![p].next = stage.next, ![p].task = stage.task,
                                 ![p].seen = Heads]
    /\ Mixes(p)
    /\ UNCHANGED <<scenario, journals, projections, view, results, raced, crashes>>

JournalOf(write) ==
    IF "record" \in DOMAIN write THEN "climb"
    ELSE IF "child" \in DOMAIN write THEN "lineage"
    ELSE IF write.type \in EfficiencyTypes THEN "operational"
    ELSE "qualification"

\* The process is about to write to that journal.
Writing(p, phase, journal) ==
    /\ work[p].phase = phase
    /\ work[p].todo # << >>
    /\ JournalOf(Head(work[p].todo)) = journal

\* Mutant: the record is appended as it is.
AcceptRecord(p) ==
    /\ Writing(p, "write", "climb")
    /\ work' = [work EXCEPT ![p].phase = "append", ![p].seen = Heads]
    /\ UNCHANGED <<scenario, journals, projections, view, results, raced, mixed, crashes>>

\* ClimbLedger._record: the whole ledger is validated with the new record,
\* unless its key is there.
CheckRecord(p) ==
    /\ Writing(p, "write", "climb")
    /\ LET write == Head(work[p].todo)
       IN IF HasKey(climb, write.key) \/ Closed(Append(Records(climb), write.record))
          THEN /\ work' = [work EXCEPT ![p].phase = "append", ![p].seen = Heads]
               /\ UNCHANGED results
          ELSE End(p, "refused")
    /\ UNCHANGED <<scenario, journals, projections, view, raced, mixed, crashes>>

\* Appending is atomic (Journal.append locks); what allowed it is not part of it.
Appended(p, verdict, grown) ==
    /\ raced' = (raced \/ (verdict = "append" /\ grown))
    /\ IF verdict \in {"append", "existing"}
       THEN /\ work' = [work EXCEPT ![p].phase = "index",
                                    ![p].added = @ + IF verdict = "append" THEN 1 ELSE 0]
            /\ UNCHANGED results
       ELSE End(p, "refused")

AppendRecord(p) ==
    /\ Writing(p, "append", "climb")
    /\ LET write == Head(work[p].todo)
           verdict == Verdict(climb, write, Unset)
       IN /\ climb' = IF verdict = "append" THEN Append(climb, write) ELSE climb
          /\ Appended(p, verdict, Len(climb) # work[p].seen.climb)
    /\ UNCHANGED <<scenario, operational, qualification, drafts, projections, view, mixed, crashes>>

AppendOperational(p) ==
    /\ Writing(p, "write", "operational")
    /\ LET write == Head(work[p].todo)
           verdict == Verdict(operational, write, Unset)
       IN /\ operational' = IF verdict = "append" THEN Append(operational, write)
                            ELSE operational
          /\ Appended(p, verdict, Len(operational) # work[p].seen.operational)
    /\ UNCHANGED <<scenario, climb, qualification, drafts, projections, view, mixed, crashes>>

AppendQualification(p) ==
    /\ Writing(p, "write", "qualification")
    /\ LET write == Head(work[p].todo)
           verdict == Verdict(qualification, write, Unset)
       IN /\ qualification' = IF verdict = "append" THEN Append(qualification, write)
                              ELSE qualification
          /\ Appended(p, verdict, Len(qualification) # work[p].seen.qualification)
    /\ UNCHANGED <<scenario, climb, operational, drafts, projections, view, mixed, crashes>>

\* Workspace.commit_draft, one transaction (module Workspace): a recorded key
\* first, then the head must be the parent.
CommitDraft(p) ==
    /\ Writing(p, "write", "lineage")
    /\ LET write == Head(work[p].todo)
           verdict == Verdict(drafts, write, Unset)
           fits == write.child = None \/ write.child.parent = CurrentDraft
       IN IF verdict = "append" /\ fits
          THEN /\ drafts' = Append(drafts, write)
               /\ Appended(p, "append", FALSE)
          ELSE /\ Appended(p, IF verdict = "append" THEN "head_conflict" ELSE verdict, FALSE)
               /\ UNCHANGED drafts
    /\ UNCHANGED <<scenario, climb, operational, qualification, projections, view, mixed, crashes>>

\* Efficiency calls and a selected Rung write projections.
Projects(write) == "standings" \in DOMAIN write \/ JournalOf(write) = "operational"

\* rebuild_indexes after every append.
Index(p) ==
    /\ work[p].phase = "index"
    /\ view' = [view EXCEPT ![p] = Heads]
    /\ IF Projects(Head(work[p].todo)) THEN Goto(p, "project")
       ELSE work' = [work EXCEPT ![p].phase = "write", ![p].todo = Tail(@)]
    /\ UNCHANGED <<scenario, journals, projections, results, raced, mixed, crashes>>

\* Mutant: the efficiency calls leave their projection to the next one.
ProjectRungsOnly(p) ==
    /\ work[p].phase = "project"
    /\ work' = [work EXCEPT ![p].phase = "write", ![p].todo = Tail(@)]
    /\ standing' = IF "standings" \in DOMAIN Head(work[p].todo)
                   THEN StandingProjection(operational, qualification, view[p]) ELSE standing
    /\ UNCHANGED <<scenario, journals, active, view, results, raced, mixed, crashes>>

\* Efficiency calls write active-experiment.json and, once a rung is selected,
\* current-standing.json; record_selected_rung writes the latter.
Project(p) ==
    /\ work[p].phase = "project"
    /\ LET write == Head(work[p].todo)
           efficiency == JournalOf(write) = "operational"
           rung == "standings" \in DOMAIN write
           current == IF efficiency THEN ActiveProjection(operational, view[p]) ELSE active
           selected == IF rung \/ (efficiency /\ HasRung(qualification))
                       THEN StandingProjection(operational, qualification, view[p])
                       ELSE standing
       IN IF ~Derivable(operational)
          THEN End(p, "refused") /\ UNCHANGED projections
          ELSE /\ active' = current
               /\ standing' = selected
               /\ work' = [work EXCEPT ![p].phase = "write", ![p].todo = Tail(@)]
               /\ UNCHANGED results
    /\ UNCHANGED <<scenario, journals, view, raced, mixed, crashes>>

\* Everything the stage registers is there.
Settle(p) ==
    /\ work[p].phase = "write"
    /\ work[p].todo = << >>
    /\ CASE work[p].next = "stage" ->
              /\ work' = [work EXCEPT ![p].phase = "run", ![p].stage = @ + 1]
              /\ UNCHANGED results
         [] work[p].next = "done" /\ CallOf(p).command ->
              Goto(p, "verify") /\ UNCHANGED results
         [] OTHER -> End(p, work[p].next)
    /\ UNCHANGED <<scenario, journals, projections, view, raced, mixed, crashes>>

\* Experiment.verify, without what Workspace.verify adds.
Verifies(p) ==
    /\ LedgerVerifies(Records(climb))
    /\ SpineVerifies(operational, qualification, standing, view[p])
    /\ EfficiencyVerifies(operational, active, view[p])

\* A command verifies the Experiment last, and raises when it does not hold;
\* what it has recorded stays.
Verify(p) ==
    /\ work[p].phase = "verify"
    /\ End(p, IF Verifies(p) THEN "done" ELSE "unverified")
    /\ UNCHANGED <<scenario, journals, projections, view, raced, mixed, crashes>>

\* The process dies; the call it was in is repeated from its beginning.
Crash(p) ==
    /\ p \in Crashable
    /\ crashes < MaxCrashes[scenario]
    /\ Busy(p)
    /\ crashes' = crashes + 1
    /\ work' = [work EXCEPT ![p] = [Idle EXCEPT !.added = work[p].added,
                                                !.interrupted = TRUE]]
    /\ UNCHANGED <<scenario, journals, projections, view, results, raced, mixed>>

Next ==
    \E p \in Operators :
       \/ Open(p) \/ OpenActive(p) \/ Stage(p)
       \/ CheckRecord(p) \/ AppendRecord(p)
       \/ AppendOperational(p) \/ AppendQualification(p) \/ CommitDraft(p)
       \/ Index(p) \/ Project(p) \/ Settle(p) \/ Verify(p)
       \/ Crash(p)

Spec == Init /\ [][Next]_vars

-----------------------------------------------------------------------------
(* Properties *)

\* The kinds of record whose validity later records cannot take away.
ClosedForGood(bundle) ==
    /\ AuthoritiesClosed(bundle) /\ InstrumentsClosed(bundle) /\ TasksClosed(bundle)
    /\ ModelReceiptsClosed(bundle) /\ HumanReceiptsClosed(bundle)
    /\ RequirementsClosed(bundle) /\ ExposuresClosed(bundle) /\ ProposalsClosed(bundle)
    /\ TransitionsClosed(bundle) /\ ProtocolsClosed(bundle) /\ RunsClosed(bundle)
    /\ ComparisonsClosed(bundle) /\ BindingsClosed(bundle) /\ SelectionsClosed(bundle)

\* The climb ledger names nothing that is not in it, whatever operators do at
\* once; all of validate_climb_bundle holds of it as long as no record was
\* appended between the validation and the appending of another.
LedgerClosed ==
    /\ ClosedForGood(Records(climb))
    /\ ~raced => Closed(Records(climb))

\* No identity sits on two blind panels of an Experiment, not even one whose
\* first Task was interrupted or refused before it answered - if operators do
\* not prepare panels at the same time.
JudgesAreFresh ==
    ~mixed =>
      \A t, u \in {x \in Collection(Records(climb), "task") : x.kind = "blind-measure"} :
         t # u => ToSet(t.occupants) \cap ToSet(u.occupants) = {}

IsApproved(draft) ==
    \E review \in Reviews(Records(climb)) :
       /\ review.decision = "approved"
       /\ draft = Draft(review.proposal.baseline, review.proposal.data)

\* The branch only ever moves to what an approved Review is about, from what
\* that Proposal was made on; and the ledger has no Transition the lineage has
\* not made.
MovesAreApproved ==
    /\ \A i \in DOMAIN drafts : i > 2 => IsApproved(drafts[i].child)
    /\ \A transition \in Collection(Records(climb), "transition") :
         \E d \in ToSet(drafts) : d.child = transition.child

\* A Run or a Standing that is refused leaves nothing in the ledger: no people,
\* no Findings, no reviewer.
RefusedCallsLeaveNothing ==
    ~mixed =>
      \A p \in Operators : \A i \in DOMAIN results[p] :
         /\ Script[scenario][p][i].op \in {"run", "issue", "finalize"}
         /\ results[p][i].outcome = "refused"
         => results[p][i].added = 0

\* A call made again after it has succeeded adds nothing to any journal, also
\* when others came in between.
RepeatsAddNothing ==
    \A p \in Operators : \A i, j \in DOMAIN results[p] :
       /\ i < j /\ Script[scenario][p][i] = Script[scenario][p][j]
       /\ results[p][i].outcome = "done"
       => results[p][j].added = 0

\* Whoever answers this call answers as its caller needs.
AnswersTo(call) ==
    CASE call.op = "propose" \/ (call.op = "panel" /\ call.kind = "agent") -> call.outputs
      [] call.op = "panel" -> {m.output : m \in ToSet(call.members)}
      [] OTHER -> {}
AnswersHold(call) ==
    \A output \in AnswersTo(call) :
       /\ output # None
       /\ IF call.op = "propose"
          THEN output.data # None /\ \A d \in ToSet(drafts) : d.child # None
                                                               => output.data # d.child.data
          ELSE /\ DOMAIN output.scores # {}
               /\ \A f \in ToSet(output.findings) : f.quote \in call.binding.trial.spans

\* Creating must not be interrupted, and a boundary is not authorized twice.
OneShot == {"create", "authorize"}

\* An Experiment that any call has succeeded in can be opened, as long as one
\* operator works at a time: no later call of anyone finds that it cannot be.
CreatedOpens ==
    ~mixed =>
      \A p \in Operators : \A i \in DOMAIN results[p] :
         /\ results[p][i].outcome = "done" => CanOpen
         /\ results[p][1].outcome = "done" => results[p][i].outcome # "unopenable"

\* What an interrupted call has recorded does not keep the repeated call from
\* completing, and an Experiment that was created can always be opened again.
InterruptedCallsLand ==
    /\ ~mixed =>
         \A p \in Operators : \A i \in DOMAIN results[p] :
            LET call == Script[scenario][p][i]
                result == results[p][i]
            IN  /\ result.interrupted /\ result.added > 0 /\ call.op \notin OneShot
                /\ AnswersHold(call)
                => result.outcome # "refused"
    /\ CreatedOpens

\* Every observation in the operational journal carries the state the plan had
\* reached, and every boundary was allowed by those before it; and whenever no
\* call is in flight and none that died is still to be repeated,
\* active-experiment.json says what the journal says - as long as one operator
\* works at a time.
QualificationReplays ==
    /\ ~mixed => EfficiencyEventsVerify(operational)
    /\ ~mixed /\ (\A p \in Operators : ~Busy(p) /\ ~work[p].interrupted)
         /\ EventsOf(operational, "plan_recorded") # {}
         => active = ActiveProjection(operational, Heads)
=============================================================================
