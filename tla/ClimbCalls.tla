------------------------------ MODULE ClimbCalls ------------------------------
(***************************************************************************)
(* experiment/api.py and climb/ledger.py: what each operation of an         *)
(* Experiment reads from the climb ledger and what it then registers.  An   *)
(* operation reads the ledger again between its registrations, so it is cut *)
(* into stages; a stage is what follows one reading.  The ledger is the     *)
(* sequence of [key, record] of its journal, and a call names what it works *)
(* on by the keys its caller chose.                                         *)
(***************************************************************************)
EXTENDS ClimbValidation, ClimbPlanning, JournalLog

Entry(key, record) == [key |-> key, record |-> record]

\* ClimbLedger.records
Records(climb) == [i \in DOMAIN climb |-> climb[i].record]

\* Places of a sequence, in order.
InOrder(places) ==
    [n \in 1..Cardinality(places) |->
       CHOOSE i \in places : Cardinality({j \in places : j < i}) = n - 1]

\* What a stage does: what it registers, and whether the call then goes on,
\* returns or raises; task is the Task later stages work on.
Goes(writes, task) == [writes |-> writes, next |-> "stage", task |-> task]
Returns(writes) == [writes |-> writes, next |-> "done", task |-> None]
Raises(writes) == [writes |-> writes, next |-> "refused", task |-> None]

PlanOf(bundle) == CHOOSE plan \in Collection(bundle, "experiment_plan") : TRUE
InstrumentOf(bundle) == PlanOf(bundle).instrument

TasksNamed(bundle, key) == {t \in Collection(bundle, "task") : t.key = key}
EvaluationsOf(bundle, key) ==
    {e \in Collection(bundle, "evaluation") : e.task.key = key}
RunsNamed(bundle, key) == {r \in Collection(bundle, "playtest_run") : r.key = key}
ProposalsOf(bundle, key) == {p \in Collection(bundle, "proposal") : p.task.key = key}
The(set) == CHOOSE x \in set : TRUE

\* CompletePackage gates, as bind_package and a preview ask for them.
PassesGates(bundle, gates) ==
    DOMAIN gates = InstrumentOf(bundle).gates /\ AllHold(gates)

Bind(bundle, call) ==
    IF PassesGates(bundle, call.binding.gates)
    THEN Returns(<<Entry(<<"binding", call.key>>, call.binding)>>)
    ELSE Raises(<< >>)

-----------------------------------------------------------------------------
(* Blind panels *)

MemberIds(call) == [i \in DOMAIN call.members |-> call.members[i].id]
JudgeOf(call, i) ==
    Authority(call.members[i].id, call.kind, "judge", call.members[i].principal)

\* _panel_protocol
PanelAllowed(bundle, call) ==
    LET protocol == InstrumentOf(bundle).protocol
    IN /\ protocol.size >= 1 /\ Len(call.members) = protocol.size
       /\ IsInjective(MemberIds(call))
       /\ protocol.lenses # {} =>
            {call.members[i].lens : i \in DOMAIN call.members} = protocol.lenses
       /\ call.aggregator = protocol.aggregation

\* Mutant: only the identities that have judged are compared, not the Tasks
\* that were prepared and then interrupted.
UsedByReceipts(bundle) ==
    {r.authority : r \in Collection(bundle, "model_receipt")
                           \cup Collection(bundle, "human_receipt")}

\* The identities a fresh panel may not reuse.
UsedAuthorities(bundle) ==
    (UNION {ToSet(t.occupants) : t \in Collection(bundle, "task")})
      \cup {r.authority : r \in Collection(bundle, "model_receipt")
                               \cup Collection(bundle, "human_receipt")
                               \cup Collection(bundle, "exposure")}

PanelInputs(call) == [trial |-> call.binding.trial, binding |-> call.binding]

PanelTask(bundle, call) ==
    Task(call.key, "blind-measure", call.binding.candidate, InstrumentOf(bundle),
         MemberIds(call),
         {a.id : a \in {x \in Authorities(bundle) :
                          /\ x.id \notin ToSet(MemberIds(call))
                          /\ x.kind = "agent"
                          /\ x.role \in {"builder", "fixer", "judge"}}},
         PanelInputs(call))

\* Mutant: the identities must be unused also for a Task prepared before.
MayPrepareAnew(bundle, call) ==
    /\ call.binding \in Collection(bundle, "trial_binding")
    /\ Cardinality(TasksNamed(bundle, call.key)) <= 1
    /\ UsedAuthorities(bundle) \cap ToSet(MemberIds(call)) = {}

\* A Task that exists must be the one this call would prepare; a new one needs
\* identities nobody has used.
MayPrepare(bundle, call) ==
    /\ call.binding \in Collection(bundle, "trial_binding")
    /\ Cardinality(TasksNamed(bundle, call.key)) <= 1
    /\ \A task \in TasksNamed(bundle, call.key) :
         /\ task.kind = "blind-measure"
         /\ task.candidate = call.binding.candidate
         /\ task.instrument = InstrumentOf(bundle)
         /\ task.occupants = MemberIds(call)
         /\ task.inputs = PanelInputs(call)
    /\ TasksNamed(bundle, call.key) = {} =>
         UsedAuthorities(bundle) \cap ToSet(MemberIds(call)) = {}

\* _prepare_panel_task: one member after the other is registered, so a member
\* whose identity names somebody else stops it half-way.
PreparePanel(bundle, call) ==
    LET existing == TasksNamed(bundle, call.key)
        task == IF existing = {} THEN PanelTask(bundle, call) ELSE The(existing)
        judges == [i \in DOMAIN call.members |->
                     Entry(<<"authority", call.members[i].id>>, JudgeOf(call, i))]
        taken == {i \in DOMAIN call.members :
                    \E a \in Authorities(bundle) :
                       a.id = call.members[i].id /\ a # JudgeOf(call, i)}
        exposures == [i \in DOMAIN call.members |->
                        Entry(<<"exposure", call.key, call.members[i].id>>,
                              Exposure(call.members[i].id, call.binding.trial,
                                       "trial-tree", task))]
    IN IF taken # {} THEN Raises(SubSeq(judges, 1, Min(taken) - 1))
       ELSE Goes(judges
                   \o (IF existing = {} THEN <<Entry(<<"task", call.key>>, task)>> ELSE << >>)
                   \o exposures,
                 task)

\* _existing_panel, then the preparation.
StartPanel(bundle, call) ==
    LET done == EvaluationsOf(bundle, call.key)
    IN IF ~PanelAllowed(bundle, call) THEN Raises(<< >>)
       ELSE IF done # {}
       THEN IF The(done).judges = MemberIds(call) THEN Returns(<< >>) ELSE Raises(<< >>)
       ELSE IF MayPrepare(bundle, call) THEN PreparePanel(bundle, call)
       ELSE Raises(<< >>)

\* record_replayable_model_invocation
Invoked(key, authority, role, input, output) ==
    Entry(key, ModelReceipt(authority, role, input, output, "live-model"))

\* record_human_observation
Answered(task, id, response) ==
    Entry(<<"human", task, id>>, HumanReceipt(id, task, response, "fresh-human"))

ReceiptKey(task, id) == <<"model", task, id>>
PanelInput(call, task, i) == [task |-> task, lens |-> call.members[i].lens]

\* execute_model_tasks_concurrently: receipts there are, are kept; a driver
\* that raised (given is None) leaves its siblings' receipts behind.
InvokePanel(climb, call, task, given) ==
    LET key(i) == ReceiptKey(task, call.members[i].id)
        pending == {i \in DOMAIN call.members : ~HasKey(climb, key(i))}
        returned == {i \in pending : given[i] # None}
        writes == [n \in DOMAIN InOrder(returned) |->
                     LET i == InOrder(returned)[n]
                     IN Invoked(key(i), call.members[i].id, "judge",
                                PanelInput(call, task, i), given[i])]
    IN IF \E i \in DOMAIN call.members :
            /\ HasKey(climb, key(i))
            /\ EventForKey(climb, key(i)).record.input # PanelInput(call, task, i)
       THEN Raises(<< >>)
       ELSE IF returned # pending THEN Raises(writes)
       ELSE Goes(writes, task)

\* _validate_observation: every dimension is scored, the findings are a list,
\* every quote is visible.
ObservationValid(bundle, call, output) ==
    /\ IsScored(output.scores, InstrumentOf(bundle))
    /\ output.findings \in Seq(Range(output.findings))
    /\ \A f \in ToSet(output.findings) : f.quote \in call.binding.trial.spans

\* _validate_print_inspection: each printed file was opened once, to its end.
InspectionValid(bundle, call, output) ==
    InstrumentOf(bundle).protocol.inspect =>
      LET paths == [i \in DOMAIN output.inspection |-> output.inspection[i].path]
      IN /\ IsInjective(paths)
         /\ ToSet(paths) = DOMAIN call.binding.trial.prints
         /\ \A i \in DOMAIN paths :
              output.inspection[i].pages = call.binding.trial.prints[paths[i]]

\* A Finding is made of what an answer says.
FindingOf(found) == Finding(found.code, found.quote, found.locus)

\* The first places of the Findings that the ledger does not have; None is no Finding.
NewIn(findings, bundle) ==
    InOrder({n \in DOMAIN findings :
               /\ findings[n] \notin Collection(bundle, "finding") \cup {None}
               /\ \A k \in 1..(n - 1) : findings[k] # findings[n]})

\* _record_findings, for the findings the ledger does not have.
FindingEntries(bundle, task, id, findings) ==
    LET new == NewIn(findings, bundle)
    IN [n \in DOMAIN new |->
          Entry(<<"finding", task, id, new[n]>>, FindingOf(findings[new[n]]))]

ModelOutput(climb, call, task, i) ==
    EventForKey(climb, ReceiptKey(task, call.members[i].id)).record.output

\* What a model judge answered is parsed after its Receipt is recorded; what a
\* person answered is validated first.
JudgeMember(climb, call, task, i) ==
    LET bundle == Records(climb)
        id == call.members[i].id
        output == IF call.kind = "agent" THEN ModelOutput(climb, call, task, i)
                  ELSE call.members[i].output
        receipt == IF call.kind = "agent" THEN << >>
                   ELSE <<Answered(task, id, output)>>
    IN IF \/ ~ObservationValid(bundle, call, output)
          \/ call.kind = "agent" /\ ~InspectionValid(bundle, call, output)
       THEN Raises(<< >>)
       ELSE Goes(receipt \o FindingEntries(bundle, task, id, output.findings), task)

\* MedianPerDimension: int() of the median.
Aggregate(instrument, outputs) ==
    [d \in DOMAIN instrument.weights |->
       DoubleMedian([i \in DOMAIN outputs |-> outputs[i].scores[d]]) \div 2]

DistinctOf(seq) ==
    FoldLeft(LAMBDA kept, x : IF x \in ToSet(kept) THEN kept ELSE Append(kept, x), << >>, seq)

\* _finalize_panel
FinalizePanel(climb, call, task) ==
    LET human == call.kind = "human"
        receipts == [i \in DOMAIN call.members |->
                       EventForKey(climb, IF human THEN <<"human", task, call.members[i].id>>
                                          ELSE ReceiptKey(task, call.members[i].id)).record]
        outputs == [i \in DOMAIN call.members |->
                      IF human THEN receipts[i].response ELSE receipts[i].output]
        scores == Aggregate(task.instrument, outputs)
        evaluation ==
            Evaluation(task, "blind", MemberIds(call),
                       IF human THEN << >> ELSE receipts, IF human THEN receipts ELSE << >>,
                       scores,
                       DistinctOf(FlattenSeq([i \in DOMAIN outputs |-> outputs[i].findings])),
                       call.binding.gates,
                       Outcome(task.instrument, scores, call.binding.gates))
    IN Returns(<<Entry(<<"evaluation", task>>, evaluation)>>)

\* measure_model_panel, measure_human_panel
PanelStage(climb, call, n, task, given) ==
    LET bundle == Records(climb)
        first == IF call.kind = "agent" THEN 3 ELSE 2
    IN CASE n = 1 -> StartPanel(bundle, call)
         [] n = 2 /\ call.kind = "agent" -> InvokePanel(climb, call, task, given)
         [] n \in first..(first + Len(call.members) - 1) ->
              JudgeMember(climb, call, task, n - first + 1)
         [] OTHER -> FinalizePanel(climb, call, task)

-----------------------------------------------------------------------------
(* Requirements, proposals, reviews and transitions *)

\* What the translator makes of the findings of an Evaluation or a Run.
RequirementOf(call, i, findings) == Requirement("tighten", call.briefs[i], findings)
Translated(call, findings) ==
    IF findings = << >> THEN << >>
    ELSE [i \in DOMAIN call.briefs |-> RequirementOf(call, i, findings)]

\* translate_requirements: those the ledger does not have yet.
TranslateWrites(bundle, call, findings, prefix) ==
    LET new == InOrder({i \in DOMAIN Translated(call, findings) :
                          RequirementOf(call, i, findings) \notin Collection(bundle, "requirement")})
    IN [n \in DOMAIN new |-> LET r == RequirementOf(call, new[n], findings)
                              IN Entry(<<prefix, r>>, r)]

Translate(bundle, call) ==
    IF EvaluationsOf(bundle, call.of) = {} THEN Raises(<< >>)
    ELSE Returns(TranslateWrites(bundle, call, The(EvaluationsOf(bundle, call.of)).findings,
                                 "requirement"))

\* What a builder answers: an Evaluation, or, in propose_revision_from_requirements, the
\* Run whose Requirements it is given.
SourcesOf(bundle, call) ==
    IF call.from = "run" THEN RunsNamed(bundle, call.of) ELSE EvaluationsOf(bundle, call.of)
RequirementsFor(bundle, call) == Translated(call, The(SourcesOf(bundle, call)).findings)
BaselineOf(bundle, call) ==
    LET source == The(SourcesOf(bundle, call))
    IN IF call.from = "run" THEN source.protocol.binding.candidate ELSE source.candidate

\* The fix Task: it excludes every judge there is when it is prepared.
FixTask(bundle, call, head) ==
    Task(call.key, "fix", BaselineOf(bundle, call), InstrumentOf(bundle), <<call.builder.id>>,
         {a.id : a \in {x \in Authorities(bundle) : x.role = "judge"}},
         [requirements |-> RequirementsFor(bundle, call), package |-> head.data])

PrepareFix(bundle, call, head) ==
    LET task == FixTask(bundle, call, head)
        exposure(label, object) ==
            Entry(<<"exposure", call.key, label>>,
                  Exposure(call.builder.id, object, label, task))
    IN Goes(<<Entry(<<"task", call.key>>, task),
              exposure("answer_safe_requirements", task.inputs.requirements),
              exposure("authoring_package", task.inputs.package)>>, task)

BuilderKey(task) == <<"model", task>>

\* execute_model_task
InvokeBuilder(climb, call, task, given) ==
    IF HasKey(climb, BuilderKey(task))
    THEN IF EventForKey(climb, BuilderKey(task)).record.input = [task |-> task]
         THEN Goes(<< >>, task) ELSE Raises(<< >>)
    ELSE IF given = None THEN Raises(<< >>)
    ELSE Goes(<<Invoked(BuilderKey(task), call.builder.id, "builder", [task |-> task], given)>>,
              task)

\* The output is applied to the Draft that is current now, which is also the
\* baseline the Proposal names.
Propose(climb, call, task, head) ==
    LET bundle == Records(climb)
        receipt == EventForKey(climb, BuilderKey(task)).record
    IN IF \/ receipt.output.data = None
          \/ receipt.output.data = task.candidate
          \/ ~PassesGates(bundle, receipt.output.gates)
       THEN Raises(<< >>)
       ELSE Returns(<<Entry(<<"proposal", call.key>>,
                            Proposal(task, head, receipt.output.data, task.inputs.requirements,
                                     call.builder.id, receipt))>>)

\* propose_revision, propose_revision_from_requirements
ProposeStage(climb, call, n, task, given, head) ==
    LET bundle == Records(climb)
    IN CASE n = 1 -> IF SourcesOf(bundle, call) = {} THEN Raises(<< >>)
                     ELSE IF call.from = "run" THEN Goes(<< >>, None)
                     ELSE [Translate(bundle, call) EXCEPT !.next = "stage"]
         [] n = 2 -> Goes(<<Entry(<<"authority", call.builder.id>>, call.builder)>>, None)
         [] n = 3 -> PrepareFix(bundle, call, head)
         [] n = 4 -> InvokeBuilder(climb, call, task, given)
         [] OTHER -> Propose(climb, call, task, head)

\* review_proposal, review_proposal_agentically
ReviewOf(bundle, call) ==
    LET proposal == The(ProposalsOf(bundle, call.of))
        approved == IF call.decision = "approved" THEN proposal.requirements ELSE << >>
        receipts == {r \in Collection(bundle, "model_receipt") : r.authority = call.reviewer}
    IN IF call.kind = "human"
       THEN HumanReview(proposal, call.reviewer, call.decision, approved)
       ELSE AgentReview(proposal, call.reviewer,
                        IF receipts = {} THEN None ELSE The(receipts), call.decision, approved)
Review(bundle, call) ==
    IF ProposalsOf(bundle, call.of) = {} THEN Raises(<< >>)
    ELSE LET review == ReviewOf(bundle, call)
         IN Returns(<<Entry(<<review.record, review.proposal>>, review)>>)

ReviewsOf(bundle, call) ==
    {r \in Reviews(bundle) : /\ r.record = call.kind \o "_review"
                            /\ r.proposal \in ProposalsOf(bundle, call.of)}

\* A Draft Revision, and the lineage event that makes it the head.
Draft(parent, data) == [parent |-> parent, data |-> data]
Commit(key, child) == [key |-> key, child |-> child]

\* Mutant: the decision of the Review is not looked at.
MayApplyAnyReview(bundle, review) ==
    ToSet(review.approved) \subseteq ToSet(review.proposal.requirements)

\* apply_approved_transition, the checks before the Draft is committed.
MayApply(bundle, review) ==
    /\ review.decision = "approved"
    /\ HasRole(bundle, review.reviewer,
               IF review.record = "human_review" THEN {"human"} ELSE {"agent"}, {"reviewer"})
    /\ ToSet(review.approved) = ToSet(review.proposal.requirements)

TransitionKey(call) == <<"climb-transition-workspace", call.key>>

\* commit_draft is the first stage: it moves the branch only from the baseline
\* the Proposal names.  The Transition is registered after it.
ApplyStage(bundle, call, n) ==
    LET reviews == ReviewsOf(bundle, call)
        review == The(reviews)
        proposal == review.proposal
        child == Draft(proposal.baseline, proposal.data)
    IN IF reviews = {} \/ ~MayApply(bundle, review) THEN Raises(<< >>)
       ELSE IF n = 1 THEN Goes(<<Commit(TransitionKey(call), child)>>, None)
       ELSE Returns(<<Entry(<<"transition", call.key>>,
                            Transition(proposal, review, review.reviewer, proposal.baseline,
                                       proposal.data, child))>>)

\* select
Select(bundle, call) ==
    LET baselines == EvaluationsOf(bundle, call.baseline)
        children == EvaluationsOf(bundle, call.child)
        baseline == The(baselines)
        child == The(children)
    IN IF baselines = {} \/ children = {} THEN Raises(<< >>)
       ELSE IF baseline.candidate = child.candidate THEN Raises(<< >>)
       ELSE Returns(<<Entry(<<"selection", baseline, child>>,
                            DecideSelection(InstrumentOf(bundle), baseline, child))>>)

\* A machine_qualified Standing, which its reviewer registers on Evaluations there are.
MachineStanding(evaluations, reviewer) ==
    StandingAttestation(evaluations[1].candidate, "machine_qualified", evaluations,
        {"model-blind-panel", "independent-agentic-review"}, reviewer, << >>, None)

Attest(bundle, call) ==
    LET evaluations == [i \in DOMAIN call.of |-> The(EvaluationsOf(bundle, call.of[i]))]
        standing == MachineStanding(evaluations, call.reviewer)
    IN IF \E i \in DOMAIN call.of : EvaluationsOf(bundle, call.of[i]) = {} THEN Raises(<< >>)
       ELSE Returns(<<Entry(<<"standing", standing>>, standing)>>)
=============================================================================
