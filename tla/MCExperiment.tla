----------------------------- MODULE MCExperiment -----------------------------
(* Scripts of calls on one Experiment, and what is asked of their runs.  *)
EXTENDS Experiment, PublicRelease

CONSTANTS p1, p2

Call(op, after, fields) == [op |-> op, after |-> after, command |-> FALSE] @@ fields
AsCommand(call) == [call EXCEPT !.command = TRUE]

-----------------------------------------------------------------------------
(* Records the scripts use *)

Instrument ==
    FrozenInstrument([fun |-> 1],
        <<[metric |-> "overall", operator |-> ">=", value |-> 60],
          [metric |-> "hard_gates", operator |-> "all", value |-> TRUE]>>,
        [size |-> 2, lenses |-> {"plot", "print"}, aggregation |-> "median",
         classes |-> {"live-model"}, inspect |-> TRUE],
        {"replay"})
Solo == [Instrument EXCEPT !.protocol.size = 1, !.protocol.lenses = {}]

Trial(id) == [id |-> id, spans |-> {"span"}, prints |-> [map |-> 2]]
Binding(candidate) ==
    TrialBinding(candidate, "package-" \o candidate, Trial(candidate), [replay |-> TRUE])
Ungated(candidate) ==
    TrialBinding(candidate, "package-" \o candidate, Trial(candidate), [replay |-> FALSE])

Tell == Finding("dull", "span", "locus-a")
Output(scores, findings, pages) ==
    [scores |-> scores, findings |-> findings,
     inspection |-> <<[path |-> "map", pages |-> pages]>>]
Good == Output([fun |-> 80], <<Tell>>, 2)
Poor == Output([fun |-> 40], <<Tell, Tell>>, 2)
Fine == Output([fun |-> 90], << >>, 2)
Broken == Output(<< >>, << >>, 2)
Unread == Output([fun |-> 90], << >>, 1)
Misquoted == Output([fun |-> 80], <<Finding("dull", "other", "locus-b")>>, 2)

Builder == Authority("builder", "agent", "builder", "acme")
Reviewer == Authority("reviewer", "human", "reviewer", "rita")
Auditor == Authority("auditor", "agent", "reviewer", "audit")

Create1 == Call("create", 0, [data |-> "c1", reviewer |-> Reviewer,
                              plan |-> ExperimentPlan(Instrument, "main")])
Bind1(candidate) == Call("bind", 0, [key |-> candidate, binding |-> Binding(candidate)])
Member(id, lens) == [id |-> id, principal |-> "of-" \o id, lens |-> lens]
PanelOf(key, candidate, first, second, outputs) ==
    Call("panel", 0, [key |-> key, kind |-> "agent", aggregator |-> "median",
                      binding |-> Binding(candidate),
                      members |-> <<Member(first, "plot"), Member(second, "print")>>,
                      outputs |-> outputs])
HumanPanel(key, candidate, output) ==
    Call("panel", 0, [key |-> key, kind |-> "human", aggregator |-> "median",
                      binding |-> Binding(candidate),
                      members |-> <<Member("h1", "plot") @@ [output |-> output],
                                    Member("h2", "print") @@ [output |-> Fine]>>])
After(n, call) == [call EXCEPT !.after = n]

-----------------------------------------------------------------------------
(* A climb: measure, propose, review, apply, measure again, select *)

ProposeFrom(key, of, outputs) ==
    Call("propose", 0, [key |-> key, of |-> of, from |-> "panel", builder |-> Builder,
                        briefs |-> <<{"clue"}>>, outputs |-> outputs])
Child(data) == [data |-> data, gates |-> [replay |-> TRUE]]
ReviewBy(of, kind, reviewer, decision) ==
    Call("review", 0, [of |-> of, kind |-> kind, reviewer |-> reviewer,
                       decision |-> decision])
Register(key, record) == Call("register", 0, [key |-> key, record |-> record])
Audit == ModelReceipt("auditor", "reviewer", [package |-> "package-c1"], Fine, "live-model")
Apply(key, of, kind) == Call("apply", 0, [key |-> key, of |-> of, kind |-> kind])

Climbing ==
    <<Create1, Call("bind", 0, [key |-> "bad", binding |-> Ungated("c1")]), Bind1("c1"),
      PanelOf("t1", "c1", "j1", "j2", {Poor}),
      ProposeFrom("fix", "t1", {Child("c2")}),
      ReviewBy("fix", "human", "reviewer", "approved"),
      Apply("move", "fix", "human"), Apply("move", "fix", "human"),
      Bind1("c2"), PanelOf("t2", "c2", "j1", "j3", {Good}),
      PanelOf("t3", "c2", "j3", "j4", {Good}),
      Call("select", 0, [baseline |-> "t1", child |-> "t3"])>>

\* An Experiment needs a reviewer, and a panel the aggregation the Instrument froze.
\* What drivers may do wrong, one after the other; then a panel is refused for
\* a judge that only a Task without Receipts names.
Failing ==
    <<[Create1 EXCEPT !.reviewer = Builder], Create1, Bind1("c1"),
      [PanelOf("t1", "c1", "j1", "j2", {Poor}) EXCEPT !.aggregator = "mean"],
      PanelOf("t1", "c1", "j1", "j2", {Poor, None}),
      PanelOf("t1", "c1", "j1", "j2", {Poor, Broken}),
      HumanPanel("t0", "c1", Misquoted),
      ProposeFrom("fix", "t1", {Child("c1"), Child("c2"), Child(None), None}),
      ReviewBy("fix", "human", "reviewer", "rejected"), Apply("move", "fix", "human"),
      Register(<<"auditor">>, Auditor), ReviewBy("fix", "agent", "auditor", "approved"),
      Register(<<"audit">>, Audit), ReviewBy("fix", "agent", "auditor", "approved"),
      Apply("move", "fix", "agent"),
      HumanPanel("t2", "c1", Good),
      PanelOf("t3", "c1", "j3", "j1", {Good})>>

AttestBy(reviewer) == Call("attest", 0, [of |-> <<"t1", "t2">>, reviewer |-> reviewer])
Judged == Authority("judged", "agent", "reviewer", "of-j3")
Partner == Authority("partner", "agent", "builder", "audit")

\* Agents that sign a release: of a principal of their own, of a judge's, of the
\* Standing reviewer's.
Signers == {Authority("releaser", "agent", "release-reviewer", "rae"),
            Authority("seated", "agent", "release-reviewer", "of-j1"),
            Authority("audited", "agent", "release-reviewer", "audit")}
SignedBy(id) == ModelReceipt(id, "release-reviewer", [package |-> "package-c1"],
                             Output([fun |-> 3], << >>, 0), "live-model")
Insider == Authority("insider", "agent", "builder", "rae")

\* Two panels agree; who attests it has neither judged nor built, nor may the
\* attesting principal build afterwards.  Then a release is signed, and one of the
\* signers' principals builds.
Attesting ==
    <<Create1, Bind1("c1"), PanelOf("t0", "c1", "j5", "j6", {Unread}),
      PanelOf("t1", "c1", "j1", "j2", {Good}), PanelOf("t2", "c1", "j3", "j4", {Fine}),
      Register(<<"judged">>, Judged), AttestBy("judged"),
      Register(<<"auditor">>, Auditor), AttestBy("auditor"),
      [ProposeFrom("fix", "t1", {Child("c2")}) EXCEPT !.builder = Partner]>>
        \o SetToSeq({Register(<<s.id>>, s) : s \in Signers})
        \o SetToSeq({Register(<<s.id, "signed">>, SignedBy(s.id)) : s \in Signers})
        \o <<[ProposeFrom("again", "t1", {Child("c2")}) EXCEPT !.builder = Insider]>>

-----------------------------------------------------------------------------
(* Human play: two Runs, a comparison, a Standing *)

Terms == [consent |-> "v1", runs |-> 2, participants |-> 1, categories |-> {"pacing"},
          stages |-> {"in_play"}, individual |-> {}, owners |-> {"text"},
          tolerance |-> 10, compare |-> TRUE, timed |-> TRUE]

Person(id, role, principal) == Authority(id, "human", role, principal)
Seen(person, stage, seconds, found) ==
    [observation |-> PlayObservation(person.id, person.role, "act", "pacing", stage,
                                     seconds, "text"),
     finding |-> found]

\* A Run in which player (an id) is played by principal.
Run(id, player, principal, session, scopes, found) ==
    LET participant == Person(player, "participant", principal)
        host == Person("host-" \o id, "facilitator", "host")
    IN Call("run", 0,
         [key |-> id, id |-> id, binding |-> Binding("c1"), terms |-> Terms,
          participants |-> <<participant>>,
          facilitator |-> host, observers |-> << >>, package |-> "package-c1",
          session |-> [id |-> session, mode |-> "live", package |-> "package-c1",
                       resolved |-> TRUE, actors |-> {principal}, hosts |-> {"host"},
                       phases |-> {"act"}],
          consents |-> [x \in {participant.id, host.id} |->
                          [decision |-> "consented", version |-> "v1", scopes |-> scopes]],
          observations |-> <<Seen(host, "in_play", 5, None),
                             Seen(participant, "in_play", None, found)>>,
          scores |-> [fun |-> 70]])
Scopes == {"record-observations", "retain-anonymized-quotes", "participate"}
Slow == Finding("slow", "said", "locus-c")

StandingBy(op, id, role, principal) ==
    Call(op, 0, [runs |-> <<"r1", "r2">>, of |-> "t1", binding |-> Binding("c1"),
                 terms |-> Terms, reviewer |-> Person(id, role, principal)])
Compare1 == StandingBy("compare", "none", "reviewer", "none")

Playing ==
    <<Create1, Bind1("c1"), PanelOf("t1", "c1", "j1", "j2", {Good}),
      Call("freeze", 0, [binding |-> Binding("c1"), terms |-> Terms]),
      Run("r1", "ann", "of-ann", "s1", Scopes \ {"participate"}, None),
      Run("r1", "ann", "of-ann", "s1", Scopes, Slow),
      Run("r2", "ann2", "of-ann", "s2", Scopes, Finding("lost", "lost", "locus-d")),
      StandingBy("finalize", "rita2", "reviewer", "rita"),
      Run("r2", "bob", "of-bob", "s2", Scopes, Slow),
      Run("r1", "ann", "of-ann", "s1", Scopes, Slow),
      Call("translate_run", 0, [of |-> "r1", briefs |-> <<{"clue"}>>]),
      StandingBy("finalize", "bob", "participant", "of-bob"),
      StandingBy("finalize", "judy", "judge", "judy"),
      StandingBy("issue", "rita2", "reviewer", "rita"),
      Compare1, StandingBy("issue", "rita2", "reviewer", "rita"),
      [ProposeFrom("fix", "r1", {Child("c2")}) EXCEPT !.from = "run"]>>

-----------------------------------------------------------------------------
(* EfficiencyPlans and selected rungs *)

Routed == RouteFinding("incomplete_proof", {"u1", "u2", "u3"}, TRUE, None, None)
Preflight1 ==
    EfficiencyPlan("gameplay", "bounded_preflight", Instrument, Routed.loop, {Routed},
                   {"u1"}, PreflightBudget(3, 20, None, 5, 2), None, None, {}, << >>)
Formal ==
    EfficiencyPlan("gameplay", "formal_measurement", Instrument, Routed.loop, {Routed},
                   {}, None, None, "c1", {"fixer"}, <<"j1", "j2">>)
Observed(id, score, passed) == Observation(id, score, 4, 100, passed, "pace")

Plan(plan) == Call("plan", 0, [plan |-> plan])
Allow(plan, boundary) == Call("authorize", 0, [plan |-> plan, boundary |-> boundary])
Observe(observation) == Call("observe", 0, [plan |-> Preflight1, observation |-> observation])
MeasureBy(judges) ==
    Call("measure", 0, [plan |-> Formal, candidate |-> "c1", instrument |-> Instrument,
                        judges |-> judges])

Claim(status) == [status |-> status, refs |-> {"trace"}]
Claims ==
    [coherent_build |-> Claim("passed"), gameplay |-> Claim("passed"),
     accessibility |-> Claim("unmeasured"), artifact_realism |-> Claim("accepted"),
     human_play |-> Claim("unmeasured"), public_release |-> Claim("unclaimed")]
SelectRung(candidate, parent, cited) ==
    Call("rung", 0,
      [rung |-> RungEvent(candidate, parent, "art-" \o candidate,
         {[candidate |-> candidate, collection |-> "art-" \o candidate,
           decision |-> "approved"]}, {cited}, Claims)])
Anchor(candidate) == Call("anchor", 0, [candidate |-> candidate])

Qualifying ==
    <<Create1, Allow(Preflight1, "repair_tranche"), Plan(Preflight1),
      Plan([Formal EXCEPT !.fixers = {"j1"}]),
      Observe(Observed("o1", 50, FALSE)), Allow(Preflight1, "repair_tranche"),
      Observe(Observed("o1", 50, FALSE)), Observe(Observed("o2", 52, FALSE)),
      Observe(Observed("o1", 50, FALSE)), Observe(Observed("o2", 60, FALSE)),
      Observe(Observed("o3", 53, FALSE)), Observe(Observed("o4", 90, TRUE)),
      Plan(Formal), Allow(Formal, "disposition"), MeasureBy(<<"j1", "j2">>),
      Allow(Formal, "completed_exact_candidate"), MeasureBy(<<"j1">>),
      MeasureBy(<<"j1", "j2", "j2">>), [MeasureBy(<<"j1", "j2">>) EXCEPT !.instrument = Solo],
      MeasureBy(<<"j2", "j1">>), Allow(Formal, "disposition"),
      SelectRung("c1", "c0", "trace"), Anchor("c0"), SelectRung("c1", "c0", "hearsay"),
      SelectRung("c1", "c0", "trace"), AsCommand(Bind1("c1")),
      AsCommand(Call("plan", 0, [plan |-> Preflight1])),
      Anchor("c1"), AsCommand(Call("plan", 0, [plan |-> Formal]))>>

-----------------------------------------------------------------------------
(* Two Operators at once, on an Instrument with panels of one *)

Both(first, second) == p1 :> first @@ p2 :> second
CreateSolo == [Create1 EXCEPT !.plan = ExperimentPlan(Solo, "main")]
SoloPanel(key, output) ==
    Call("panel", 0, [key |-> key, kind |-> "human", aggregator |-> "median",
                      binding |-> Binding("c1"),
                      members |-> <<Member("h1", "plot") @@ [output |-> output]>>])

RacingPanels ==
    Both(<<CreateSolo, Bind1("c1"), SoloPanel("t1", Fine)>>,
         <<After(2, SoloPanel("t2", Fine))>>)
RacingBindings ==
    Both(<<CreateSolo, Bind1("c1"), Bind1("c2")>>,
         <<After(1, Call("bind", 0, [key |-> "again", binding |-> Binding("c1")])),
           AsCommand(Bind1("c3"))>>)
Once == [Preflight1 EXCEPT !.budget.iterations = 1]
ObserveOnce(observation) == Call("observe", 0, [plan |-> Once, observation |-> observation])
RacingObservations ==
    Both(<<CreateSolo, Plan(Once), Allow(Once, "repair_tranche"),
           ObserveOnce(Observed("o1", 50, FALSE))>>,
         <<After(3, ObserveOnce(Observed("o2", 52, FALSE))), AsCommand(Bind1("c1"))>>)

NoCalls == << >>
Alone(calls) == p1 :> calls @@ p2 :> NoCalls
Scripts ==
    [climbing |-> Alone(Climbing), failing |-> Alone(Failing), playing |-> Alone(Playing),
     attesting |-> Alone(Attesting),
     qualifying |-> Alone(Qualifying), panels |-> RacingPanels, bindings |-> RacingBindings,
     observations |-> RacingObservations]
Selected == [s \in Scenarios |-> Scripts[s]]
Crashes == [s \in Scenarios |-> IF s \in {"attesting", "panels", "bindings", "observations"}
                              THEN 0 ELSE 1]

-----------------------------------------------------------------------------
(* The policy of climb/planning.py *)

Attempts ==
    {Observed("o1", 50, FALSE), Observed("o2", 52, FALSE), Observed("o3", 60, FALSE),
     Observation("o4", 40, 9, 100, FALSE, "clue"), Observed("o5", 70, TRUE)}
Histories == UNION {[1..n -> Attempts] : n \in 0..4}
Tight == [Preflight1 EXCEPT !.budget = PreflightBudget(4, 12, 350, 5, 2)]
Replayed(plan, history) ==
    FoldLeft(LAMBDA state, o : IF state = Refused THEN Refused
                               ELSE AdvancePreflight(plan, state, o),
             InitialState(plan), history)

\* Observations delivered again change nothing, wherever they are delivered; the
\* best score is that of some observation and no later one loses it; and a
\* preflight goes on only within its budget.
PreflightHolds(plan) ==
    \A history \in Histories :
       LET state == Replayed(plan, history)
           scores == {o.score : o \in ToSet(history)}
       IN /\ state = Replayed(plan, DistinctOf(history))
          /\ state # Refused /\ history # << >> =>
               /\ state.best = Max(scores)
               /\ state.status = "active" =>
                    /\ state.iterations < plan.budget.iterations
                    /\ state.calls < plan.budget.calls
                    /\ plan.budget.tokens # None => state.tokens < plan.budget.tokens

Changes ==
    {ContractChange(k, {u}, {"u3"}, identical, visible) :
       k \in ChangeKinds, u \in {"u1", "u2"}, identical \in BOOLEAN, visible \in BOOLEAN}
ChangeSets == {{a, b} : a, b \in Changes}

\* What is carried forward was not changed by any of the changes, and to look at
\* more changes at once never carries forward more.
ImpactHolds ==
    \A cs \in ChangeSets :
       LET impact == AssessImpact(cs)
           each == {AssessImpact({c}) : c \in cs}
       IN impact # Refused =>
            /\ impact.carry \cap impact.rebuild = {}
            /\ impact.carry \subseteq UNION {i.carry : i \in each}
            /\ impact.rebuild = UNION {i.rebuild : i \in each}
            /\ \A c \in cs : ~c.identical /\ c.kind # "instrument"
                               => c.units \subseteq impact.rebuild

-----------------------------------------------------------------------------
(* Evidence for a release *)

\* Objects have the shape of what agents return.
Object(n) == Output([fun |-> n], << >>, 0)
Proof == Object(1)
Wheel == Object(2)
Report == Object(3)
Claimed == Object(4)
Absent == Object(5)

Policy == PublicReleasePolicy("1", {"3.11", "3.13"}, {"verismill"}, {"wheel"}, {"tutorial"})
Objects == {[ref |-> o, value |-> o] : o \in {Proof, Wheel, Report}}
             \cup {[ref |-> Claimed, value |-> Absent]}
Signature(bundle, signer) ==
    ReleaseAttestation(Policy, "1.0", "c1",
        StandingOf(bundle, [candidate |-> "c1"]), signer, SignedBy(signer),
        "wheel" :> Wheel, Report)
EvidenceBy(bundle, signer) ==
    ReleaseEvidence("1.0", "1", "c1", "package-c1",
        [authoring |-> Proof, experience |-> Proof, compatibility |-> Proof],
        "verismill" :> "version", [n \in Policy.pythons |-> Proof], "wheel" :> Wheel,
        "tutorial" :> Proof, <<"one evening">>, Signature(bundle, signer))

\* What may be wrong with that evidence, with the gates that must then fail.
Flawed(e) ==
    {<<[e EXCEPT !.proofs.authoring = Claimed], {"authoring"}>>,
     <<[e EXCEPT !.proofs.experience = Absent], {"experience"}>>,
     <<[e EXCEPT !.proofs.compatibility = Claimed], {"compatibility"}>>,
     <<[e EXCEPT !.epoch = "0"], {"compatibility"}>>,
     <<[e EXCEPT !.package = "package-c2"], {"portable"}>>,
     <<[e EXCEPT !.upstreams["verismill"] = "pin"], {"upstreams"}>>,
     <<[e EXCEPT !.tests = "3.11" :> Proof], {"tests"}>>,
     <<[e EXCEPT !.documents = @ @@ "novel" :> Proof], {"documents"}>>,
     <<[e EXCEPT !.artifacts["wheel"] = Claimed], {"artifacts", "attestation"}>>,
     <<[e EXCEPT !.artifacts["wheel"] = Proof], {"attestation"}>>,
     <<[e EXCEPT !.limitations = <<"one evening", "blank">>], {"limitations"}>>,
     <<[e EXCEPT !.version = "1.1"], {"attestation"}>>,
     <<[e EXCEPT !.attestation = None], {"attestation"}>>,
     <<[e EXCEPT !.attestation.response = Proof], {"attestation"}>>,
     <<[e EXCEPT !.attestation.policy.epoch = "0"], {"attestation"}>>,
     <<[e EXCEPT !.candidate = "c2"],
       {"portable", "standing", "independent", "attestation"}>>}

\* With full evidence a release qualifies as soon as a Standing and the signature of
\* an agent are recorded, and no longer when that agent's principal has built; never
\* when it is a judge's or the Standing reviewer's.  Any flaw fails its own gates.
ReleasesQualify(bundle) ==
    \A signer \in {s.id : s \in Signers} :
       LET e == EvidenceBy(bundle, signer)
           failed == FailedGates(bundle, LedgerVerifies(bundle), e, Policy, Objects)
       IN /\ failed = {} <=>
               /\ signer = "releaser"
               /\ Collection(bundle, "standing") # {}
               /\ SignedBy(signer) \in Collection(bundle, "model_receipt")
               /\ \A a \in Authorities(bundle) : a.role = "builder" => a.principal # "rae"
          /\ failed = {} =>
               \A flaw \in Flawed(e) :
                  FailedGates(bundle, TRUE, flaw[1], Policy, Objects) = flaw[2]

Packages == INSTANCE MCBlindTrial
Releases == INSTANCE MCReleases

\* Observations delivered again change no preflight, and whatever any change invalidates
\* is rebuilt and never carried forward (advance_preflight, assess_impact).  A game
\* without Findings can be proven in its Resolution Phase by every cast, whatever one
\* piece of evidence it overlooks, and in no Phase before; its Dossiers cite nothing of the
\* host's, and ask in no Phase for what a seat does not have yet; it compiles to
\* one Release, which loads as it is and no other way, unless a seat has nobody or a sheet
\* cannot be made (validate_facilitated_investigation, validate_character_program,
\* compile_candidate, load_release).  What judges are given are the copies each seat is
\* due, in print as in the source and under the seat's own delivery; nothing of the host's
\* alone changes the package, and an archive loads as it was made and no other way
\* (export_physical, prepare_blind_trial, load_blind_trial, verify_trial_quote).  A public
\* release qualifies on a complete and signed ledger alone (qualify_public_release).
DerivationLaws ==
    /\ climb = << >> /\ drafts = << >> /\ ~Busy(p1)
         => /\ PreflightHolds(Preflight1) /\ PreflightHolds(Tight) /\ ImpactHolds
            /\ Releases!FindingsHold /\ Releases!ReleasesHold /\ Releases!Unprotected
            /\ Packages!TrialHolds
    /\ scenario = "attesting" /\ ~Busy(p1) => ReleasesQualify(Records(climb))
=============================================================================
