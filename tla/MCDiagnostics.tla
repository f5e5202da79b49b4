----------------------------- MODULE MCDiagnostics -----------------------------
(* Small inputs of the diagnostic values, and the laws that hold of them. *)
EXTENDS Hardening

-----------------------------------------------------------------------------
(* Scheduling: two tiers, an incomplete package, one that covets the Standing
   budget, and sealed work that shares, misprices or misplaces its handle. *)

DiagnosticQueue ==
    {WorkPackage(1, "diagnostics", TRUE, 1, 1, <<1, 0>>, 2, 3, None),
     WorkPackage(2, "diagnostics", TRUE, 1, 1, <<1, 0>>, 2, 3, None),
     WorkPackage(3, "diagnostics", TRUE, 1, 1, <<0, 2>>, 1, 3, None),
     WorkPackage(4, "sealed", TRUE, 1, 1, <<2, 0>>, 2, 3, 1),
     WorkPackage(5, "sealed", TRUE, 1, 1, <<2, 0>>, 2, 1, 1),
     WorkPackage(6, "standing", TRUE, 1, 1, <<9, 9>>, 1, 3, None),
     WorkPackage(7, "diagnostics", FALSE, 1, 1, <<8, 0>>, 1, 3, None),
     WorkPackage(8, "sealed", TRUE, 1, 1, <<3, 0>>, 3, 3, 2),
     WorkPackage(9, "diagnostics", TRUE, 2, 1, <<3, 0>>, 2, 3, 2),
     WorkPackage(10, "sealed", TRUE, 1, 2, <<4, 0>>, 1, 3, None)}
Queues == {queue \in SUBSET DiagnosticQueue : Cardinality(queue) \in 1..4}
Envelope(diagnostics) ==
    [limits |-> [c \in ProtectedBudgets |-> IF c = "diagnostics" THEN diagnostics ELSE 5],
     spent |-> [c \in ProtectedBudgets |-> 0]]
SealedHandles == {Handle(1, 2), Handle(2, 2)}

\* Taking a package: its budget is spent and its handle used.
Taken(state, package, budget) ==
    [queue |-> state.queue \ {package}, budget |-> budget,
     used |-> state.used \cup ({package.handle} \ {None}),
     done |-> Append(state.done, package)]
Untouched(queue, budget) == [queue |-> queue, budget |-> budget, used |-> {}, done |-> << >>]

\* The scheduler, called until it selects nothing.
Scheduled(queue, budget) ==
    LET state[n \in 0..Cardinality(queue)] ==
            IF n = 0 THEN Untouched(queue, budget)
            ELSE LET before == state[n - 1]
                     decision == Schedule(before.queue, before.budget, SealedHandles, before.used)
                 IN IF decision.selected = None THEN before
                    ELSE Taken(before, decision.selected, decision.budget)
    IN state[Cardinality(queue)]

\* One pass over the queue in the order of priority, taking whatever still fits.
OnePass(queue, budget) ==
    FoldLeft(LAMBDA state, package :
                 IF Eligible(package, state.budget, SealedHandles, state.used)
                 THEN Taken(state, package,
                            Reserve(state.budget, package.category, package.cost))
                 ELSE state,
             Untouched(queue, budget), SetToSortSeq(queue, GoesFirst))

\* However often it is called, the scheduler passes nothing over that it could still
\* afford, uses no handle twice, overspends nothing and leaves Standing budgets alone.
SchedulingHolds ==
    \A queue \in Queues, diagnostics \in {2, 4} :
        LET end == Scheduled(queue, Envelope(diagnostics))
        IN /\ end = OnePass(queue, Envelope(diagnostics))
           /\ \A i, j \in DOMAIN end.done :
                 i # j /\ end.done[i].handle # None => end.done[i].handle # end.done[j].handle
           /\ \A c \in ProtectedBudgets : Remaining(end.budget, c) >= 0
           /\ \A c \in {"standing", "invalid-replacements"} : end.budget.spent[c] = 0

-----------------------------------------------------------------------------
(* Suites: every registry that calls of bind and retire_exposed_sealed lead to. *)

Cases == {"case-1", "case-2"}
Admissions ==
    {None, Admission("case-1", 1, <<2, 3>>, 4, TRUE), Admission("case-1", 1, <<2, 3>>, 4, FALSE),
     Admission("case-2", 1, <<2, 3>>, 4, TRUE), Admission("case-1", 1, <<2, 2>>, 4, TRUE)}
    \ {Refused}
After(registry) ==
    ({Bind(registry, c, s, a, i) :
        c \in Cases, s \in Suites, a \in Admissions, i \in BOOLEAN}
     \cup {RetireExposedSealed(registry, c) : c \in Cases}) \ {Refused}
Registries ==
    LET reached[n \in 0..4] ==
            IF n = 0 THEN {<< >>}
            ELSE LET before == reached[n - 1] IN before \cup UNION {After(r) : r \in before}
    IN reached[4]

\* A case that development has seen is never evaluated on again, and an evaluation
\* suite holds only what was admitted for that case.
SuitesHold ==
    /\ \A registry \in Registries : \A i \in DOMAIN registry :
          LET binding == registry[i]
          IN /\ binding.suite \in EvaluationSuites =>
                   /\ binding.admission # None /\ binding.admission.admitted
                   /\ binding.admission.case = binding.case
                   /\ \A j \in 1..(i - 1) : registry[j].case # binding.case
             /\ binding.suite = "sealed-standing" => binding.independent
             /\ binding.source # None =>
                   \E j \in 1..(i - 1) : registry[j] = binding.source
    /\ \E registry \in Registries : Len(registry) = 4
    /\ LET cohort == Consume([consumed |-> None], 1)
       IN cohort.consumed = 1 /\ Consume(cohort, 2) = Refused

-----------------------------------------------------------------------------
(* The Failure Atlas: proposals upon one parent, and who may get them published. *)

FirstAtlas ==
    [version |-> "first", parent |-> None, classes |-> {}, links |-> << >>, receipt |-> "made"]
ProposedGates == {ContentGates, ContentGates \ {"counterexamples"},
                  ContentGates \ {"complete-lineage"}, {"minimal-reproduction"}}
ChangeOf(class) == IF class = "class-1" THEN "add" ELSE "clarify"
AtlasProposals ==
    {Proposal(<<class, stage, lineages, gates, contributors>>, FirstAtlas, "next", class,
              ChangeOf(class), <<"class-1">>, 1, contributors, stage, 1, lineages, 2, gates) :
        class \in {"class-1", "class-2"}, stage \in {"proposed", "experimental", "promoted"},
        lineages \in {2, 3}, gates \in ProposedGates, contributors \in {{2}, {1, 2}}}

\* The outcome of a proposal that is evaluated, reviewed and published as it should be.
Revision(atlas, proposal, reviewer, accept) ==
    LET eligibility == EvaluateProposal(proposal)
        review == ReviewProposal(proposal, eligibility, reviewer, accept)
    IN IF review = Refused THEN Refused
       ELSE Publish(atlas, proposal, eligibility, review, "made")
Rebased(proposal, atlas) == [proposal EXCEPT !.parent = atlas]

\* Only what is promoted, whole and accepted by somebody who neither curated it nor
\* contributed to it is published; of two revisions of one parent one is, and the other,
\* made anew upon it, takes no class and no link away.
AtlasHolds ==
    /\ \A p \in AtlasProposals, reviewer \in 1..3, accept \in BOOLEAN :
          Revision(FirstAtlas, p, reviewer, accept) # Refused
            <=> /\ accept /\ p.stage = "promoted" /\ p.lineages = 3
                /\ ContentGates \subseteq p.gates
                /\ Cardinality({reviewer, p.curator} \cup p.contributors)
                     = 2 + Cardinality(p.contributors)
    /\ \A p, q \in AtlasProposals :
          LET one == Revision(FirstAtlas, p, 3, TRUE)
              two == Revision(one, Rebased(q, one), 3, TRUE)
          IN one # Refused =>
               /\ Revision(one, q, 3, TRUE) = Refused
               /\ two # Refused =>
                    /\ one.classes \subseteq two.classes /\ two.classes # one.classes
                    /\ IsPrefix(one.links, two.links)
                    /\ Len(two.links) = Cardinality(two.classes \ {"class-1"})
               /\ (q.class # p.class /\ Revision(FirstAtlas, q, 3, TRUE) # Refused)
                     => two # Refused

-----------------------------------------------------------------------------
(* Hardening: failures to be routed, demonstrations with up to two faults. *)

Summaries ==
    {Summary("finding", corroborated, <<1, 2>>, status, causes, defects, contrasts, open,
             controlled) :
        corroborated \in BOOLEAN, status \in {"partially-attributed", "unresolved"},
        causes \in SUBSET {"coordination", "game"}, defects \in SUBSET {"game", "seat"},
        contrasts \in 1..2, open \in SUBSET {1}, controlled \in SUBSET {1}}

\* t has all the evidence for hardening that s has, and no more doubts.
StrongerThan(t, s) ==
    /\ s.corroborated => t.corroborated
    /\ s.status # "unresolved" => t.status # "unresolved"
    /\ s.causes \subseteq t.causes /\ t.defects \subseteq s.defects
    /\ s.contrasts <= t.contrasts
    /\ t.open \subseteq s.open /\ s.controlled \subseteq t.controlled

Sound ==
    LET failure == Summary("finding", TRUE, <<1, 2>>, "accepted", {"coordination"}, {}, 2, {}, {})
        preflight == Preflight("child", TRUE, {1, 2}, [a \in {1, 2} |-> TRUE], <<1, 2, 3, 4, 5, 6>>,
                               {})
        comparison == [panels |-> <<"panel", "panel">>, instruments |-> <<"one", "one">>,
                       target |-> "target", complete |-> TRUE, countsInvalid |-> FALSE,
                       dominance |-> "child-dominates",
                       classification |-> "supported-target-band", targeted |-> <<1, 2>>,
                       control |-> <<-1, 1>>, gates |-> TRUE, noRegression |-> TRUE]
    IN [baselineValid |-> TRUE, baselineComplete |-> TRUE, baselinePanel |-> "panel",
        baselineInstrument |-> "one", failure |-> failure, route |-> RouteFailure(failure),
        class |-> "class", classStage |-> "promoted", classAtlas |-> "atlas",
        classFixtures |-> TRUE,
        requirement |-> Requirement("class", "finding", "target", {"more-seats"}, {"more-seats"},
                                    {1}),
        child |-> "child", builder |-> 2, reviewer |-> 3, preflight |-> preflight,
        childMeasured |-> TRUE, childPanel |-> "panel", childInstrument |-> "one",
        comparison |-> comparison,
        admission |-> [preflight |-> preflight, comparison |-> comparison, child |-> "child",
                       suite |-> "generated-challenge", binding |-> "binding"],
        sealed |-> [parent |-> 1, child |-> 1, qualification |-> "qualification",
                    cohort |-> None, consumedOnce |-> FALSE, result |-> "pass",
                    exposed |-> FALSE],
        review |-> [reviewer |-> 7, contributors |-> 1..6, decision |-> "accept",
                    mutated |-> FALSE, gates |-> TRUE],
        edges |-> RequiredLineage]
Contract(atlas) ==
    [panel |-> "panel", instrument |-> "one", atlas |-> atlas, target |-> "target",
     required |-> RequiredLineage]

\* Each fault, and the transition that has to find it.
FaultsAt ==
    [incomplete |-> 1, uncorroborated |-> 2, misrouted |-> 3, unpromoted |-> 4,
     otherClass |-> 5, otherFinding |-> 5, ownReview |-> 6, otherChild |-> 6, unattested |-> 7,
     unmeasured |-> 8, controlMoved |-> 9, staleTarget |-> 9, otherComparison |-> 10,
     otherPreflight |-> 10, unboundSuite |-> 10, exposed |-> 11, spentCohort |-> 11,
     contributed |-> 12, gap |-> 14]
Spoilt(e, fault) ==
    CASE fault = "incomplete" -> [e EXCEPT !.baselineComplete = FALSE]
      [] fault = "uncorroborated" -> [e EXCEPT !.failure.corroborated = FALSE]
      [] fault = "misrouted" -> [e EXCEPT !.failure.defects = {"game"}]
      [] fault = "unpromoted" -> [e EXCEPT !.classStage = "experimental"]
      [] fault = "otherClass" -> [e EXCEPT !.requirement.class = "other"]
      [] fault = "otherFinding" -> [e EXCEPT !.requirement.finding = "other"]
      [] fault = "ownReview" -> [e EXCEPT !.reviewer = e.builder]
      [] fault = "otherChild" ->
            [e EXCEPT !.preflight.child = "other", !.admission.preflight.child = "other"]
      [] fault = "unattested" ->
            [e EXCEPT !.preflight.attested[2] = FALSE, !.admission.preflight.attested[2] = FALSE]
      [] fault = "unmeasured" -> [e EXCEPT !.childMeasured = FALSE]
      [] fault = "controlMoved" ->
            [e EXCEPT !.comparison.control = <<1, 2>>, !.admission.comparison.control = <<1, 2>>]
      [] fault = "staleTarget" ->
            [e EXCEPT !.comparison.target = "old", !.admission.comparison.target = "old"]
      [] fault = "otherComparison" -> [e EXCEPT !.admission.comparison.targeted = <<5, 6>>]
      [] fault = "otherPreflight" -> [e EXCEPT !.admission.preflight.findings = {1}]
      [] fault = "unboundSuite" -> [e EXCEPT !.admission.binding = None]
      [] fault = "exposed" -> [e EXCEPT !.sealed.exposed = TRUE]
      [] fault = "spentCohort" -> [e EXCEPT !.sealed.child = 2]
      [] fault = "contributed" -> [e EXCEPT !.review.contributors = 1..7]
      [] fault = "gap" -> [e EXCEPT !.edges = RequiredLineage \ {16}]

\* A failure that is hardened for is hardened for on better evidence too.  A
\* demonstration with faults stops where the first of them has to be found, its
\* receipts are of the transitions in order, and only a faultless one is accepted.
HardeningHolds ==
    /\ \A s, t \in Summaries :
          StrongerThan(t, s) /\ RouteOf(s) = "harden" => RouteOf(t) = "harden"
    /\ \A f, g \in DOMAIN FaultsAt :
          LET result == RunHardening(Contract("atlas"), Spoilt(Spoilt(Sound, f), g))
              stop == Min({FaultsAt[f], FaultsAt[g]})
          IN /\ result.status \notin {"accepted", "passed"}
             /\ Len(result.receipts) = stop
             /\ \A i \in 1..stop :
                   /\ result.receipts[i].stage = Min({i, 13})
                   /\ (result.receipts[i].status = "passed") <=> i < stop
    /\ RunHardening(Contract("atlas"), Sound).status = "accepted"
    /\ Len(RunHardening(Contract("other"), Sound).receipts) = 4
=============================================================================
