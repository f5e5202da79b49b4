---------------------------- MODULE PlaytestCalls -----------------------------
(***************************************************************************)
(* playtest/program.py and ClimbLedger.preflight: human play recorded in an *)
(* Experiment.  A Run and a Standing are checked as a closed set with all   *)
(* they would add before the first of them is registered.                   *)
(***************************************************************************)
EXTENDS ClimbCalls

\* ClimbLedger.preflight: the values not there yet, unless one has the id of a
\* record that differs, closed with the ledger.
Added(bundle, values) ==
    FoldLeft(LAMBDA current, v :
               IF \E i \in DOMAIN current : SameId(current[i], v) THEN current
               ELSE Append(current, v),
             bundle, values)

\* Mutant: nothing is checked as a set; each record is when it is registered.
PreflightNothing(bundle, values) == TRUE

Preflight(bundle, values) ==
    /\ \A i \in DOMAIN values, j \in DOMAIN bundle :
         SameId(bundle[j], values[i]) => bundle[j] = values[i]
    /\ \A i, j \in DOMAIN values : SameId(values[i], values[j]) => values[i] = values[j]
    /\ Closed(Added(bundle, values))

FreezeProtocol(bundle, call) ==
    LET protocol == PlaytestProtocol(call.binding, InstrumentOf(bundle), call.terms)
    IN IF call.binding \notin Collection(bundle, "trial_binding") THEN Raises(<< >>)
       ELSE Returns(<<Entry(<<"playtest-protocol", protocol>>, protocol)>>)

\* A call names its Protocol by what was frozen.
Protocols(bundle, call) ==
    {p \in Collection(bundle, "playtest_protocol") :
       p.binding = call.binding /\ p.terms = call.terms}

-----------------------------------------------------------------------------
(* record_run *)

People(call) == call.participants \o <<call.facilitator>> \o call.observers
Principals(people) == [i \in DOMAIN people |-> people[i].principal]
Ids(people) == [i \in DOMAIN people |-> people[i].id]

\* The Session is a resolved live one of this Release, played by exactly these
\* people; session.phases are the Phases its events represent.
SessionFits(call, binding) ==
    /\ call.session.mode = "live"
    /\ call.session.package = binding.package
    /\ call.session.resolved
    /\ call.package = binding.package
    /\ ToSet(Principals(call.participants)) = call.session.actors
    /\ call.facilitator.principal \in call.session.hosts

CastFits(call, protocol) ==
    /\ Len(call.participants) >= protocol.terms.participants
    /\ IsInjective(Principals(People(call)))
    /\ IsInjective(Ids(People(call)))

\* A consent response of each person: affirmative, current, wide enough.
ConsentsFit(call, protocol) ==
    /\ DOMAIN call.consents = ToSet(Ids(People(call)))
    /\ \A i \in DOMAIN People(call) :
         LET person == People(call)[i]
             response == call.consents[person.id]
         IN /\ response.decision = "consented"
            /\ response.version = protocol.terms.consent
            /\ ScopesFor(person.role) \subseteq response.scopes

\* observations is a sequence of [observation, finding], finding is None or a
\* Finding.
ObservationsFit(call, protocol) ==
    LET seen == {o.observation : o \in ToSet(call.observations)}
        stages(id) == {o.stage : o \in {x \in seen : x.authority = id}}
    IN /\ \A o \in ToSet(call.observations) :
            /\ o.observation.phase \in call.session.phases
            /\ o.observation.authority \in ToSet(Ids(People(call)))
            /\ o.finding # None /\ protocol.terms.owners # {}
                 => o.observation.owner \in protocol.terms.owners
       /\ protocol.terms.categories \subseteq {o.category : o \in seen}
       /\ protocol.terms.stages \subseteq {o.stage : o \in seen}
       /\ \A i \in DOMAIN call.participants :
            protocol.terms.individual \subseteq stages(call.participants[i].id)
       /\ protocol.terms.timed =>
            call.session.phases \subseteq
              {o.phase : o \in {x \in seen : /\ x.authority = call.facilitator.id
                                             /\ x.stage = "in_play"
                                             /\ x.seconds # None}}

FoundIn(call) ==
    LET found == SelectSeq(call.observations, LAMBDA o : o.finding # None)
    IN [i \in DOMAIN found |-> found[i].finding]

\* The observation a Finding reported twice is keyed by: the last.
LastPlace(call, finding) ==
    Max({i \in DOMAIN call.observations : call.observations[i].finding = finding})

RunOf(call, protocol) ==
    LET binding == protocol.binding
    IN PlaytestRun(protocol, call.key, binding.package, call.session,
         Ids(call.participants), call.facilitator.id, Ids(call.observers),
         {ParticipantConsent(id, call.consents[id].version, call.consents[id].scopes) :
            id \in DOMAIN call.consents},
         {o.observation : o \in ToSet(call.observations)},
         call.scores, FoundIn(call), binding.gates,
         Outcome(protocol.instrument, call.scores, binding.gates))

MayRecordRun(bundle, call) ==
    /\ Protocols(bundle, call) # {}
    /\ LET protocol == The(Protocols(bundle, call))
       IN /\ CastFits(call, protocol)
          /\ SessionFits(call, protocol.binding)
          /\ ConsentsFit(call, protocol)
          /\ ObservationsFit(call, protocol)
          /\ IsScored(call.scores, protocol.instrument)
          /\ Preflight(bundle, People(call) \o DistinctOf(FoundIn(call))
                                 \o <<RunOf(call, protocol)>>)

\* The people, then the Findings the ledger lacks, then the Run.
RunStage(climb, call, n) ==
    LET bundle == Records(climb)
        people == [i \in DOMAIN People(call) |->
                     Entry(<<"playtest-authority", People(call)[i].id>>, People(call)[i])]
        found == [i \in DOMAIN call.observations |-> call.observations[i].finding]
        new == NewIn(found, bundle)
        run == RunOf(call, The(Protocols(bundle, call)))
    IN IF n = 1
       THEN IF MayRecordRun(bundle, call) THEN Goes(people, None) ELSE Raises(<< >>)
       ELSE Returns([k \in DOMAIN new |->
                       LET f == found[new[k]]
                       IN Entry(<<"playtest-finding", call.id, LastPlace(call, f)>>, FindingOf(f))]
                      \o <<Entry(<<"run", call.id>>, run)>>)

\* What ClimbLedger.verify adds to the bundle's validation: each Run's Session
\* history is read again.
LedgerVerifies(bundle) ==
    /\ Closed(bundle)
    /\ \A run \in Collection(bundle, "playtest_run") :
         /\ run.session.mode = "live"
         /\ run.session.package = run.package
         /\ run.session.resolved
         /\ PrincipalsOf(bundle, ToSet(run.participants)) = run.session.actors

TranslateRun(bundle, call) ==
    IF RunsNamed(bundle, call.of) = {} THEN Raises(<< >>)
    ELSE Returns(TranslateWrites(bundle, call, The(RunsNamed(bundle, call.of)).findings,
                                 "playtest-requirement"))

-----------------------------------------------------------------------------
(* Comparison and Standing *)

RunsOf(bundle, call) == [i \in DOMAIN call.runs |-> The(RunsNamed(bundle, call.runs[i]))]

\* _build_comparison
MayCompare(bundle, call) ==
    /\ call.runs # << >>
    /\ Protocols(bundle, call) # {}
    /\ EvaluationsOf(bundle, call.of) # {}
    /\ \A i \in DOMAIN call.runs : RunsNamed(bundle, call.runs[i]) # {}
Comparing(protocol, evaluation, runs) ==
    LET deltas == Deltas(evaluation, runs)
    IN EvidenceComparison(protocol, evaluation, runs, deltas, Conclusion(protocol, deltas))
ComparisonOf(bundle, call) ==
    Comparing(The(Protocols(bundle, call)), The(EvaluationsOf(bundle, call.of)),
              RunsOf(bundle, call))

ComparisonEntry(comparison) == Entry(<<"evidence-comparison", comparison>>, comparison)

Compared(bundle, call) ==
    IF MayCompare(bundle, call)
    THEN Returns(<<ComparisonEntry(ComparisonOf(bundle, call))>>) ELSE Raises(<< >>)

\* _build_accepted_standing
AcceptedStanding(comparison, reviewer) ==
    StandingAttestation(comparison.candidate, "accepted", <<comparison.evaluation>>,
        {"fresh-human-play", "model-human-comparison", "independent-standing-review"},
        reviewer.id, comparison.runs, comparison)

ReviewerConflicts(bundle, reviewer) ==
    IsRegistered(bundle, reviewer.id) /\ AuthorityOf(bundle, reviewer.id) # reviewer

\* issue_accepted_standing on a recorded comparison, finalize_accepted_standing
\* on one it records itself.
StandingOn(bundle, call, comparison, recorded) ==
    LET standing == AcceptedStanding(comparison, call.reviewer)
        reviewer == IF IsRegistered(bundle, call.reviewer.id) THEN << >>
                    ELSE <<Entry(<<"standing-reviewer", call.reviewer.id>>, call.reviewer)>>
        values == <<call.reviewer>> \o (IF recorded THEN << >> ELSE <<comparison>>)
                    \o <<standing>>
    IN IF ~Preflight(bundle, values) THEN Raises(<< >>)
       ELSE Returns(reviewer
                      \o (IF recorded THEN << >> ELSE <<ComparisonEntry(comparison)>>)
                      \o <<Entry(<<"accepted-standing", standing>>, standing)>>)

IsCompared(bundle, call) ==
    /\ MayCompare(bundle, call)
    /\ ComparisonOf(bundle, call) \in Collection(bundle, "evidence_comparison")

IssueStanding(bundle, call) ==
    IF ReviewerConflicts(bundle, call.reviewer) \/ ~IsCompared(bundle, call)
    THEN Raises(<< >>)
    ELSE StandingOn(bundle, call, ComparisonOf(bundle, call), TRUE)

FinalizeStanding(bundle, call) ==
    IF ReviewerConflicts(bundle, call.reviewer) \/ ~MayCompare(bundle, call)
    THEN Raises(<< >>)
    ELSE StandingOn(bundle, call, ComparisonOf(bundle, call), FALSE)
=============================================================================
