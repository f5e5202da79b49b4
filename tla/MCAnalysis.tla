------------------------------ MODULE MCAnalysis ------------------------------
(* Lineages of one and two applications, and what is asked of their runs. *)
EXTENDS Analysis

CONSTANTS p1, p2, Refused

SetOfScenarios == {"retrying", "renewing", "answering", "crashing", "racing", "selfish"}

First == Application("first", "episode", {})
Second == Application("second", "episode", {"attribution-a"})
Elsewhere == Application("first", "elsewhere", {})

ScriptDef ==
    [retrying |-> p1 :> <<First>> @@ p2 :> << >>,
     renewing |-> p1 :> <<First, Second>> @@ p2 :> << >>,
     answering |-> p1 :> <<First, First>> @@ p2 :> << >>,
     crashing |-> p1 :> <<First>> @@ p2 :> << >>,
     racing |-> p1 :> <<First>> @@ p2 :> <<First>>,
     selfish |-> p1 :> <<Elsewhere>> @@ p2 :> << >>]

ActorsDef ==
    [s \in SetOfScenarios |->
        IF s = "selfish" THEN {Principal(Elsewhere, "attribution-a")} ELSE {}]

Material(category) == Object("material", category, {})
AvailableDef ==
    {Grant("verified_actions", Material("verified_actions"), {"span"}),
     Grant("canonical_world_truth", Material("canonical_world_truth"), {"truth"}),
     Grant("deterministic_verification", Material("deterministic_verification"), {}),
     Grant("comparison_side", Material("comparison_side"), {})}
StoredDef == [s \in SetOfScenarios |-> IF s = "selfish" THEN {} ELSE {"episode"}]

One == Output(1, "complete", FALSE, {})
Two == Output(2, "complete", FALSE, {})
OneAgain == [One EXCEPT !.id = 2]
Cites(span) == Output(1, "complete", FALSE, {span})
Partial(cursor) == Output(1, "partial", cursor, {})
Waives == [One EXCEPT !.gates = FALSE]

AnswersTo(s, a) ==
    CASE s = "retrying" /\ a = "sweep-host-dependence" ->
            {Partial(TRUE), Partial(FALSE), Failure("transport")}
      [] s = "retrying" /\ a = "attribution-b" ->
            {Cites("truth"), Cites("span"), Failure("transport"), Failure("timeout")}
      [] s = "renewing" /\ a = "independent-reviewer" -> {One, Waives, Failure("other-model")}
      [] s = "racing" /\ a = "sweep-host-dependence" -> {One, Two}
      [] s = "answering" /\ a \in {"sweep-host-dependence", "atlas-curator"} ->
            {One, Two, OneAgain}
      [] s = "answering" /\ a = "semantic-interpreter" -> {One, Failure("malformed")}
      [] s = "crashing" /\ a = "sweep-knowledge-support" -> {One, Two, Failure("transport")}
      [] s = "crashing" /\ a = "challenge-designer" -> {One, Failure("malformed")}
      [] OTHER -> {One}
AnswersDef == [s \in SetOfScenarios |-> [a \in Assignments |-> AnswersTo(s, a)]]
CrashesDef == [s \in SetOfScenarios |-> IF s = "crashing" THEN 1 ELSE 0]

-----------------------------------------------------------------------------
(* Laws *)

\* The laws of the pure operations that analyses feed, evaluated where a run begins.
AtTheStart == \A name \in DOMAIN journals : journals[name] = << >>
Values == INSTANCE MCDiagnostics

\* The scheduler of diagnostic work, called until it stops, is one pass in the order of
\* priority and spends no protected budget nor any sealed handle twice; no sequence of
\* bindings and retirements evaluates on a case that development has seen; a revision
\* of the Failure Atlas needs all its gates and a stranger's review, and of two made on
\* the same parent one is published (scheduling.py, suites.py, atlas.py).  More evidence
\* never turns hardening into repair or quarantine, and a demonstration with one or two
\* faults anywhere stops at the first transition that reads either, with the receipts of
\* those before it (route_failure, run_hardening_demonstration).
DerivationLaws ==
    AtTheStart => /\ Values!SchedulingHolds /\ Values!SuitesHold /\ Values!AtlasHolds
                  /\ Values!HardeningHolds
=============================================================================
