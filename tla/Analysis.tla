------------------------------- MODULE Analysis -------------------------------
(***************************************************************************)
(* experiment/difficulty.py: processes run analysis lineages on one         *)
(* Workspace.  A lineage asks twelve assignments of models, one after the   *)
(* other, retries each within its limits, journals what each attempt saw    *)
(* and how each assignment ended, and freezes one claim.  A process may die  *)
(* anywhere; its operator then runs the lineage again.                       *)
(***************************************************************************)
EXTENDS AnalysisRules

CONSTANTS
    Processes,
    Scenarios,
    Script,         \* the applications each process runs, one after the other
    Actors,         \* the principals that played the Episode, of each scenario
    Available,      \* the grants the operator supplies
    Stored,         \* the episode packages that are in the object store
    Answers,        \* what the model of an assignment may answer, of each scenario
    Crashable,
    MaxCrashes      \* bound, of each scenario

ASSUME AnalysisProcessesAssumption == Crashable \subseteq Processes
\* A piece of material says which category it is of, and is not the work of analysts
\* (stage_difficulty_live.py:92-128 puts its category into each object it supplies).
ASSUME MaterialAssumption ==
    /\ \A g, h \in Available : g.object = h.object => g.category = h.category
    /\ \A g \in Available :
          g.object.kind \notin {"analysis_structured_output", "analysis_receipt",
                                "analysis_material_bundle"}
\* Closure follows ten references, a bound of the model: what is supplied may nest four deep.
ASSUME NestingAssumption ==
    \A g \in Available : \A a \in g.object.refs : \A b \in a.refs :
        \A c \in b.refs : \A d \in c.refs : d.refs = {}

VARIABLES
    scenario,
    journals,       \* of the Workspace, by name
    work,           \* where each process is
    results,        \* how its runs have ended
    crashes

vars == <<scenario, journals, work, results, crashes>>

\* A run that has not started.
Fresh == [phase |-> "start", grants |-> {}, ended |-> << >>, view |-> None,
          upstream |-> {}, attempts |-> << >>, kind |-> "initial", failures |-> 0,
          repairs |-> 0, response |-> None, lineage |-> None, heads |-> None]

Init ==
    /\ scenario \in Scenarios
    /\ journals = [name \in JournalNames |-> << >>]
    /\ work = [p \in Processes |-> Fresh]
    /\ results = [p \in Processes |-> << >>]
    /\ crashes = 0

-----------------------------------------------------------------------------
(* The journals *)

Event(key, actor, payload, refs) ==
    [key |-> key, actor |-> actor, payload |-> payload, refs |-> refs]
Decides(name, event) == Verdict(journals[name], event, Unset)
Appended(name, event) ==
    IF Decides(name, event) = "append"
    THEN [journals EXCEPT ![name] = Append(@, event)] ELSE journals

Goto(p, w) == work' = [work EXCEPT ![p] = w]

\* An exception escapes the run, or the run returns.
Finish(p, outcome) ==
    /\ results' = [results EXCEPT ![p] = Append(@, outcome)]
    /\ work' = [work EXCEPT ![p] = Fresh]

\* Journal.append of a key that names another event raises.
AppendThen(p, name, event, w) ==
    /\ journals' = Appended(name, event)
    /\ IF Decides(name, event) = "idempotency_conflict"
       THEN Finish(p, "raised")
       ELSE Goto(p, w) /\ UNCHANGED results

-----------------------------------------------------------------------------
(* run_analysis_lineage, up to one assignment *)

ApplicationOf(p) == Script[scenario][p][Len(results[p]) + 1]
At(p, phase) ==
    Len(results[p]) < Len(Script[scenario][p]) /\ work[p].phase = phase
ApplicationObject(application) ==
    Object("application", application, {Object("episode_package", application.episode, {})})

\* The assignment a run has come to, and the results of those before it.
Current(p) == Roster[Len(work[p].ended) + 1]
EndedAs(p, a) == work[p].ended[Place(a)]
EndedBefore(p, names) == {a \in names : Place(a) <= Len(work[p].ended)}
OutputsOf(p, names) == {EndedAs(p, a).output : a \in EndedBefore(p, names)}
ReceiptsOf(p, names) ==
    UNION {Range(EndedAs(p, a).attempts) : a \in EndedBefore(p, names)}

\* _aggregate_material: a bundle holds the objects it lists.
Bundle(category, objects) ==
    Grant(category, Object("analysis_material_bundle", category, objects), {})
BundlesFor(p, a) ==
    CASE a = "incident-assembler" ->
            {Bundle(c, OutputsOf(p, Sweeps)) :
                c \in {"frozen_discovery_outputs", "sweep_coverage"}}
      [] a = "atlas-curator" ->
            {Bundle(c, OutputsOf(p, {"attribution-a", "attribution-b"})) :
                c \in {"both_frozen_attributions", "attribution_disagreement"}}
      [] a = "independent-reviewer" ->
            {Bundle("all_analysis_receipts", ReceiptsOf(p, Assignments))}
      [] OTHER -> {}
\* A later grant replaces an earlier one of its category.
Granted(grants, added) ==
    {g \in grants : \A h \in added : h.category # g.category} \cup added

Dependencies(p, a) ==
    CASE a = "incident-assembler" -> Sweeps
      [] a = "semantic-interpreter" -> {"incident-assembler"}
      [] a \in {"attribution-a", "attribution-b"} -> {"semantic-interpreter"}
      [] a = "atlas-curator" -> {"attribution-a", "attribution-b"}
      [] a = "challenge-designer" -> {"atlas-curator"}
      [] a = "independent-reviewer" -> EndedBefore(p, Assignments)
      [] OTHER -> {}

Start(p) ==
    /\ At(p, "start")
    /\ Goto(p, [Fresh EXCEPT !.phase = "view", !.grants = Available])
    /\ UNCHANGED <<scenario, journals, results, crashes>>

\* The view of the next assignment, from what the run has been granted so far.
View(p) ==
    /\ At(p, "view")
    /\ LET a == Current(p)
           grants == Granted(work[p].grants, BundlesFor(p, a))
           view == BuildView(ApplicationOf(p), a, grants)
       IN IF \/ ~IsView(view)
             \/ /\ a = "attribution-a"
                /\ \A g \in grants : g.category # "frozen_semantic_interpretation"
          THEN Finish(p, "raised")
          ELSE /\ Goto(p, [work[p] EXCEPT !.phase = "invoke", !.grants = grants, !.view = view,
                           !.upstream = {<<d, Len(EndedAs(p, d).attempts)>> :
                                           d \in EndedBefore(p, Dependencies(p, a))},
                           !.attempts = << >>, !.kind = "initial", !.failures = 0,
                           !.repairs = 0])
               /\ UNCHANGED results
    /\ UNCHANGED <<scenario, journals, crashes>>

-----------------------------------------------------------------------------
(* run_analysis_assignment *)

\* The drivers read every object of the view, then ask the model.  What is not
\* an AnalysisTransportError - the Codex driver's timeout - is not caught.
Invoke(p) ==
    /\ At(p, "invoke")
    /\ \E response \in Answers[scenario][Current(p)] :
          IF response.how = "timeout" THEN Finish(p, "raised")
          ELSE /\ Goto(p, [work[p] EXCEPT !.phase = "record", !.response = response])
               /\ UNCHANGED results
    /\ UNCHANGED <<scenario, journals, crashes>>

\* The runtime status of an attempt.
StatusOf(a, view, response) ==
    CASE response.how = "transport" -> "transport-failed"
      [] response.how = "other-model" -> "application-model-mismatch"
      [] response.how = "malformed" -> "schema-invalid"
      [] OTHER -> IF OutputValid(a, response, view.value.spans) THEN "complete"
                  ELSE "schema-invalid"
OutputObject(a, response) ==
    Object("analysis_structured_output", <<a, [response EXCEPT !.id = None]>>, {})

\* EvidenceAccessSession.ledger_value: the session is that of all the attempts.
Ledger(view, attempt) == Object("exposure_ledger", <<view.value.assignment, attempt>>, view.refs)
\* _store_attempt_receipt.  A receipt upstream is named by its assignment and number:
\* that assignment's ending, which is journaled, says which receipt that is.
Receipt(application, view, upstream, attempt, kind, response) ==
    LET a == view.value.assignment
    IN Object("analysis_receipt",
              [application |-> application.prefix, assignment |-> a, attempt |-> attempt,
               kind |-> kind, status |-> StatusOf(a, view, response), response |-> response.id,
               principal |-> Principal(application, a), upstream |-> upstream],
              {ApplicationObject(application), view, Ledger(view, attempt),
               OutputObject(a, response)})

\* freeze_exposure_ledger
ExposureEvent(application, view, attempt) ==
    LET a == view.value.assignment
    IN Event(<<"access", application, a, attempt>>, Principal(application, a),
             [assignment |-> a, view |-> view, attempt |-> attempt],
             {Ledger(view, attempt)})

\* Mutant: a third transport retry.
NextPhaseOneMore(w, status) ==
    CASE status = "complete" -> "complete"
      [] status = "schema-invalid" /\ w.repairs < 1 -> "invoke"
      [] status = "transport-failed" /\ w.failures < 3 -> "invoke"
      [] OTHER -> "incomplete"

\* At most two transport retries, and at most one repair of an invalid output.
NextPhase(w, status) ==
    CASE status = "complete" -> "complete"
      [] status = "schema-invalid" /\ w.repairs < 1 -> "invoke"
      [] status = "transport-failed" /\ w.failures < 2 -> "invoke"
      [] OTHER -> "incomplete"

\* The exposures of the attempt are journaled, then its receipt is stored.
Record(p) ==
    /\ At(p, "record")
    /\ LET w == work[p]
           application == ApplicationOf(p)
           attempt == Len(w.attempts) + 1
           status == StatusOf(Current(p), w.view, w.response)
       IN AppendThen(p, "access", ExposureEvent(application, w.view, attempt),
             [w EXCEPT !.phase = NextPhase(w, status),
              !.attempts = Append(@,
                  Receipt(application, w.view, w.upstream, attempt, w.kind, w.response)),
              !.failures = @ + IF status = "transport-failed" THEN 1 ELSE 0,
              !.repairs = @ + IF status = "schema-invalid" THEN 1 ELSE 0,
              !.kind = IF status = "transport-failed" THEN "transport-retry"
                       ELSE "schema-repair"])
    /\ UNCHANGED <<scenario, crashes>>

\* Mutant: the key of a completion counts the attempts.
CompletionEventByAttempt(application, a, output, attempts) ==
    Event(<<"analysis", application, a, Len(attempts)>>, Principal(application, a),
          [assignment |-> a, application |-> application, status |-> "complete",
           output |-> output, attempts |-> attempts],
          Range(attempts) \cup {output})
CompletionEvent(application, a, output, attempts) ==
    Event(<<"analysis", application, a, "complete">>, Principal(application, a),
          [assignment |-> a, application |-> application, status |-> "complete",
           output |-> output, attempts |-> attempts],
          Range(attempts) \cup {output})
IncompletionEvent(application, a, attempts) ==
    Event(<<"analysis", application, a, "incomplete">>, Principal(application, a),
          [assignment |-> a, application |-> application, status |-> "incomplete",
           output |-> None, attempts |-> attempts],
          Range(attempts))

\* Mutant: what an attribution returns is granted to those who follow.
OutputCategoryOfAll(a) ==
    CASE a = "incident-assembler" -> {"frozen_incident"}
      [] a = "semantic-interpreter" -> {"frozen_semantic_interpretation"}
      [] a = "atlas-curator" -> {"reviewed_incident_packages"}
      [] a = "challenge-designer" -> {"frozen_proposal"}
      [] a = "attribution-a" -> {"canonical_episode_evidence"}
      [] OTHER -> {}
\* What those who follow are granted of an output.
OutputCategory(a) ==
    CASE a = "incident-assembler" -> {"frozen_incident"}
      [] a = "semantic-interpreter" -> {"frozen_semantic_interpretation"}
      [] a = "atlas-curator" -> {"reviewed_incident_packages"}
      [] a = "challenge-designer" -> {"frozen_proposal"}
      [] OTHER -> {}

Ended(w, status, output) ==
    Append(w.ended, [status |-> status, output |-> output, attempts |-> w.attempts,
                     view |-> w.view])

Complete(p) ==
    /\ At(p, "complete")
    /\ LET w == work[p]
           a == Current(p)
           output == OutputObject(a, w.response)
       IN AppendThen(p, "analysis", CompletionEvent(ApplicationOf(p), a, output, w.attempts),
             [w EXCEPT !.phase = IF Len(w.ended) + 1 = Len(Roster) THEN "freeze" ELSE "view",
              !.ended = Ended(w, "complete", output),
              !.grants = Granted(@, {Grant(c, output, {}) : c \in OutputCategory(a)}),
              !.response = None])
    /\ UNCHANGED <<scenario, crashes>>

\* The retries are spent: the lineage breaks off and is frozen as it is.
GiveUp(p) ==
    /\ At(p, "incomplete")
    /\ LET w == work[p]
           a == Current(p)
       IN AppendThen(p, "analysis", IncompletionEvent(ApplicationOf(p), a, w.attempts),
             [w EXCEPT !.phase = "freeze", !.ended = Ended(w, "incomplete", None),
              !.response = None])
    /\ UNCHANGED <<scenario, crashes>>

-----------------------------------------------------------------------------
(* run_analysis_lineage, after the assignments *)

AttemptsOf(ended, a) ==
    IF Place(a) > Len(ended) THEN << >>
    ELSE LET receipts == ended[Place(a)].attempts
         IN [i \in DOMAIN receipts |-> [kind |-> receipts[i].value.kind, receipt |-> receipts[i]]]

\* A run admits no denied evidence, claims nothing, and finds nothing crossed, mutated or
\* waived: it writes down that there was none of it.
Lineage(application, ended) ==
    [actors |-> Actors[scenario], claims |-> {},
     crossed |-> FALSE, mutated |-> FALSE, waived |-> FALSE,
     assignments |-> [a \in Assignments |->
        [principal |-> Principal(application, a),
         view |-> IF Place(a) > Len(ended) THEN None
                  ELSE ended[Place(a)].view,
         status |-> IF Place(a) > Len(ended) THEN "incomplete" ELSE ended[Place(a)].status,
         complete |-> /\ Place(a) <= Len(ended)
                      /\ ended[Place(a)].status = "complete",
         denied |-> {},
         attempts |-> AttemptsOf(ended, a)]]]

LineageObject(application, ended) ==
    LET eligibility == Eligibility(application, Lineage(application, ended))
    IN Object("analysis_lineage", [application |-> application.prefix,
                                   eligible |-> eligibility.value = {},
                                   length |-> Len(ended)],
              {ApplicationObject(application), eligibility}
              \cup (UNION {Range(ended[i].attempts) : i \in DOMAIN ended})
              \cup ({ended[i].output : i \in DOMAIN ended} \ {None}))
FreezeEvent(application, lineage) ==
    Event(<<"analysis-lineage", application>>, "coordinator",
          [application |-> application, lineage |-> lineage,
           eligible |-> lineage.value.eligible], {lineage})

Freeze(p) ==
    /\ At(p, "freeze")
    /\ LET lineage == LineageObject(ApplicationOf(p), work[p].ended)
       IN AppendThen(p, "analysis", FreezeEvent(ApplicationOf(p), lineage),
                     [work[p] EXCEPT !.phase = "checkpoint", !.lineage = lineage])
    /\ UNCHANGED <<scenario, crashes>>

\* create_checkpoint: the heads, and that none has moved meanwhile.
ReadHeads(p) ==
    /\ At(p, "checkpoint")
    /\ Goto(p, [work[p] EXCEPT !.phase = "recheck", !.heads = Checkpoint(journals)])
    /\ UNCHANGED <<scenario, journals, results, crashes>>
Recheck(p) ==
    /\ At(p, "recheck")
    /\ IF work[p].heads = Checkpoint(journals)
       THEN Goto(p, [work[p] EXCEPT !.phase = "claim"]) /\ UNCHANGED results
       ELSE Finish(p, "raised")
    /\ UNCHANGED <<scenario, journals, crashes>>

IsStored(o) == o.kind = "episode_package" => o.value \in Stored[scenario]
SchemaBundle == Object("schema_bundle", None, {})
VerifierBundle == Object("verifier_bundle", None, {})
ClaimOf(application, checkpoint, lineage) ==
    Manifest(<<"diagnostic", application>>, checkpoint, {lineage}, {SchemaBundle},
             {VerifierBundle})
ClaimEvent(application, manifest) ==
    Event(<<"analysis-claim", application>>, "coordinator",
          [claim |-> manifest.claim, manifest |-> manifest], {})

\* create_claim_manifest refuses a claim whose evidence is not all stored; then
\* the capsule is exported, and the run is complete or not.
Claim(p) ==
    /\ At(p, "claim")
    /\ LET w == work[p]
           application == ApplicationOf(p)
           manifest == ClaimOf(application, w.heads, w.lineage)
           event == ClaimEvent(application, manifest)
       IN IF \/ ~CheckpointVerifies(w.heads, journals)
             \/ \E o \in manifest.objects : ~IsStored(o)
             \/ Decides("qualification", event) = "idempotency_conflict"
          THEN Finish(p, "raised") /\ UNCHANGED journals
          ELSE /\ journals' = Appended("qualification", event)
               /\ Finish(p, IF w.lineage.value.eligible THEN "complete" ELSE "incomplete")
    /\ UNCHANGED <<scenario, crashes>>

\* The process dies; the operator runs the same lineage again.
Crash(p) ==
    /\ p \in Crashable /\ crashes < MaxCrashes[scenario]
    /\ work[p].phase # "start"
    /\ work' = [work EXCEPT ![p] = Fresh]
    /\ crashes' = crashes + 1
    /\ UNCHANGED <<scenario, journals, results>>

Next == \E p \in Processes :
    \/ Start(p) \/ View(p) \/ Invoke(p) \/ Record(p) \/ Complete(p) \/ GiveUp(p)
    \/ Freeze(p) \/ ReadHeads(p) \/ Recheck(p) \/ Claim(p) \/ Crash(p)

Spec == Init /\ [][Next]_vars

-----------------------------------------------------------------------------
(* Properties *)

EventsIn(name) == Range(journals[name])
Completions(application) ==
    {e \in EventsIn("analysis") :
        e.key[1] = "analysis" /\ e.key[2] = application /\ e.payload.status = "complete"}
Endings == {e \in EventsIn("analysis") : e.key[1] = "analysis"}
Frozen == {e \in EventsIn("analysis") : e.key[1] = "analysis-lineage"}
Claims == {e.payload.manifest : e \in EventsIn("qualification")}

\* What an analyst can read in a view: the objects it was granted and, of a bundle,
\* the objects it holds.
Readable(view) ==
    view.refs \cup UNION {o.refs : o \in {b \in view.refs : b.kind = "analysis_material_bundle"}}
Supplied(category) == {g.object : g \in {x \in Available : x.category = category}}
OutputsIn(objects) == {o \in objects : o.kind = "analysis_structured_output"}
AuthorOf(output) == output.value[1]
MayReadOutputsOf(a) ==
    CASE a = "incident-assembler" -> Sweeps
      [] a = "semantic-interpreter" -> {"incident-assembler"}
      [] a \in {"attribution-a", "attribution-b"} -> {"incident-assembler", "semantic-interpreter"}
      [] a = "atlas-curator" -> {"attribution-a", "attribution-b"}
      [] a = "independent-reviewer" -> {"challenge-designer"}
      [] OTHER -> {}

\* Whatever a journal says an analyst was shown, in whichever attempt of whichever
\* run: no world truth before the attributions, no side of a comparison at all, and
\* of the other analysts' outputs those its contract names - so never the other
\* attribution's (the grants of run_analysis_lineage, build_analysis_view).
AnalystsAreIsolated ==
    \A e \in EventsIn("access") :
        LET a == e.payload.assignment
            objects == Readable(e.payload.view)
        IN /\ {AuthorOf(o) : o \in OutputsIn(objects)} \subseteq MayReadOutputsOf(a)
           /\ objects \cap Supplied("comparison_side") = {}
           /\ objects \cap Supplied("canonical_world_truth") # {}
                 => a \in {"attribution-a", "attribution-b"}

\* A model may answer differently each time it is asked, after a crash, by a second
\* process, in a repeated run: of each assignment of an application one answer is
\* frozen, every analyst was shown only answers that were frozen, and the frozen
\* lineage holds those and no other (the keys of the analysis journal).
OneAnswerStands ==
    \A application \in UNION {Range(Script[scenario][p]) : p \in Processes} :
        LET done == Completions(application)
            outputs == {e.payload.output : e \in done}
        IN /\ \A d, e \in done : d.payload.assignment = e.payload.assignment => d = e
           /\ \A e \in EventsIn("access") :
                 e.key[2] = application
                   => OutputsIn(Readable(e.payload.view)) \subseteq outputs
           /\ \A e \in Frozen :
                 e.payload.application = application
                   => /\ OutputsIn(e.payload.lineage.refs) \subseteq outputs
                      /\ e.payload.eligible => Cardinality(done) = Len(Roster)

\* However an assignment ended: its attempts are numbered in order, each of their
\* exposures is in the access journal, only the last can have been a valid answer -
\* no second answer is sought for a better one - at most two transport failures were
\* retried and at most one answer repaired, and it is given up only when that is
\* spent (run_analysis_assignment).
AttemptsAreBounded ==
    \A e \in Endings :
        LET attempts == e.payload.attempts
            status == [i \in DOMAIN attempts |-> attempts[i].value.status]
            Counted(s) == Cardinality({i \in DOMAIN status : status[i] = s})
        IN /\ \A i \in DOMAIN attempts :
                 /\ attempts[i].value.attempt = i
                 /\ \E x \in EventsIn("access") :
                       x.payload.attempt = i /\ x.refs \subseteq attempts[i].refs
                 /\ i < Len(attempts) => status[i] \in {"transport-failed", "schema-invalid"}
           /\ Counted("transport-failed") <= 3 /\ Counted("schema-invalid") <= 2
           /\ IF e.payload.status = "complete"
              THEN /\ Last(status) = "complete"
                   /\ Counted("transport-failed") <= 2 /\ Counted("schema-invalid") <= 1
              ELSE \/ Last(status) = "application-model-mismatch"
                   \/ Counted("transport-failed") = 3 \/ Counted("schema-invalid") = 2

\* A claim stands on its own: whatever the journals became since, its checkpoint is a
\* prefix of them that holds the frozen lineage, the objects it names are all that can
\* be reached from its roots and are stored, and its capsule - which is verified from
\* its own bytes - verifies (create_claim_manifest, export_claim_capsule).
ClaimsStand ==
    \A manifest \in Claims :
        /\ ManifestVerifies(manifest, journals)
        /\ CapsuleVerifies(Capsule(manifest, journals))
        /\ \A o \in manifest.objects : IsStored(o)
        /\ \A lineage \in manifest.roots :
              /\ lineage.refs \subseteq manifest.objects
              /\ \E e \in Range(manifest.checkpoint.value["analysis"].head) :
                    e.key[1] = "analysis-lineage" /\ e.payload.lineage = lineage
=============================================================================
