---------------------------- MODULE AnalysisProofs ----------------------------
(* What an Analysis Instrument guarantees for any processes, applications and *)
(* answers, whichever processes die: nobody is shown what its contract denies, *)
(* one answer of each assignment stands, retries keep their limits, and what   *)
(* is claimed of a frozen lineage verifies for ever. And what scheduling,      *)
(* suites, Atlas and hardening compute, for any values whatever.               *)
EXTENDS Analysis, LogLemmas, FiniteSetTheorems

-----------------------------------------------------------------------------
(* The roster *)

LEMMA RosterFacts ==
    /\ Len(Roster) = 12 /\ DOMAIN Roster = 1..12
    /\ \A i, j \in 1..12 : Roster[i] = Roster[j] => i = j
    /\ Assignments = {Roster[i] : i \in 1..12}
<1>1. Len(Roster) = 12 /\ DOMAIN Roster = 1..12
  BY DEF Roster
<1>2. \A i, j \in 1..12 : Roster[i] = Roster[j] => i = j
  BY DEF Roster
<1>3. QED
  BY <1>1, <1>2 DEF Assignments, Range

LEMMA PlaceFacts ==
    /\ \A a \in Assignments : Place(a) \in 1..12 /\ Roster[Place(a)] = a
    /\ \A i \in 1..12 : Roster[i] \in Assignments /\ Place(Roster[i]) = i
    /\ Sweeps \subseteq Assignments
BY RosterFacts DEF Place, Sweeps

-----------------------------------------------------------------------------
(* The invariant *)

CompletionKey(application, a) == <<"analysis", application, a, "complete">>

\* The output is the one answer of the assignment that the journal has.
IsAnswer(log, application, a, output) ==
    /\ output.kind = "analysis_structured_output" /\ AuthorOf(output) = a
    /\ \E e \in Range(log) :
          /\ e.key = CompletionKey(application, a)
          /\ e.payload.status = "complete" /\ e.payload.output = output
AreAnswers(log, application, names, objects) ==
    \A o \in objects : \E a \in names : IsAnswer(log, application, a, o)

Attributions == {"attribution-a", "attribution-b"}

\* Where what a run grants comes from, once n assignments have ended.
GrantFits(log, application, n, g) ==
    \/ g \in Available
    \/ \E i \in 1..n : g.category \in OutputCategory(Roster[i])
                       /\ IsAnswer(log, application, Roster[i], g.object)
    \/ /\ g.category \in {"frozen_discovery_outputs", "sweep_coverage"}
       /\ g.object.kind = "analysis_material_bundle"
       /\ AreAnswers(log, application, Sweeps, g.object.refs)
    \/ /\ g.category \in {"both_frozen_attributions", "attribution_disagreement"}
       /\ g.object.kind = "analysis_material_bundle"
       /\ AreAnswers(log, application, Attributions, g.object.refs)
    \/ /\ g.category = "all_analysis_receipts"
       /\ g.object.kind = "analysis_material_bundle"
       /\ \A o \in g.object.refs : o.kind = "analysis_receipt"

\* What a view shows is what its assignment may see.
ViewHolds(log, application, a, view) ==
    LET objects == Readable(view)
    IN /\ AreAnswers(log, application, MayReadOutputsOf(a), OutputsIn(objects))
       /\ objects \cap Supplied("comparison_side") = {}
       /\ objects \cap Supplied("canonical_world_truth") # {} => a \in Attributions

ReceiptHolds(access, receipt, i) ==
    /\ receipt.kind = "analysis_receipt" /\ receipt.value.attempt = i
    /\ \E x \in Range(access) : x.payload.attempt = i /\ x.refs \subseteq receipt.refs
Counted(attempts, status) ==
    Cardinality({i \in DOMAIN attempts : attempts[i].value.status = status})
Retried(receipt) == receipt.value.status \in {"transport-failed", "schema-invalid"}

\* The attempts of an assignment, while it lasts and once it has ended.
TrialHolds(access, attempts) ==
    /\ IsLog(attempts)
    /\ \A i \in DOMAIN attempts :
          /\ ReceiptHolds(access, attempts[i], i)
          /\ i < Len(attempts) => Retried(attempts[i])
Open(attempts) ==
    /\ \A i \in DOMAIN attempts : Retried(attempts[i])
    /\ Counted(attempts, "transport-failed") <= 2 /\ Counted(attempts, "schema-invalid") <= 1
Answered(attempts) ==
    /\ attempts # << >> /\ attempts[Len(attempts)].value.status = "complete"
    /\ Counted(attempts, "transport-failed") <= 2 /\ Counted(attempts, "schema-invalid") <= 1
Spent(attempts) ==
    /\ attempts # << >>
    /\ Counted(attempts, "transport-failed") <= 3 /\ Counted(attempts, "schema-invalid") <= 2
    /\ \/ attempts[Len(attempts)].value.status = "application-model-mismatch"
       \/ Counted(attempts, "transport-failed") = 3
       \/ Counted(attempts, "schema-invalid") = 2

\* An event of the analysis journal.
CompletionHolds(access, e) ==
    /\ e = CompletionEvent(e.payload.application, e.payload.assignment, e.payload.output,
                           e.payload.attempts)
    /\ TrialHolds(access, e.payload.attempts) /\ Answered(e.payload.attempts)
    /\ e.payload.assignment \in Assignments
IncompletionHolds(access, e) ==
    /\ e = IncompletionEvent(e.payload.application, e.payload.assignment, e.payload.attempts)
    /\ TrialHolds(access, e.payload.attempts) /\ Spent(e.payload.attempts)
FreezeHolds(log, e) ==
    /\ e = FreezeEvent(e.payload.application, e.payload.lineage)
    /\ AreAnswers(log, e.payload.application, Assignments, OutputsIn(e.payload.lineage.refs))
    /\ e.payload.eligible =>
         \A a \in Assignments : \E o : IsAnswer(log, e.payload.application, a, o)

JournalsHold ==
    LET log == journals["analysis"]
        access == journals["access"]
    IN /\ DOMAIN journals = JournalNames
       /\ \A name \in JournalNames : IsLog(journals[name]) /\ KeysUnique(journals[name])
       /\ \A e \in Range(log) :
             IF e.key[1] = "analysis-lineage" THEN FreezeHolds(log, e)
             ELSE IF e.payload.status = "complete" THEN CompletionHolds(access, e)
             ELSE IncompletionHolds(access, e)
       /\ \A e \in Range(access) :
             ViewHolds(log, e.key[2], e.payload.assignment, e.payload.view)

Asking == {"invoke", "record", "complete", "incomplete"}
Working == Asking \cup {"view"}

EndingHolds(log, application, a, ending) ==
    /\ \A i \in DOMAIN ending.attempts : ending.attempts[i].kind = "analysis_receipt"
    /\ IF ending.status = "complete" THEN IsAnswer(log, application, a, ending.output)
       ELSE ending.output = None

\* What a run has, of an application.
RunHolds(log, access, application, w) ==
    /\ IsLog(w.ended) /\ Len(w.ended) <= 12
    /\ \A i \in DOMAIN w.ended : EndingHolds(log, application, Roster[i], w.ended[i])
    /\ \A g \in w.grants : GrantFits(log, application, Len(w.ended), g)
    /\ w.phase \in Working =>
         Len(w.ended) < 12 /\ \A i \in DOMAIN w.ended : w.ended[i].status = "complete"
    /\ w.phase \in Asking =>
         /\ w.view.value.assignment = Roster[Len(w.ended) + 1]
         /\ ViewHolds(log, application, w.view.value.assignment, w.view)
         /\ TrialHolds(access, w.attempts)
         /\ w.failures = Counted(w.attempts, "transport-failed")
         /\ w.repairs = Counted(w.attempts, "schema-invalid")
    /\ w.phase \in {"invoke", "record"} => Open(w.attempts)
    /\ w.phase = "complete" => Answered(w.attempts)
    /\ w.phase = "incomplete" => Spent(w.attempts)

Phases == Working \cup {"start", "freeze", "checkpoint", "recheck", "claim"}

WorkHolds(p) ==
    /\ DOMAIN work[p] = DOMAIN Fresh /\ work[p].phase \in Phases
    /\ work[p].phase # "start" =>
         RunHolds(journals["analysis"], journals["access"], ApplicationOf(p), work[p])

LineageInv ==
    /\ DOMAIN work = Processes /\ DOMAIN results = Processes
    /\ JournalsHold
    /\ \A p \in Processes : WorkHolds(p)
-----------------------------------------------------------------------------
(* What the contracts allow *)

LEMMA SweepNames ==
    Sweeps = {"sweep-outcome-progress", "sweep-knowledge-support",
              "sweep-coordination-allocation", "sweep-host-dependence",
              "sweep-runtime-authorization-evaluator"}
<1>1. Sweeps = {Roster[1], Roster[2], Roster[3], Roster[4], Roster[5]}
  BY DEF Sweeps
<1>2. QED
  BY <1>1 DEF Roster

LEMMA RosterNames ==
    Assignments = Sweeps \cup {"incident-assembler", "semantic-interpreter", "attribution-a",
                               "attribution-b", "atlas-curator", "challenge-designer",
                               "independent-reviewer"}
<1>1. Assignments = Sweeps \cup {Roster[6], Roster[7], Roster[8], Roster[9], Roster[10],
                                 Roster[11], Roster[12]}
  BY RosterFacts DEF Sweeps
<1>2. QED
  BY <1>1 DEF Roster

\* Nobody may see a comparison, and only the attributions the truth of the world.
LEMMA ContractFacts ==
    ASSUME NEW a \in Assignments
    PROVE  /\ "comparison_side" \notin Allow(Contract(a))
           /\ "canonical_world_truth" \in Allow(Contract(a)) => a \in Attributions
           /\ {"frozen_discovery_outputs", "sweep_coverage"} \cap Allow(Contract(a)) # {}
                => MayReadOutputsOf(a) = Sweeps
           /\ {"both_frozen_attributions", "attribution_disagreement"} \cap Allow(Contract(a)) # {}
                => MayReadOutputsOf(a) = Attributions
           /\ \A b \in Assignments :
                 OutputCategory(b) \cap Allow(Contract(a)) # {} => b = a \/ b \in MayReadOutputsOf(a)
<1> USE DEF Contract, IsSweep, Allow, MayReadOutputsOf, OutputCategory, Attributions
<1>1. CASE a \in Sweeps
  <2>1. Contract(a) = "discovery"
    BY <1>1, SweepNames
  <2>2. Allow(Contract(a)) = {"verified_actions"}
    BY <2>1
  <2> HIDE DEF Contract, Allow, MayReadOutputsOf
  <2>3. QED
    BY <2>2
<1>2. CASE a \in Assignments \ Sweeps
  <2>1. a \in {"incident-assembler", "semantic-interpreter", "attribution-a",
               "attribution-b", "atlas-curator", "challenge-designer", "independent-reviewer"}
    BY <1>2, RosterNames
  <2>2. CASE a = "incident-assembler"
    BY <2>2, <1>2
  <2>3. CASE a = "semantic-interpreter"
    BY <2>3, <1>2
  <2>4. CASE a \in {"attribution-a", "attribution-b"}
    BY <2>4, <1>2
  <2>5. CASE a = "atlas-curator"
    BY <2>5, <1>2
  <2>6. CASE a = "challenge-designer"
    BY <2>6, <1>2
  <2>7. CASE a = "independent-reviewer"
    BY <2>7, <1>2
  <2>8. QED
    BY <2>1, <2>2, <2>3, <2>4, <2>5, <2>6, <2>7
<1>3. QED
  BY <1>1, <1>2

LEMMA SuppliedKinds ==
    ASSUME NEW category, NEW o \in Supplied(category)
    PROVE  /\ o.kind \notin {"analysis_structured_output", "analysis_receipt",
                             "analysis_material_bundle"}
           /\ \A g \in Available : g.object = o => g.category = category
BY MaterialAssumption DEF Supplied

\* A view of what fits shows what its contract names.
LEMMA ViewFits ==
    ASSUME NEW log, NEW application, NEW n \in 0..11, NEW grants,
           \A g \in grants : GrantFits(log, application, n, g)
    PROVE  LET a == Roster[n + 1]
           IN ViewHolds(log, application, a, BuildView(application, a, grants))
<1> DEFINE a == Roster[n + 1]
           view == BuildView(application, a, grants)
           Seen(g) == g \in grants /\ g.category \in Allow(Contract(a))
<1>1. a \in Assignments
  BY PlaceFacts
<1>2. view.refs = {g.object : g \in {h \in grants : h.category \in Allow(Contract(a))}}
  BY DEF BuildView, Object
<1> HIDE DEF a, view
<1>3. ASSUME NEW o \in Readable(view)
      PROVE  \E g : /\ Seen(g)
                    /\ \/ o = g.object
                       \/ g.object.kind = "analysis_material_bundle" /\ o \in g.object.refs
  BY <1>2, <1>3 DEF Readable
<1>4. ASSUME NEW o \in OutputsIn(Readable(view))
      PROVE  \E b \in MayReadOutputsOf(a) : IsAnswer(log, application, b, o)
  <2>1. o \in Readable(view) /\ o.kind = "analysis_structured_output"
    BY <1>4 DEF OutputsIn
  <2>2. PICK g : /\ Seen(g)
                 /\ \/ o = g.object
                    \/ g.object.kind = "analysis_material_bundle" /\ o \in g.object.refs
    BY <2>1, <1>3
  <2>3. CASE g \in Available
    BY <2>1, <2>2, <2>3, MaterialAssumption
  <2>4. CASE \E i \in 1..n : g.category \in OutputCategory(Roster[i])
                             /\ IsAnswer(log, application, Roster[i], g.object)
    <3>1. PICK i \in 1..n : g.category \in OutputCategory(Roster[i])
                            /\ IsAnswer(log, application, Roster[i], g.object)
      BY <2>4
    <3>2. o = g.object
      BY <2>2, <3>1 DEF IsAnswer
    <3>3. i \in 1..12 /\ n + 1 \in 1..12 /\ i # n + 1
      OBVIOUS
    <3>4. Roster[i] \in Assignments /\ Roster[i] # a
      BY <3>3, RosterFacts, PlaceFacts DEF a
    <3>5. OutputCategory(Roster[i]) \cap Allow(Contract(a)) # {}
      BY <3>1, <2>2
    <3>6. Roster[i] \in MayReadOutputsOf(a)
      BY <3>4, <3>5, <1>1, ContractFacts
    <3>7. QED
      BY <3>1, <3>2, <3>6
  <2>5. CASE /\ g.category \in {"frozen_discovery_outputs", "sweep_coverage"}
             /\ g.object.kind = "analysis_material_bundle"
             /\ AreAnswers(log, application, Sweeps, g.object.refs)
    <3>1. o \in g.object.refs
      BY <2>1, <2>2, <2>5
    <3>2. MayReadOutputsOf(a) = Sweeps
      BY <2>2, <2>5, <1>1, ContractFacts
    <3>3. QED
      BY <2>5, <3>1, <3>2 DEF AreAnswers
  <2>6. CASE /\ g.category \in {"both_frozen_attributions", "attribution_disagreement"}
             /\ g.object.kind = "analysis_material_bundle"
             /\ AreAnswers(log, application, Attributions, g.object.refs)
    <3>1. o \in g.object.refs
      BY <2>1, <2>2, <2>6
    <3>2. MayReadOutputsOf(a) = Attributions
      BY <2>2, <2>6, <1>1, ContractFacts
    <3>3. QED
      BY <2>6, <3>1, <3>2 DEF AreAnswers
  <2>7. CASE /\ g.object.kind = "analysis_material_bundle"
             /\ \A x \in g.object.refs : x.kind = "analysis_receipt"
    BY <2>1, <2>2, <2>7
  <2>8. GrantFits(log, application, n, g)
    BY <2>2
  <2>9. QED
    BY <2>3, <2>4, <2>5, <2>6, <2>7, <2>8 DEF GrantFits
<1>5. ASSUME NEW category, NEW o \in Readable(view) \cap Supplied(category)
      PROVE  category \in Allow(Contract(a))
  <2>1. o.kind \notin {"analysis_structured_output", "analysis_receipt",
                       "analysis_material_bundle"}
    BY <1>5, SuppliedKinds
  <2>2. PICK g : /\ Seen(g)
                 /\ \/ o = g.object
                    \/ g.object.kind = "analysis_material_bundle" /\ o \in g.object.refs
    BY <1>5, <1>3
  <2>3. GrantFits(log, application, n, g)
    BY <2>2
  <2>4. g \in Available
    BY <2>1, <2>2, <2>3 DEF GrantFits, AreAnswers, IsAnswer
  <2>5. g.object = o
    BY <2>2, <2>4, MaterialAssumption
  <2>6. g.category = category
    BY <2>4, <2>5, <1>5, SuppliedKinds
  <2>7. QED
    BY <2>2, <2>6
<1>6. AreAnswers(log, application, MayReadOutputsOf(a), OutputsIn(Readable(view)))
  BY <1>4 DEF AreAnswers
<1>7. Readable(view) \cap Supplied("comparison_side") = {}
  BY <1>5, <1>1, ContractFacts
<1>8. Readable(view) \cap Supplied("canonical_world_truth") # {} => a \in Attributions
  BY <1>5, <1>1, ContractFacts
<1>9. QED
  BY <1>6, <1>7, <1>8 DEF ViewHolds, a, view
-----------------------------------------------------------------------------
(* Journals grow, and what they say stays *)

LEMMA AnswersStay ==
    ASSUME NEW log, NEW longer, Range(log) \subseteq Range(longer), NEW application
    PROVE  /\ \A a, o : IsAnswer(log, application, a, o) => IsAnswer(longer, application, a, o)
           /\ \A names, objects : AreAnswers(log, application, names, objects)
                                    => AreAnswers(longer, application, names, objects)
           /\ \A a, view : ViewHolds(log, application, a, view)
                             => ViewHolds(longer, application, a, view)
           /\ \A a, ending : EndingHolds(log, application, a, ending)
                               => EndingHolds(longer, application, a, ending)
<1>1. \A a, o : IsAnswer(log, application, a, o) => IsAnswer(longer, application, a, o)
  BY DEF IsAnswer
<1>2. \A names, objects : AreAnswers(log, application, names, objects)
                            => AreAnswers(longer, application, names, objects)
  BY <1>1 DEF AreAnswers
<1>3. QED
  BY <1>1, <1>2 DEF ViewHolds, EndingHolds

LEMMA GrantsStay ==
    ASSUME NEW log, NEW longer, Range(log) \subseteq Range(longer), NEW application,
           NEW n \in Nat, NEW m \in Nat, n <= m, NEW g, GrantFits(log, application, n, g)
    PROVE  GrantFits(longer, application, m, g)
<1>1. /\ \A a, o : IsAnswer(log, application, a, o) => IsAnswer(longer, application, a, o)
      /\ \A names, objects : AreAnswers(log, application, names, objects)
                               => AreAnswers(longer, application, names, objects)
  BY AnswersStay
<1>2. \A i \in 1..n : i \in 1..m
  OBVIOUS
<1>3. QED
  BY <1>1, <1>2 DEF GrantFits

LEMMA TrialStays ==
    ASSUME NEW access, NEW longer, Range(access) \subseteq Range(longer)
    PROVE  /\ \A receipt, i : ReceiptHolds(access, receipt, i) => ReceiptHolds(longer, receipt, i)
           /\ \A attempts : TrialHolds(access, attempts) => TrialHolds(longer, attempts)
<1>1. \A receipt, i : ReceiptHolds(access, receipt, i) => ReceiptHolds(longer, receipt, i)
  BY DEF ReceiptHolds
<1>2. QED
  BY <1>1 DEF TrialHolds

LEMMA RunStays ==
    ASSUME NEW log, NEW log2, Range(log) \subseteq Range(log2),
           NEW access, NEW access2, Range(access) \subseteq Range(access2),
           NEW application, NEW w, RunHolds(log, access, application, w)
    PROVE  RunHolds(log2, access2, application, w)
<1>1. Len(w.ended) \in Nat
  BY LogFacts DEF RunHolds
<1>2. \A g \in w.grants : GrantFits(log2, application, Len(w.ended), g)
  BY <1>1, GrantsStay DEF RunHolds
<1>3. \A i \in DOMAIN w.ended : EndingHolds(log2, application, Roster[i], w.ended[i])
  BY AnswersStay DEF RunHolds
<1>4. ViewHolds(log, application, w.view.value.assignment, w.view)
        => ViewHolds(log2, application, w.view.value.assignment, w.view)
  BY AnswersStay
<1>5. TrialHolds(access, w.attempts) => TrialHolds(access2, w.attempts)
  BY TrialStays
<1>6. QED
  BY <1>2, <1>3, <1>4, <1>5 DEF RunHolds

\* What appending leaves in a journal.
LEMMA JournalStep ==
    ASSUME JournalsHold, NEW name \in JournalNames, NEW event,
           journals' = Appended(name, event)
    PROVE  /\ DOMAIN journals' = JournalNames
           /\ \A other \in JournalNames \ {name} : journals'[other] = journals[other]
           /\ IsLog(journals'[name]) /\ KeysUnique(journals'[name])
           /\ Range(journals[name]) \subseteq Range(journals'[name])
           /\ Range(journals'[name]) \subseteq Range(journals[name]) \cup {event}
           /\ Decides(name, event) # "idempotency_conflict" => event \in Range(journals'[name])
           /\ Decides(name, event) = "idempotency_conflict" => journals' = journals
<1> DEFINE log == journals[name]
<1>1. DOMAIN journals = JournalNames /\ IsLog(log) /\ KeysUnique(log)
  BY DEF JournalsHold
<1>2. CASE Decides(name, event) = "append"
  <2>1. journals' = [journals EXCEPT ![name] = Append(log, event)]
    BY <1>2 DEF Appended
  <2>2. journals'[name] = Append(log, event)
    BY <1>1, <2>1
  <2>3. ~HasKey(log, event.key)
    BY <1>2 DEF Decides, Verdict
  <2>4. /\ IsLog(Append(log, event)) /\ DOMAIN Append(log, event) = 1..(Len(log) + 1)
        /\ \A i \in 1..Len(log) : Append(log, event)[i] = log[i]
        /\ Append(log, event)[Len(log) + 1] = event
    BY <1>1, LongerLog
  <2>5. Len(log) \in Nat /\ DOMAIN log = 1..Len(log)
    BY <1>1, LogFacts
  <2> HIDE DEF log
  <2>6. KeysUnique(Append(log, event))
    BY <1>1, <2>3, <2>4, <2>5 DEF KeysUnique, HasKey
  <2>7. Range(Append(log, event)) = Range(log) \cup {event}
    BY <2>4, <2>5 DEF Range
  <2>8. \A other \in JournalNames \ {name} : journals'[other] = journals[other]
    BY <1>1, <2>1
  <2>9. DOMAIN journals' = JournalNames
    BY <1>1, <2>1
  <2>10. QED
    BY <1>2, <2>2, <2>4, <2>6, <2>7, <2>8, <2>9 DEF log
<1>3. CASE Decides(name, event) # "append"
  <2>1. journals' = journals
    BY <1>3 DEF Appended
  <2>2. ASSUME Decides(name, event) # "idempotency_conflict"
        PROVE  event \in Range(log)
    <3>1. HasKey(log, event.key) /\ EventForKey(log, event.key) = event
      BY <1>3, <2>2 DEF Decides, Verdict
    <3>2. PICK i \in DOMAIN log : log[i].key = event.key
      BY <3>1 DEF HasKey
    <3>3. DOMAIN log \subseteq Nat
      BY <1>1, LogFacts
    <3>4. \A j \in DOMAIN log : log[j].key = event.key => i <= j
      BY <1>1, <3>2, <3>3 DEF KeysUnique
    <3>5. \E k \in DOMAIN log : /\ log[k].key = event.key
                                /\ EventForKey(log, event.key) = log[k]
      BY <3>2, <3>4 DEF EventForKey
    <3>6. QED
      BY <3>1, <3>5 DEF Range
  <2>3. QED
    BY <1>1, <2>1, <2>2
<1>4. QED
  BY <1>2, <1>3

-----------------------------------------------------------------------------
(* Attempts *)

Statuses == {"complete", "schema-invalid", "transport-failed", "application-model-mismatch"}

LEMMA StatusFacts == \A a, view, response : StatusOf(a, view, response) \in Statuses
BY DEF StatusOf, Statuses

LEMMA CountMore ==
    ASSUME NEW attempts, IsLog(attempts), NEW receipt, NEW status
    PROVE  /\ Counted(attempts, status) \in Nat
           /\ Counted(Append(attempts, receipt), status)
                = Counted(attempts, status) + IF receipt.value.status = status THEN 1 ELSE 0
<1> DEFINE n == Len(attempts)
           more == Append(attempts, receipt)
           S == {i \in DOMAIN attempts : attempts[i].value.status = status}
           T == {i \in DOMAIN more : more[i].value.status = status}
<1>1. n \in Nat /\ DOMAIN attempts = 1..n
  BY LogFacts
<1>2. /\ DOMAIN more = 1..(n + 1) /\ \A i \in 1..n : more[i] = attempts[i]
      /\ more[n + 1] = receipt
  BY LongerLog
<1>3. IsFiniteSet(1..n) /\ S \subseteq 1..n
  BY <1>1, FS_Interval
<1>4. IsFiniteSet(S) /\ Cardinality(S) \in Nat /\ n + 1 \notin S
  BY <1>1, <1>3, FS_Subset, FS_CardinalityType
<1>5. T = IF receipt.value.status = status THEN S \cup {n + 1} ELSE S
  <2> HIDE DEF more
  <2>1. QED
    BY <1>1, <1>2
<1> HIDE DEF S, T
<1>6. Cardinality(T) = Cardinality(S) + IF receipt.value.status = status THEN 1 ELSE 0
  <2>1. Cardinality(S \cup {n + 1}) = Cardinality(S) + 1
    BY <1>4, FS_AddElement
  <2>2. CASE receipt.value.status = status
    BY <1>5, <2>1, <2>2
  <2>3. CASE receipt.value.status # status
    BY <1>4, <1>5, <2>3
  <2>4. QED
    BY <2>2, <2>3
<1>7. QED
  BY <1>4, <1>6 DEF Counted, S, T

LEMMA NoAttempts ==
    /\ IsLog(<< >>) /\ \A access : TrialHolds(access, << >>)
    /\ \A status : Counted(<< >>, status) = 0
    /\ Open(<< >>)
<1>1. IsLog(<< >>)
  BY EmptySeq DEF IsLog
<1>2. \A status : Counted(<< >>, status) = 0
  <2>1. \A status : {i \in DOMAIN << >> : << >>[i].value.status = status} = {}
    OBVIOUS
  <2>2. QED
    BY <2>1, FS_EmptySet DEF Counted
<1>3. DOMAIN << >> = {}
  OBVIOUS
<1>4. QED
  BY <1>1, <1>2, <1>3 DEF TrialHolds, Open

\* One more attempt, and where it leaves the assignment.
LEMMA TrialGoesOn ==
    ASSUME NEW access, NEW longer, Range(access) \subseteq Range(longer),
           NEW w, TrialHolds(access, w.attempts), Open(w.attempts),
           w.failures = Counted(w.attempts, "transport-failed"),
           w.repairs = Counted(w.attempts, "schema-invalid"),
           NEW receipt, receipt.value.status \in Statuses,
           ReceiptHolds(longer, receipt, Len(w.attempts) + 1)
    PROVE  LET more == Append(w.attempts, receipt)
               status == receipt.value.status
           IN /\ TrialHolds(longer, more)
              /\ Counted(more, "transport-failed")
                   = w.failures + IF status = "transport-failed" THEN 1 ELSE 0
              /\ Counted(more, "schema-invalid")
                   = w.repairs + IF status = "schema-invalid" THEN 1 ELSE 0
              /\ NextPhase(w, status) \in {"invoke", "complete", "incomplete"}
              /\ NextPhase(w, status) = "invoke" => Open(more)
              /\ NextPhase(w, status) = "complete" => Answered(more)
              /\ NextPhase(w, status) = "incomplete" => Spent(more)
<1> DEFINE more == Append(w.attempts, receipt)
           status == receipt.value.status
           n == Len(w.attempts)
<1>1. IsLog(w.attempts) /\ TrialHolds(longer, w.attempts)
  BY TrialStays DEF TrialHolds
<1>2. n \in Nat /\ DOMAIN w.attempts = 1..n
  BY <1>1, LogFacts
<1>3. /\ IsLog(more) /\ more # << >> /\ Len(more) = n + 1 /\ DOMAIN more = 1..(n + 1)
      /\ \A i \in 1..n : more[i] = w.attempts[i]
      /\ more[n + 1] = receipt
  BY <1>1, LongerLog
<1>4. /\ w.failures \in Nat /\ w.repairs \in Nat
      /\ Counted(more, "transport-failed")
           = w.failures + IF status = "transport-failed" THEN 1 ELSE 0
      /\ Counted(more, "schema-invalid")
           = w.repairs + IF status = "schema-invalid" THEN 1 ELSE 0
  BY <1>1, CountMore
<1>5. w.failures <= 2 /\ w.repairs <= 1 /\ \A i \in 1..n : Retried(w.attempts[i])
  BY <1>2 DEF Open
<1> HIDE DEF more
<1>6. TrialHolds(longer, more)
  BY <1>1, <1>2, <1>3, <1>5 DEF TrialHolds
<1>7. CASE status = "complete"
  BY <1>7, <1>3, <1>4, <1>5, <1>6 DEF NextPhase, Answered, more
<1>8. CASE status = "schema-invalid"
  <2>1. Retried(receipt)
    BY <1>8 DEF Retried
  <2>2. CASE w.repairs < 1
    <3>1. NextPhase(w, status) = "invoke"
      BY <1>8, <2>2 DEF NextPhase
    <3>2. Open(more)
      BY <1>2, <1>3, <1>4, <1>5, <1>8, <2>1, <2>2 DEF Open
    <3>3. QED
      BY <3>1, <3>2, <1>4, <1>6 DEF more
  <2>3. CASE ~ (w.repairs < 1)
    <3>1. NextPhase(w, status) = "incomplete"
      BY <1>8, <2>3 DEF NextPhase
    <3>2. Spent(more)
      BY <1>3, <1>4, <1>5, <1>8, <2>3 DEF Spent
    <3>3. QED
      BY <3>1, <3>2, <1>4, <1>6 DEF more
  <2>4. QED
    BY <2>2, <2>3
<1>9. CASE status = "transport-failed"
  <2>1. Retried(receipt)
    BY <1>9 DEF Retried
  <2>2. CASE w.failures < 2
    <3>1. NextPhase(w, status) = "invoke"
      BY <1>9, <2>2 DEF NextPhase
    <3>2. Open(more)
      BY <1>2, <1>3, <1>4, <1>5, <1>9, <2>1, <2>2 DEF Open
    <3>3. QED
      BY <3>1, <3>2, <1>4, <1>6 DEF more
  <2>3. CASE ~ (w.failures < 2)
    <3>1. NextPhase(w, status) = "incomplete"
      BY <1>9, <2>3 DEF NextPhase
    <3>2. Spent(more)
      BY <1>3, <1>4, <1>5, <1>9, <2>3 DEF Spent
    <3>3. QED
      BY <3>1, <3>2, <1>4, <1>6 DEF more
  <2>4. QED
    BY <2>2, <2>3
<1>10. CASE status = "application-model-mismatch"
  <2>1. NextPhase(w, status) = "incomplete"
    BY <1>10 DEF NextPhase
  <2>2. Spent(more)
    BY <1>3, <1>4, <1>5, <1>10 DEF Spent
  <2>3. QED
    BY <2>1, <2>2, <1>4, <1>6 DEF more
<1>11. QED
  BY <1>7, <1>8, <1>9, <1>10 DEF Statuses
-----------------------------------------------------------------------------
(* A step of one process *)

EventHolds(log, access, e) ==
    IF e.key[1] = "analysis-lineage" THEN FreezeHolds(log, e)
    ELSE IF e.payload.status = "complete" THEN CompletionHolds(access, e)
    ELSE IncompletionHolds(access, e)

LEMMA EventsStay ==
    ASSUME NEW log, NEW log2, Range(log) \subseteq Range(log2),
           NEW access, NEW access2, Range(access) \subseteq Range(access2),
           NEW e, EventHolds(log, access, e)
    PROVE  EventHolds(log2, access2, e)
<1>1. \A attempts : TrialHolds(access, attempts) => TrialHolds(access2, attempts)
  BY TrialStays
<1>2. CompletionHolds(access, e) => CompletionHolds(access2, e)
  BY <1>1 DEF CompletionHolds
<1>3. IncompletionHolds(access, e) => IncompletionHolds(access2, e)
  BY <1>1 DEF IncompletionHolds
<1>4. FreezeHolds(log, e) => FreezeHolds(log2, e)
  <2>1. \A application : \A a, o : IsAnswer(log, application, a, o)
                                     => IsAnswer(log2, application, a, o)
    BY AnswersStay
  <2>2. \A application : \A names, objects : AreAnswers(log, application, names, objects)
                                               => AreAnswers(log2, application, names, objects)
    BY AnswersStay
  <2>3. QED
    BY <2>1, <2>2 DEF FreezeHolds
<1>5. QED
  BY <1>2, <1>3, <1>4 DEF EventHolds

Grow ==
    /\ Range(journals["analysis"]) \subseteq Range(journals'["analysis"])
    /\ Range(journals["access"]) \subseteq Range(journals'["access"])

\* A journal goes on with an event that holds.
LEMMA JournalsGoOn ==
    ASSUME JournalsHold, NEW name \in JournalNames, NEW event, journals' = Appended(name, event),
           name = "analysis" /\ Decides(name, event) # "idempotency_conflict"
             => EventHolds(journals'["analysis"], journals'["access"], event),
           name = "access" /\ Decides(name, event) # "idempotency_conflict"
             => ViewHolds(journals'["analysis"], event.key[2], event.payload.assignment,
                          event.payload.view)
    PROVE  JournalsHold' /\ Grow
<1> DEFINE log == journals["analysis"]
           access == journals["access"]
           log2 == journals'["analysis"]
           access2 == journals'["access"]
<1>0. "analysis" \in JournalNames /\ "access" \in JournalNames
  BY DEF JournalNames
<1>1. /\ DOMAIN journals' = JournalNames
      /\ \A other \in JournalNames : IsLog(journals'[other]) /\ KeysUnique(journals'[other])
      /\ \A other \in JournalNames : Range(journals[other]) \subseteq Range(journals'[other])
  BY JournalStep DEF JournalsHold
<1>2. Grow
  BY <1>0, <1>1 DEF Grow
<1>3. \A e \in Range(log) : EventHolds(log, access, e)
  BY DEF JournalsHold, EventHolds
<1>4. \A e \in Range(access) : ViewHolds(log, e.key[2], e.payload.assignment, e.payload.view)
  BY DEF JournalsHold
<1>5. ASSUME NEW e \in Range(log2) PROVE EventHolds(log2, access2, e)
  <2>1. CASE e \in Range(log)
    BY <2>1, <1>2, <1>3, EventsStay DEF Grow
  <2>2. CASE e \notin Range(log)
    <3>1. name = "analysis" /\ e = event
      BY <2>2, <1>0, <1>5, JournalStep
    <3>2. Decides(name, event) # "idempotency_conflict"
      BY <3>1, <2>2, <1>5, JournalStep
    <3>3. QED
      BY <3>1, <3>2
  <2>3. QED
    BY <2>1, <2>2
<1>6. ASSUME NEW e \in Range(access2)
      PROVE  ViewHolds(log2, e.key[2], e.payload.assignment, e.payload.view)
  <2>1. CASE e \in Range(access)
    BY <2>1, <1>2, <1>4, AnswersStay DEF Grow
  <2>2. CASE e \notin Range(access)
    <3>1. name = "access" /\ e = event
      BY <2>2, <1>0, <1>6, JournalStep
    <3>2. Decides(name, event) # "idempotency_conflict"
      BY <3>1, <2>2, <1>6, JournalStep
    <3>3. QED
      BY <3>1, <3>2
  <2>3. QED
    BY <2>1, <2>2
<1>7. QED
  BY <1>1, <1>2, <1>5, <1>6 DEF JournalsHold, EventHolds

\* A process that has finished, died, or gone on to what holds.
StepHolds(p) ==
    \/ /\ work' = [work EXCEPT ![p] = Fresh]
       /\ \A q \in Processes \ {p} : results'[q] = results[q]
       /\ DOMAIN results' = Processes
    \/ /\ results' = results
       /\ \E w : /\ work' = [work EXCEPT ![p] = w]
                 /\ DOMAIN w = DOMAIN Fresh /\ w.phase \in Phases
                 /\ RunHolds(journals'["analysis"], journals'["access"], ApplicationOf(p), w)

LEMMA WorkGoesOn ==
    ASSUME LineageInv, NEW p \in Processes, scenario' = scenario, JournalsHold', Grow, StepHolds(p)
    PROVE  LineageInv'
<1>1. DOMAIN work = Processes /\ DOMAIN results = Processes
  BY DEF LineageInv
<1>2. /\ DOMAIN work' = Processes /\ DOMAIN results' = Processes
      /\ \A q \in Processes \ {p} : work'[q] = work[q] /\ results'[q] = results[q]
  BY <1>1 DEF StepHolds
<1>3. ASSUME NEW q \in Processes \ {p} PROVE WorkHolds(q)'
  <2>1. WorkHolds(q) /\ work'[q] = work[q] /\ ApplicationOf(q)' = ApplicationOf(q)
    BY <1>2 DEF LineageInv, ApplicationOf
  <2>2. ASSUME RunHolds(journals["analysis"], journals["access"], ApplicationOf(q), work[q])
        PROVE  RunHolds(journals'["analysis"], journals'["access"], ApplicationOf(q), work[q])
    BY <2>2, RunStays DEF Grow
  <2>3. QED
    BY <2>1, <2>2 DEF WorkHolds
<1>4. WorkHolds(p)'
  <2>1. CASE work' = [work EXCEPT ![p] = Fresh]
    <3>1. work'[p] = Fresh
      BY <1>1, <2>1
    <3>2. Fresh.phase = "start" /\ "start" \in Phases
      BY DEF Fresh, Phases
    <3>3. QED
      BY <3>1, <3>2 DEF WorkHolds
  <2>2. CASE results' = results /\ \E w :
              /\ work' = [work EXCEPT ![p] = w]
              /\ DOMAIN w = DOMAIN Fresh /\ w.phase \in Phases
              /\ RunHolds(journals'["analysis"], journals'["access"], ApplicationOf(p), w)
    <3>1. PICK w : /\ work' = [work EXCEPT ![p] = w]
                   /\ DOMAIN w = DOMAIN Fresh /\ w.phase \in Phases
                   /\ RunHolds(journals'["analysis"], journals'["access"], ApplicationOf(p), w)
      BY <2>2
    <3>2. work'[p] = w /\ ApplicationOf(p)' = ApplicationOf(p)
      BY <1>1, <2>2, <3>1 DEF ApplicationOf
    <3>3. QED
      BY <3>1, <3>2 DEF WorkHolds
  <2>3. QED
    BY <2>1, <2>2 DEF StepHolds
<1>5. QED
  BY <1>2, <1>3, <1>4 DEF LineageInv

LEMMA Finished ==
    ASSUME LineageInv, NEW p \in Processes, NEW outcome, Finish(p, outcome)
    PROVE  StepHolds(p)
BY DEF Finish, StepHolds, LineageInv

LEMMA Quiet == ASSUME JournalsHold, journals' = journals PROVE JournalsHold' /\ Grow
BY DEF JournalsHold, Grow
LEMMA Appending ==
    ASSUME LineageInv, NEW p \in Processes, scenario' = scenario,
           NEW name \in JournalNames, NEW event, NEW w, AppendThen(p, name, event, w),
           Grow /\ event \in Range(journals'[name]) =>
             /\ name = "analysis" => EventHolds(journals'["analysis"], journals'["access"], event)
             /\ name = "access" => ViewHolds(journals'["analysis"], event.key[2],
                                             event.payload.assignment, event.payload.view)
             /\ DOMAIN w = DOMAIN Fresh /\ w.phase \in Phases
             /\ RunHolds(journals'["analysis"], journals'["access"], ApplicationOf(p), w)
    PROVE  LineageInv'
<1>1. JournalsHold /\ journals' = Appended(name, event)
  BY DEF LineageInv, AppendThen
<1>2. Grow
  <2>1. "analysis" \in JournalNames /\ "access" \in JournalNames
    BY DEF JournalNames
  <2>2. \A other \in JournalNames : Range(journals[other]) \subseteq Range(journals'[other])
    BY <1>1, JournalStep
  <2>3. QED
    BY <2>1, <2>2 DEF Grow
<1>3. Decides(name, event) # "idempotency_conflict" => event \in Range(journals'[name])
  BY <1>1, JournalStep
<1>4. JournalsHold'
  BY <1>1, <1>2, <1>3, JournalsGoOn
<1>5. StepHolds(p)
  <2>1. CASE Decides(name, event) = "idempotency_conflict"
    BY <2>1, Finished DEF AppendThen
  <2>2. CASE Decides(name, event) # "idempotency_conflict"
    BY <2>2, <1>2, <1>3 DEF AppendThen, Goto, StepHolds
  <2>3. QED
    BY <2>1, <2>2
<1>6. QED
  BY <1>2, <1>4, <1>5, WorkGoesOn

\* A run goes on, or ends, and no journal with it.
LEMMA Thinking ==
    ASSUME LineageInv, NEW p \in Processes, scenario' = scenario, journals' = journals,
           StepHolds(p)
    PROVE  LineageInv'
BY Quiet, WorkGoesOn DEF LineageInv

LEMMA GoingOn ==
    ASSUME LineageInv, NEW p \in Processes, scenario' = scenario, journals' = journals,
           results' = results, NEW w, Goto(p, w), DOMAIN w = DOMAIN Fresh, w.phase \in Phases,
           RunHolds(journals["analysis"], journals["access"], ApplicationOf(p), w)
    PROVE  LineageInv'
<1>1. StepHolds(p)
  BY DEF StepHolds, Goto
<1>2. QED
  BY <1>1, Thinking

\* What a process that is at work has.
LEMMA AtWork ==
    ASSUME LineageInv, NEW p \in Processes, NEW phase \in Phases \ {"start"}, At(p, phase)
    PROVE  /\ work[p].phase = phase /\ DOMAIN work[p] = DOMAIN Fresh
           /\ RunHolds(journals["analysis"], journals["access"], ApplicationOf(p), work[p])
           /\ Len(work[p].ended) \in 0..12 /\ DOMAIN work[p].ended = 1..Len(work[p].ended)
           /\ phase \in Working => /\ Len(work[p].ended) \in 0..11
                                   /\ Current(p) = Roster[Len(work[p].ended) + 1]
<1>1. /\ work[p].phase = phase /\ DOMAIN work[p] = DOMAIN Fresh
      /\ RunHolds(journals["analysis"], journals["access"], ApplicationOf(p), work[p])
  BY DEF LineageInv, WorkHolds, At
<1>2. IsLog(work[p].ended) /\ Len(work[p].ended) <= 12
      /\ (phase \in Working => Len(work[p].ended) < 12)
  BY <1>1 DEF RunHolds
<1>3. Len(work[p].ended) \in Nat /\ DOMAIN work[p].ended = 1..Len(work[p].ended)
  BY <1>2, LogFacts
<1>4. Current(p) = Roster[Len(work[p].ended) + 1]
  BY DEF Current
<1>5. \A n \in Nat : (n <= 12 => n \in 0..12) /\ (n < 12 => n \in 0..11)
  OBVIOUS
<1>6. Len(work[p].ended) \in 0..12 /\ (phase \in Working => Len(work[p].ended) \in 0..11)
  BY <1>2, <1>3, <1>5
<1>7. QED
  BY <1>1, <1>3, <1>4, <1>6

LEMMA StartHolds == ASSUME LineageInv, NEW p \in Processes, Start(p) PROVE LineageInv'
<1> DEFINE w == [Fresh EXCEPT !.phase = "view", !.grants = Available]
<1>1. DOMAIN w = DOMAIN Fresh /\ w.phase = "view" /\ w.grants = Available /\ w.ended = << >>
  BY DEF Fresh
<1>2. w.phase \in Phases
  BY <1>1 DEF Phases, Working
<1>3. Goto(p, w) /\ scenario' = scenario /\ journals' = journals /\ results' = results
  BY DEF Start
<1> HIDE DEF w
<1>4. IsLog(<< >>) /\ Len(<< >>) = 0 /\ DOMAIN << >> = {}
  BY NoAttempts
<1>5. RunHolds(journals["analysis"], journals["access"], ApplicationOf(p), w)
  BY <1>1, <1>4 DEF RunHolds, GrantFits, Asking
<1>6. QED
  BY <1>1, <1>2, <1>3, <1>5, GoingOn

\* What is granted with a view comes from what has ended.
LEMMA BundlesFit ==
    ASSUME LineageInv, NEW p \in Processes, At(p, "view"), NEW g \in BundlesFor(p, Current(p))
    PROVE  GrantFits(journals["analysis"], ApplicationOf(p), Len(work[p].ended), g)
<1> DEFINE log == journals["analysis"]
           application == ApplicationOf(p)
           ended == work[p].ended
<1>1. /\ RunHolds(log, journals["access"], application, work[p]) /\ work[p].phase = "view"
      /\ Len(ended) \in 0..12 /\ DOMAIN ended = 1..Len(ended)
  BY AtWork DEF Phases, Working
<1>2. \A i \in DOMAIN ended : /\ EndingHolds(log, application, Roster[i], ended[i])
                              /\ ended[i].status = "complete"
  BY <1>1 DEF RunHolds, Working
<1>3. ASSUME NEW a \in Assignments, Place(a) <= Len(ended)
      PROVE  /\ IsAnswer(log, application, a, EndedAs(p, a).output)
             /\ \A o \in Range(EndedAs(p, a).attempts) : o.kind = "analysis_receipt"
  <2>1. Place(a) \in DOMAIN ended /\ Roster[Place(a)] = a
    BY <1>1, <1>3, PlaceFacts
  <2>2. EndingHolds(log, application, a, ended[Place(a)]) /\ ended[Place(a)].status = "complete"
    BY <1>2, <2>1
  <2>3. QED
    BY <2>2 DEF EndingHolds, EndedAs, Range
<1>4. ASSUME NEW names, names \subseteq Assignments
      PROVE  /\ AreAnswers(log, application, names, OutputsOf(p, names))
             /\ \A o \in ReceiptsOf(p, names) : o.kind = "analysis_receipt"
  BY <1>3, <1>4 DEF OutputsOf, ReceiptsOf, EndedBefore, AreAnswers
<1>5. Sweeps \subseteq Assignments /\ Attributions \subseteq Assignments
  BY PlaceFacts, RosterNames DEF Attributions
<1>6. \A c, objects : /\ Bundle(c, objects).category = c
                      /\ Bundle(c, objects).object.kind = "analysis_material_bundle"
                      /\ Bundle(c, objects).object.refs = objects
  BY DEF Bundle, Grant, Object
<1>7. \/ \E c \in {"frozen_discovery_outputs", "sweep_coverage"} :
           g = Bundle(c, OutputsOf(p, Sweeps))
      \/ \E c \in {"both_frozen_attributions", "attribution_disagreement"} :
           g = Bundle(c, OutputsOf(p, Attributions))
      \/ g = Bundle("all_analysis_receipts", ReceiptsOf(p, Assignments))
  BY DEF BundlesFor, Attributions
<1>8. QED
  BY <1>4, <1>5, <1>6, <1>7 DEF GrantFits

LEMMA ViewStepHolds == ASSUME LineageInv, NEW p \in Processes, View(p) PROVE LineageInv'
<1> DEFINE log == journals["analysis"]
           access == journals["access"]
           application == ApplicationOf(p)
           a == Current(p)
           n == Len(work[p].ended)
           grants == Granted(work[p].grants, BundlesFor(p, a))
           view == BuildView(application, a, grants)
           upstream == {<<d, Len(EndedAs(p, d).attempts)>> :
                          d \in EndedBefore(p, Dependencies(p, a))}
           w == [work[p] EXCEPT !.phase = "invoke", !.grants = grants, !.view = view,
                                !.upstream = upstream, !.attempts = << >>, !.kind = "initial",
                                !.failures = 0, !.repairs = 0]
<1>1. At(p, "view") /\ "view" \in Phases \ {"start"} /\ "view" \in Working
  BY DEF View, Phases, Working
<1>2. /\ work[p].phase = "view" /\ DOMAIN work[p] = DOMAIN Fresh
      /\ RunHolds(log, access, application, work[p])
      /\ n \in 0..11 /\ a = Roster[n + 1]
  BY <1>1, AtWork
<1>3. \A g \in grants : GrantFits(log, application, n, g)
  BY <1>1, <1>2, BundlesFit DEF Granted, RunHolds
<1>4. ViewHolds(log, application, a, view)
  BY <1>2, <1>3, ViewFits
<1>5. view.value.assignment = a
  BY DEF BuildView, Object
<1>6. scenario' = scenario /\ journals' = journals
      /\ (\/ Finish(p, "raised")
          \/ Goto(p, w) /\ results' = results)
  BY DEF View
<1>7. /\ DOMAIN w = DOMAIN Fresh /\ w.phase = "invoke" /\ w.grants = grants /\ w.view = view
      /\ w.attempts = << >> /\ w.failures = 0 /\ w.repairs = 0 /\ w.ended = work[p].ended
  BY <1>2 DEF Fresh
<1> HIDE DEF w, view, grants, a
<1>8. RunHolds(log, access, application, w)
  BY <1>2, <1>3, <1>4, <1>5, <1>7, NoAttempts DEF RunHolds, Working, Asking
<1>9. w.phase \in Phases
  BY <1>7 DEF Phases, Working, Asking
<1>10. QED
  BY <1>6, <1>7, <1>8, <1>9, GoingOn, Finished, Thinking

LEMMA InvokeHolds == ASSUME LineageInv, NEW p \in Processes, Invoke(p) PROVE LineageInv'
<1>1. At(p, "invoke") /\ "invoke" \in Phases \ {"start"}
  BY DEF Invoke, Phases, Working, Asking
<1>2. /\ work[p].phase = "invoke" /\ DOMAIN work[p] = DOMAIN Fresh
      /\ RunHolds(journals["analysis"], journals["access"], ApplicationOf(p), work[p])
  BY <1>1, AtWork
<1>3. ASSUME NEW response, Goto(p, [work[p] EXCEPT !.phase = "record", !.response = response]),
             results' = results
      PROVE  LineageInv'
  <2> DEFINE w == [work[p] EXCEPT !.phase = "record", !.response = response]
  <2>1. /\ DOMAIN w = DOMAIN Fresh /\ w.phase = "record" /\ w.grants = work[p].grants
        /\ w.view = work[p].view /\ w.attempts = work[p].attempts /\ w.ended = work[p].ended
        /\ w.failures = work[p].failures /\ w.repairs = work[p].repairs
    BY <1>2 DEF Fresh
  <2>2. Goto(p, w)
    BY <1>3
  <2> HIDE DEF w
  <2>3. RunHolds(journals["analysis"], journals["access"], ApplicationOf(p), w)
    BY <1>2, <2>1 DEF RunHolds, Working, Asking
  <2>4. w.phase \in Phases
    BY <2>1 DEF Phases, Working, Asking
  <2>5. scenario' = scenario /\ journals' = journals
    BY DEF Invoke
  <2>6. QED
    BY <1>3, <2>1, <2>2, <2>3, <2>4, <2>5, GoingOn
<1>4. QED
  BY <1>3, Finished, Thinking DEF Invoke
LEMMA RecordHolds == ASSUME LineageInv, NEW p \in Processes, Record(p) PROVE LineageInv'
<1> DEFINE w == work[p]
           application == ApplicationOf(p)
           attempt == Len(w.attempts) + 1
           status == StatusOf(Current(p), w.view, w.response)
           receipt == Receipt(application, w.view, w.upstream, attempt, w.kind, w.response)
           event == ExposureEvent(application, w.view, attempt)
           more == Append(w.attempts, receipt)
           next == [w EXCEPT !.phase = NextPhase(w, status), !.attempts = more,
                      !.failures = @ + IF status = "transport-failed" THEN 1 ELSE 0,
                      !.repairs = @ + IF status = "schema-invalid" THEN 1 ELSE 0,
                      !.kind = IF status = "transport-failed" THEN "transport-retry"
                               ELSE "schema-repair"]
<1>1. At(p, "record") /\ "record" \in Phases \ {"start"} /\ "record" \in Working
  BY DEF Record, Phases, Working, Asking
<1>2. /\ w.phase = "record" /\ DOMAIN w = DOMAIN Fresh
      /\ RunHolds(journals["analysis"], journals["access"], application, w)
      /\ Current(p) = Roster[Len(w.ended) + 1]
  BY <1>1, AtWork
<1>3. /\ w.view.value.assignment = Current(p)
      /\ ViewHolds(journals["analysis"], application, Current(p), w.view)
      /\ TrialHolds(journals["access"], w.attempts) /\ Open(w.attempts)
      /\ w.failures = Counted(w.attempts, "transport-failed")
      /\ w.repairs = Counted(w.attempts, "schema-invalid")
  BY <1>2 DEF RunHolds, Asking
<1>4. AppendThen(p, "access", event, next) /\ scenario' = scenario
  BY DEF Record
<1>5. /\ event.key[2] = application /\ event.payload.assignment = Current(p)
      /\ event.payload.view = w.view /\ event.payload.attempt = attempt
      /\ event.refs = {Ledger(w.view, attempt)}
  BY <1>3 DEF ExposureEvent, Event
<1>6. /\ receipt.kind = "analysis_receipt" /\ receipt.value.attempt = attempt
      /\ receipt.value.status = status /\ Ledger(w.view, attempt) \in receipt.refs
  BY <1>3 DEF Receipt, Object
<1>7. /\ DOMAIN next = DOMAIN Fresh /\ next.phase = NextPhase(w, status)
      /\ next.attempts = more /\ next.ended = w.ended /\ next.view = w.view
      /\ next.grants = w.grants
      /\ next.failures = w.failures + IF status = "transport-failed" THEN 1 ELSE 0
      /\ next.repairs = w.repairs + IF status = "schema-invalid" THEN 1 ELSE 0
  BY <1>2 DEF Fresh
<1>8. status \in Statuses
  BY StatusFacts
<1> HIDE DEF receipt, event, next, w, status, application
<1>9. ASSUME Grow, event \in Range(journals'["access"])
      PROVE  /\ ViewHolds(journals'["analysis"], event.key[2], event.payload.assignment,
                          event.payload.view)
             /\ DOMAIN next = DOMAIN Fresh /\ next.phase \in Phases
             /\ RunHolds(journals'["analysis"], journals'["access"], application, next)
  <2>1. ReceiptHolds(journals'["access"], receipt, attempt)
    BY <1>5, <1>6, <1>9 DEF ReceiptHolds
  <2>2. /\ TrialHolds(journals'["access"], more)
        /\ Counted(more, "transport-failed") = next.failures
        /\ Counted(more, "schema-invalid") = next.repairs
        /\ next.phase \in {"invoke", "complete", "incomplete"}
        /\ next.phase = "invoke" => Open(more)
        /\ next.phase = "complete" => Answered(more)
        /\ next.phase = "incomplete" => Spent(more)
    <3>1. Range(journals["access"]) \subseteq Range(journals'["access"])
      BY <1>9 DEF Grow
    <3>2. receipt.value.status \in Statuses /\ ReceiptHolds(journals'["access"], receipt, attempt)
      BY <1>6, <1>8, <2>1
    <3>3. /\ TrialHolds(journals'["access"], more)
          /\ Counted(more, "transport-failed")
               = w.failures + IF receipt.value.status = "transport-failed" THEN 1 ELSE 0
          /\ Counted(more, "schema-invalid")
               = w.repairs + IF receipt.value.status = "schema-invalid" THEN 1 ELSE 0
          /\ NextPhase(w, receipt.value.status) \in {"invoke", "complete", "incomplete"}
          /\ NextPhase(w, receipt.value.status) = "invoke" => Open(more)
          /\ NextPhase(w, receipt.value.status) = "complete" => Answered(more)
          /\ NextPhase(w, receipt.value.status) = "incomplete" => Spent(more)
      BY <1>3, <3>1, <3>2, TrialGoesOn
    <3> HIDE DEF more, attempt
    <3>4. QED
      BY <1>6, <1>7, <3>3
  <2>3. RunHolds(journals'["analysis"], journals'["access"], application, w)
    BY <1>2, <1>9, RunStays DEF Grow
  <2>4. ViewHolds(journals'["analysis"], application, Current(p), w.view)
    BY <1>3, <1>9, AnswersStay DEF Grow
  <2>5. next.phase \in Phases
    BY <2>2 DEF Phases, Working, Asking
  <2>6. RunHolds(journals'["analysis"], journals'["access"], application, next)
    BY <1>2, <1>3, <1>7, <2>2, <2>3, <2>4 DEF RunHolds, Working, Asking
  <2>7. QED
    BY <1>5, <1>7, <2>4, <2>5, <2>6
<1>10. "access" \in JournalNames
  BY DEF JournalNames
<1>11. QED
  BY <1>4, <1>9, <1>10, Appending DEF application

\* An assignment has ended, and the run has that with the others.
LEMMA RunEnds ==
    ASSUME NEW log, NEW access, NEW application, NEW w, RunHolds(log, access, application, w),
           w.phase \in Asking, NEW ending,
           EndingHolds(log, application, Roster[Len(w.ended) + 1], ending),
           NEW next, next.ended = Append(w.ended, ending),
           next.phase = "freeze" \/ /\ next.phase = "view" /\ Len(w.ended) + 1 # 12
                                    /\ ending.status = "complete",
           \A g \in next.grants : g \in w.grants
                                  \/ GrantFits(log, application, Len(w.ended) + 1, g)
    PROVE  RunHolds(log, access, application, next)
<1> DEFINE n == Len(w.ended)
           more == Append(w.ended, ending)
<1>1. IsLog(w.ended) /\ n < 12 /\ \A i \in DOMAIN w.ended : w.ended[i].status = "complete"
  BY DEF RunHolds, Working
<1>2. n \in Nat /\ DOMAIN w.ended = 1..n
  BY <1>1, LogFacts
<1>3. /\ IsLog(more) /\ Len(more) = n + 1 /\ DOMAIN more = 1..(n + 1)
      /\ \A i \in 1..n : more[i] = w.ended[i]
      /\ more[n + 1] = ending
  BY <1>1, LongerLog
<1> HIDE DEF more
<1>4. \A i \in DOMAIN more : EndingHolds(log, application, Roster[i], more[i])
  BY <1>2, <1>3 DEF RunHolds
<1>5. \A g \in next.grants : GrantFits(log, application, n + 1, g)
  <2> SUFFICES ASSUME NEW g \in next.grants PROVE GrantFits(log, application, n + 1, g)
    OBVIOUS
  <2>1. CASE g \in w.grants
    <3>1. GrantFits(log, application, n, g) /\ n <= n + 1 /\ n + 1 \in Nat
      BY <2>1, <1>2 DEF RunHolds
    <3>2. QED
      BY <1>2, <3>1, GrantsStay
  <2>2. QED
    BY <2>1
<1>6. next.phase = "view" => n + 1 < 12 /\ \A i \in DOMAIN more : more[i].status = "complete"
  BY <1>1, <1>2, <1>3
<1>7. next.ended = more
  BY DEF more
<1>8. next.phase \notin Asking /\ (next.phase \in Working => next.phase = "view")
  BY DEF Asking, Working
<1>9. QED
  BY <1>1, <1>2, <1>3, <1>4, <1>5, <1>6, <1>7, <1>8 DEF RunHolds, Asking
LEMMA TrialReceipts ==
    ASSUME NEW access, NEW attempts, TrialHolds(access, attempts)
    PROVE  \A i \in DOMAIN attempts : attempts[i].kind = "analysis_receipt"
BY DEF TrialHolds, ReceiptHolds

LEMMA CompleteHolds == ASSUME LineageInv, NEW p \in Processes, Complete(p) PROVE LineageInv'
<1> DEFINE w == work[p]
           a == Current(p)
           application == ApplicationOf(p)
           output == OutputObject(a, w.response)
           event == CompletionEvent(application, a, output, w.attempts)
           added == {Grant(c, output, {}) : c \in OutputCategory(a)}
           next == [w EXCEPT !.phase = IF Len(w.ended) + 1 = Len(Roster) THEN "freeze" ELSE "view",
                      !.ended = Ended(w, "complete", output), !.grants = Granted(@, added),
                      !.response = None]
           ending == [status |-> "complete", output |-> output, attempts |-> w.attempts,
                      view |-> w.view]
           log2 == journals'["analysis"]
           access2 == journals'["access"]
<1>1. At(p, "complete") /\ "complete" \in Phases \ {"start"} /\ "complete" \in Working
  BY DEF Complete, Phases, Working, Asking
<1>2. /\ w.phase = "complete" /\ DOMAIN w = DOMAIN Fresh
      /\ RunHolds(journals["analysis"], journals["access"], application, w)
      /\ Len(w.ended) \in 0..11 /\ a = Roster[Len(w.ended) + 1]
  BY <1>1, AtWork
<1>3. a \in Assignments
  <2>1. \A n \in 0..11 : n + 1 \in 1..12
    OBVIOUS
  <2>2. Len(w.ended) + 1 \in 1..12
    BY <1>2, <2>1
  <2>3. QED
    BY <1>2, <2>2, PlaceFacts
<1>4. TrialHolds(journals["access"], w.attempts) /\ Answered(w.attempts)
  BY <1>2 DEF RunHolds, Asking
<1>5. AppendThen(p, "analysis", event, next) /\ scenario' = scenario
  BY DEF Complete
<1>6. /\ event.key = CompletionKey(application, a) /\ event.key[1] = "analysis"
      /\ event.payload.assignment = a /\ event.payload.application = application
      /\ event.payload.status = "complete" /\ event.payload.output = output
      /\ event.payload.attempts = w.attempts
  BY DEF CompletionEvent, Event, CompletionKey
<1>7. output.kind = "analysis_structured_output" /\ AuthorOf(output) = a
  BY DEF OutputObject, Object, AuthorOf
<1>8. /\ DOMAIN next = DOMAIN Fresh /\ next.ended = Append(w.ended, ending)
      /\ next.phase = IF Len(w.ended) + 1 = 12 THEN "freeze" ELSE "view"
      /\ next.grants = Granted(w.grants, added)
  BY <1>2, RosterFacts DEF Fresh, Ended
<1>9. /\ ending.status = "complete" /\ ending.output = output /\ ending.attempts = w.attempts
      /\ event = CompletionEvent(application, a, output, w.attempts)
  OBVIOUS
<1>10. \A g \in added : g.category \in OutputCategory(a) /\ g.object = output
  BY DEF Grant
<1> HIDE DEF event, next, ending, output, w, application, a, added
<1>11. ASSUME Grow, event \in Range(log2)
       PROVE  /\ EventHolds(log2, access2, event)
              /\ DOMAIN next = DOMAIN Fresh /\ next.phase \in Phases
              /\ RunHolds(log2, access2, application, next)
  <2>1. RunHolds(log2, access2, application, w) /\ TrialHolds(access2, w.attempts)
    BY <1>2, <1>4, <1>11, RunStays, TrialStays DEF Grow
  <2>2. CompletionHolds(access2, event)
    BY <1>3, <1>4, <1>6, <1>9, <2>1 DEF CompletionHolds
  <2>3. EventHolds(log2, access2, event)
    BY <1>6, <2>2 DEF EventHolds
  <2>4. IsAnswer(log2, application, a, output)
    BY <1>6, <1>7, <1>11 DEF IsAnswer
  <2>5. EndingHolds(log2, application, a, ending)
    BY <1>4, <1>9, <2>4, TrialReceipts DEF EndingHolds
  <2>6. \A g \in added : GrantFits(log2, application, Len(w.ended) + 1, g)
    <3>1. Len(w.ended) + 1 \in 1..(Len(w.ended) + 1)
      BY <1>2
    <3>2. QED
      BY <1>2, <1>10, <2>4, <3>1 DEF GrantFits
  <2>7. \A g \in next.grants : g \in w.grants \/ GrantFits(log2, application, Len(w.ended) + 1, g)
    BY <1>8, <2>6 DEF Granted
  <2>8. RunHolds(log2, access2, application, next)
    BY <1>2, <1>8, <1>9, <2>1, <2>5, <2>7, RunEnds DEF Asking
  <2>9. next.phase \in Phases
    BY <1>8 DEF Phases, Working
  <2>10. QED
    BY <1>8, <2>3, <2>8, <2>9
<1>12. "analysis" \in JournalNames
  BY DEF JournalNames
<1>13. QED
  BY <1>5, <1>11, <1>12, Appending DEF application

LEMMA GiveUpHolds == ASSUME LineageInv, NEW p \in Processes, GiveUp(p) PROVE LineageInv'
<1> DEFINE w == work[p]
           a == Current(p)
           application == ApplicationOf(p)
           event == IncompletionEvent(application, a, w.attempts)
           next == [w EXCEPT !.phase = "freeze", !.ended = Ended(w, "incomplete", None),
                      !.response = None]
           ending == [status |-> "incomplete", output |-> None, attempts |-> w.attempts,
                      view |-> w.view]
           log2 == journals'["analysis"]
           access2 == journals'["access"]
<1>1. At(p, "incomplete") /\ "incomplete" \in Phases \ {"start"} /\ "incomplete" \in Working
  BY DEF GiveUp, Phases, Working, Asking
<1>2. /\ w.phase = "incomplete" /\ DOMAIN w = DOMAIN Fresh
      /\ RunHolds(journals["analysis"], journals["access"], application, w)
      /\ a = Roster[Len(w.ended) + 1]
  BY <1>1, AtWork
<1>3. TrialHolds(journals["access"], w.attempts) /\ Spent(w.attempts)
  BY <1>2 DEF RunHolds, Asking
<1>4. AppendThen(p, "analysis", event, next) /\ scenario' = scenario
  BY DEF GiveUp
<1>5. /\ event.key[1] = "analysis"
      /\ event.payload.assignment = a /\ event.payload.application = application
      /\ event.payload.status = "incomplete" /\ event.payload.attempts = w.attempts
  BY DEF IncompletionEvent, Event
<1>6. /\ DOMAIN next = DOMAIN Fresh /\ next.ended = Append(w.ended, ending)
      /\ next.phase = "freeze" /\ next.grants = w.grants
  BY <1>2 DEF Fresh, Ended
<1>7. /\ ending.status = "incomplete" /\ ending.output = None /\ ending.attempts = w.attempts
      /\ event = IncompletionEvent(application, a, w.attempts)
  OBVIOUS
<1> HIDE DEF event, next, ending, w, application, a
<1>8. ASSUME Grow, event \in Range(log2)
      PROVE  /\ EventHolds(log2, access2, event)
             /\ DOMAIN next = DOMAIN Fresh /\ next.phase \in Phases
             /\ RunHolds(log2, access2, application, next)
  <2>1. RunHolds(log2, access2, application, w) /\ TrialHolds(access2, w.attempts)
    BY <1>2, <1>3, <1>8, RunStays, TrialStays DEF Grow
  <2>2. IncompletionHolds(access2, event)
    BY <1>3, <1>5, <1>7, <2>1 DEF IncompletionHolds
  <2>3. EventHolds(log2, access2, event)
    BY <1>5, <2>2 DEF EventHolds
  <2>4. EndingHolds(log2, application, a, ending)
    BY <1>3, <1>7, TrialReceipts DEF EndingHolds
  <2>5. RunHolds(log2, access2, application, next)
    BY <1>2, <1>6, <2>1, <2>4, RunEnds DEF Asking
  <2>6. next.phase \in Phases
    BY <1>6 DEF Phases
  <2>7. QED
    BY <1>6, <2>3, <2>5, <2>6
<1>9. "analysis" \in JournalNames
  BY DEF JournalNames
<1>10. QED
  BY <1>4, <1>8, <1>9, Appending DEF application

\* What is frozen are the answers that have been given, all of them if it is eligible.
LEMMA LineageFits ==
    ASSUME NEW log, NEW application, NEW ended, IsLog(ended),
           \A i \in DOMAIN ended : EndingHolds(log, application, Roster[i], ended[i]),
           Len(ended) <= 12
    PROVE  LET lineage == LineageObject(application, ended)
           IN /\ AreAnswers(log, application, Assignments, OutputsIn(lineage.refs))
              /\ lineage.value.eligible =>
                   \A a \in Assignments : \E o : IsAnswer(log, application, a, o)
<1> DEFINE lineage == LineageObject(application, ended)
           eligibility == Eligibility(application, Lineage(application, ended))
           first == {ApplicationObject(application), eligibility}
           receipts == UNION {Range(ended[i].attempts) : i \in DOMAIN ended}
           outputs == {ended[i].output : i \in DOMAIN ended} \ {None}
<1>1. Len(ended) \in Nat /\ DOMAIN ended = 1..Len(ended)
  BY LogFacts
<1>2. lineage.refs = first \cup receipts \cup outputs
  BY DEF LineageObject, Object
<1>3. lineage.value.eligible => eligibility.value = {}
  BY DEF LineageObject, Object
<1>4. ApplicationObject(application).kind = "application"
      /\ eligibility.kind = "analysis_eligibility_result"
  BY DEF ApplicationObject, Eligibility, Object
<1>5. \A i \in DOMAIN ended : \A o \in Range(ended[i].attempts) : o.kind = "analysis_receipt"
  BY DEF EndingHolds, Range
<1>6. \A i \in DOMAIN ended : ended[i].output # None
                                => IsAnswer(log, application, Roster[i], ended[i].output)
  BY DEF EndingHolds
<1>7. \A i \in DOMAIN ended : Roster[i] \in Assignments
  BY <1>1, PlaceFacts
<1>8. /\ \A o \in first \cup receipts : o.kind # "analysis_structured_output"
      /\ \A o \in outputs : \E i \in DOMAIN ended : o = ended[i].output /\ o # None
  BY <1>4, <1>5
<1> HIDE DEF lineage, eligibility, first, receipts, outputs
<1>9. ASSUME NEW o \in OutputsIn(lineage.refs)
      PROVE  \E a \in Assignments : IsAnswer(log, application, a, o)
  <2>1. o \in lineage.refs /\ o.kind = "analysis_structured_output"
    BY <1>9 DEF OutputsIn
  <2>2. o \in outputs
    BY <2>1, <1>2, <1>8
  <2>3. PICK i \in DOMAIN ended : o = ended[i].output /\ o # None
    BY <2>2, <1>8
  <2>4. QED
    BY <2>3, <1>6, <1>7
<1>10. ASSUME eligibility.value = {}, NEW a \in Assignments
      PROVE  \E o : IsAnswer(log, application, a, o)
  <2>1. AssignmentFindings(Lineage(application, ended), a) = {}
    BY <1>10 DEF Eligibility, Object, eligibility
  <2>2. Lineage(application, ended).assignments[a].complete
    BY <2>1 DEF AssignmentFindings
  <2>3. Place(a) <= Len(ended) /\ ended[Place(a)].status = "complete"
    BY <2>2, <1>10 DEF Lineage
  <2>4. Place(a) \in DOMAIN ended /\ Roster[Place(a)] = a
    BY <1>1, <2>3, PlaceFacts
  <2>5. QED
    BY <2>3, <2>4 DEF EndingHolds
<1>11. QED
  BY <1>3, <1>9, <1>10 DEF AreAnswers, lineage

\* After the assignments only the phase matters.
LEMMA RunCloses ==
    ASSUME NEW log, NEW access, NEW application, NEW w, RunHolds(log, access, application, w),
           NEW next, next.ended = w.ended, next.grants = w.grants,
           next.phase \in {"checkpoint", "recheck", "claim"}
    PROVE  RunHolds(log, access, application, next)
BY DEF RunHolds, Working, Asking

LEMMA FreezeStepHolds == ASSUME LineageInv, NEW p \in Processes, Freeze(p) PROVE LineageInv'
<1> DEFINE w == work[p]
           application == ApplicationOf(p)
           lineage == LineageObject(application, w.ended)
           event == FreezeEvent(application, lineage)
           next == [w EXCEPT !.phase = "checkpoint", !.lineage = lineage]
           log2 == journals'["analysis"]
           access2 == journals'["access"]
<1>1. At(p, "freeze") /\ "freeze" \in Phases \ {"start"}
  BY DEF Freeze, Phases
<1>2. /\ DOMAIN w = DOMAIN Fresh
      /\ RunHolds(journals["analysis"], journals["access"], application, w)
  BY <1>1, AtWork
<1>3. AppendThen(p, "analysis", event, next) /\ scenario' = scenario
  BY DEF Freeze
<1>4. /\ event.key[1] = "analysis-lineage"
      /\ event.payload.application = application /\ event.payload.lineage = lineage
      /\ event.payload.eligible = lineage.value.eligible
      /\ event = FreezeEvent(application, lineage)
  BY DEF FreezeEvent, Event
<1>5. /\ DOMAIN next = DOMAIN Fresh /\ next.ended = w.ended /\ next.grants = w.grants
      /\ next.phase = "checkpoint"
  BY <1>2 DEF Fresh
<1> HIDE DEF event, next, w, application
<1>6. ASSUME Grow, event \in Range(log2)
      PROVE  /\ EventHolds(log2, access2, event)
             /\ DOMAIN next = DOMAIN Fresh /\ next.phase \in Phases
             /\ RunHolds(log2, access2, application, next)
  <2>1. RunHolds(log2, access2, application, w)
    BY <1>2, <1>6, RunStays DEF Grow
  <2>2. /\ AreAnswers(log2, application, Assignments, OutputsIn(lineage.refs))
        /\ lineage.value.eligible =>
             \A a \in Assignments : \E o : IsAnswer(log2, application, a, o)
    BY <2>1, LineageFits DEF RunHolds
  <2> HIDE DEF lineage
  <2>3. FreezeHolds(log2, event)
    BY <1>4, <2>2 DEF FreezeHolds
  <2>4. EventHolds(log2, access2, event)
    BY <1>4, <2>3 DEF EventHolds
  <2>5. RunHolds(log2, access2, application, next)
    BY <1>5, <2>1, RunCloses
  <2>6. next.phase \in Phases
    BY <1>5 DEF Phases
  <2>7. QED
    BY <1>5, <2>4, <2>5, <2>6
<1>7. "analysis" \in JournalNames
  BY DEF JournalNames
<1>8. QED
  BY <1>3, <1>6, <1>7, Appending DEF application

\* The checkpoint and the claim touch neither what has been answered nor who saw it.
LEMMA ReadHeadsHolds == ASSUME LineageInv, NEW p \in Processes, ReadHeads(p) PROVE LineageInv'
<1> DEFINE w == work[p]
           next == [w EXCEPT !.phase = "recheck", !.heads = Checkpoint(journals)]
<1>1. At(p, "checkpoint") /\ "checkpoint" \in Phases \ {"start"}
  BY DEF ReadHeads, Phases
<1>2. /\ DOMAIN w = DOMAIN Fresh
      /\ RunHolds(journals["analysis"], journals["access"], ApplicationOf(p), w)
  BY <1>1, AtWork
<1>3. Goto(p, next) /\ scenario' = scenario /\ journals' = journals /\ results' = results
  BY DEF ReadHeads
<1>4. /\ DOMAIN next = DOMAIN Fresh /\ next.ended = w.ended /\ next.grants = w.grants
      /\ next.phase = "recheck"
  BY <1>2 DEF Fresh
<1> HIDE DEF next, w
<1>5. RunHolds(journals["analysis"], journals["access"], ApplicationOf(p), next)
  BY <1>2, <1>4, RunCloses
<1>6. next.phase \in Phases
  BY <1>4 DEF Phases
<1>7. QED
  BY <1>3, <1>4, <1>5, <1>6, GoingOn

LEMMA RecheckHolds == ASSUME LineageInv, NEW p \in Processes, Recheck(p) PROVE LineageInv'
<1> DEFINE w == work[p]
           next == [w EXCEPT !.phase = "claim"]
<1>1. At(p, "recheck") /\ "recheck" \in Phases \ {"start"}
  BY DEF Recheck, Phases
<1>2. /\ DOMAIN w = DOMAIN Fresh
      /\ RunHolds(journals["analysis"], journals["access"], ApplicationOf(p), w)
  BY <1>1, AtWork
<1>3. /\ scenario' = scenario /\ journals' = journals
      /\ \/ Finish(p, "raised")
         \/ Goto(p, next) /\ results' = results
  <2>1. CASE w.heads = Checkpoint(journals)
    BY <2>1 DEF Recheck
  <2>2. CASE w.heads # Checkpoint(journals)
    BY <2>2 DEF Recheck
  <2>3. QED
    BY <2>1, <2>2
<1>4. /\ DOMAIN next = DOMAIN Fresh /\ next.ended = w.ended /\ next.grants = w.grants
      /\ next.phase = "claim"
  BY <1>2 DEF Fresh
<1> HIDE DEF next, w
<1>5. RunHolds(journals["analysis"], journals["access"], ApplicationOf(p), next)
  BY <1>2, <1>4, RunCloses
<1>6. next.phase \in Phases
  BY <1>4 DEF Phases
<1>7. CASE Finish(p, "raised")
  BY <1>3, <1>7, Finished, Thinking
<1>8. CASE Goto(p, next) /\ results' = results
  BY <1>3, <1>4, <1>5, <1>6, <1>8, GoingOn
<1>9. QED
  BY <1>3, <1>7, <1>8

LEMMA ClaimHolds == ASSUME LineageInv, NEW p \in Processes, Claim(p) PROVE LineageInv'
<1>1. scenario' = scenario /\ \E outcome : Finish(p, outcome)
  BY DEF Claim
<1>2. StepHolds(p)
  BY <1>1, Finished
<1>3. CASE journals' = journals
  BY <1>1, <1>2, <1>3, Thinking
<1>4. CASE \E event : journals' = Appended("qualification", event)
  <2>1. PICK event : journals' = Appended("qualification", event)
    BY <1>4
  <2>2. "qualification" \in JournalNames /\ JournalsHold
    BY DEF JournalNames, LineageInv
  <2>3. JournalsHold' /\ Grow
    BY <2>1, <2>2, JournalsGoOn
  <2>4. QED
    BY <1>1, <1>2, <2>3, WorkGoesOn
<1>5. QED
  BY <1>3, <1>4 DEF Claim

LEMMA CrashHolds == ASSUME LineageInv, NEW p \in Processes, Crash(p) PROVE LineageInv'
<1>1. /\ scenario' = scenario /\ journals' = journals /\ results' = results
      /\ work' = [work EXCEPT ![p] = Fresh]
  BY DEF Crash
<1>2. StepHolds(p)
  BY <1>1 DEF StepHolds, LineageInv
<1>3. QED
  BY <1>1, <1>2, Thinking

-----------------------------------------------------------------------------
(* Every behaviour *)

LEMMA InitHolds == Init => LineageInv
<1> SUFFICES ASSUME Init PROVE LineageInv
  OBVIOUS
<1>1. \A name \in JournalNames : journals[name] = << >>
  BY DEF Init
<1>2. IsLog(<< >>) /\ DOMAIN << >> = {}
  BY NoAttempts
<1>3. KeysUnique(<< >>) /\ Range(<< >>) = {}
  BY <1>2 DEF KeysUnique, Range
<1>4. JournalsHold
  <2>1. "analysis" \in JournalNames /\ "access" \in JournalNames
    BY DEF JournalNames
  <2>2. DOMAIN journals = JournalNames
    BY DEF Init
  <2>3. QED
    BY <1>1, <1>2, <1>3, <2>1, <2>2 DEF JournalsHold
<1>5. ASSUME NEW p \in Processes PROVE WorkHolds(p)
  <2>1. work[p] = Fresh
    BY DEF Init
  <2>2. Fresh.phase = "start" /\ "start" \in Phases
    BY DEF Fresh, Phases
  <2>3. QED
    BY <2>1, <2>2 DEF WorkHolds
<1>6. DOMAIN work = Processes /\ DOMAIN results = Processes
  BY DEF Init
<1>7. QED
  BY <1>4, <1>5, <1>6 DEF LineageInv

LEMMA NextHolds == ASSUME LineageInv, [Next]_vars PROVE LineageInv'
<1>1. CASE Next
  <2>1. PICK p \in Processes :
          \/ Start(p) \/ View(p) \/ Invoke(p) \/ Record(p) \/ Complete(p) \/ GiveUp(p)
          \/ Freeze(p) \/ ReadHeads(p) \/ Recheck(p) \/ Claim(p) \/ Crash(p)
    BY <1>1 DEF Next
  <2>2. CASE Start(p)
    BY <2>2, StartHolds
  <2>3. CASE View(p)
    BY <2>3, ViewStepHolds
  <2>4. CASE Invoke(p)
    BY <2>4, InvokeHolds
  <2>5. CASE Record(p)
    BY <2>5, RecordHolds
  <2>6. CASE Complete(p)
    BY <2>6, CompleteHolds
  <2>7. CASE GiveUp(p)
    BY <2>7, GiveUpHolds
  <2>8. CASE Freeze(p)
    BY <2>8, FreezeStepHolds
  <2>9. CASE ReadHeads(p)
    BY <2>9, ReadHeadsHolds
  <2>10. CASE Recheck(p)
    BY <2>10, RecheckHolds
  <2>11. CASE Claim(p)
    BY <2>11, ClaimHolds
  <2>12. CASE Crash(p)
    BY <2>12, CrashHolds
  <2>13. QED
    BY <2>1, <2>2, <2>3, <2>4, <2>5, <2>6, <2>7, <2>8, <2>9, <2>10, <2>11, <2>12
<1>2. CASE UNCHANGED vars
  <2>1. /\ scenario' = scenario /\ journals' = journals /\ work' = work
        /\ results' = results
    BY <1>2 DEF vars
  <2>2. QED
    BY <2>1 DEF LineageInv, JournalsHold, WorkHolds, ApplicationOf
<1>3. QED
  BY <1>1, <1>2

LEMMA SpecLineage == Spec => []LineageInv
<1>1. Init => LineageInv
  BY InitHolds
<1>2. LineageInv /\ [Next]_vars => LineageInv'
  BY NextHolds
<1>3. QED
  BY <1>1, <1>2, PTL DEF Spec

-----------------------------------------------------------------------------
(* What the invariant says *)

LEMMA InvIsolates == LineageInv => AnalystsAreIsolated
<1> SUFFICES ASSUME LineageInv, NEW e \in EventsIn("access")
             PROVE  LET a == e.payload.assignment
                        objects == Readable(e.payload.view)
                    IN /\ {AuthorOf(o) : o \in OutputsIn(objects)} \subseteq MayReadOutputsOf(a)
                       /\ objects \cap Supplied("comparison_side") = {}
                       /\ objects \cap Supplied("canonical_world_truth") # {}
                             => a \in {"attribution-a", "attribution-b"}
  BY DEF AnalystsAreIsolated
<1>1. ViewHolds(journals["analysis"], e.key[2], e.payload.assignment, e.payload.view)
  BY DEF LineageInv, JournalsHold, EventsIn
<1>2. QED
  BY <1>1 DEF ViewHolds, AreAnswers, IsAnswer, Attributions

\* What a completion says is what its key says, and it is the only one to say it.
LEMMA CompletionsFit ==
    ASSUME LineageInv, NEW application
    PROVE  /\ \A e \in Completions(application) :
                 /\ e.key = CompletionKey(application, e.payload.assignment)
                 /\ e.payload.assignment \in Assignments
           /\ \A d, e \in Completions(application) :
                 d.payload.assignment = e.payload.assignment => d = e
           /\ \A a, o : IsAnswer(journals["analysis"], application, a, o)
                 => \E e \in Completions(application) :
                       e.payload.assignment = a /\ e.payload.output = o
<1> DEFINE log == journals["analysis"]
<1>1. "analysis" \in JournalNames
  BY DEF JournalNames
<1>2. IsLog(log) /\ KeysUnique(log)
  BY <1>1 DEF LineageInv, JournalsHold
<1>3. ASSUME NEW e \in Completions(application)
      PROVE  /\ e \in Range(log) /\ e.payload.assignment \in Assignments
             /\ e.key = CompletionKey(application, e.payload.assignment)
  <2>1. /\ e \in Range(log) /\ e.key[1] = "analysis" /\ e.key[2] = application
        /\ e.payload.status = "complete"
    BY DEF Completions, EventsIn
  <2>2. CompletionHolds(journals["access"], e)
    BY <2>1 DEF LineageInv, JournalsHold
  <2>3. /\ e.payload.assignment \in Assignments
        /\ e = CompletionEvent(e.payload.application, e.payload.assignment, e.payload.output,
                               e.payload.attempts)
    BY <2>2 DEF CompletionHolds
  <2>4. e.key = CompletionKey(e.payload.application, e.payload.assignment)
    BY <2>3 DEF CompletionEvent, Event, CompletionKey
  <2>5. e.payload.application = application
    BY <2>1, <2>4 DEF CompletionKey
  <2>6. QED
    BY <2>1, <2>3, <2>4, <2>5
<1>4. ASSUME NEW d \in Completions(application), NEW e \in Completions(application),
             d.payload.assignment = e.payload.assignment
      PROVE  d = e
  <2>1. d \in Range(log) /\ e \in Range(log) /\ d.key = e.key
    BY <1>3, <1>4
  <2>2. PICK i \in DOMAIN log, j \in DOMAIN log : d = log[i] /\ e = log[j]
    BY <2>1 DEF Range
  <2>3. i = j
    BY <2>1, <2>2, <1>2 DEF KeysUnique
  <2>4. QED
    BY <2>2, <2>3
<1>5. ASSUME NEW a, NEW o, IsAnswer(log, application, a, o)
      PROVE  \E e \in Completions(application) : e.payload.assignment = a /\ e.payload.output = o
  <2>1. PICK e \in Range(log) : /\ e.key = CompletionKey(application, a)
                                /\ e.payload.status = "complete" /\ e.payload.output = o
    BY <1>5 DEF IsAnswer
  <2>2. e.key[1] = "analysis" /\ e.key[2] = application /\ e.key[3] = a
    BY <2>1 DEF CompletionKey
  <2>3. e \in Completions(application)
    BY <2>1, <2>2 DEF Completions, EventsIn
  <2>4. e.key[3] = e.payload.assignment
    BY <2>3, <1>3 DEF CompletionKey
  <2>5. QED
    BY <2>1, <2>2, <2>3, <2>4
<1>6. QED
  BY <1>3, <1>4, <1>5

\* Twelve completions answer the twelve assignments.
LEMMA AllAnswered ==
    ASSUME LineageInv, NEW application,
           \A a \in Assignments : \E o : IsAnswer(journals["analysis"], application, a, o)
    PROVE  Cardinality(Completions(application)) = Len(Roster)
<1> DEFINE done == Completions(application)
           Of(i) == CHOOSE e \in done : e.payload.assignment = Roster[i]
           f == [i \in 1..12 |-> Of(i)]
<1>1. \A i \in 1..12 : \E e \in done : e.payload.assignment = Roster[i]
  BY CompletionsFit, PlaceFacts
<1>2. \A i \in 1..12 : Of(i) \in done /\ Of(i).payload.assignment = Roster[i]
  BY <1>1
<1>3. f \in [1..12 -> done] /\ \A i \in 1..12 : f[i].payload.assignment = Roster[i]
  BY <1>2
<1> HIDE DEF f, done
<1>4. \A i, j \in 1..12 : f[i] = f[j] => i = j
  BY <1>3, RosterFacts
<1>5. \A e \in done : \E i \in 1..12 : f[i] = e
  <2> SUFFICES ASSUME NEW e \in done PROVE \E i \in 1..12 : f[i] = e
    OBVIOUS
  <2>1. e.payload.assignment \in Assignments
    BY CompletionsFit DEF done
  <2>2. PICK i \in 1..12 : Roster[i] = e.payload.assignment
    BY <2>1, PlaceFacts
  <2>3. f[i] \in done /\ f[i].payload.assignment = e.payload.assignment
    BY <1>3, <2>2
  <2>4. QED
    BY <2>3, CompletionsFit DEF done
<1>6. f \in Bijection(1..12, done)
  BY <1>3, <1>4, <1>5 DEF Bijection, Injection, Surjection, IsInjective
<1>7. ExistsBijection(1..12, done)
  BY <1>6 DEF ExistsBijection
<1>8. Cardinality(done) = 12
  BY <1>7, FS_CountingElements
<1>9. QED
  BY <1>8, RosterFacts DEF done

LEMMA InvAnswers == LineageInv => OneAnswerStands
<1> SUFFICES ASSUME LineageInv, NEW application
             PROVE  LET done == Completions(application)
                        outputs == {e.payload.output : e \in done}
                    IN /\ \A d, e \in done : d.payload.assignment = e.payload.assignment => d = e
                       /\ \A e \in EventsIn("access") :
                             e.key[2] = application
                               => OutputsIn(Readable(e.payload.view)) \subseteq outputs
                       /\ \A e \in Frozen :
                             e.payload.application = application
                               => /\ OutputsIn(e.payload.lineage.refs) \subseteq outputs
                                  /\ e.payload.eligible => Cardinality(done) = Len(Roster)
  BY DEF OneAnswerStands
<1> DEFINE done == Completions(application)
           outputs == {e.payload.output : e \in done}
           log == journals["analysis"]
<1>1. \A d, e \in done : d.payload.assignment = e.payload.assignment => d = e
  BY CompletionsFit
<1>2. \A names, objects : AreAnswers(log, application, names, objects) => objects \subseteq outputs
  BY CompletionsFit DEF AreAnswers
<1>3. ASSUME NEW e \in EventsIn("access"), e.key[2] = application
      PROVE  OutputsIn(Readable(e.payload.view)) \subseteq outputs
  <2>1. ViewHolds(log, application, e.payload.assignment, e.payload.view)
    BY <1>3 DEF LineageInv, JournalsHold, EventsIn
  <2>2. AreAnswers(log, application, MayReadOutputsOf(e.payload.assignment),
                   OutputsIn(Readable(e.payload.view)))
    BY <2>1 DEF ViewHolds
  <2> HIDE DEF outputs
  <2>3. QED
    BY <2>2, <1>2
<1>4. ASSUME NEW e \in Frozen, e.payload.application = application
      PROVE  /\ OutputsIn(e.payload.lineage.refs) \subseteq outputs
             /\ e.payload.eligible => Cardinality(done) = Len(Roster)
  <2>1. FreezeHolds(log, e)
    BY <1>4 DEF Frozen, EventsIn, LineageInv, JournalsHold
  <2>2. AreAnswers(log, application, Assignments, OutputsIn(e.payload.lineage.refs))
    BY <2>1, <1>4 DEF FreezeHolds
  <2>3. e.payload.eligible => \A a \in Assignments : \E o : IsAnswer(log, application, a, o)
    BY <2>1, <1>4 DEF FreezeHolds
  <2>4. e.payload.eligible => Cardinality(done) = Len(Roster)
    BY <2>3, AllAnswered
  <2> HIDE DEF outputs, done
  <2>5. QED
    BY <2>2, <2>4, <1>2
<1>5. QED
  BY <1>1, <1>3, <1>4

LEMMA InvBounds == LineageInv => AttemptsAreBounded
<1> SUFFICES ASSUME LineageInv, NEW e \in Endings
             PROVE  LET attempts == e.payload.attempts
                        status == [i \in DOMAIN attempts |-> attempts[i].value.status]
                        CountedAs(s) == Cardinality({i \in DOMAIN status : status[i] = s})
                    IN /\ \A i \in DOMAIN attempts :
                             /\ attempts[i].value.attempt = i
                             /\ \E x \in EventsIn("access") :
                                   x.payload.attempt = i /\ x.refs \subseteq attempts[i].refs
                             /\ i < Len(attempts) => status[i] \in {"transport-failed", "schema-invalid"}
                       /\ CountedAs("transport-failed") <= 3 /\ CountedAs("schema-invalid") <= 2
                       /\ IF e.payload.status = "complete"
                          THEN /\ Last(status) = "complete"
                               /\ CountedAs("transport-failed") <= 2
                               /\ CountedAs("schema-invalid") <= 1
                          ELSE \/ Last(status) = "application-model-mismatch"
                               \/ CountedAs("transport-failed") = 3
                               \/ CountedAs("schema-invalid") = 2
  BY DEF AttemptsAreBounded
<1> DEFINE attempts == e.payload.attempts
           status == [i \in DOMAIN attempts |-> attempts[i].value.status]
           access == journals["access"]
<1>1. /\ e \in Range(journals["analysis"]) /\ e.key[1] = "analysis"
      /\ IF e.payload.status = "complete" THEN CompletionHolds(access, e)
         ELSE IncompletionHolds(access, e)
  BY DEF Endings, EventsIn, LineageInv, JournalsHold
<1>2. /\ TrialHolds(access, attempts)
      /\ e.payload.status = "complete" => Answered(attempts)
      /\ e.payload.status # "complete" => Spent(attempts)
  BY <1>1 DEF CompletionHolds, IncompletionHolds
<1>3. attempts # << >> /\ IsLog(attempts)
  BY <1>2 DEF Answered, Spent, TrialHolds
<1>4. /\ Len(attempts) \in Nat /\ Len(attempts) >= 1 /\ DOMAIN attempts = 1..Len(attempts)
  BY <1>3, LogFacts
<1>5. \A s : Counted(attempts, s) \in Nat
  BY <1>3, CountMore
<1> HIDE DEF attempts
<1>6. DOMAIN status = DOMAIN attempts /\ \A i \in DOMAIN attempts : status[i] = attempts[i].value.status
  OBVIOUS
<1>7. Last(status) = attempts[Len(attempts)].value.status
  <2>1. status \in [1..Len(attempts) -> Range(status)]
    BY <1>4, <1>6 DEF Range
  <2>2. status \in Seq(Range(status))
    BY <2>1, <1>4, SeqDef
  <2>3. Len(status) = Len(attempts)
    BY <2>2, <1>4, <1>6, LenProperties
  <2>4. Last(status) = status[Len(attempts)] /\ Len(attempts) \in DOMAIN attempts
    BY <2>3, <1>4 DEF Last
  <2> HIDE DEF status
  <2>5. QED
    BY <2>4, <1>6
<1> HIDE DEF status
<1>8. \A s : Cardinality({i \in DOMAIN status : status[i] = s}) = Counted(attempts, s)
  <2>1. \A s : {i \in DOMAIN status : status[i] = s} = {i \in DOMAIN attempts : attempts[i].value.status = s}
    BY <1>6
  <2>2. QED
    BY <2>1 DEF Counted
<1>9. \A i \in DOMAIN attempts :
        /\ attempts[i].value.attempt = i
        /\ \E x \in EventsIn("access") : x.payload.attempt = i /\ x.refs \subseteq attempts[i].refs
        /\ i < Len(attempts) => status[i] \in {"transport-failed", "schema-invalid"}
  BY <1>2, <1>6 DEF TrialHolds, ReceiptHolds, Retried, EventsIn
<1>10. Counted(attempts, "transport-failed") <= 3 /\ Counted(attempts, "schema-invalid") <= 2
  BY <1>2, <1>5 DEF Answered, Spent
<1>11. IF e.payload.status = "complete"
       THEN /\ Last(status) = "complete"
            /\ Counted(attempts, "transport-failed") <= 2 /\ Counted(attempts, "schema-invalid") <= 1
       ELSE \/ Last(status) = "application-model-mismatch"
            \/ Counted(attempts, "transport-failed") = 3
            \/ Counted(attempts, "schema-invalid") = 2
  BY <1>2, <1>7 DEF Answered, Spent
<1>12. /\ Cardinality({i \in DOMAIN status : status[i] = "transport-failed"})
            = Counted(attempts, "transport-failed")
       /\ Cardinality({i \in DOMAIN status : status[i] = "schema-invalid"})
            = Counted(attempts, "schema-invalid")
  BY <1>8
<1> DEFINE CountedAs(s) == Cardinality({i \in DOMAIN status : status[i] = s})
<1>13. /\ CountedAs("transport-failed") <= 3 /\ CountedAs("schema-invalid") <= 2
       /\ IF e.payload.status = "complete"
          THEN /\ Last(status) = "complete"
               /\ CountedAs("transport-failed") <= 2 /\ CountedAs("schema-invalid") <= 1
          ELSE \/ Last(status) = "application-model-mismatch"
               \/ CountedAs("transport-failed") = 3 \/ CountedAs("schema-invalid") = 2
  BY <1>10, <1>11, <1>12
<1>14. QED
  BY <1>9, <1>13, Zenon DEF attempts, status

-----------------------------------------------------------------------------
(* Claims: how deep evidence nests, and what a checkpoint pins                *)

\* From an object, at most so many references one after the other.
Deep0(o) == o.refs = {}
Deep1(o) == \A x \in o.refs : Deep0(x)
Deep2(o) == \A x \in o.refs : Deep1(x)
Deep3(o) == \A x \in o.refs : Deep2(x)
Deep4(o) == \A x \in o.refs : Deep3(x)
Deep5(o) == \A x \in o.refs : Deep4(x)
Deep6(o) == \A x \in o.refs : Deep5(x)
Deep7(o) == \A x \in o.refs : Deep6(x)
Deep8(o) == \A x \in o.refs : Deep7(x)
Deep9(o) == \A x \in o.refs : Deep8(x)
Deep10(o) == \A x \in o.refs : Deep9(x)

\* The reviewer's own view and receipts hold the receipts of all the others.
ViewNests(n, view) == IF n < 11 THEN Deep5(view) ELSE Deep8(view)
ReceiptsNest(n, receipts) ==
    \A i \in DOMAIN receipts : IF n < 11 THEN Deep6(receipts[i]) ELSE Deep9(receipts[i])
GrantNests(n, g) ==
    Deep4(g.object) \/ (n = 11 /\ Deep7(g.object))

\* How deep what a run has nests, by the number of assignments that have ended.
RunNests(w) ==
    LET n == Len(w.ended)
    IN /\ w.phase \in Working => \A g \in w.grants : GrantNests(n, g)
       /\ w.phase \in Asking => ViewNests(n, w.view) /\ ReceiptsNest(n, w.attempts)
       /\ \A i \in DOMAIN w.ended :
             /\ ReceiptsNest(i - 1, w.ended[i].attempts)
             /\ w.ended[i].status = "complete" => Deep0(w.ended[i].output)

\* The log says that the lineage was frozen.
Says(log, lineage) ==
    \E e \in Range(log) : e.key[1] = "analysis-lineage" /\ e.payload.lineage = lineage

\* A checkpoint pins what the journals begin with.
Pins(heads, logs) ==
    /\ heads.kind = "workspace_checkpoint" /\ heads.refs = {}
    /\ DOMAIN heads.value = JournalNames
    /\ \A name \in JournalNames :
          LET head == heads.value[name].head
          IN /\ heads.value[name].sequence = Len(head) /\ IsLog(head)
             /\ Len(head) <= Len(logs[name])
             /\ \A i \in 1..Len(head) : logs[name][i] = head[i]
PinsFrozen(heads, logs, lineage) ==
    Pins(heads, logs) /\ Says(heads.value["analysis"].head, lineage)

\* A run that freezes its claim.
RunClaims(logs, w) ==
    /\ w.phase \in {"checkpoint", "recheck", "claim"} => Deep10(w.lineage)
    /\ w.phase = "checkpoint" => Says(logs["analysis"], w.lineage)
    /\ w.phase \in {"recheck", "claim"} => PinsFrozen(w.heads, logs, w.lineage)

ClaimFits(logs, manifest) ==
    \E application, heads, lineage :
        /\ manifest = ClaimOf(application, heads, lineage)
        /\ Deep10(lineage) /\ PinsFrozen(heads, logs, lineage)
        /\ \A o \in manifest.objects : IsStored(o)

\* What a process has, while it runs.
RunFits(logs, w) == w.phase # "start" => RunNests(w) /\ RunClaims(logs, w)

ClaimInv ==
    /\ \A p \in Processes : RunFits(journals, work[p])
    /\ \A manifest \in Claims : ClaimFits(journals, manifest)

-----------------------------------------------------------------------------
(* A closure is closed *)

LEMMA Deeper ==
    /\ \A o : Deep0(o) => Deep1(o)
    /\ \A o : Deep1(o) => Deep2(o)
    /\ \A o : Deep2(o) => Deep3(o)
    /\ \A o : Deep3(o) => Deep4(o)
    /\ \A o : Deep4(o) => Deep5(o)
    /\ \A o : Deep5(o) => Deep6(o)
    /\ \A o : Deep6(o) => Deep7(o)
    /\ \A o : Deep7(o) => Deep8(o)
    /\ \A o : Deep8(o) => Deep9(o)
    /\ \A o : Deep9(o) => Deep10(o)
<1>1. \A o : Deep0(o) => Deep1(o)
  BY DEF Deep0, Deep1
<1>2. \A o : Deep1(o) => Deep2(o)
  BY <1>1 DEF Deep1, Deep2
<1>3. \A o : Deep2(o) => Deep3(o)
  BY <1>2 DEF Deep2, Deep3
<1>4. \A o : Deep3(o) => Deep4(o)
  BY <1>3 DEF Deep3, Deep4
<1>5. \A o : Deep4(o) => Deep5(o)
  BY <1>4 DEF Deep4, Deep5
<1>6. \A o : Deep5(o) => Deep6(o)
  BY <1>5 DEF Deep5, Deep6
<1>7. \A o : Deep6(o) => Deep7(o)
  BY <1>6 DEF Deep6, Deep7
<1>8. \A o : Deep7(o) => Deep8(o)
  BY <1>7 DEF Deep7, Deep8
<1>9. \A o : Deep8(o) => Deep9(o)
  BY <1>8 DEF Deep8, Deep9
<1>10. \A o : Deep9(o) => Deep10(o)
  BY <1>9 DEF Deep9, Deep10
<1>11. QED
  BY <1>1, <1>2, <1>3, <1>4, <1>5, <1>6, <1>7, <1>8, <1>9, <1>10

Reached(near) == near \cup (UNION {o.refs : o \in near})

\* The closure of Evidence, taken apart: ten steps from the roots.
LEMMA ClosureSteps ==
    ASSUME NEW roots
    PROVE  \E f : /\ Closure(roots) = f[10] /\ f[0] = roots
                  /\ f[1] = Reached(f[0]) /\ f[2] = Reached(f[1]) /\ f[3] = Reached(f[2])
                  /\ f[4] = Reached(f[3]) /\ f[5] = Reached(f[4]) /\ f[6] = Reached(f[5])
                  /\ f[7] = Reached(f[6]) /\ f[8] = Reached(f[7]) /\ f[9] = Reached(f[8])
                  /\ f[10] = Reached(f[9])
<1> DEFINE Step(f) == [n \in 0..10 |->
                         IF n = 0 THEN roots
                         ELSE f[n - 1] \cup UNION {o.refs : o \in f[n - 1]}]
           reach == CHOOSE f : f = Step(f)
<1>1. Closure(roots) = reach[10]
  BY DEF Closure
<1>2. \E f : f = Step(f)
  <2> DEFINE r1 == Reached(roots)
             r2 == Reached(r1)
             r3 == Reached(r2)
             r4 == Reached(r3)
             r5 == Reached(r4)
             r6 == Reached(r5)
             r7 == Reached(r6)
             r8 == Reached(r7)
             r9 == Reached(r8)
             r10 == Reached(r9)
             At11(n) == IF n = 0 THEN roots ELSE IF n = 1 THEN r1 ELSE IF n = 2 THEN r2
                        ELSE IF n = 3 THEN r3 ELSE IF n = 4 THEN r4 ELSE IF n = 5 THEN r5
                        ELSE IF n = 6 THEN r6 ELSE IF n = 7 THEN r7 ELSE IF n = 8 THEN r8
                        ELSE IF n = 9 THEN r9 ELSE r10
             f == [n \in 0..10 |-> At11(n)]
  <2>1. /\ f[0] = roots /\ f[1] = r1 /\ f[2] = r2 /\ f[3] = r3 /\ f[4] = r4 /\ f[5] = r5
        /\ f[6] = r6 /\ f[7] = r7 /\ f[8] = r8 /\ f[9] = r9 /\ f[10] = r10
    OBVIOUS
  <2>2. f = [n \in 0..10 |-> f[n]]
    OBVIOUS
  <2> HIDE DEF f
  <2>3. /\ f[1] = Reached(f[0]) /\ f[2] = Reached(f[1]) /\ f[3] = Reached(f[2])
        /\ f[4] = Reached(f[3]) /\ f[5] = Reached(f[4]) /\ f[6] = Reached(f[5])
        /\ f[7] = Reached(f[6]) /\ f[8] = Reached(f[7]) /\ f[9] = Reached(f[8])
        /\ f[10] = Reached(f[9])
    BY Zenon, <2>1
  <2> HIDE DEF r1, r2, r3, r4, r5, r6, r7, r8, r9, r10
  <2>4. ASSUME NEW n \in 0..10 PROVE f[n] = IF n = 0 THEN roots ELSE Reached(f[n - 1])
    <3>1. n \in {0, 1, 2, 3, 4, 5, 6, 7, 8, 9, 10}
      OBVIOUS
    <3> HIDE DEF Reached
    <3>2. QED
      BY <2>1, <2>3, <3>1
  <2>5. f = [n \in 0..10 |-> IF n = 0 THEN roots ELSE Reached(f[n - 1])]
    BY <2>2, <2>4
  <2>6. QED
    BY <2>5 DEF Reached
<1>3. reach = Step(reach)
  BY <1>2
<1> HIDE DEF reach
<1>4. \A n \in 0..10 : reach[n] = IF n = 0 THEN roots ELSE Reached(reach[n - 1])
  BY <1>3 DEF Reached
<1>5. /\ reach[0] = roots
      /\ reach[1] = Reached(reach[0]) /\ reach[2] = Reached(reach[1])
      /\ reach[3] = Reached(reach[2]) /\ reach[4] = Reached(reach[3])
      /\ reach[5] = Reached(reach[4]) /\ reach[6] = Reached(reach[5])
      /\ reach[7] = Reached(reach[6]) /\ reach[8] = Reached(reach[7])
      /\ reach[9] = Reached(reach[8]) /\ reach[10] = Reached(reach[9])
  BY <1>4
<1>6. QED
  BY <1>1, <1>5

\* What nests no deeper than the closure follows: the closure has all it refers to.
LEMMA ClosureCloses ==
    ASSUME NEW roots, \A o \in roots : Deep10(o)
    PROVE  roots \subseteq Closure(roots) /\ \A o \in Closure(roots) : o.refs \subseteq Closure(roots)
<1>1. PICK f : /\ Closure(roots) = f[10] /\ f[0] = roots
               /\ f[1] = Reached(f[0]) /\ f[2] = Reached(f[1]) /\ f[3] = Reached(f[2])
               /\ f[4] = Reached(f[3]) /\ f[5] = Reached(f[4]) /\ f[6] = Reached(f[5])
               /\ f[7] = Reached(f[6]) /\ f[8] = Reached(f[7]) /\ f[9] = Reached(f[8])
               /\ f[10] = Reached(f[9])
  BY ClosureSteps
<1>2. \A S : S \subseteq Reached(S) /\ (\A o \in S : o.refs \subseteq Reached(S))
             /\ \A x \in Reached(S) : x \in S \/ \E o \in S : x \in o.refs
  BY DEF Reached
<1>3. roots \subseteq f[10]
  BY <1>1, <1>2
<1>4. \A o \in f[1] : Deep9(o) \/ o.refs \subseteq f[1]
  <2> SUFFICES ASSUME NEW o \in f[1], o \notin f[0] PROVE Deep9(o) \/ o.refs \subseteq f[1]
    BY <1>1, <1>2
  <2>1. PICK x \in f[0] : o \in x.refs
    BY <1>1, <1>2
  <2>2. Deep10(x)
    BY <1>1, <2>1
  <2>3. QED
    BY <2>1, <2>2 DEF Deep10
<1>5. \A o \in f[2] : Deep8(o) \/ o.refs \subseteq f[2]
  <2> SUFFICES ASSUME NEW o \in f[2], o \notin f[1] PROVE Deep8(o) \/ o.refs \subseteq f[2]
    BY <1>1, <1>2
  <2>1. PICK x \in f[1] : o \in x.refs
    BY <1>1, <1>2
  <2>2. Deep9(x)
    BY <1>4, <2>1
  <2>3. QED
    BY <2>1, <2>2 DEF Deep9
<1>6. \A o \in f[3] : Deep7(o) \/ o.refs \subseteq f[3]
  <2> SUFFICES ASSUME NEW o \in f[3], o \notin f[2] PROVE Deep7(o) \/ o.refs \subseteq f[3]
    BY <1>1, <1>2
  <2>1. PICK x \in f[2] : o \in x.refs
    BY <1>1, <1>2
  <2>2. Deep8(x)
    BY <1>5, <2>1
  <2>3. QED
    BY <2>1, <2>2 DEF Deep8
<1>7. \A o \in f[4] : Deep6(o) \/ o.refs \subseteq f[4]
  <2> SUFFICES ASSUME NEW o \in f[4], o \notin f[3] PROVE Deep6(o) \/ o.refs \subseteq f[4]
    BY <1>1, <1>2
  <2>1. PICK x \in f[3] : o \in x.refs
    BY <1>1, <1>2
  <2>2. Deep7(x)
    BY <1>6, <2>1
  <2>3. QED
    BY <2>1, <2>2 DEF Deep7
<1>8. \A o \in f[5] : Deep5(o) \/ o.refs \subseteq f[5]
  <2> SUFFICES ASSUME NEW o \in f[5], o \notin f[4] PROVE Deep5(o) \/ o.refs \subseteq f[5]
    BY <1>1, <1>2
  <2>1. PICK x \in f[4] : o \in x.refs
    BY <1>1, <1>2
  <2>2. Deep6(x)
    BY <1>7, <2>1
  <2>3. QED
    BY <2>1, <2>2 DEF Deep6
<1>9. \A o \in f[6] : Deep4(o) \/ o.refs \subseteq f[6]
  <2> SUFFICES ASSUME NEW o \in f[6], o \notin f[5] PROVE Deep4(o) \/ o.refs \subseteq f[6]
    BY <1>1, <1>2
  <2>1. PICK x \in f[5] : o \in x.refs
    BY <1>1, <1>2
  <2>2. Deep5(x)
    BY <1>8, <2>1
  <2>3. QED
    BY <2>1, <2>2 DEF Deep5
<1>10. \A o \in f[7] : Deep3(o) \/ o.refs \subseteq f[7]
  <2> SUFFICES ASSUME NEW o \in f[7], o \notin f[6] PROVE Deep3(o) \/ o.refs \subseteq f[7]
    BY <1>1, <1>2
  <2>1. PICK x \in f[6] : o \in x.refs
    BY <1>1, <1>2
  <2>2. Deep4(x)
    BY <1>9, <2>1
  <2>3. QED
    BY <2>1, <2>2 DEF Deep4
<1>11. \A o \in f[8] : Deep2(o) \/ o.refs \subseteq f[8]
  <2> SUFFICES ASSUME NEW o \in f[8], o \notin f[7] PROVE Deep2(o) \/ o.refs \subseteq f[8]
    BY <1>1, <1>2
  <2>1. PICK x \in f[7] : o \in x.refs
    BY <1>1, <1>2
  <2>2. Deep3(x)
    BY <1>10, <2>1
  <2>3. QED
    BY <2>1, <2>2 DEF Deep3
<1>12. \A o \in f[9] : Deep1(o) \/ o.refs \subseteq f[9]
  <2> SUFFICES ASSUME NEW o \in f[9], o \notin f[8] PROVE Deep1(o) \/ o.refs \subseteq f[9]
    BY <1>1, <1>2
  <2>1. PICK x \in f[8] : o \in x.refs
    BY <1>1, <1>2
  <2>2. Deep2(x)
    BY <1>11, <2>1
  <2>3. QED
    BY <2>1, <2>2 DEF Deep2
<1>13. \A o \in f[10] : Deep0(o) \/ o.refs \subseteq f[10]
  <2> SUFFICES ASSUME NEW o \in f[10], o \notin f[9] PROVE Deep0(o) \/ o.refs \subseteq f[10]
    BY <1>1, <1>2
  <2>1. PICK x \in f[9] : o \in x.refs
    BY <1>1, <1>2
  <2>2. Deep1(x)
    BY <1>12, <2>1
  <2>3. QED
    BY <2>1, <2>2 DEF Deep1
<1>14. \A o \in f[10] : o.refs \subseteq f[10]
  BY <1>13 DEF Deep0
<1>15. QED
  BY <1>1, <1>3, <1>14

-----------------------------------------------------------------------------
(* What a checkpoint pins stays pinned *)

Grown(logs, logs2) ==
    \A name \in JournalNames :
        /\ IsLog(logs[name]) /\ IsLog(logs2[name]) /\ Len(logs[name]) <= Len(logs2[name])
        /\ \A i \in 1..Len(logs[name]) : logs2[name][i] = logs[name][i]

LEMMA JournalsGrow ==
    ASSUME JournalsHold, NEW name \in JournalNames, NEW event, journals' = Appended(name, event)
    PROVE  Grown(journals, journals')
<1>1. \A other \in JournalNames : IsLog(journals[other]) /\ Len(journals[other]) \in Nat
  BY LogFacts DEF JournalsHold
<1>2. CASE journals' = journals
  BY <1>1, <1>2 DEF Grown
<1>3. CASE journals' # journals
  <2>1. journals' = [journals EXCEPT ![name] = Append(journals[name], event)]
    BY <1>3 DEF Appended
  <2>2. journals'[name] = Append(journals[name], event)
        /\ \A other \in JournalNames \ {name} : journals'[other] = journals[other]
    BY <2>1 DEF JournalsHold
  <2>3. /\ IsLog(journals'[name]) /\ Len(journals'[name]) = Len(journals[name]) + 1
        /\ \A i \in 1..Len(journals[name]) : journals'[name][i] = journals[name][i]
    BY <1>1, <2>2, LongerLog
  <2>4. ASSUME NEW other \in JournalNames
        PROVE  /\ IsLog(journals[other]) /\ IsLog(journals'[other])
               /\ Len(journals[other]) <= Len(journals'[other])
               /\ \A i \in 1..Len(journals[other]) : journals'[other][i] = journals[other][i]
    <3>1. CASE other = name
      BY <1>1, <2>3, <3>1
    <3>2. CASE other # name
      BY <1>1, <2>2, <3>2
    <3>3. QED
      BY <3>1, <3>2
  <2>5. QED
    BY <2>4 DEF Grown
<1>4. QED
  BY <1>2, <1>3

LEMMA SameJournals == ASSUME JournalsHold, journals' = journals PROVE Grown(journals, journals')
<1>1. \A name \in JournalNames : IsLog(journals[name]) /\ Len(journals[name]) \in Nat
  BY LogFacts DEF JournalsHold
<1>2. QED
  BY <1>1 DEF Grown

LEMMA PinsStay ==
    ASSUME NEW logs, NEW logs2, Grown(logs, logs2)
    PROVE  /\ \A heads : Pins(heads, logs) => Pins(heads, logs2)
           /\ \A lineage : Says(logs["analysis"], lineage) => Says(logs2["analysis"], lineage)
           /\ \A w : RunClaims(logs, w) => RunClaims(logs2, w)
           /\ \A w : RunFits(logs, w) => RunFits(logs2, w)
           /\ \A manifest : ClaimFits(logs, manifest) => ClaimFits(logs2, manifest)
<1>1. ASSUME NEW heads, Pins(heads, logs), NEW name \in JournalNames
      PROVE  LET head == heads.value[name].head
             IN /\ heads.value[name].sequence = Len(head) /\ IsLog(head)
                /\ Len(head) <= Len(logs2[name])
                /\ \A i \in 1..Len(head) : logs2[name][i] = head[i]
  <2> DEFINE head == heads.value[name].head
  <2>1. /\ heads.value[name].sequence = Len(head) /\ IsLog(head)
        /\ Len(head) <= Len(logs[name])
        /\ \A i \in 1..Len(head) : logs[name][i] = head[i]
    BY <1>1 DEF Pins
  <2>2. /\ Len(head) \in Nat /\ Len(logs[name]) \in Nat /\ Len(logs2[name]) \in Nat
        /\ Len(logs[name]) <= Len(logs2[name])
        /\ \A i \in 1..Len(logs[name]) : logs2[name][i] = logs[name][i]
    BY <2>1, LogFacts DEF Grown
  <2> HIDE DEF head
  <2>3. \A i \in 1..Len(head) : i \in 1..Len(logs[name])
    BY <2>1, <2>2
  <2>4. QED
    BY <2>1, <2>2, <2>3 DEF head
<1>2. \A heads : Pins(heads, logs) => Pins(heads, logs2)
  BY <1>1 DEF Pins
<1>3. \A lineage : Says(logs["analysis"], lineage) => Says(logs2["analysis"], lineage)
  <2>1. "analysis" \in JournalNames
    BY DEF JournalNames
  <2> DEFINE log == logs["analysis"]
             log2 == logs2["analysis"]
  <2>2. /\ Len(log) \in Nat /\ Len(log2) \in Nat /\ Len(log) <= Len(log2)
        /\ DOMAIN log = 1..Len(log) /\ DOMAIN log2 = 1..Len(log2)
        /\ \A i \in 1..Len(log) : log2[i] = log[i]
    BY <2>1, LogFacts DEF Grown
  <2> HIDE DEF log, log2
  <2>3. \A i \in 1..Len(log) : i \in 1..Len(log2)
    BY <2>2
  <2>4. Range(log) \subseteq Range(log2)
    BY <2>2, <2>3 DEF Range
  <2>5. QED
    BY <2>4 DEF Says, log, log2
<1>4. \A w : RunClaims(logs, w) => RunClaims(logs2, w)
  BY <1>2, <1>3 DEF RunClaims, PinsFrozen
<1>5. \A manifest : ClaimFits(logs, manifest) => ClaimFits(logs2, manifest)
  BY <1>2 DEF ClaimFits, PinsFrozen
<1>6. QED
  BY <1>2, <1>3, <1>4, <1>5 DEF RunFits

-----------------------------------------------------------------------------
(* The steps of a run *)

\* A step of one process keeps what the others have.
LEMMA ClaimsGoOn ==
    ASSUME LineageInv, ClaimInv, NEW p \in Processes, scenario' = scenario,
           Grown(journals, journals'),
           \A q \in Processes \ {p} : work'[q] = work[q],
           RunFits(journals', work'[p]),
           \A manifest \in Claims' : manifest \in Claims \/ ClaimFits(journals', manifest)
    PROVE  ClaimInv'
<1>1. \A q \in Processes : RunFits(journals', work'[q])
  <2> SUFFICES ASSUME NEW q \in Processes PROVE RunFits(journals', work'[q])
    OBVIOUS
  <2>1. CASE q = p
    BY <2>1
  <2>2. CASE q # p
    <3>1. RunFits(journals, work[q]) /\ work'[q] = work[q]
      BY <2>2 DEF ClaimInv
    <3>2. RunFits(journals', work[q])
      BY <3>1, PinsStay
    <3>3. QED
      BY <3>1, <3>2
  <2>3. QED
    BY <2>1, <2>2
<1>2. \A manifest \in Claims' : ClaimFits(journals', manifest)
  BY PinsStay DEF ClaimInv
<1>3. \A manifest : ClaimFits(journals', manifest) => ClaimFits(journals, manifest)'
  BY DEF ClaimFits, IsStored
<1>4. QED
  BY <1>1, <1>2, <1>3 DEF ClaimInv

LEMMA Quits ==
    ASSUME LineageInv, ClaimInv, NEW p \in Processes, scenario' = scenario,
           Grown(journals, journals'), work' = [work EXCEPT ![p] = Fresh],
           \A manifest \in Claims' : manifest \in Claims \/ ClaimFits(journals', manifest)
    PROVE  ClaimInv'
<1>1. work'[p] = Fresh /\ \A q \in Processes \ {p} : work'[q] = work[q]
  BY DEF LineageInv
<1>2. RunFits(journals', work'[p])
  BY <1>1 DEF RunFits, Fresh
<1>3. QED
  BY <1>1, <1>2, ClaimsGoOn

LEMMA Thinks ==
    ASSUME LineageInv, ClaimInv, NEW p \in Processes, scenario' = scenario,
           journals' = journals, NEW w,
           work' = [work EXCEPT ![p] = Fresh] \/ (Goto(p, w) /\ RunFits(journals, w))
    PROVE  ClaimInv'
<1>1. Grown(journals, journals') /\ Claims' = Claims
  BY SameJournals DEF LineageInv, Claims, EventsIn
<1>2. CASE work' = [work EXCEPT ![p] = Fresh]
  BY <1>1, <1>2, Quits
<1>3. CASE Goto(p, w) /\ RunFits(journals, w)
  <2>1. work'[p] = w /\ \A q \in Processes \ {p} : work'[q] = work[q]
    BY <1>3 DEF LineageInv, Goto
  <2>2. RunFits(journals', work'[p])
    BY <1>3, <2>1
  <2>3. QED
    BY <1>1, <2>1, <2>2, ClaimsGoOn
<1>4. QED
  BY <1>2, <1>3

LEMMA Appends ==
    ASSUME LineageInv, ClaimInv, NEW p \in Processes, scenario' = scenario,
           NEW name \in JournalNames \ {"qualification"}, NEW event, NEW w,
           AppendThen(p, name, event, w),
           event \in Range(journals'[name]) => RunFits(journals', w)
    PROVE  ClaimInv'
<1>1. JournalsHold /\ journals' = Appended(name, event)
  BY DEF LineageInv, AppendThen
<1>2. Grown(journals, journals')
  BY <1>1, JournalsGrow
<1>3. journals'["qualification"] = journals["qualification"]
  <2>1. "qualification" \in JournalNames \ {name}
    BY DEF JournalNames
  <2>2. QED
    BY <1>1, <2>1, JournalStep
<1>4. Claims' = Claims
  BY <1>3 DEF Claims, EventsIn
<1>5. CASE Decides(name, event) = "idempotency_conflict"
  <2>1. work' = [work EXCEPT ![p] = Fresh]
    BY <1>5 DEF AppendThen, Finish
  <2>2. QED
    BY <1>2, <1>4, <2>1, Quits
<1>6. CASE Decides(name, event) # "idempotency_conflict"
  <2>1. event \in Range(journals'[name])
    BY <1>1, <1>6, JournalStep
  <2>2. work' = [work EXCEPT ![p] = w]
    BY <1>6 DEF AppendThen, Goto
  <2>3. work'[p] = w /\ \A q \in Processes \ {p} : work'[q] = work[q]
    BY <2>2 DEF LineageInv
  <2>4. RunFits(journals', work'[p])
    BY <2>1, <2>3
  <2>5. QED
    BY <1>2, <1>4, <2>3, <2>4, ClaimsGoOn
<1>7. QED
  BY <1>5, <1>6

LEMMA StartClaims == ASSUME LineageInv, ClaimInv, NEW p \in Processes, Start(p) PROVE ClaimInv'
<1> DEFINE w == [Fresh EXCEPT !.phase = "view", !.grants = Available]
<1>1. w.phase = "view" /\ w.grants = Available /\ w.ended = << >>
  BY DEF Fresh
<1>2. Goto(p, w) /\ scenario' = scenario /\ journals' = journals
  BY DEF Start
<1> HIDE DEF w
<1>3. \A g \in Available : Deep4(g.object)
  BY NestingAssumption DEF Deep4, Deep3, Deep2, Deep1, Deep0
<1>4. RunFits(journals, w)
  BY <1>1, <1>3 DEF RunFits, RunNests, RunClaims, GrantNests, Asking
<1>5. QED
  BY <1>2, <1>4, Thinks

\* What the reviewer is granted beyond the others are their receipts.
LEMMA BundlesNest ==
    ASSUME LineageInv, ClaimInv, NEW p \in Processes, At(p, "view"),
           NEW g \in BundlesFor(p, Current(p))
    PROVE  GrantNests(Len(work[p].ended), g)
<1> DEFINE n == Len(work[p].ended)
           a == Current(p)
<1>1. "view" \in Phases \ {"start"} /\ "view" \in Working
  BY DEF Phases, Working
<1>2. /\ work[p].phase = "view"
      /\ RunHolds(journals["analysis"], journals["access"], ApplicationOf(p), work[p])
      /\ n \in 0..11 /\ DOMAIN work[p].ended = 1..n /\ a = Roster[n + 1]
  BY <1>1, AtWork
<1>3. \A i \in DOMAIN work[p].ended : work[p].ended[i].status = "complete"
  BY <1>1, <1>2 DEF RunHolds
<1>4. RunNests(work[p])
  BY <1>2 DEF ClaimInv, RunFits
<1>5. ASSUME NEW b \in Assignments, Place(b) <= n
      PROVE  /\ Deep0(EndedAs(p, b).output)
             /\ Place(b) <= 11 => \A o \in Range(EndedAs(p, b).attempts) : Deep6(o)
  <2>1. Place(b) \in DOMAIN work[p].ended /\ Place(b) \in 1..12
    BY <1>2, <1>5, PlaceFacts
  <2>2. /\ ReceiptsNest(Place(b) - 1, EndedAs(p, b).attempts)
        /\ Deep0(EndedAs(p, b).output)
    BY <1>3, <1>4, <2>1 DEF RunNests, EndedAs
  <2>3. Place(b) <= 11 => Place(b) - 1 < 11
    BY <2>1
  <2>4. QED
    BY <2>2, <2>3 DEF ReceiptsNest, Range
<1>6. \A names : names \subseteq Assignments => \A o \in OutputsOf(p, names) : Deep0(o)
  BY <1>5 DEF OutputsOf, EndedBefore
<1>7. ASSUME NEW c, NEW objects, \A o \in objects : Deep0(o)
      PROVE  Deep4(Bundle(c, objects).object)
  <2>1. Bundle(c, objects).object.refs = objects
    BY DEF Bundle, Grant, Object
  <2>2. Deep1(Bundle(c, objects).object)
    BY <1>7, <2>1 DEF Deep1
  <2>3. QED
    BY <2>2, Deeper
<1>8. /\ Sweeps \subseteq Assignments
      /\ {"attribution-a", "attribution-b"} \subseteq Assignments
  BY PlaceFacts, RosterNames
<1>9. CASE a = "incident-assembler"
  <2>1. PICK c : g = Bundle(c, OutputsOf(p, Sweeps))
    BY <1>9 DEF BundlesFor
  <2>2. QED
    BY <2>1, <1>6, <1>7, <1>8 DEF GrantNests
<1>10. CASE a = "atlas-curator"
  <2>1. PICK c : g = Bundle(c, OutputsOf(p, {"attribution-a", "attribution-b"}))
    BY <1>10 DEF BundlesFor
  <2>2. QED
    BY <2>1, <1>6, <1>7, <1>8 DEF GrantNests
<1>11. CASE a = "independent-reviewer"
  <2>1. g = Bundle("all_analysis_receipts", ReceiptsOf(p, Assignments))
    BY <1>11 DEF BundlesFor
  <2>2. n = 11
    <3>1. Roster[12] = "independent-reviewer"
      BY DEF Roster
    <3>2. \A m \in 0..11 : m + 1 \in 1..12 /\ (m + 1 = 12 => m = 11)
      OBVIOUS
    <3>3. n \in 0..11 /\ Roster[n + 1] = "independent-reviewer"
      BY <1>2, <1>11
    <3> HIDE DEF n
    <3>4. n + 1 \in 1..12 /\ 12 \in 1..12
      BY <3>2, <3>3
    <3>5. n + 1 = 12
      BY <3>1, <3>3, <3>4, RosterFacts
    <3>6. QED
      BY <3>2, <3>3, <3>5
  <2>3. g.object.refs = ReceiptsOf(p, Assignments)
    BY <2>1 DEF Bundle, Grant, Object
  <2>4. \A o \in ReceiptsOf(p, Assignments) : Deep6(o)
    <3> SUFFICES ASSUME NEW o \in ReceiptsOf(p, Assignments) PROVE Deep6(o)
      OBVIOUS
    <3>1. PICK b \in Assignments : Place(b) <= n /\ o \in Range(EndedAs(p, b).attempts)
      BY DEF ReceiptsOf, EndedBefore
    <3>2. QED
      BY <1>5, <2>2, <3>1
  <2>5. QED
    BY <2>2, <2>3, <2>4 DEF GrantNests, Deep7
<1>12. QED
  BY <1>9, <1>10, <1>11 DEF BundlesFor

LEMMA ViewClaims == ASSUME LineageInv, ClaimInv, NEW p \in Processes, View(p) PROVE ClaimInv'
<1> DEFINE a == Current(p)
           n == Len(work[p].ended)
           grants == Granted(work[p].grants, BundlesFor(p, a))
           view == BuildView(ApplicationOf(p), a, grants)
           upstream == {<<d, Len(EndedAs(p, d).attempts)>> :
                          d \in EndedBefore(p, Dependencies(p, a))}
           w == [work[p] EXCEPT !.phase = "invoke", !.grants = grants, !.view = view,
                                !.upstream = upstream, !.attempts = << >>, !.kind = "initial",
                                !.failures = 0, !.repairs = 0]
<1>1. At(p, "view") /\ "view" \in Phases \ {"start"} /\ "view" \in Working
  BY DEF View, Phases, Working
<1>2. /\ work[p].phase = "view" /\ DOMAIN work[p] = DOMAIN Fresh /\ n \in 0..11
  BY <1>1, AtWork
<1>3. RunNests(work[p])
  BY <1>2 DEF ClaimInv, RunFits
<1>4. \A g \in grants : GrantNests(n, g)
  BY <1>1, <1>2, <1>3, BundlesNest DEF Granted, RunNests
<1>5. view.refs = {g.object : g \in {h \in grants : h.category \in Allow(Contract(a))}}
  BY DEF BuildView, Object
<1>6. scenario' = scenario /\ journals' = journals
      /\ (work' = [work EXCEPT ![p] = Fresh] \/ Goto(p, w))
  BY DEF View, Finish
<1>7. /\ w.phase = "invoke" /\ w.grants = grants /\ w.view = view
      /\ w.attempts = << >> /\ w.ended = work[p].ended
  BY <1>2 DEF Fresh
<1> HIDE DEF w, view, grants, a
<1>8. ViewNests(n, view)
  <2>1. CASE n < 11
    <3>1. n # 11
      <4>1. \A m \in 0..11 : m < 11 => m # 11
        OBVIOUS
      <4>2. n \in 0..11
        BY <1>2
      <4> HIDE DEF n
      <4>3. QED
        BY <2>1, <4>1, <4>2
    <3>2. \A g \in grants : Deep4(g.object)
      BY <1>4, <3>1 DEF GrantNests
    <3>3. QED
      BY <2>1, <1>5, <3>2 DEF ViewNests, Deep5
  <2>2. CASE ~(n < 11)
    <3>1. \A g \in grants : Deep7(g.object)
      BY <1>4, Deeper DEF GrantNests
    <3>2. QED
      BY <2>2, <1>5, <3>1 DEF ViewNests, Deep8
  <2>3. QED
    BY <2>1, <2>2
<1>9. DOMAIN << >> = {}
  OBVIOUS
<1>10. RunFits(journals, w)
  BY <1>3, <1>4, <1>7, <1>8, <1>9 DEF RunFits, RunNests, RunClaims, ReceiptsNest
<1>11. QED
  BY <1>6, <1>10, Thinks

LEMMA InvokeClaims == ASSUME LineageInv, ClaimInv, NEW p \in Processes, Invoke(p) PROVE ClaimInv'
<1>1. At(p, "invoke") /\ "invoke" \in Phases \ {"start"}
  BY DEF Invoke, Phases, Working, Asking
<1>2. work[p].phase = "invoke" /\ DOMAIN work[p] = DOMAIN Fresh
  BY <1>1, AtWork
<1>3. RunNests(work[p])
  BY <1>2 DEF ClaimInv, RunFits
<1>4. scenario' = scenario /\ journals' = journals
  BY DEF Invoke
<1>5. ASSUME NEW response, Goto(p, [work[p] EXCEPT !.phase = "record", !.response = response])
      PROVE  ClaimInv'
  <2> DEFINE w == [work[p] EXCEPT !.phase = "record", !.response = response]
  <2>1. /\ w.phase = "record" /\ w.grants = work[p].grants
        /\ w.view = work[p].view /\ w.attempts = work[p].attempts /\ w.ended = work[p].ended
    BY <1>2 DEF Fresh
  <2>2. Goto(p, w)
    BY <1>5
  <2> HIDE DEF w
  <2>3. RunFits(journals, w)
    BY <1>2, <1>3, <2>1 DEF RunFits, RunNests, RunClaims, Working, Asking
  <2>4. QED
    BY <1>4, <2>2, <2>3, Thinks
<1>6. CASE work' = [work EXCEPT ![p] = Fresh]
  BY <1>4, <1>6, Thinks
<1>7. QED
  BY <1>5, <1>6 DEF Invoke, Finish

\* A receipt refers to its view, to the ledger of what was opened of it, and less.
LEMMA ReceiptNests ==
    ASSUME NEW application, NEW view, NEW upstream, NEW attempt, NEW kind, NEW response,
           NEW n \in 0..11, ViewNests(n, view)
    PROVE  LET receipt == Receipt(application, view, upstream, attempt, kind, response)
           IN IF n < 11 THEN Deep6(receipt) ELSE Deep9(receipt)
<1> DEFINE receipt == Receipt(application, view, upstream, attempt, kind, response)
           a == view.value.assignment
           first == ApplicationObject(application)
           output == OutputObject(a, response)
           ledger == Ledger(view, attempt)
<1>1. receipt.refs = {first, view, ledger, output}
  BY DEF Receipt, Object
<1>2. first.refs = {Object("episode_package", application.episode, {})}
  BY DEF ApplicationObject, Object
<1>3. Deep1(first)
  BY <1>2 DEF Deep1, Deep0, Object
<1>4. Deep0(output)
  BY DEF OutputObject, Deep0, Object
<1>5. ledger.refs = view.refs
  BY DEF Ledger, Object
<1> HIDE DEF receipt, first, output, ledger
<1>6. CASE n < 11
  <2>1. Deep5(view) /\ Deep5(ledger)
    BY <1>5, <1>6 DEF ViewNests, Deep5
  <2>2. Deep5(first) /\ Deep5(output)
    BY <1>3, <1>4, Deeper
  <2>3. Deep6(receipt)
    BY <1>1, <2>1, <2>2 DEF Deep6
  <2>4. QED
    BY <1>6, <2>3 DEF receipt
<1>7. CASE ~(n < 11)
  <2>1. Deep8(view) /\ Deep8(ledger)
    BY <1>5, <1>7 DEF ViewNests, Deep8
  <2>2. Deep8(first) /\ Deep8(output)
    BY <1>3, <1>4, Deeper
  <2>3. Deep9(receipt)
    BY <1>1, <2>1, <2>2 DEF Deep9
  <2>4. QED
    BY <1>7, <2>3 DEF receipt
<1>8. QED
  BY <1>6, <1>7

LEMMA RecordClaims == ASSUME LineageInv, ClaimInv, NEW p \in Processes, Record(p) PROVE ClaimInv'
<1> DEFINE w == work[p]
           n == Len(w.ended)
           application == ApplicationOf(p)
           attempt == Len(w.attempts) + 1
           status == StatusOf(Current(p), w.view, w.response)
           receipt == Receipt(application, w.view, w.upstream, attempt, w.kind, w.response)
           event == ExposureEvent(application, w.view, attempt)
           more == Append(w.attempts, receipt)
           next == [w EXCEPT !.phase = NextPhase(w, status), !.attempts = more,
                      !.failures = @ + IF status = "transport-failed" THEN 1 ELSE 0,
                      !.repairs = @ + IF status = "schema-invalid" THEN 1 ELSE 0,
                      !.kind = IF status = "transport-failed" THEN "transport-retry"
                               ELSE "schema-repair"]
<1>1. At(p, "record") /\ "record" \in Phases \ {"start"} /\ "record" \in Working /\ "record" \in Asking
  BY DEF Record, Phases, Working, Asking
<1>2. /\ w.phase = "record" /\ DOMAIN w = DOMAIN Fresh
      /\ RunHolds(journals["analysis"], journals["access"], application, w)
      /\ n \in 0..11
  BY <1>1, AtWork
<1>3. RunNests(w)
  BY <1>2 DEF ClaimInv, RunFits
<1>4. AppendThen(p, "access", event, next) /\ scenario' = scenario
  BY DEF Record
<1>5. /\ next.phase = NextPhase(w, status)
      /\ next.attempts = more /\ next.ended = w.ended /\ next.view = w.view
      /\ next.grants = w.grants
  BY <1>2 DEF Fresh
<1>6. ViewNests(n, w.view) /\ ReceiptsNest(n, w.attempts)
  BY <1>1, <1>2, <1>3 DEF RunNests
<1>7. IF n < 11 THEN Deep6(receipt) ELSE Deep9(receipt)
  BY <1>2, <1>6, ReceiptNests
<1>8. IsLog(w.attempts)
  BY <1>1, <1>2 DEF RunHolds, TrialHolds
<1>9. /\ Len(w.attempts) \in Nat /\ DOMAIN w.attempts = 1..Len(w.attempts)
      /\ DOMAIN more = 1..(Len(w.attempts) + 1)
      /\ \A i \in 1..Len(w.attempts) : more[i] = w.attempts[i]
      /\ more[Len(w.attempts) + 1] = receipt
  BY <1>8, LogFacts, LongerLog
<1>10. NextPhase(w, status) \in {"invoke", "complete", "incomplete"}
  BY DEF NextPhase
<1> HIDE DEF receipt, event, next, w, status, application, more, n
<1>11. ReceiptsNest(n, more)
  BY <1>6, <1>7, <1>9 DEF ReceiptsNest
<1>12. RunFits(journals', next)
  BY <1>1, <1>2, <1>3, <1>5, <1>6, <1>10, <1>11 DEF RunFits, RunNests, RunClaims, Working, Asking, n
<1>13. "access" \in JournalNames \ {"qualification"}
  BY DEF JournalNames
<1>14. QED
  BY <1>4, <1>12, <1>13, Appends

\* An assignment has ended, and what it leaves nests as deep as what it had.
LEMMA EndNests ==
    ASSUME NEW w, RunNests(w), w.phase \in Asking, IsLog(w.ended), Len(w.ended) \in 0..11,
           NEW ending, ending.attempts = w.attempts,
           ending.status = "complete" => Deep0(ending.output),
           NEW next, next.ended = Append(w.ended, ending),
           next.phase = "freeze" \/ (next.phase = "view" /\ Len(w.ended) + 1 # 12),
           \A g \in next.grants : g \in w.grants \/ Deep4(g.object)
    PROVE  RunNests(next)
<1> DEFINE n == Len(w.ended)
           more == Append(w.ended, ending)
<1>1. /\ DOMAIN w.ended = 1..n /\ Len(more) = n + 1 /\ DOMAIN more = 1..(n + 1)
      /\ \A i \in 1..n : more[i] = w.ended[i]
      /\ more[n + 1] = ending
  BY LogFacts, LongerLog
<1>2. n \in 0..11 /\ next.ended = more /\ w.phase \in Working
  BY DEF Working
<1>3. ReceiptsNest(n, ending.attempts)
  BY DEF RunNests
<1> HIDE DEF more, n
<1>4. ASSUME NEW i \in DOMAIN more
      PROVE  /\ ReceiptsNest(i - 1, more[i].attempts)
             /\ more[i].status = "complete" => Deep0(more[i].output)
  <2>1. CASE i = n + 1
    <3>1. i - 1 = n
      BY <1>2, <2>1
    <3>2. QED
      BY <1>1, <1>3, <2>1, <3>1
  <2>2. CASE i # n + 1
    <3>1. i \in 1..n
      BY <1>1, <1>2, <2>2
    <3>2. QED
      BY <1>1, <3>1 DEF RunNests
  <2>3. QED
    BY <2>1, <2>2
<1>5. ASSUME next.phase \in Working, NEW g \in next.grants
      PROVE  GrantNests(n + 1, g)
  <2>1. next.phase = "view" /\ n + 1 # 12
    BY <1>5 DEF Working, Asking, n
  <2>2. n # 11
    BY <1>2, <2>1
  <2>3. \A h \in w.grants : Deep4(h.object)
    BY <1>2, <2>2 DEF RunNests, GrantNests, n
  <2>4. QED
    BY <2>3 DEF GrantNests
<1>6. next.phase \notin Asking
  BY DEF Asking
<1>7. Len(next.ended) = n + 1
  BY <1>1, <1>2
<1>8. QED
  BY <1>2, <1>4, <1>5, <1>6, <1>7 DEF RunNests

LEMMA CompleteClaims == ASSUME LineageInv, ClaimInv, NEW p \in Processes, Complete(p) PROVE ClaimInv'
<1> DEFINE w == work[p]
           a == Current(p)
           application == ApplicationOf(p)
           output == OutputObject(a, w.response)
           event == CompletionEvent(application, a, output, w.attempts)
           added == {Grant(c, output, {}) : c \in OutputCategory(a)}
           next == [w EXCEPT !.phase = IF Len(w.ended) + 1 = Len(Roster) THEN "freeze" ELSE "view",
                      !.ended = Ended(w, "complete", output), !.grants = Granted(@, added),
                      !.response = None]
           ending == [status |-> "complete", output |-> output, attempts |-> w.attempts,
                      view |-> w.view]
<1>1. At(p, "complete") /\ "complete" \in Phases \ {"start"} /\ "complete" \in Working
      /\ "complete" \in Asking
  BY DEF Complete, Phases, Working, Asking
<1>2. /\ w.phase = "complete" /\ DOMAIN w = DOMAIN Fresh
      /\ RunHolds(journals["analysis"], journals["access"], application, w)
      /\ Len(w.ended) \in 0..11
  BY <1>1, AtWork
<1>3. RunNests(w) /\ IsLog(w.ended)
  BY <1>2 DEF ClaimInv, RunFits, RunHolds
<1>4. AppendThen(p, "analysis", event, next) /\ scenario' = scenario
  BY DEF Complete
<1>5. Deep0(output)
  BY DEF OutputObject, Deep0, Object
<1>6. Deep4(output)
  BY <1>5, Deeper
<1>7. /\ next.ended = Append(w.ended, ending)
      /\ next.phase = IF Len(w.ended) + 1 = 12 THEN "freeze" ELSE "view"
      /\ next.grants = Granted(w.grants, added)
  BY <1>2, RosterFacts DEF Fresh, Ended
<1>8. ending.status = "complete" /\ ending.output = output /\ ending.attempts = w.attempts
  OBVIOUS
<1>9. \A g \in added : g.object = output
  BY DEF Grant
<1> HIDE DEF event, next, ending, output, w, application, a, added
<1>10. \A g \in next.grants : g \in w.grants \/ Deep4(g.object)
  BY <1>6, <1>7, <1>9 DEF Granted
<1>11. RunNests(next)
  BY <1>1, <1>2, <1>3, <1>5, <1>7, <1>8, <1>10, EndNests
<1>12. RunFits(journals', next)
  BY <1>7, <1>11 DEF RunFits, RunClaims
<1>13. "analysis" \in JournalNames \ {"qualification"}
  BY DEF JournalNames
<1>14. QED
  BY <1>4, <1>12, <1>13, Appends

LEMMA GiveUpClaims == ASSUME LineageInv, ClaimInv, NEW p \in Processes, GiveUp(p) PROVE ClaimInv'
<1> DEFINE w == work[p]
           application == ApplicationOf(p)
           event == IncompletionEvent(application, Current(p), w.attempts)
           next == [w EXCEPT !.phase = "freeze", !.ended = Ended(w, "incomplete", None),
                      !.response = None]
           ending == [status |-> "incomplete", output |-> None, attempts |-> w.attempts,
                      view |-> w.view]
<1>1. At(p, "incomplete") /\ "incomplete" \in Phases \ {"start"} /\ "incomplete" \in Working
      /\ "incomplete" \in Asking
  BY DEF GiveUp, Phases, Working, Asking
<1>2. /\ w.phase = "incomplete" /\ DOMAIN w = DOMAIN Fresh
      /\ RunHolds(journals["analysis"], journals["access"], application, w)
      /\ Len(w.ended) \in 0..11
  BY <1>1, AtWork
<1>3. RunNests(w) /\ IsLog(w.ended)
  BY <1>2 DEF ClaimInv, RunFits, RunHolds
<1>4. AppendThen(p, "analysis", event, next) /\ scenario' = scenario
  BY DEF GiveUp
<1>5. /\ next.ended = Append(w.ended, ending)
      /\ next.phase = "freeze" /\ next.grants = w.grants
  BY <1>2 DEF Fresh, Ended
<1>6. ending.status = "incomplete" /\ ending.attempts = w.attempts
  OBVIOUS
<1> HIDE DEF event, next, ending, w, application
<1>7. ending.status # "complete"
  BY <1>6
<1>8. RunNests(next)
  BY <1>1, <1>2, <1>3, <1>5, <1>6, <1>7, EndNests
<1>9. RunFits(journals', next)
  BY <1>5, <1>8 DEF RunFits, RunClaims
<1>10. "analysis" \in JournalNames \ {"qualification"}
  BY DEF JournalNames
<1>11. QED
  BY <1>4, <1>9, <1>10, Appends

\* After the assignments only the phase, the lineage and the heads matter.
LEMMA NestsOn ==
    ASSUME NEW w, RunNests(w), NEW next, next.ended = w.ended,
           next.phase \in {"checkpoint", "recheck", "claim"}
    PROVE  RunNests(next)
<1>1. next.phase \notin Working /\ next.phase \notin Asking
  BY DEF Working, Asking
<1>2. QED
  BY <1>1 DEF RunNests

LEMMA FreezeClaims == ASSUME LineageInv, ClaimInv, NEW p \in Processes, Freeze(p) PROVE ClaimInv'
<1> DEFINE w == work[p]
           application == ApplicationOf(p)
           lineage == LineageObject(application, w.ended)
           eligibility == Eligibility(application, Lineage(application, w.ended))
           first == {ApplicationObject(application), eligibility}
           receipts == UNION {Range(w.ended[i].attempts) : i \in DOMAIN w.ended}
           outputs == {w.ended[i].output : i \in DOMAIN w.ended} \ {None}
           event == FreezeEvent(application, lineage)
           next == [w EXCEPT !.phase = "checkpoint", !.lineage = lineage]
<1>1. At(p, "freeze") /\ "freeze" \in Phases \ {"start"}
  BY DEF Freeze, Phases
<1>2. /\ DOMAIN w = DOMAIN Fresh /\ w.phase = "freeze"
      /\ RunHolds(journals["analysis"], journals["access"], application, w)
  BY <1>1, AtWork
<1>3. RunNests(w)
  BY <1>2 DEF ClaimInv, RunFits
<1>4. AppendThen(p, "analysis", event, next) /\ scenario' = scenario
  BY DEF Freeze
<1>5. event.key[1] = "analysis-lineage" /\ event.payload.lineage = lineage
  BY DEF FreezeEvent, Event
<1>6. next.ended = w.ended /\ next.phase = "checkpoint" /\ next.lineage = lineage
  BY <1>2 DEF Fresh
<1>7. lineage.refs = first \cup receipts \cup outputs
  BY DEF LineageObject, Object
<1>8. \A o \in first : Deep9(o)
  <2>1. ApplicationObject(application).refs = {Object("episode_package", application.episode, {})}
    BY DEF ApplicationObject, Object
  <2>2. Deep1(ApplicationObject(application))
    BY <2>1 DEF Deep1, Deep0, Object
  <2>3. Deep0(eligibility)
    BY DEF Eligibility, Deep0, Object
  <2>4. QED
    BY <2>2, <2>3, Deeper
<1>9. \A o \in receipts : Deep9(o)
  <2> SUFFICES ASSUME NEW i \in DOMAIN w.ended, NEW o \in Range(w.ended[i].attempts) PROVE Deep9(o)
    OBVIOUS
  <2>1. ReceiptsNest(i - 1, w.ended[i].attempts)
    BY <1>3 DEF RunNests
  <2>2. Deep6(o) \/ Deep9(o)
    BY <2>1 DEF ReceiptsNest, Range
  <2>3. QED
    BY <2>2, Deeper
<1>10. \A o \in outputs : Deep9(o)
  <2> SUFFICES ASSUME NEW i \in DOMAIN w.ended, w.ended[i].output # None
               PROVE  Deep9(w.ended[i].output)
    OBVIOUS
  <2>1. w.ended[i].status = "complete"
    BY <1>2 DEF RunHolds, EndingHolds
  <2>2. Deep0(w.ended[i].output)
    BY <1>3, <2>1 DEF RunNests
  <2>3. QED
    BY <2>2, Deeper
<1> HIDE DEF event, next, w, application, lineage, first, receipts, outputs
<1>11. Deep10(lineage)
  BY <1>7, <1>8, <1>9, <1>10 DEF Deep10
<1>12. ASSUME event \in Range(journals'["analysis"])
       PROVE  RunFits(journals', next)
  <2>1. Says(journals'["analysis"], lineage)
    BY <1>5, <1>12 DEF Says
  <2>2. RunNests(next)
    BY <1>3, <1>6, NestsOn
  <2>3. QED
    BY <1>6, <1>11, <2>1, <2>2 DEF RunFits, RunClaims
<1>13. "analysis" \in JournalNames \ {"qualification"}
  BY DEF JournalNames
<1>14. QED
  BY <1>4, <1>12, <1>13, Appends

LEMMA ReadHeadsClaims ==
    ASSUME LineageInv, ClaimInv, NEW p \in Processes, ReadHeads(p) PROVE ClaimInv'
<1> DEFINE w == work[p]
           heads == Checkpoint(journals)
           next == [w EXCEPT !.phase = "recheck", !.heads = heads]
<1>1. At(p, "checkpoint") /\ "checkpoint" \in Phases \ {"start"}
  BY DEF ReadHeads, Phases
<1>2. DOMAIN w = DOMAIN Fresh /\ w.phase = "checkpoint"
  BY <1>1, AtWork
<1>3. RunNests(w) /\ Deep10(w.lineage) /\ Says(journals["analysis"], w.lineage)
  BY <1>2 DEF ClaimInv, RunFits, RunClaims
<1>4. Goto(p, next) /\ scenario' = scenario /\ journals' = journals
  BY DEF ReadHeads
<1>5. /\ next.ended = w.ended /\ next.phase = "recheck" /\ next.lineage = w.lineage
      /\ next.heads = heads
  BY <1>2 DEF Fresh
<1>6. /\ heads.kind = "workspace_checkpoint" /\ heads.refs = {}
      /\ DOMAIN heads.value = JournalNames
      /\ \A name \in JournalNames : /\ heads.value[name].sequence = Len(journals[name])
                                    /\ heads.value[name].head = journals[name]
  BY DEF Checkpoint, Object, HeadOf
<1>7. \A name \in JournalNames : IsLog(journals[name]) /\ Len(journals[name]) \in Nat
  BY LogFacts DEF LineageInv, JournalsHold
<1> HIDE DEF next, w, heads
<1>8. Pins(heads, journals)
  BY <1>6, <1>7 DEF Pins
<1>9. "analysis" \in JournalNames
  BY DEF JournalNames
<1>10. PinsFrozen(heads, journals, w.lineage)
  BY <1>3, <1>6, <1>8, <1>9 DEF PinsFrozen
<1>11. RunFits(journals, next)
  <2>1. RunNests(next)
    BY <1>3, <1>5, NestsOn
  <2>2. QED
    BY <1>3, <1>5, <1>10, <2>1 DEF RunFits, RunClaims
<1>12. QED
  BY <1>4, <1>11, Thinks

LEMMA RecheckClaims ==
    ASSUME LineageInv, ClaimInv, NEW p \in Processes, Recheck(p) PROVE ClaimInv'
<1> DEFINE w == work[p]
           next == [w EXCEPT !.phase = "claim"]
<1>1. At(p, "recheck") /\ "recheck" \in Phases \ {"start"}
  BY DEF Recheck, Phases
<1>2. DOMAIN w = DOMAIN Fresh /\ w.phase = "recheck"
  BY <1>1, AtWork
<1>3. RunNests(w) /\ Deep10(w.lineage) /\ PinsFrozen(w.heads, journals, w.lineage)
  BY <1>2 DEF ClaimInv, RunFits, RunClaims
<1>4. /\ scenario' = scenario /\ journals' = journals
      /\ work' = [work EXCEPT ![p] = Fresh] \/ Goto(p, next)
  BY DEF Recheck, Finish
<1>5. /\ next.ended = w.ended /\ next.phase = "claim" /\ next.lineage = w.lineage
      /\ next.heads = w.heads
  BY <1>2 DEF Fresh
<1> HIDE DEF next, w
<1>6. RunFits(journals, next)
  <2>1. RunNests(next)
    BY <1>3, <1>5, NestsOn
  <2>2. QED
    BY <1>3, <1>5, <2>1 DEF RunFits, RunClaims
<1>7. QED
  BY <1>4, <1>6, Thinks

LEMMA ClaimClaims == ASSUME LineageInv, ClaimInv, NEW p \in Processes, Claim(p) PROVE ClaimInv'
<1> DEFINE w == work[p]
           application == ApplicationOf(p)
           manifest == ClaimOf(application, w.heads, w.lineage)
           event == ClaimEvent(application, manifest)
<1>1. At(p, "claim") /\ "claim" \in Phases \ {"start"}
  BY DEF Claim, Phases
<1>2. w.phase = "claim"
  BY <1>1, AtWork
<1>3. Deep10(w.lineage) /\ PinsFrozen(w.heads, journals, w.lineage)
  BY <1>2 DEF ClaimInv, RunFits, RunClaims
<1>4. scenario' = scenario /\ work' = [work EXCEPT ![p] = Fresh]
  BY DEF Claim, Finish
<1>5. event.payload.manifest = manifest
  BY DEF ClaimEvent, Event
<1>6. JournalsHold /\ "qualification" \in JournalNames
  BY DEF LineageInv, JournalNames
<1>7. CASE journals' = journals
  BY <1>4, <1>7, Thinks
<1>8. CASE journals' # journals
  <2>1. /\ journals' = Appended("qualification", event)
        /\ \A o \in manifest.objects : IsStored(o)
    BY <1>8 DEF Claim
  <2>2. Grown(journals, journals')
    BY <1>6, <2>1, JournalsGrow
  <2>3. Range(journals'["qualification"]) \subseteq Range(journals["qualification"]) \cup {event}
    BY <1>6, <2>1, JournalStep
  <2>4. ClaimFits(journals, manifest)
    BY <1>3, <2>1 DEF ClaimFits
  <2>5. ClaimFits(journals', manifest)
    BY <2>2, <2>4, PinsStay
  <2> HIDE DEF event, manifest, w
  <2>6. \A other \in Claims' : other \in Claims \/ other = manifest
    BY <1>5, <2>3 DEF Claims, EventsIn
  <2>7. QED
    BY <1>4, <2>2, <2>5, <2>6, Quits
<1>9. QED
  BY <1>7, <1>8

LEMMA CrashClaims == ASSUME LineageInv, ClaimInv, NEW p \in Processes, Crash(p) PROVE ClaimInv'
<1>1. scenario' = scenario /\ journals' = journals /\ work' = [work EXCEPT ![p] = Fresh]
  BY DEF Crash
<1>2. QED
  BY <1>1, Thinks

LEMMA InitClaims == Init => ClaimInv
<1> SUFFICES ASSUME Init PROVE ClaimInv
  OBVIOUS
<1>1. "qualification" \in JournalNames
  BY DEF JournalNames
<1>2. journals["qualification"] = << >>
  BY <1>1 DEF Init
<1>3. Range(<< >>) = {}
  BY DEF Range
<1>4. Claims = {}
  BY <1>2, <1>3 DEF Claims, EventsIn
<1>5. QED
  BY <1>4 DEF Init, ClaimInv, RunFits, Fresh

LEMMA NextClaims == ASSUME LineageInv, ClaimInv, [Next]_vars PROVE ClaimInv'
<1>1. CASE Next
  <2>1. PICK p \in Processes :
          \/ Start(p) \/ View(p) \/ Invoke(p) \/ Record(p) \/ Complete(p) \/ GiveUp(p)
          \/ Freeze(p) \/ ReadHeads(p) \/ Recheck(p) \/ Claim(p) \/ Crash(p)
    BY <1>1 DEF Next
  <2>2. QED
    BY <2>1, StartClaims, ViewClaims, InvokeClaims, RecordClaims, CompleteClaims, GiveUpClaims,
       FreezeClaims, ReadHeadsClaims, RecheckClaims, ClaimClaims, CrashClaims
<1>2. CASE UNCHANGED vars
  BY <1>2 DEF vars, ClaimInv, Claims, EventsIn, ClaimFits, IsStored
<1>3. QED
  BY <1>1, <1>2

LEMMA SpecClaims == Spec => [](LineageInv /\ ClaimInv)
<1>1. Init => LineageInv /\ ClaimInv
  BY InitHolds, InitClaims
<1>2. LineageInv /\ ClaimInv /\ [Next]_vars => LineageInv' /\ ClaimInv'
  BY NextHolds, NextClaims
<1>3. QED
  BY <1>1, <1>2, PTL DEF Spec

-----------------------------------------------------------------------------
(* Claims that stand *)

\* What pins the beginning of the journals verifies against them, and gives the capsule
\* journals that verify by themselves.
LEMMA PinsVerify ==
    ASSUME JournalsHold, NEW heads, Pins(heads, journals), NEW name \in JournalNames
    PROVE  LET pinned == heads.value[name]
               proof == SubSeq(journals[name], 1, Len(pinned.head))
           IN /\ pinned.sequence = Len(pinned.head) /\ (pinned.sequence = 0) = (pinned.head = << >>)
              /\ pinned.sequence <= Len(journals[name])
              /\ proof = pinned.head /\ KeysUnique(proof)
<1> DEFINE pinned == heads.value[name]
           head == pinned.head
           log == journals[name]
           proof == SubSeq(log, 1, Len(head))
<1>1. /\ pinned.sequence = Len(head) /\ IsLog(head) /\ Len(head) <= Len(log)
      /\ \A i \in 1..Len(head) : log[i] = head[i]
  BY DEF Pins
<1>2. IsLog(log) /\ KeysUnique(log)
  BY DEF JournalsHold
<1>3. Len(head) \in Nat /\ Len(log) \in Nat /\ DOMAIN log = 1..Len(log)
      /\ (head # << >> => Len(head) >= 1)
  BY <1>1, <1>2, LogFacts
<1>4. Len(<< >>) = 0
  OBVIOUS
<1> HIDE DEF pinned, log
<1>5. (pinned.sequence = 0) = (head = << >>)
  BY <1>1, <1>3, <1>4
<1>6. Len(head) \in 0..Len(log)
  BY <1>1, <1>3
<1>7. /\ IsLog(proof) /\ Len(proof) = Len(head) /\ DOMAIN proof = 1..Len(head)
      /\ \A i \in 1..Len(head) : proof[i] = log[i]
  BY <1>2, <1>6, PrefixLog
<1> HIDE DEF proof
<1>8. proof = head
  BY <1>1, <1>7, SameLog
<1>9. KeysUnique(proof)
  <2>1. \A i \in 1..Len(head) : i \in 1..Len(log)
    BY <1>1, <1>3
  <2>2. QED
    BY <1>2, <1>3, <1>7, <2>1 DEF KeysUnique
<1>10. QED
  BY <1>1, <1>5, <1>8, <1>9 DEF pinned, proof, log

LEMMA InvClaims == LineageInv /\ ClaimInv => ClaimsStand
<1> SUFFICES ASSUME LineageInv, ClaimInv, NEW manifest \in Claims
             PROVE  /\ ManifestVerifies(manifest, journals)
                    /\ CapsuleVerifies(Capsule(manifest, journals))
                    /\ \A o \in manifest.objects : IsStored(o)
                    /\ \A lineage \in manifest.roots :
                          /\ lineage.refs \subseteq manifest.objects
                          /\ \E e \in Range(manifest.checkpoint.value["analysis"].head) :
                                e.key[1] = "analysis-lineage" /\ e.payload.lineage = lineage
  BY DEF ClaimsStand
<1>1. PICK application, heads, lineage :
          /\ manifest = ClaimOf(application, heads, lineage)
          /\ Deep10(lineage) /\ PinsFrozen(heads, journals, lineage)
          /\ \A o \in manifest.objects : IsStored(o)
  BY DEF ClaimInv, ClaimFits
<1> DEFINE base == BaseOf(manifest)
           capsule == Capsule(manifest, journals)
<1>2. /\ manifest.checkpoint = heads /\ manifest.roots = {lineage}
      /\ manifest.schemas = {SchemaBundle} /\ manifest.verifiers = {VerifierBundle}
      /\ manifest.objects = Closure({heads} \cup {lineage} \cup {SchemaBundle} \cup {VerifierBundle})
  BY <1>1 DEF ClaimOf, Manifest
<1>3. base = {heads} \cup {lineage} \cup {SchemaBundle} \cup {VerifierBundle}
  BY <1>2 DEF BaseOf
<1>4. Pins(heads, journals) /\ Says(heads.value["analysis"].head, lineage)
  BY <1>1 DEF PinsFrozen
<1>5. Deep0(heads) /\ Deep0(SchemaBundle) /\ Deep0(VerifierBundle)
  BY <1>4 DEF Pins, Deep0, SchemaBundle, VerifierBundle, Object
<1>6. Deep10(heads) /\ Deep10(SchemaBundle) /\ Deep10(VerifierBundle)
  BY <1>5, Deeper
<1>7. \A o \in base : Deep10(o)
  BY <1>1, <1>3, <1>6
<1> HIDE DEF base
<1>8. /\ base \subseteq Closure(base)
      /\ \A o \in Closure(base) : o.refs \subseteq Closure(base)
  BY <1>7, ClosureCloses
<1>9. manifest.objects = Closure(base)
  BY <1>2, <1>3
<1>10. \A name \in JournalNames :
         LET pinned == heads.value[name]
             proof == SubSeq(journals[name], 1, Len(pinned.head))
         IN /\ pinned.sequence = Len(pinned.head) /\ (pinned.sequence = 0) = (pinned.head = << >>)
            /\ pinned.sequence <= Len(journals[name])
            /\ proof = pinned.head /\ KeysUnique(proof)
  BY <1>4, PinsVerify DEF LineageInv
<1>11. IsCheckpoint(heads)
  BY <1>4, <1>10 DEF IsCheckpoint, Pins
<1>12. CheckpointVerifies(heads, journals)
  BY <1>10, <1>11 DEF CheckpointVerifies, HeadOf
<1>13. ManifestVerifies(manifest, journals)
  BY <1>2, <1>9, <1>12 DEF ManifestVerifies, base
<1>14. CapsuleVerifies(capsule)
  <2>1. /\ capsule.manifest = manifest /\ capsule.checkpoint = heads
        /\ capsule.listed = manifest.objects /\ capsule.objects = manifest.objects
        /\ \A name \in JournalNames :
              capsule.proofs[name] = SubSeq(journals[name], 1, Len(heads.value[name].head))
    BY <1>2 DEF Capsule, JournalPrefix
  <2> HIDE DEF capsule
  <2>2. heads \in manifest.objects
    BY <1>3, <1>8, <1>9
  <2>3. \A name \in JournalNames :
           LET pinned == heads.value[name]
           IN /\ PrefixVerifies(capsule.proofs[name], pinned.head)
              /\ Len(capsule.proofs[name]) = pinned.sequence
    BY <1>10, <2>1 DEF PrefixVerifies, HeadOf
  <2>4. QED
    BY <1>2, <1>8, <1>9, <1>11, <2>1, <2>2, <2>3 DEF CapsuleVerifies
<1>15. lineage.refs \subseteq manifest.objects
  BY <1>3, <1>8, <1>9
<1>16. QED
  BY <1>1, <1>2, <1>4, <1>13, <1>14, <1>15 DEF Says
-----------------------------------------------------------------------------
(* What is promised of every behaviour *)

\* Whoever runs, dies and runs again, no journaled exposure shows an analyst a side of
\* a comparison, the truth of the world before the attributions, or an output its
\* contract does not name (build_analysis_view and the grants of run_analysis_lineage).
THEOREM AnalystsAlwaysIsolated == Spec => []AnalystsAreIsolated
<1>1. QED
  BY SpecLineage, InvIsolates, PTL

\* Of each assignment of an application one answer is frozen, whoever asked again:
\* nobody is shown another, and a lineage that is frozen as eligible has all twelve.
THEOREM OneAnswerAlwaysStands == Spec => []OneAnswerStands
<1>1. QED
  BY SpecLineage, InvAnswers, PTL

\* However an assignment ended, its retries kept their limits and only its last
\* attempt can have been a valid answer (run_analysis_assignment).
THEOREM AttemptsAlwaysBounded == Spec => []AttemptsAreBounded
<1>1. QED
  BY SpecLineage, InvBounds, PTL

\* Whatever the journals become after it, a claim that was frozen verifies against them and
\* from its own capsule, its evidence is all there is to be reached and all stored, and its
\* checkpoint holds the lineage it is about (create_claim_manifest, export_claim_capsule).
THEOREM ClaimsAlwaysStand == Spec => []ClaimsStand
<1>1. QED
  BY SpecClaims, InvClaims, PTL

-----------------------------------------------------------------------------
\* What the difficulty analyses compute of their values, and Refused where a call raises.
CONSTANT Refused
Values == INSTANCE Hardening

-----------------------------------------------------------------------------
(* What is scheduled *)

\* A priority vector of n parts, and the cost and the latency.
IsPackage(package, n) ==
    /\ package.vector \in Seq(Int) /\ Len(package.vector) = n
    /\ package.cost \in Nat /\ package.latency \in Nat /\ package.id \in Int

LEMMA VectorHas ==
    ASSUME NEW n \in Nat, NEW p, IsPackage(p, n)
    PROVE  /\ Values!PriorityVector(p) \in Seq(Int)
           /\ Len(Values!PriorityVector(p)) = n + 2
<1> DEFINE first == Append(p.vector, 0 - p.cost)
<1>1. /\ p.vector \in Seq(Int) /\ Len(p.vector) = n
      /\ (0 - p.cost) \in Int /\ (0 - p.latency) \in Int
  BY DEF IsPackage
<1>2. first \in Seq(Int) /\ Len(first) = n + 1
  BY <1>1, AppendProperties
<1>3. Values!PriorityVector(p) = Append(first, 0 - p.latency)
  BY DEF Values!PriorityVector
<1> HIDE DEF first
<1>4. QED
  BY <1>1, <1>2, <1>3, AppendProperties

\* Of two packages one goes first: the first part in which their vectors differ tells,
\* and if none does, the id.
LEMMA SomeGoesFirst ==
    ASSUME NEW n \in Nat, NEW p, NEW q, IsPackage(p, n), IsPackage(q, n), p.id # q.id
    PROVE  Values!GoesFirst(p, q) \/ Values!GoesFirst(q, p)
<1> DEFINE v == Values!PriorityVector(p)
           w == Values!PriorityVector(q)
<1>1. /\ v \in Seq(Int) /\ Len(v) = n + 2 /\ DOMAIN v = 1..(n + 2)
      /\ w \in Seq(Int) /\ Len(w) = n + 2 /\ DOMAIN w = 1..(n + 2)
  <2>1. v \in Seq(Int) /\ Len(v) = n + 2 /\ w \in Seq(Int) /\ Len(w) = n + 2
    BY VectorHas
  <2> HIDE DEF v, w
  <2>2. QED
    BY <2>1, LenProperties
<1> HIDE DEF v, w
<1>2. CASE v = w
  <2>1. p.id < q.id \/ q.id < p.id
    BY DEF IsPackage
  <2>2. QED
    BY <1>2, <2>1 DEF v, w, Values!GoesFirst
<1>3. CASE v # w
  <2> DEFINE differs == {i \in 1..(n + 2) : v[i] # w[i]}
             i == Min(differs)
  <2>1. differs # {}
    <3>1. differs = {} => \A j \in 1..Len(v) : v[j] = w[j]
      BY <1>1
    <3>2. QED
      BY <1>1, <1>3, <3>1, SeqEqual
  <2>2. /\ i \in differs /\ \A j \in differs : i <= j
    <3>1. differs \in SUBSET (1..(n + 2)) /\ n + 2 \in Nat
      OBVIOUS
    <3> HIDE DEF differs
    <3>2. QED
      BY <2>1, <3>1, SmallestIndex
  <2> HIDE DEF i
  <2>3. \A j \in 1..(i - 1) : v[j] = w[j]
    BY <2>2
  <2>4. i \in 1..(n + 2) /\ v[i] \in Int /\ w[i] \in Int /\ v[i] # w[i]
    BY <1>1, <2>2
  <2>5. v[i] > w[i] \/ w[i] > v[i]
    BY <2>4
  <2>6. Values!Precedes(v, w) \/ Values!Precedes(w, v)
    BY <1>1, <2>3, <2>4, <2>5 DEF Values!Precedes
  <2>7. QED
    BY <2>6 DEF v, w, Values!GoesFirst
<1>4. QED
  BY <1>2, <1>3

LEMMA GoesFirstOrders ==
    ASSUME NEW n \in Nat, NEW p, NEW q, NEW r, IsPackage(p, n), IsPackage(q, n), IsPackage(r, n),
           Values!GoesFirst(p, q), Values!GoesFirst(q, r)
    PROVE  Values!GoesFirst(p, r)
<1> DEFINE u == Values!PriorityVector(p)
           v == Values!PriorityVector(q)
           w == Values!PriorityVector(r)
<1>1. \A x \in {u, v, w} : x \in [1..(n + 2) -> Int]
  <2>1. \A x \in {u, v, w} : x \in Seq(Int) /\ Len(x) = n + 2
    BY VectorHas
  <2> HIDE DEF u, v, w
  <2>2. QED
    BY <2>1, LenProperties
<1>2. p.id \in Int /\ q.id \in Int /\ r.id \in Int
  BY DEF IsPackage
<1>3. /\ Values!Precedes(u, v) \/ (u = v /\ p.id < q.id)
      /\ Values!Precedes(v, w) \/ (v = w /\ q.id < r.id)
  BY DEF Values!GoesFirst
<1> HIDE DEF u, v, w
<1>4. CASE Values!Precedes(u, v) /\ Values!Precedes(v, w)
  <2>1. PICK i \in 1..(n + 2) : u[i] > v[i] /\ \A j \in 1..(i - 1) : u[j] = v[j]
    BY <1>1, <1>4 DEF Values!Precedes
  <2>2. PICK k \in 1..(n + 2) : v[k] > w[k] /\ \A j \in 1..(k - 1) : v[j] = w[j]
    BY <1>1, <1>4 DEF Values!Precedes
  <2>3. \A j \in 1..(n + 2) : u[j] \in Int /\ v[j] \in Int /\ w[j] \in Int
    BY <1>1
  <2>4. CASE i <= k
    <3>1. u[i] > w[i]
      <4>1. v[i] >= w[i]
        <5>1. i = k \/ i \in 1..(k - 1)
          BY <2>4
        <5>2. QED
          BY <2>2, <2>3, <5>1
      <4>2. QED
        BY <2>1, <2>3, <4>1
    <3>2. \A j \in 1..(i - 1) : u[j] = w[j]
      <4>1. \A j \in 1..(i - 1) : j \in 1..(k - 1)
        BY <2>4
      <4>2. QED
        BY <2>1, <2>2, <4>1
    <3>3. Values!Precedes(u, w)
      BY <1>1, <3>1, <3>2 DEF Values!Precedes
    <3>4. QED
      BY <3>3 DEF Values!GoesFirst, u, w
  <2>5. CASE k < i
    <3>1. u[k] > w[k]
      <4>1. k \in 1..(i - 1)
        BY <2>5
      <4>2. QED
        BY <2>1, <2>2, <2>3, <4>1
    <3>2. \A j \in 1..(k - 1) : u[j] = w[j]
      <4>1. \A j \in 1..(k - 1) : j \in 1..(i - 1)
        BY <2>5
      <4>2. QED
        BY <2>1, <2>2, <4>1
    <3>3. Values!Precedes(u, w)
      BY <1>1, <3>1, <3>2 DEF Values!Precedes
    <3>4. QED
      BY <3>3 DEF Values!GoesFirst, u, w
  <2>6. QED
    BY <2>4, <2>5
<1>5. CASE u = v \/ v = w
  <2>1. Values!Precedes(u, w) \/ (u = w /\ p.id < r.id)
    BY <1>2, <1>3, <1>5
  <2>2. QED
    BY <2>1 DEF Values!GoesFirst, u, w
<1>6. QED
  BY <1>3, <1>4, <1>5

\* Nothing goes before itself.
LEMMA NothingFirstOfItself ==
    ASSUME NEW n \in Nat, NEW p, IsPackage(p, n)
    PROVE  ~Values!GoesFirst(p, p)
<1> DEFINE v == Values!PriorityVector(p)
<1>1. v \in [1..(n + 2) -> Int] /\ p.id \in Int
  <2>1. p.id \in Int
    BY DEF IsPackage
  <2>2. v \in Seq(Int) /\ Len(v) = n + 2
    BY VectorHas
  <2> HIDE DEF v
  <2>3. QED
    BY <2>1, <2>2, LenProperties
<1> HIDE DEF v
<1>2. ~Values!Precedes(v, v)
  BY <1>1 DEF Values!Precedes
<1>3. QED
  BY <1>1, <1>2 DEF Values!GoesFirst, v

LEMMA SomethingGoesFirst ==
    ASSUME NEW n \in Nat, NEW S, IsFiniteSet(S), S # {}, \A p \in S : IsPackage(p, n),
           \A p, q \in S : p.id = q.id => p = q
    PROVE  \E p \in S : \A q \in S \ {p} : Values!GoesFirst(p, q)
<1> DEFINE before(p) == {q \in S : Values!GoesFirst(q, p)}
<1>1. \A p \in S : IsFiniteSet(before(p)) /\ Cardinality(before(p)) \in Nat
  BY FS_Subset, FS_CardinalityType
<1> DEFINE counts == {Cardinality(before(p)) : p \in S}
<1>2. counts \in SUBSET Nat /\ counts # {}
  <2>1. PICK p \in S : TRUE
    OBVIOUS
  <2>2. Cardinality(before(p)) \in counts
    OBVIOUS
  <2>3. \A d \in counts : d \in Nat
    BY <1>1
  <2>4. QED
    <3> HIDE DEF counts, before
    <3>1. QED
      BY <2>2, <2>3
<1>3. PICK c \in counts : \A d \in counts : ~ (<<d, c>> \in OpToRel(<, Nat))
  <2> HIDE DEF counts
  <2>1. QED
    BY <1>2, NatLessThanWellFounded, WFMin
<1>4. PICK p \in S : c = Cardinality(before(p))
  OBVIOUS
<1>5. ASSUME NEW q \in S \ {p} PROVE Values!GoesFirst(p, q)
  <2> SUFFICES ASSUME ~Values!GoesFirst(p, q) PROVE FALSE
    OBVIOUS
  <2>1. Values!GoesFirst(q, p)
    BY SomeGoesFirst
  <2>2. before(q) \subseteq before(p)
    BY <2>1, GoesFirstOrders
  <2>3. q \in before(p) /\ q \notin before(q)
    BY <2>1, NothingFirstOfItself
  <2>4. Cardinality(before(q)) <= Cardinality(before(p))
        /\ Cardinality(before(q)) # Cardinality(before(p))
    <3>1. before(q) # before(p)
      BY <2>3
    <3>2. IsFiniteSet(before(p)) /\ before(q) \in SUBSET before(p)
      BY <1>1, <2>2
    <3> HIDE DEF before
    <3>3. QED
      BY <3>1, <3>2, FS_Subset
  <2>5. /\ Cardinality(before(q)) \in counts /\ Cardinality(before(q)) \in Nat
        /\ Cardinality(before(p)) \in Nat
    BY <1>1
  <2>6. Cardinality(before(q)) < c
    <3> HIDE DEF before, counts
    <3>1. QED
      BY <1>4, <2>4, <2>5
  <2>7. QED
    <3> HIDE DEF before, counts
    <3>1. QED
      BY <1>2, <1>3, <1>4, <2>5, <2>6 DEF OpToRel
<1>6. QED
  BY <1>5

\* A work queue of packages with priority vectors of n parts; no two share an id.
IsQueue(packages, n) ==
    /\ IsFiniteSet(packages) /\ None \notin packages
    /\ \A p \in packages : IsPackage(p, n)
    /\ \A p, q \in packages : p.id = q.id => p = q
IsEnvelope(budget) ==
    budget \in [limits : [Values!ProtectedBudgets -> Int], spent : [Values!ProtectedBudgets -> Int]]
\* The sealed handles that are used up when a package has been taken.
UsedBy(package, used) == used \cup ({package.handle} \ {None})

\* Whatever the queue, the budgets and the handles: the scheduler takes the first of the
\* packages that it can afford, never raises in spending for it, and keeps every budget
\* within its limit and the budgets of Standing as they were; and what it could not take
\* before it cannot take afterwards, nor anything on the same sealed handle, so that to
\* call it until it stops is one pass over the queue (schedule_diagnostic_work).
THEOREM SchedulingIsOnePass ==
    ASSUME NEW n \in Nat, NEW packages, IsQueue(packages, n), NEW budget, IsEnvelope(budget),
           NEW handles, NEW used,
           \A c \in Values!ProtectedBudgets : Values!Remaining(budget, c) >= 0
    PROVE  LET decision == Values!Schedule(packages, budget, handles, used)
               taken == decision.selected
           IN  \/ /\ taken = None /\ decision.budget = budget
                  /\ \A p \in packages : ~Values!Eligible(p, budget, handles, used)
               \/ /\ taken \in packages /\ Values!Eligible(taken, budget, handles, used)
                  /\ \A p \in packages \ {taken} :
                        Values!Eligible(p, budget, handles, used) => Values!GoesFirst(taken, p)
                  /\ IsEnvelope(decision.budget)
                  /\ \A c \in Values!ProtectedBudgets : Values!Remaining(decision.budget, c) >= 0
                  /\ \A c \in {"standing", "invalid-replacements"} :
                        decision.budget.spent[c] = budget.spent[c]
                  /\ \A p \in packages :
                        \/ ~Values!Eligible(p, budget, handles, used)
                        \/ p.handle # None /\ p.handle = taken.handle
                        => ~Values!Eligible(p, decision.budget, handles, UsedBy(taken, used))
<1> DEFINE decision == Values!Schedule(packages, budget, handles, used)
           eligible == {p \in packages : Values!Eligible(p, budget, handles, used)}
           first == CHOOSE p \in eligible : \A q \in eligible \ {p} : Values!GoesFirst(p, q)
<1>1. CASE eligible = {}
  <2>1. decision.selected = None /\ decision.budget = budget
    BY <1>1 DEF Values!Schedule
  <2>2. QED
    BY <1>1, <2>1
<1>2. CASE eligible # {}
  <2>1. /\ decision.selected = first
        /\ decision.budget = Values!Reserve(budget, first.category, first.cost)
    BY <1>2 DEF Values!Schedule
  <2>2. first \in eligible /\ \A q \in eligible \ {first} : Values!GoesFirst(first, q)
    <3>1. \E p \in eligible : \A q \in eligible \ {p} : Values!GoesFirst(p, q)
      <4>1. IsFiniteSet(eligible)
        BY FS_Subset DEF IsQueue
      <4>2. /\ \A p \in eligible : IsPackage(p, n)
            /\ \A p, q \in eligible : p.id = q.id => p = q
        BY DEF IsQueue
      <4> HIDE DEF eligible
      <4>3. QED
        BY <1>2, <4>1, <4>2, SomethingGoesFirst
    <3> HIDE DEF eligible
    <3>2. QED
      BY <3>1
  <2>3. first \in packages /\ Values!Eligible(first, budget, handles, used) /\ first.cost \in Nat
    BY <2>2 DEF IsQueue, IsPackage
  <2> HIDE DEF first
  <2> DEFINE c1 == first.category
             after == decision.budget
  <2>4. /\ c1 \in Values!ProtectedBudgets \ {"standing", "invalid-replacements"}
        /\ first.cost <= Values!Remaining(budget, c1)
    BY <2>3 DEF Values!Eligible, Values!Affordable
  <2>5. /\ budget.limits \in [Values!ProtectedBudgets -> Int]
        /\ budget.spent \in [Values!ProtectedBudgets -> Int]
    BY DEF IsEnvelope
  <2>6. after = [budget EXCEPT !.spent[c1] = @ + first.cost]
    <3>1. ~(first.cost < 0) /\ ~(first.cost > Values!Remaining(budget, c1))
      BY <2>3, <2>4, <2>5 DEF Values!Remaining
    <3>2. QED
      BY <2>1, <2>4, <3>1 DEF Values!Reserve
  <2> HIDE DEF after, decision, eligible
  <2>7. /\ after.limits = budget.limits
        /\ after.spent = [budget.spent EXCEPT ![c1] = @ + first.cost]
        /\ IsEnvelope(after)
    <3>1. /\ after.limits = budget.limits
          /\ after.spent = [budget.spent EXCEPT ![c1] = @ + first.cost]
          /\ after = [limits |-> after.limits, spent |-> after.spent]
      BY <2>6 DEF IsEnvelope
    <3>2. after.spent \in [Values!ProtectedBudgets -> Int]
      BY <2>3, <2>4, <2>5, <3>1
    <3>3. QED
      BY <2>5, <3>1, <3>2 DEF IsEnvelope
  <2>8. \A c \in Values!ProtectedBudgets :
           /\ Values!Remaining(after, c) <= Values!Remaining(budget, c)
           /\ Values!Remaining(after, c) >= 0
           /\ c # c1 => after.spent[c] = budget.spent[c]
    BY <2>3, <2>4, <2>5, <2>7 DEF Values!Remaining
  <2>9. ASSUME NEW p \in packages,
               \/ ~Values!Eligible(p, budget, handles, used)
               \/ p.handle # None /\ p.handle = first.handle
        PROVE  ~Values!Eligible(p, after, handles, UsedBy(first, used))
    <3> SUFFICES ASSUME Values!Eligible(p, after, handles, UsedBy(first, used)) PROVE FALSE
      OBVIOUS
    <3>1. p.handle = None \/ p.handle # first.handle
      BY DEF Values!Eligible, Values!SealedProperly, UsedBy
    <3>2. Values!SealedProperly(p, handles, used)
      BY DEF Values!Eligible, Values!SealedProperly, UsedBy
    <3>3. Values!Affordable(p, budget)
      <4>1. p.cost \in Int
        BY DEF IsQueue, IsPackage
      <4>2. p.category \in Values!ProtectedBudgets \ {"standing", "invalid-replacements"}
            /\ p.cost <= Values!Remaining(after, p.category)
        BY DEF Values!Eligible, Values!Affordable
      <4>3. /\ Values!Remaining(after, p.category) \in Int
            /\ Values!Remaining(budget, p.category) \in Int
        BY <2>5, <2>7, <4>2 DEF IsEnvelope, Values!Remaining
      <4>4. QED
        BY <2>8, <4>1, <4>2, <4>3 DEF Values!Affordable
    <3>4. Values!Eligible(p, budget, handles, used)
      BY <3>2, <3>3 DEF Values!Eligible
    <3>5. QED
      BY <2>9, <3>1, <3>4
  <2>10. \A c \in {"standing", "invalid-replacements"} : after.spent[c] = budget.spent[c]
    BY <2>4, <2>8 DEF Values!ProtectedBudgets
  <2>11. \A p \in packages \ {first} :
            Values!Eligible(p, budget, handles, used) => Values!GoesFirst(first, p)
    BY <2>2 DEF eligible
  <2>12. decision.selected = first
    BY <2>1
  <2>13. QED
    BY <2>3, <2>7, <2>8, <2>9, <2>10, <2>11, <2>12 DEF after, decision
<1>3. QED
  BY <1>1, <1>2

-----------------------------------------------------------------------------
(* Suites, the Failure Atlas and hardening *)

\* None stands for what is missing and is no binding.
NoBindingIsNone ==
    \A case, suite, admission, independent, source :
        [case |-> case, suite |-> suite, admission |-> admission,
         independent |-> independent, source |-> source] # None

\* What a registry of suites is: an evaluation suite has a case that it was admitted for,
\* and that nothing before it in the registry is about; what goes back to development
\* names the binding it had.
SuitesAreSeparate(registry) ==
    /\ IsLog(registry) /\ \A i \in DOMAIN registry : registry[i] # None
    /\ \A i \in DOMAIN registry :
          LET binding == registry[i]
          IN  /\ binding.suite \in Values!EvaluationSuites =>
                    /\ binding.admission # None /\ binding.admission.admitted
                    /\ binding.admission.case = binding.case
                    /\ \A j \in 1..(i - 1) : registry[j].case # binding.case
              /\ binding.suite = "sealed-standing" => binding.independent
              /\ binding.source # None => \E j \in 1..(i - 1) : registry[j] = binding.source

LEMMA CurrentIs ==
    ASSUME NEW registry, SuitesAreSeparate(registry), NEW case
    PROVE  LET current == Values!CurrentBinding(registry, case)
           IN  \/ current = None /\ \A i \in DOMAIN registry : registry[i].case # case
               \/ current # None /\ \E i \in DOMAIN registry : registry[i] = current
<1> DEFINE of == {i \in DOMAIN registry : registry[i].case = case}
<1>1. Len(registry) \in Nat /\ DOMAIN registry = 1..Len(registry)
  BY LogFacts DEF SuitesAreSeparate
<1>2. CASE of = {}
  BY <1>2 DEF Values!CurrentBinding
<1>3. CASE of # {}
  <2>1. Max(of) \in of
    BY <1>1, <1>3, LargestIndex
  <2>2. Values!CurrentBinding(registry, case) = registry[Max(of)]
    BY <1>3 DEF Values!CurrentBinding, Values!Max, Max
  <2>3. QED
    BY <2>1, <2>2 DEF SuitesAreSeparate
<1>4. QED
  BY <1>2, <1>3

\* No sequence of calls evaluates on a case that development has seen, nor on one that was
\* not admitted for evaluation: a registry begins empty, and what keeps it apart is kept
\* by each bind and each retirement of an exposed case, whatever they are asked
\* (SuiteRegistry).
THEOREM SuitesStaySeparate ==
    ASSUME NoBindingIsNone
    PROVE  /\ SuitesAreSeparate(<< >>)
           /\ \A registry, case, suite, admission, independent :
                 SuitesAreSeparate(registry) =>
                 \A later \in {Values!Bind(registry, case, suite, admission, independent),
                               Values!RetireExposedSealed(registry, case)} :
                    later # Refused => SuitesAreSeparate(later)
<1>1. SuitesAreSeparate(<< >>)
  <2>1. << >> \in Seq({}) /\ DOMAIN << >> = {}
    OBVIOUS
  <2>2. IsLog(<< >>)
    BY <2>1, SeqIsLog
  <2>3. QED
    BY <2>1, <2>2 DEF SuitesAreSeparate
<1>2. ASSUME NEW registry, SuitesAreSeparate(registry), NEW binding, binding # None,
             binding.suite \in Values!EvaluationSuites =>
                /\ binding.admission # None /\ binding.admission.admitted
                /\ binding.admission.case = binding.case
                /\ \A j \in DOMAIN registry : registry[j].case # binding.case,
             binding.suite = "sealed-standing" => binding.independent,
             binding.source # None => \E j \in DOMAIN registry : registry[j] = binding.source
      PROVE  SuitesAreSeparate(Append(registry, binding))
  <2> DEFINE later == Append(registry, binding)
  <2>1. IsLog(registry) /\ Len(registry) \in Nat /\ DOMAIN registry = 1..Len(registry)
    BY <1>2, LogFacts DEF SuitesAreSeparate
  <2>2. /\ IsLog(later) /\ DOMAIN later = 1..(Len(registry) + 1)
        /\ \A i \in 1..Len(registry) : later[i] = registry[i]
        /\ later[Len(registry) + 1] = binding
    BY <2>1, LongerLog
  <2> HIDE DEF later
  <2>3. \A i \in DOMAIN later : later[i] # None
    BY <1>2, <2>1, <2>2 DEF SuitesAreSeparate
  <2>4. ASSUME NEW i \in DOMAIN later
        PROVE  /\ later[i].suite \in Values!EvaluationSuites =>
                    /\ later[i].admission # None /\ later[i].admission.admitted
                    /\ later[i].admission.case = later[i].case
                    /\ \A j \in 1..(i - 1) : later[j].case # later[i].case
               /\ later[i].suite = "sealed-standing" => later[i].independent
               /\ later[i].source # None => \E j \in 1..(i - 1) : later[j] = later[i].source
    <3>1. CASE i \in DOMAIN registry
      <4>1. later[i] = registry[i] /\ \A j \in 1..(i - 1) : j \in 1..Len(registry)
        BY <2>1, <2>2, <3>1
      <4>2. QED
        BY <1>2, <2>2, <3>1, <4>1 DEF SuitesAreSeparate
    <3>2. CASE i = Len(registry) + 1
      <4>1. later[i] = binding /\ 1..(i - 1) = DOMAIN registry
        BY <2>1, <2>2, <3>2
      <4>2. QED
        BY <1>2, <2>1, <2>2, <4>1
    <3>3. QED
      BY <2>1, <2>2, <3>1, <3>2
  <2>5. QED
    BY <2>2, <2>3, <2>4 DEF SuitesAreSeparate, later
<1>3. ASSUME NEW registry, NEW case, NEW suite, NEW admission, NEW independent,
             SuitesAreSeparate(registry),
             Values!Bind(registry, case, suite, admission, independent) # Refused
      PROVE  SuitesAreSeparate(Values!Bind(registry, case, suite, admission, independent))
  <2> DEFINE binding == Values!SuiteBinding(case, suite, admission, independent, None)
  <2>1. /\ Values!CurrentBinding(registry, case) = None /\ binding # Refused
        /\ suite \in Values!EvaluationSuites =>
              admission # None /\ admission.case = case /\ admission.admitted
        /\ Values!Bind(registry, case, suite, admission, independent) = Append(registry, binding)
    BY <1>3 DEF Values!Bind
  <2>2. /\ binding = [case |-> case, suite |-> suite, admission |-> admission,
                      independent |-> independent, source |-> None]
        /\ suite = "sealed-standing" => independent
    BY <2>1 DEF Values!SuiteBinding
  <2>3. \A j \in DOMAIN registry : registry[j].case # case
    BY <1>3, <2>1, CurrentIs
  <2> HIDE DEF binding
  <2>4. binding # None
    BY <2>2, NoBindingIsNone DEF NoBindingIsNone
  <2>5. SuitesAreSeparate(Append(registry, binding))
    BY <1>2, <1>3, <2>1, <2>2, <2>3, <2>4
  <2>6. QED
    BY <2>1, <2>5
<1>4. ASSUME NEW registry, NEW case, SuitesAreSeparate(registry),
             Values!RetireExposedSealed(registry, case) # Refused
      PROVE  SuitesAreSeparate(Values!RetireExposedSealed(registry, case))
  <2> DEFINE current == Values!CurrentBinding(registry, case)
             binding == Values!SuiteBinding(case, "development", current.admission, FALSE, current)
  <2>1. /\ current # None
        /\ Values!RetireExposedSealed(registry, case) = Append(registry, binding)
    BY <1>4 DEF Values!RetireExposedSealed
  <2>2. binding = [case |-> case, suite |-> "development", admission |-> current.admission,
                   independent |-> FALSE, source |-> current]
    BY DEF Values!SuiteBinding
  <2>3. \E j \in DOMAIN registry : registry[j] = current
    BY <1>4, <2>1, CurrentIs
  <2> HIDE DEF current, binding
  <2>4. /\ binding # None /\ binding.suite = "development" /\ binding.source = current
        /\ "development" \notin Values!EvaluationSuites
    BY <2>2, NoBindingIsNone DEF NoBindingIsNone, Values!EvaluationSuites
  <2>5. SuitesAreSeparate(Append(registry, binding))
    BY <1>2, <1>4, <2>3, <2>4 DEF Values!EvaluationSuites
  <2>6. QED
    BY <2>1, <2>5
<1>5. QED
  BY <1>1, <1>3, <1>4

\* Whatever eligibility and reviews it is handed: a revision that is published keeps every
\* class and adds the proposed one; of two proposals on one parent the second is refused; and
\* when the eligibility and the review are of that proposal, it is promoted, has every gate,
\* and its reviewer neither curated it nor contributed to it (publish_atlas_revision,
\* review_atlas_proposal, evaluate_atlas_proposal).
THEOREM OneRevisionOfEachParent ==
    ASSUME NEW atlas, NEW proposal, NEW eligibility, NEW review, NEW receipt,
           Values!Publish(atlas, proposal, eligibility, review, receipt) # Refused
    PROVE  LET next == Values!Publish(atlas, proposal, eligibility, review, receipt)
           IN  /\ next.parent = atlas /\ next.classes = atlas.classes \cup {proposal.class}
               /\ proposal.class \notin atlas.classes
               /\ \A other, its, of, on : other.parent = atlas
                                           => Values!Publish(next, other, its, of, on) = Refused
               /\ \A reviewer, accept :
                     /\ eligibility = Values!EvaluateProposal(proposal)
                     /\ review = Values!ReviewProposal(proposal, eligibility, reviewer, accept)
                     /\ review # Refused
                     => /\ accept /\ proposal.stage = "promoted"
                        /\ Values!ContentGates \subseteq proposal.gates
                        /\ Values!StageEvidence(proposal)
                        /\ proposal.curator \notin proposal.contributors
                        /\ reviewer # proposal.curator /\ reviewer \notin proposal.contributors
<1> DEFINE next == Values!Publish(atlas, proposal, eligibility, review, receipt)
<1>1. /\ proposal.parent = atlas /\ eligibility.eligible /\ review.decision = "accept"
      /\ proposal.stage = "promoted" /\ proposal.class \notin atlas.classes
      /\ next = [version |-> proposal.version, parent |-> atlas,
                 classes |-> atlas.classes \cup {proposal.class},
                 links |-> atlas.links \o Values!LinksOf(proposal), receipt |-> receipt]
  BY DEF Values!Publish
<1> HIDE DEF next
<1>2. /\ next.parent = atlas /\ next.classes = atlas.classes \cup {proposal.class}
      /\ next # atlas
  BY <1>1
<1>3. \A other, its, of, on : other.parent = atlas
                               => Values!Publish(next, other, its, of, on) = Refused
  BY <1>2 DEF Values!Publish
<1>4. ASSUME NEW reviewer, NEW accept, eligibility = Values!EvaluateProposal(proposal),
             review = Values!ReviewProposal(proposal, eligibility, reviewer, accept),
             review # Refused
      PROVE  /\ accept /\ proposal.stage = "promoted"
             /\ Values!ContentGates \subseteq proposal.gates
             /\ Values!StageEvidence(proposal)
             /\ proposal.curator \notin proposal.contributors
             /\ reviewer # proposal.curator /\ reviewer \notin proposal.contributors
  <2> DEFINE decision == IF accept /\ eligibility.eligible THEN "accept" ELSE "reject"
  <2>1. /\ reviewer \notin {proposal.curator} \cup proposal.contributors
        /\ decision = "accept" => eligibility.gates = Values!AllGates
        /\ review = [proposal |-> proposal.id, reviewer |-> reviewer, decision |-> decision]
    BY <1>4 DEF Values!ReviewProposal
  <2>2. decision = "accept" /\ accept
    BY <1>1, <2>1
  <2>3. Values!GatesHolding(proposal) = Values!AllGates
    BY <1>4, <2>1, <2>2 DEF Values!EvaluateProposal
  <2>4. /\ Values!ContentGates \subseteq Values!GatesHolding(proposal)
        /\ {"stage-evidence", "principal-independence"} \subseteq Values!GatesHolding(proposal)
    BY <2>3 DEF Values!AllGates
  <2>5. Values!ContentGates \subseteq proposal.gates
    BY <2>4 DEF Values!GatesHolding, Values!ContentGates
  <2>6. Values!StageEvidence(proposal) /\ proposal.curator \notin proposal.contributors
    BY <2>4 DEF Values!GatesHolding, Values!ContentGates
  <2>7. QED
    BY <1>1, <2>1, <2>2, <2>5, <2>6
<1>5. \A reviewer, accept :
         /\ eligibility = Values!EvaluateProposal(proposal)
         /\ review = Values!ReviewProposal(proposal, eligibility, reviewer, accept)
         /\ review # Refused
         => /\ accept /\ proposal.stage = "promoted"
            /\ Values!ContentGates \subseteq proposal.gates
            /\ Values!StageEvidence(proposal)
            /\ proposal.curator \notin proposal.contributors
            /\ reviewer # proposal.curator /\ reviewer \notin proposal.contributors
  BY <1>4
<1>6. QED
  BY Zenon, <1>1, <1>2, <1>3, <1>5 DEF next

-----------------------------------------------------------------------------
\* Whatever the evidence: what is hardened for is hardened for on better evidence too, and
\* neither a defect of the game or its apparatus nor an alternative left open ever is
\* (route_failure).
THEOREM MoreEvidenceHardens ==
    ASSUME NEW weak, NEW strong, Values!RouteOf(weak) = "harden",
           weak.contrasts \in Nat, strong.contrasts \in Nat
    PROVE  /\ weak.defects \cap Values!RepairLayers = {} /\ weak.open \subseteq weak.controlled
           /\ weak.corroborated
           /\ /\ strong.corroborated /\ strong.status = weak.status
              /\ weak.causes \subseteq strong.causes /\ strong.defects \subseteq weak.defects
              /\ weak.contrasts <= strong.contrasts
              /\ strong.open \subseteq weak.open /\ weak.controlled \subseteq strong.controlled
              => Values!RouteOf(strong) = "harden"
<1>1. /\ weak.defects \cap Values!RepairLayers = {} /\ weak.corroborated
      /\ weak.status \in {"accepted", "partially-attributed"} /\ ~(weak.contrasts < 2)
      /\ weak.open \subseteq weak.controlled /\ weak.causes \cap Values!HardeningLayers # {}
  BY DEF Values!RouteOf
<1>2. ASSUME strong.corroborated, strong.status = weak.status,
             weak.causes \subseteq strong.causes, strong.defects \subseteq weak.defects,
             weak.contrasts <= strong.contrasts,
             strong.open \subseteq weak.open, weak.controlled \subseteq strong.controlled
      PROVE  Values!RouteOf(strong) = "harden"
  <2>1. /\ strong.defects \cap Values!RepairLayers = {} /\ ~(strong.contrasts < 2)
        /\ strong.open \subseteq strong.controlled
        /\ strong.causes \cap Values!HardeningLayers # {}
    BY <1>1, <1>2
  <2>2. QED
    BY <1>1, <1>2, <2>1 DEF Values!RouteOf
<1>3. QED
  BY <1>1, <1>2

\* What the transition at a place makes of the evidence.
StatusAt(contract, evidence, i) ==
    Values!StageStatus(contract, evidence, Values!HardeningStages[i])

\* What a demonstration that ended with this result did.
StoppedAtTheFirstFault(contract, evidence, result) ==
    LET last == Len(result.receipts)
        Passes(i) == StatusAt(contract, evidence, i) = "passed"
    IN  /\ last \in 1..14 /\ DOMAIN result.receipts = 1..last
        /\ \A i \in 1..last : result.receipts[i].stage = IF i = 14 THEN 13 ELSE i
        /\ \A i \in 1..(last - 1) : Passes(i) /\ result.receipts[i].status = "passed"
        /\ result.status = "accepted" =>
              /\ last = 13 /\ Passes(last) /\ contract.required \subseteq result.edges
        /\ result.status # "accepted" =>
              /\ result.receipts[last].status = result.status /\ result.status # "passed"
              /\ IF last = 14
                 THEN result.status = "rejected" /\ ~(contract.required \subseteq result.edges)
                 ELSE ~Passes(last) /\ result.status = StatusAt(contract, evidence, last)

\* Whatever the evidence and the contract: a demonstration stops at the first transition that
\* does not pass, with that one's verdict and a receipt of each transition up to it, in order;
\* it is accepted only if all thirteen pass and the lineage has no gaps, and a lineage with
\* gaps is rejected by a second receipt of the last transition (run_hardening_demonstration).
THEOREM DemonstrationsStopAtTheFirstFault ==
    ASSUME NEW contract, NEW evidence
    PROVE  StoppedAtTheFirstFault(contract, evidence, Values!RunHardening(contract, evidence))
<1> DEFINE status == [i \in DOMAIN Values!HardeningStages |->
                         Values!StageStatus(contract, evidence, Values!HardeningStages[i])]
           halts == {i \in DOMAIN status : status[i] # "passed"}
           last == IF halts = {} THEN 13 ELSE Min(halts)
           receipts == [i \in 1..last |-> Values!StageReceipt(contract, evidence, i, status[i])]
           recorded == UNION {receipts[i].edges : i \in 1..last}
           route == Values!Last(receipts).route
           result == Values!RunHardening(contract, evidence)
           more == Append(receipts, Values!StageReceipt(contract, evidence, 13, "rejected"))
<1>1. /\ DOMAIN status = 1..13
      /\ \A i \in 1..13 : status[i] = StatusAt(contract, evidence, i)
  <2>1. DOMAIN Values!HardeningStages = 1..13
    BY DEF Values!HardeningStages
  <2>2. QED
    BY <2>1 DEF StatusAt
<1>2. \A i \in 1..13 : StatusAt(contract, evidence, i) # "accepted"
  <2>1. \A holds : Values!RejectUnless(holds) # "accepted"
    BY DEF Values!RejectUnless
  <2>2. \A r : Values!StatusOfRoute(r) # "accepted"
    BY DEF Values!StatusOfRoute
  <2> DEFINE Of(stage) == Values!StageStatus(contract, evidence, stage)
  <2>3. /\ Of("baseline-eligibility") # "accepted" /\ Of("failure-analysis") # "accepted"
        /\ Of("failure-routing") # "accepted" /\ Of("class-promotion") # "accepted"
        /\ Of("requirement-freeze") # "accepted" /\ Of("child-generation") # "accepted"
    BY <2>1, <2>2 DEF Values!StageStatus
  <2>4. /\ Of("challenge-preflight") # "accepted" /\ Of("matched-remeasurement") # "accepted"
        /\ Of("target-comparison") # "accepted" /\ Of("challenge-admission") # "accepted"
        /\ Of("sealed-non-regression") # "accepted" /\ Of("independent-review") # "accepted"
        /\ Of("hardening-transition") # "accepted"
    BY <2>1, <2>2 DEF Values!StageStatus
  <2> HIDE DEF Of
  <2>5. \A i \in 1..13 : Of(Values!HardeningStages[i]) # "accepted"
    BY <2>3, <2>4 DEF Values!HardeningStages
  <2>6. QED
    BY <2>5 DEF Of, StatusAt
<1> HIDE DEF status
<1>3. /\ last \in 1..13 /\ \A i \in 1..(last - 1) : status[i] = "passed"
      /\ halts # {} => last \in halts
  <2>1. CASE halts = {}
    BY <1>1, <2>1
  <2>2. CASE halts # {}
    <3>1. halts \in SUBSET (1..13) /\ 13 \in Nat
      BY <1>1
    <3>2. Min(halts) \in halts /\ \A i \in halts : Min(halts) <= i
      <4> HIDE DEF halts
      <4>1. QED
        BY <2>2, <3>1, SmallestIndex
    <3>3. last = Min(halts)
      BY <2>2
    <3> HIDE DEF last
    <3>4. last \in 1..13 /\ last \in halts /\ \A i \in halts : last <= i
      BY <3>1, <3>2, <3>3
    <3>5. \A i \in 1..(last - 1) : i \in 1..13 /\ i \notin halts
      BY <3>4
    <3>6. QED
      BY <1>1, <3>4, <3>5
  <2>3. QED
    BY <2>1, <2>2
<1> HIDE DEF last
<1>4. /\ IsLog(receipts) /\ Len(receipts) = last /\ DOMAIN receipts = 1..last
      /\ \A i \in 1..last : receipts[i].stage = i /\ receipts[i].status = status[i]
  <2>1. receipts \in Seq({receipts[i] : i \in 1..last}) /\ Len(receipts) = last
    <3>1. last \in Nat
      BY <1>3
    <3>2. receipts \in [1..last -> {receipts[i] : i \in 1..last}]
      OBVIOUS
    <3> HIDE DEF receipts
    <3>3. QED
      BY <3>1, <3>2, SeqDef, LenProperties
  <2>2. \A i \in 1..last : receipts[i] = Values!StageReceipt(contract, evidence, i, status[i])
    OBVIOUS
  <2> HIDE DEF receipts
  <2>3. QED
    BY <2>1, <2>2, SeqIsLog, LogFacts DEF Values!StageReceipt
<1> HIDE DEF receipts
<1>5. result = IF halts # {} THEN [status |-> status[last], route |-> route, receipts |-> receipts,
                                   edges |-> recorded]
               ELSE IF contract.required \subseteq recorded
               THEN [status |-> "accepted", route |-> route, receipts |-> receipts,
                     edges |-> recorded]
               ELSE [status |-> "rejected", route |-> route, receipts |-> more,
                     edges |-> recorded]
  BY DEF Values!RunHardening, status, halts, last, receipts, recorded, Values!Min, Min
<1> HIDE DEF result, route, recorded
<1>6. ASSUME halts # {} PROVE StoppedAtTheFirstFault(contract, evidence, result)
  <2>1. /\ result.status = status[last] /\ result.receipts = receipts
        /\ status[last] # "passed" /\ status[last] # "accepted"
    BY <1>1, <1>2, <1>3, <1>5, <1>6
  <2>2. /\ last \in 1..13 /\ Len(result.receipts) = last /\ DOMAIN result.receipts = 1..last
        /\ \A i \in 1..last : result.receipts[i].stage = i
        /\ \A i \in 1..last : result.receipts[i].status = StatusAt(contract, evidence, i)
        /\ \A i \in 1..(last - 1) : StatusAt(contract, evidence, i) = "passed"
        /\ result.status = StatusAt(contract, evidence, last)
        /\ result.status # "passed" /\ result.status # "accepted"
    <3>1. last \in 1..13 /\ \A i \in 1..(last - 1) : i \in 1..13
      BY <1>3
    <3>2. /\ Len(result.receipts) = last /\ DOMAIN result.receipts = 1..last
          /\ \A i \in 1..last : result.receipts[i].stage = i
      BY <1>4, <2>1
    <3>3. \A i \in 1..last : i \in 1..13 /\ result.receipts[i].status = status[i]
      BY <1>4, <2>1, <3>1
    <3> HIDE DEF halts, more
    <3>4. QED
      BY <1>1, <1>3, <2>1, <3>1, <3>2, <3>3
  <2> HIDE DEF halts
  <2>3. QED
    BY <2>2 DEF StoppedAtTheFirstFault
<1>7. ASSUME halts = {}, contract.required \subseteq recorded
      PROVE  StoppedAtTheFirstFault(contract, evidence, result)
  <2>1. /\ result.status = "accepted" /\ result.receipts = receipts /\ result.edges = recorded
        /\ last = 13
    BY <1>5, <1>7 DEF last
  <2>2. \A i \in 1..13 : StatusAt(contract, evidence, i) = "passed"
    BY <1>1, <1>7
  <2>3. /\ Len(result.receipts) = 13 /\ DOMAIN result.receipts = 1..13
        /\ \A i \in 1..13 : result.receipts[i].stage = i
        /\ \A i \in 1..13 : result.receipts[i].status = StatusAt(contract, evidence, i)
        /\ contract.required \subseteq result.edges
    BY <1>1, <1>4, <1>7, <2>1
  <2> HIDE DEF halts
  <2>4. QED
    BY <2>1, <2>2, <2>3 DEF StoppedAtTheFirstFault
<1>8. ASSUME halts = {}, ~(contract.required \subseteq recorded)
      PROVE  StoppedAtTheFirstFault(contract, evidence, result)
  <2>1. /\ result.status = "rejected" /\ result.receipts = more /\ result.edges = recorded
        /\ last = 13
    BY <1>5, <1>8 DEF last
  <2>2. \A i \in 1..13 : StatusAt(contract, evidence, i) = "passed"
    BY <1>1, <1>8
  <2>3. /\ Len(more) = 14 /\ DOMAIN more = 1..14 /\ \A i \in 1..13 : more[i] = receipts[i]
        /\ more[14] = Values!StageReceipt(contract, evidence, 13, "rejected")
    <3> DEFINE extra == Values!StageReceipt(contract, evidence, 13, "rejected")
    <3>1. /\ Len(more) = Len(receipts) + 1 /\ DOMAIN more = 1..(Len(receipts) + 1)
          /\ \A i \in 1..Len(receipts) : more[i] = receipts[i]
          /\ more[Len(receipts) + 1] = extra
      BY <1>4, LongerLog
    <3>2. Len(receipts) = 13
      BY <1>4, <2>1
    <3> HIDE DEF more, extra
    <3>3. /\ Len(more) = 14 /\ DOMAIN more = 1..14 /\ \A i \in 1..13 : more[i] = receipts[i]
          /\ more[14] = extra
      BY <3>1, <3>2
    <3>4. QED
      BY <3>3 DEF extra
  <2>4. more[14].stage = 13 /\ more[14].status = "rejected"
    BY <2>3 DEF Values!StageReceipt
  <2> HIDE DEF more
  <2>5. QED
    BY <1>1, <1>4, <1>8, <2>1, <2>2, <2>3, <2>4 DEF StoppedAtTheFirstFault
<1>9. QED
  BY <1>6, <1>7, <1>8 DEF result
=============================================================================
