----------------------------- MODULE RepeatProofs -----------------------------
(* A call that is made again after it has succeeded adds nothing to any        *)
(* journal, whatever other processes did in between and whichever died: what   *)
(* a call leaves behind stays, and it keys all the call would write again. And *)
(* an Experiment that a call has succeeded in can be opened by the next. Last, *)
(* what a climb's changes, compiled Releases and packages of blind trials are, *)
(* and what a game without Findings promises, for any values whatever.         *)
EXTENDS ExperimentProofs

-----------------------------------------------------------------------------
(* Places of a sequence, in order *)

\* InOrder lists exactly the places it is given.
LEMMA InOrderOnto ==
    ASSUME NEW n \in Nat, NEW places \in SUBSET (1..n)
    PROVE  Range(InOrder(places)) = places
<1> DEFINE below(i) == {j \in places : j < i}
           rank(i) == Cardinality(below(i))
           c == Cardinality(places)
<1>1. IsFiniteSet(places) /\ c \in Nat
  <2>1. 1 \in Int /\ n \in Int
    OBVIOUS
  <2>2. IsFiniteSet(1..n)
    BY <2>1, FS_Interval
  <2>3. IsFiniteSet(places)
    BY Zenon, <2>2, FS_Subset
  <2>4. QED
    BY <2>3, FS_CardinalityType
<1>2. \A i \in places : IsFiniteSet(below(i)) /\ rank(i) \in Nat /\ rank(i) < c
  <2> TAKE i \in places
  <2>1. below(i) \in SUBSET places /\ below(i) # places
    OBVIOUS
  <2>2. IsFiniteSet(below(i)) /\ rank(i) <= c /\ (c = rank(i) => places = below(i))
    BY <1>1, <2>1, FS_Subset
  <2>3. rank(i) \in Nat
    BY <2>2, FS_CardinalityType
  <2>4. QED
    BY <1>1, <2>1, <2>2, <2>3
<1>3. \A i, k \in places : i < k => rank(i) < rank(k)
  <2> TAKE i, k \in places
  <2> HAVE i < k
  <2>1. below(i) \in SUBSET below(k) /\ i \in below(k) /\ i \notin below(i)
    <3>1. \A j \in places : j \in Int
      OBVIOUS
    <3>2. \A j \in places : j < i => j < k
      BY <3>1
    <3>3. ~ (i < i)
      BY <3>1
    <3>4. QED
      BY Zenon, <3>2, <3>3
  <2>2. rank(i) <= rank(k) /\ (rank(k) = rank(i) => below(k) = below(i))
    BY <1>2, <2>1, FS_Subset
  <2>3. QED
    BY <1>2, <2>1, <2>2
<1> HIDE DEF below, rank, c
<1>4. \A i, k \in places : rank(i) = rank(k) => i = k
  <2> TAKE i, k \in places
  <2> HAVE rank(i) = rank(k)
  <2>1. i \in Nat /\ k \in Nat /\ rank(i) \in Nat /\ rank(k) \in Nat
    BY <1>2
  <2>2. ~ (i < k) /\ ~ (k < i)
    BY <1>3, <2>1
  <2>3. QED
    BY <2>1, <2>2
<1>5. \A m \in 1..c : \E i \in places : rank(i) = m - 1
  <2> DEFINE f == [i \in places |-> rank(i) + 1]
  <2>1. \A i \in places : rank(i) + 1 \in 1..c
    BY <1>1, <1>2
  <2>2. f \in [places -> 1..c]
    BY <2>1
  <2>3. \A i, k \in places : f[i] = f[k] => i = k
    BY <1>2, <1>4
  <2>4. f \in Injection(places, 1..c)
    BY <2>2, <2>3 DEF Injection, IsInjective
  <2>5. IsFiniteSet(1..c) /\ Cardinality(1..c) = c
    <3>1. 1 \in Int /\ c \in Int /\ (1 > c => c = 0)
      BY <1>1
    <3>2. QED
      BY <1>1, <3>1, FS_Interval
  <2>6. f \in Surjection(places, 1..c)
    <3>1. Cardinality(places) = Cardinality(1..c)
      BY <2>5 DEF c
    <3> HIDE DEF f
    <3>2. QED
      BY <2>4, <2>5, <3>1, FS_Injection
  <2>7. \A m \in 1..c : \E i \in places : f[i] = m
    BY Zenon, <2>6 DEF Surjection
  <2>8. QED
    BY <1>2, <2>7
<1>6. InOrder(places) = [m \in 1..c |-> CHOOSE i \in places : rank(i) = m - 1]
  BY DEF InOrder, below, rank, c
<1>7. \A m \in 1..c : InOrder(places)[m] \in places /\ rank(InOrder(places)[m]) = m - 1
  BY <1>5, <1>6
<1>8. ASSUME NEW i \in places
      PROVE  \E m \in 1..c : InOrder(places)[m] = i
  <2>1. rank(i) + 1 \in 1..c /\ (rank(i) + 1) - 1 = rank(i)
    BY <1>1, <1>2
  <2>2. InOrder(places)[rank(i) + 1] = i
    BY Zenon, <1>4, <1>7, <2>1
  <2>3. QED
    BY <2>1, <2>2
<1>9. DOMAIN InOrder(places) = 1..c
  BY <1>6
<1>10. QED
  BY Zenon, <1>7, <1>8, <1>9 DEF Range

-----------------------------------------------------------------------------
(* What a call that has succeeded has left in the journals *)

\* Everything that is written.  What holds of some of it goes on holding.
Written == Range(climb) \cup Range(operational) \cup Range(qualification) \cup Range(drafts)

KeyIn(E, journal, key) == \E e \in E : JournalOf(e) = journal /\ e.key = key
Filed(E) == {e \in E : "record" \in DOMAIN e}
FiledIn(E, key, record) == \E e \in Filed(E) : e.key = key /\ e.record = record
KindIn(E, kind) == {e.record : e \in {x \in Filed(E) : x.record.record = kind}}
EvaluationsIn(E, key) == {e \in KindIn(E, "evaluation") : e.task.key = key}
RunsNamedIn(E, key) == {r \in KindIn(E, "playtest_run") : r.key = key}
ProtocolsIn(E, call) ==
    {p \in KindIn(E, "playtest_protocol") : p.binding = call.binding /\ p.terms = call.terms}

\* Requirements made of these Findings.
TranslatedIn(E, call, findings, prefix) ==
    \A i \in DOMAIN Translated(call, findings) :
       LET r == RequirementOf(call, i, findings)
       IN r \in KindIn(E, "requirement") \/ KeyIn(E, "climb", <<prefix, r>>)
BriefsIn(E, call) ==
    \E e \in EvaluationsIn(E, call.of) : TranslatedIn(E, call, e.findings, "requirement")

\* The comparison that a call names.
ComparedIn(E, call, c) ==
    /\ c.protocol \in ProtocolsIn(E, call)
    /\ c.evaluation \in EvaluationsIn(E, call.of)
    /\ DOMAIN c.runs = DOMAIN call.runs
    /\ c.runs = [i \in DOMAIN call.runs |-> c.runs[i]]
    /\ \A i \in DOMAIN call.runs : c.runs[i] \in RunsNamedIn(E, call.runs[i])
    /\ c = Comparing(c.protocol, c.evaluation, c.runs)
StoodIn(E, call, c) ==
    /\ \E a \in KindIn(E, "authority") : a.id = call.reviewer.id
    /\ KeyIn(E, "climb", <<"accepted-standing", AcceptedStanding(c, call.reviewer)>>)

AttestedIn(E, call, st) ==
    /\ DOMAIN st.evaluations = DOMAIN call.of
    /\ st.evaluations = [i \in DOMAIN call.of |-> st.evaluations[i]]
    /\ \A i \in DOMAIN call.of : st.evaluations[i] \in EvaluationsIn(E, call.of[i])
    /\ KeyIn(E, "climb", <<"standing", MachineStanding(st.evaluations, call.reviewer)>>)

FindingsIn(E, call) ==
    \A i \in DOMAIN call.observations :
       LET f == call.observations[i].finding
       IN \/ f = None \/ f \in KindIn(E, "finding")
          \/ KeyIn(E, "climb", <<"playtest-finding", call.id, LastPlace(call, f)>>)

\* What the stages before the n-th have left, of a call that has several.
Reached(E, call, n, task) ==
    /\ call.op = "panel" /\ n >= 2 =>
         task.key = call.key /\ FiledIn(E, <<"task", call.key>>, task)
    /\ call.op = "apply" /\ n >= 2 => KeyIn(E, "lineage", TransitionKey(call))
    /\ call.op = "run" /\ n >= 2 =>
         \A i \in DOMAIN People(call) :
            KeyIn(E, "climb", <<"playtest-authority", People(call)[i].id>>)
    /\ call.op = "propose" =>
         /\ n >= 2 => call.from = "run" \/ BriefsIn(E, call)
         /\ n >= 3 => KeyIn(E, "climb", <<"authority", call.builder.id>>)
         /\ n >= 4 => /\ task.key = call.key /\ FiledIn(E, <<"task", call.key>>, task)
                      /\ KeyIn(E, "climb", <<"exposure", call.key, "answer_safe_requirements">>)
                      /\ KeyIn(E, "climb", <<"exposure", call.key, "authoring_package">>)
         /\ n >= 5 => KeyIn(E, "climb", BuilderKey(task))

\* What every write of the call is keyed by.
Done(E, call) ==
    CASE call.op = "create" -> KeyIn(E, "lineage", <<"workspace-created">>)
      [] call.op = "bind" -> KeyIn(E, "climb", <<"binding", call.key>>)
      [] call.op = "panel" -> EvaluationsIn(E, call.key) # {}
      [] call.op = "translate" -> BriefsIn(E, call)
      [] call.op = "propose" ->
           /\ \E e \in Filed(E) : e.key = <<"task", call.key>> /\ Reached(E, call, 5, e.record)
           /\ KeyIn(E, "climb", <<"proposal", call.key>>)
      [] call.op = "review" ->
           \E p \in KindIn(E, "proposal") :
              /\ p.task.key = call.of
              /\ KeyIn(E, "climb", <<IF call.kind = "human" THEN "human_review"
                                     ELSE "agent_review", p>>)
      [] call.op = "apply" ->
           /\ Reached(E, call, 2, None)
           /\ KeyIn(E, "climb", <<"transition", call.key>>)
      [] call.op = "select" ->
           \E b \in EvaluationsIn(E, call.baseline), c \in EvaluationsIn(E, call.child) :
              KeyIn(E, "climb", <<"selection", b, c>>)
      [] call.op = "attest" -> \E st \in KindIn(E, "standing") : AttestedIn(E, call, st)
      [] call.op = "register" -> KeyIn(E, "climb", call.key)
      [] call.op = "freeze" ->
           \E plan \in KindIn(E, "experiment_plan") :
              KeyIn(E, "climb", <<"playtest-protocol",
                                  PlaytestProtocol(call.binding, plan.instrument, call.terms)>>)
      [] call.op = "run" ->
           /\ Reached(E, call, 2, None) /\ FindingsIn(E, call)
           /\ KeyIn(E, "climb", <<"run", call.id>>)
      [] call.op = "translate_run" ->
           \E r \in RunsNamedIn(E, call.of) :
              TranslatedIn(E, call, r.findings, "playtest-requirement")
      [] call.op = "compare" ->
           \E c \in KindIn(E, "evidence_comparison") :
              ComparedIn(E, call, c) /\ KeyIn(E, "climb", <<"evidence-comparison", c>>)
      [] call.op = "issue" ->
           \E c \in KindIn(E, "evidence_comparison") :
              ComparedIn(E, call, c) /\ StoodIn(E, call, c)
      [] call.op = "finalize" ->
           \E c \in KindIn(E, "evidence_comparison") :
              /\ ComparedIn(E, call, c) /\ StoodIn(E, call, c)
              /\ KeyIn(E, "climb", <<"evidence-comparison", c>>)
      [] call.op = "plan" -> KeyIn(E, "operational", <<"efficiency-plan", call.plan>>)
      [] call.op = "authorize" ->
           KeyIn(E, "operational", <<"efficiency-auth", call.plan, call.boundary>>)
      [] call.op = "observe" ->
           KeyIn(E, "operational",
                 <<"efficiency-observation", call.plan, call.observation.id>>)
      [] call.op = "measure" -> KeyIn(E, "operational", <<"efficiency-formal", call.plan>>)
      [] call.op = "anchor" ->
           KeyIn(E, "qualification", <<"lineage-anchor", call.candidate>>)
      [] call.op = "rung" -> KeyIn(E, "qualification", call.rung.key)

\* Which entries of the ledger there is one of, for a name: their keys are made of it.
LabelledAs(s, E, write) ==
    "record" \in DOMAIN write =>
      LET record == write.record
      IN /\ record.record = "task" => write.key = <<"task", record.key>>
         /\ record.record = "evaluation" =>
              /\ write.key = <<"evaluation", record.task>>
              /\ FiledIn(E, <<"task", record.task.key>>, record.task)
         /\ record.record = "playtest_run" =>
              \E p \in Operators : \E i \in DOMAIN Script[s][p] :
                 LET call == Script[s][p][i]
                 IN /\ call.op = "run" /\ record.key = call.key
                    /\ write.key = <<"run", call.id>>
         /\ record.record = "playtest_protocol" =>
              \E plan \in KindIn(E, "experiment_plan") :
                 record = PlaytestProtocol(record.binding, plan.instrument, record.terms)
Labelled(E, write) == LabelledAs(scenario, E, write)

\* Of a process in a call: all it has still to write, and what is written, is what its
\* stage will have left.
Lasting(s, E, w, call) ==
    /\ w.phase = "run" => Reached(E, call, w.stage, w.task)
    /\ Landed(w) => Head(w.todo) \in E
    /\ Working(w) =>
         /\ \A write \in Range(w.todo) : LabelledAs(s, E, write)
         /\ w.next = "stage" => Reached(E \cup Range(w.todo), call, w.stage + 1, w.task)
         /\ w.next = "done" => Done(E \cup Range(w.todo), call)

\* Of a process that makes a call again: it has nothing to add.
Repeats(p) ==
    \E i \in DOMAIN results[p] :
       Script[scenario][p][i] = CallOf(p) /\ results[p][i].outcome = "done"
Repeating(E, w, call) ==
    /\ w.added = 0
    /\ Working(w) => \A write \in Range(w.todo) : KeyIn(E, JournalOf(write), write.key)
    /\ call.op = "panel" => w.stage = 1 /\ (Working(w) => w.next # "stage")

Kept(log, journal) ==
    IsLog(log) /\ KeysUnique(log) /\ \A e \in Range(log) : JournalOf(e) = journal
InPlace ==
    /\ Kept(climb, "climb") /\ Kept(operational, "operational")
    /\ Kept(qualification, "qualification") /\ Kept(drafts, "lineage")
Lasts ==
    \A p \in Operators : \A i \in DOMAIN results[p] :
       /\ i \in DOMAIN Script[scenario][p]
       /\ results[p][i].outcome = "done" => Done(Written, Script[scenario][p][i])

RepeatInv ==
    /\ InPlace /\ Lasts
    /\ \A e \in Range(climb) : Labelled(Written, e)
    /\ \A p \in Operators : Remaining(p) =>
          /\ Lasting(scenario, Written, work[p], CallOf(p))
          /\ Repeats(p) => Repeating(Written, work[p], CallOf(p))
    /\ RepeatsAddNothing

-----------------------------------------------------------------------------
(* What is written stays *)

LEMMA SaysMore ==
    ASSUME NEW E, NEW F, E \subseteq F
    PROVE  /\ \A journal, key : KeyIn(E, journal, key) => KeyIn(F, journal, key)
           /\ Filed(E) \subseteq Filed(F)
           /\ \A key, record : FiledIn(E, key, record) => FiledIn(F, key, record)
           /\ \A kind : KindIn(E, kind) \subseteq KindIn(F, kind)
           /\ \A key : /\ EvaluationsIn(E, key) \subseteq EvaluationsIn(F, key)
                       /\ RunsNamedIn(E, key) \subseteq RunsNamedIn(F, key)
           /\ \A call : ProtocolsIn(E, call) \subseteq ProtocolsIn(F, call)
<1>1. \A journal, key : KeyIn(E, journal, key) => KeyIn(F, journal, key)
  BY DEF KeyIn
<1>2. Filed(E) \subseteq Filed(F)
  BY DEF Filed
<1>3. \A key, record : FiledIn(E, key, record) => FiledIn(F, key, record)
  BY <1>2 DEF FiledIn
<1>4. \A kind : KindIn(E, kind) \subseteq KindIn(F, kind)
  BY <1>2 DEF KindIn
<1>5. \A key : /\ EvaluationsIn(E, key) \subseteq EvaluationsIn(F, key)
               /\ RunsNamedIn(E, key) \subseteq RunsNamedIn(F, key)
  BY <1>4 DEF EvaluationsIn, RunsNamedIn
<1>6. \A call : ProtocolsIn(E, call) \subseteq ProtocolsIn(F, call)
  BY <1>4 DEF ProtocolsIn
<1>7. QED
  BY <1>1, <1>2, <1>3, <1>4, <1>5, <1>6

LEMMA LeavesMore ==
    ASSUME NEW E, NEW F, E \subseteq F, NEW call
    PROVE  /\ \A findings, prefix :
                 TranslatedIn(E, call, findings, prefix) => TranslatedIn(F, call, findings, prefix)
           /\ BriefsIn(E, call) => BriefsIn(F, call)
           /\ \A c : /\ ComparedIn(E, call, c) => ComparedIn(F, call, c)
                     /\ StoodIn(E, call, c) => StoodIn(F, call, c)
           /\ \A st : AttestedIn(E, call, st) => AttestedIn(F, call, st)
           /\ FindingsIn(E, call) => FindingsIn(F, call)
<1>1. \A findings, prefix :
         TranslatedIn(E, call, findings, prefix) => TranslatedIn(F, call, findings, prefix)
  BY SaysMore DEF TranslatedIn
<1>2. BriefsIn(E, call) => BriefsIn(F, call)
  BY <1>1, SaysMore DEF BriefsIn
<1>3. \A c : ComparedIn(E, call, c) => ComparedIn(F, call, c)
  <2> TAKE c
  <2> HAVE ComparedIn(E, call, c)
  <2>1. c.protocol \in ProtocolsIn(F, call) /\ c.evaluation \in EvaluationsIn(F, call.of)
    BY Zenon, SaysMore DEF ComparedIn
  <2>2. \A i \in DOMAIN call.runs : c.runs[i] \in RunsNamedIn(F, call.runs[i])
    BY Zenon, SaysMore DEF ComparedIn
  <2>3. QED
    BY <2>1, <2>2 DEF ComparedIn
<1>4. \A c : StoodIn(E, call, c) => StoodIn(F, call, c)
  BY SaysMore DEF StoodIn
<1>5. \A st : AttestedIn(E, call, st) => AttestedIn(F, call, st)
  <2> TAKE st
  <2> HAVE AttestedIn(E, call, st)
  <2>1. \A i \in DOMAIN call.of : st.evaluations[i] \in EvaluationsIn(F, call.of[i])
    BY Zenon, SaysMore DEF AttestedIn
  <2>2. QED
    BY <2>1, SaysMore DEF AttestedIn
<1>6. FindingsIn(E, call) => FindingsIn(F, call)
  <2>1. KindIn(E, "finding") \subseteq KindIn(F, "finding")
    BY SaysMore
  <2>2. \A key : KeyIn(E, "climb", key) => KeyIn(F, "climb", key)
    BY SaysMore
  <2>3. QED
    BY <2>1, <2>2, Zenon DEF FindingsIn
<1>7. QED
  BY <1>1, <1>2, <1>3, <1>4, <1>5, <1>6

LEMMA ReachedMore ==
    ASSUME NEW E, NEW F, E \subseteq F, NEW call
    PROVE  \A n, task : Reached(E, call, n, task) => Reached(F, call, n, task)
<1> TAKE n, task
<1> HAVE Reached(E, call, n, task)
<1>1. \A journal, key : KeyIn(E, journal, key) => KeyIn(F, journal, key)
  BY Zenon, SaysMore
<1>2. \A key, record : FiledIn(E, key, record) => FiledIn(F, key, record)
  BY Zenon, SaysMore
<1>3. BriefsIn(E, call) => BriefsIn(F, call)
  BY LeavesMore
<1>4. QED
  BY <1>1, <1>2, <1>3 DEF Reached

LEMMA LabelledMore ==
    ASSUME NEW E, NEW F, E \subseteq F
    PROVE  \A write : Labelled(E, write) => Labelled(F, write)
BY SaysMore DEF Labelled, LabelledAs

LEMMA DoneMore ==
    ASSUME NEW E, NEW F, E \subseteq F, NEW call, call.op \in Operations, Done(E, call)
    PROVE  Done(F, call)
<1>1. \A journal, key : KeyIn(E, journal, key) => KeyIn(F, journal, key)
  BY SaysMore
<1>2. /\ Filed(E) \subseteq Filed(F)
      /\ \A kind : KindIn(E, kind) \subseteq KindIn(F, kind)
      /\ \A key : /\ EvaluationsIn(E, key) \subseteq EvaluationsIn(F, key)
                  /\ RunsNamedIn(E, key) \subseteq RunsNamedIn(F, key)
  BY SaysMore
<1>3. \A n, task : Reached(E, call, n, task) => Reached(F, call, n, task)
  BY ReachedMore
<1>4. /\ \A findings, prefix :
            TranslatedIn(E, call, findings, prefix) => TranslatedIn(F, call, findings, prefix)
      /\ BriefsIn(E, call) => BriefsIn(F, call)
      /\ \A c : /\ ComparedIn(E, call, c) => ComparedIn(F, call, c)
                /\ StoodIn(E, call, c) => StoodIn(F, call, c)
      /\ \A st : AttestedIn(E, call, st) => AttestedIn(F, call, st)
      /\ FindingsIn(E, call) => FindingsIn(F, call)
  BY LeavesMore
<1>5. CASE call.op \in {"create", "bind", "panel", "register", "plan", "authorize", "observe",
                        "measure", "anchor", "rung"}
  BY Zenon, <1>1, <1>2, <1>5 DEF Done
<1>6. CASE call.op \in {"translate", "propose", "apply", "run"}
  BY Zenon, <1>1, <1>2, <1>3, <1>4, <1>6 DEF Done
<1>7. CASE call.op \in {"review", "select", "freeze", "translate_run"}
  BY Zenon, <1>1, <1>2, <1>4, <1>7 DEF Done
<1>8. CASE call.op \in {"attest", "compare", "issue", "finalize"}
  BY Zenon, <1>1, <1>2, <1>4, <1>8 DEF Done
<1>9. QED
  BY <1>5, <1>6, <1>7, <1>8 DEF Operations

-----------------------------------------------------------------------------
(* The ledger has one record of a name *)

LEMMA JournalsAre ==
    /\ \A e : JournalOf(e) = "climb" <=> "record" \in DOMAIN e
    /\ \A key, record : JournalOf(Entry(key, record)) = "climb"
<1>1. \A e : JournalOf(e) = "climb" <=> "record" \in DOMAIN e
  BY DEF JournalOf
<1>2. QED
  BY <1>1, EntryHas

LEMMA WrittenIs ==
    ASSUME InPlace
    PROVE  /\ Filed(Written) = Range(climb)
           /\ \A kind : KindIn(Written, kind) = Collection(Records(climb), kind)
           /\ \A key : /\ KeyIn(Written, "climb", key) <=> HasKey(climb, key)
                       /\ KeyIn(Written, "operational", key) <=> HasKey(operational, key)
                       /\ KeyIn(Written, "qualification", key) <=> HasKey(qualification, key)
                       /\ KeyIn(Written, "lineage", key) <=> HasKey(drafts, key)
<1>1. /\ \A e \in Range(climb) : JournalOf(e) = "climb"
      /\ \A e \in Range(operational) : JournalOf(e) = "operational"
      /\ \A e \in Range(qualification) : JournalOf(e) = "qualification"
      /\ \A e \in Range(drafts) : JournalOf(e) = "lineage"
      /\ IsLog(climb)
  BY DEF InPlace, Kept
<1>2. /\ \A e \in Written : JournalOf(e) = "climb" <=> e \in Range(climb)
      /\ \A e \in Written : JournalOf(e) = "operational" <=> e \in Range(operational)
      /\ \A e \in Written : JournalOf(e) = "qualification" <=> e \in Range(qualification)
      /\ \A e \in Written : JournalOf(e) = "lineage" <=> e \in Range(drafts)
  BY <1>1 DEF Written
<1>3. Filed(Written) = Range(climb)
  BY <1>1, <1>2, JournalsAre DEF Filed, Written
<1>4. \A kind : KindIn(Written, kind) = Collection(Records(climb), kind)
  <2> TAKE kind
  <2>1. Collection(Records(climb), kind) = {r \in Range(Records(climb)) : r.record = kind}
    BY CollectionIs
  <2>2. Range(Records(climb)) = {e.record : e \in Range(climb)}
    BY <1>1, RecordsAre
  <2>3. KindIn(Written, kind) = {e.record : e \in {x \in Range(climb) : x.record.record = kind}}
    BY <1>3 DEF KindIn
  <2>4. QED
    BY <2>1, <2>2, <2>3
<1>5. \A log, key : HasKey(log, key) <=> \E e \in Range(log) : e.key = key
  BY DEF HasKey, Range
<1>6. Range(climb) \subseteq Written /\ Range(operational) \subseteq Written
      /\ Range(qualification) \subseteq Written /\ Range(drafts) \subseteq Written
  BY DEF Written
<1>7. QED
  BY <1>1, <1>2, <1>3, <1>4, <1>5, <1>6 DEF KeyIn

\* So what the ledger has, of a name, is what is written.
LEMMA NamedIn ==
    ASSUME InPlace
    PROVE  /\ \A key : /\ EvaluationsOf(Records(climb), key) = EvaluationsIn(Written, key)
                       /\ RunsNamed(Records(climb), key) = RunsNamedIn(Written, key)
           /\ \A call : Protocols(Records(climb), call) = ProtocolsIn(Written, call)
BY WrittenIs DEF EvaluationsOf, EvaluationsIn, RunsNamed, RunsNamedIn, Protocols, ProtocolsIn

LEMMA KeyedOnce ==
    ASSUME InPlace, NEW e \in Range(climb), NEW f \in Range(climb), e.key = f.key
    PROVE  e = f
BY DEF InPlace, Kept, KeysUnique, Range

LEMMA EntryOf ==
    ASSUME InPlace, NEW kind, NEW record \in KindIn(Written, kind)
    PROVE  /\ record.record = kind
           /\ \E e \in Range(climb) : e.record = record /\ "record" \in DOMAIN e
<1>1. Filed(Written) = Range(climb)
  BY WrittenIs
<1>2. PICK e \in Filed(Written) : e.record.record = kind /\ record = e.record
  BY DEF KindIn
<1>3. "record" \in DOMAIN e
  BY <1>2 DEF Filed
<1>4. QED
  BY <1>1, <1>2, <1>3

LEMMA OneFiled ==
    ASSUME InPlace, NEW key, NEW r, NEW s, FiledIn(Written, key, r), FiledIn(Written, key, s)
    PROVE  r = s
BY WrittenIs, KeyedOnce DEF FiledIn

LEMMA TaskFiled ==
    ASSUME RepeatInv, NEW t \in KindIn(Written, "task")
    PROVE  FiledIn(Written, <<"task", t.key>>, t)
<1>1. InPlace /\ \A e \in Range(climb) : Labelled(Written, e)
  BY DEF RepeatInv
<1>2. PICK e \in Range(climb) : e.record = t /\ "record" \in DOMAIN e /\ t.record = "task"
  BY <1>1, EntryOf
<1>3. e.key = <<"task", t.key>>
  BY Zenon, <1>1, <1>2 DEF Labelled, LabelledAs
<1>4. QED
  BY <1>1, <1>2, <1>3, WrittenIs DEF FiledIn

LEMMA OneEvaluation ==
    ASSUME RepeatInv, NEW key, NEW e \in EvaluationsIn(Written, key),
           NEW f \in EvaluationsIn(Written, key)
    PROVE  e = f
<1>1. InPlace /\ \A x \in Range(climb) : Labelled(Written, x)
  BY DEF RepeatInv
<1>2. /\ e \in KindIn(Written, "evaluation") /\ e.task.key = key
      /\ f \in KindIn(Written, "evaluation") /\ f.task.key = key
  BY DEF EvaluationsIn
<1>3. PICK x \in Range(climb) : x.record = e /\ "record" \in DOMAIN x /\ e.record = "evaluation"
  BY <1>1, <1>2, EntryOf
<1>4. PICK y \in Range(climb) : y.record = f /\ "record" \in DOMAIN y /\ f.record = "evaluation"
  BY <1>1, <1>2, EntryOf
<1>5. x.key = <<"evaluation", e.task>> /\ FiledIn(Written, <<"task", key>>, e.task)
  BY <1>1, <1>2, <1>3 DEF Labelled, LabelledAs
<1>6. y.key = <<"evaluation", f.task>> /\ FiledIn(Written, <<"task", key>>, f.task)
  BY <1>1, <1>2, <1>4 DEF Labelled, LabelledAs
<1>7. e.task = f.task
  BY <1>1, <1>5, <1>6, OneFiled
<1>8. x = y
  BY <1>1, <1>5, <1>6, <1>7, KeyedOnce
<1>9. QED
  BY <1>3, <1>4, <1>8

LEMMA OneRun ==
    ASSUME RepeatInv, scenario \in Scenarios, NEW key, NEW r \in RunsNamedIn(Written, key),
           NEW s \in RunsNamedIn(Written, key)
    PROVE  r = s
<1>1. InPlace /\ \A x \in Range(climb) : Labelled(Written, x)
  BY DEF RepeatInv
<1>2. /\ r \in KindIn(Written, "playtest_run") /\ r.key = key
      /\ s \in KindIn(Written, "playtest_run") /\ s.key = key
  BY DEF RunsNamedIn
<1>3. PICK x \in Range(climb) : x.record = r /\ "record" \in DOMAIN x /\ r.record = "playtest_run"
  BY <1>1, <1>2, EntryOf
<1>4. PICK y \in Range(climb) : y.record = s /\ "record" \in DOMAIN y /\ s.record = "playtest_run"
  BY <1>1, <1>2, EntryOf
<1>5. PICK p \in Operators : \E i \in DOMAIN Script[scenario][p] :
         LET call == Script[scenario][p][i]
         IN call.op = "run" /\ r.key = call.key /\ x.key = <<"run", call.id>>
  BY Zenon, <1>1, <1>3 DEF Labelled, LabelledAs
<1>6. PICK q \in Operators : \E i \in DOMAIN Script[scenario][q] :
         LET call == Script[scenario][q][i]
         IN call.op = "run" /\ s.key = call.key /\ y.key = <<"run", call.id>>
  BY Zenon, <1>1, <1>4 DEF Labelled, LabelledAs
<1>7. RunsAreNamed(scenario)
  BY ScriptAssumption
<1>8. x.key = y.key
  BY <1>2, <1>5, <1>6, <1>7 DEF RunsAreNamed
<1>9. x = y
  BY <1>1, <1>8, KeyedOnce
<1>10. QED
  BY <1>3, <1>4, <1>9

LEMMA OnePlan ==
    ASSUME MovesInv, InPlace, NEW a \in KindIn(Written, "experiment_plan"),
           NEW b \in KindIn(Written, "experiment_plan")
    PROVE  a = b
<1>1. PICK x \in Range(climb) : x.record = a /\ a.record = "experiment_plan"
  BY EntryOf
<1>2. PICK y \in Range(climb) : y.record = b /\ b.record = "experiment_plan"
  BY EntryOf
<1>3. \A e \in Range(climb) : Keyed(e)
  BY DEF MovesInv, GlobalOf, RecordHolds, Range
<1>4. x.key = y.key
  BY <1>1, <1>2, <1>3 DEF Keyed
<1>5. x = y
  BY <1>4, KeyedOnce
<1>6. QED
  BY <1>1, <1>2, <1>5

LEMMA OneProtocol ==
    ASSUME MovesInv, RepeatInv, NEW call, NEW a \in ProtocolsIn(Written, call),
           NEW b \in ProtocolsIn(Written, call)
    PROVE  a = b
<1>1. InPlace /\ \A x \in Range(climb) : Labelled(Written, x)
  BY DEF RepeatInv
<1>2. /\ a \in KindIn(Written, "playtest_protocol") /\ b \in KindIn(Written, "playtest_protocol")
      /\ a.binding = b.binding /\ a.terms = b.terms
  BY DEF ProtocolsIn
<1>3. PICK x \in Range(climb) : /\ x.record = a /\ "record" \in DOMAIN x
                                /\ a.record = "playtest_protocol"
  BY <1>1, <1>2, EntryOf
<1>4. PICK y \in Range(climb) : /\ y.record = b /\ "record" \in DOMAIN y
                                /\ b.record = "playtest_protocol"
  BY <1>1, <1>2, EntryOf
<1>5. PICK plan \in KindIn(Written, "experiment_plan") :
         a = PlaytestProtocol(a.binding, plan.instrument, a.terms)
  BY Zenon, <1>1, <1>3 DEF Labelled, LabelledAs
<1>6. PICK other \in KindIn(Written, "experiment_plan") :
         b = PlaytestProtocol(b.binding, other.instrument, b.terms)
  BY Zenon, <1>1, <1>4 DEF Labelled, LabelledAs
<1>7. plan = other
  BY <1>1, OnePlan
<1>8. QED
  BY <1>2, <1>5, <1>6, <1>7

LEMMA OneProposal ==
    ASSUME MovesInv, InPlace, NEW a \in KindIn(Written, "proposal"),
           NEW b \in KindIn(Written, "proposal"), a.task.key = b.task.key
    PROVE  a = b
<1>1. PICK x \in Range(climb) : x.record = a /\ a.record = "proposal"
  BY EntryOf
<1>2. PICK y \in Range(climb) : y.record = b /\ b.record = "proposal"
  BY EntryOf
<1>3. \A e \in Range(climb) : Keyed(e)
  BY DEF MovesInv, GlobalOf, RecordHolds, Range
<1>4. x.key = y.key
  BY <1>1, <1>2, <1>3 DEF Keyed
<1>5. x = y
  BY <1>4, KeyedOnce
<1>6. QED
  BY <1>1, <1>2, <1>5

-----------------------------------------------------------------------------
(* What a stage leads to *)

\* What a stage of a call will have left, and that it writes nothing new of a call that
\* has left it all.
StageLeads(stage, call, n) ==
    /\ \A write \in Range(stage.writes) : Labelled(Written, write)
    /\ stage.next = "stage" => Reached(Written \cup Range(stage.writes), call, n + 1, stage.task)
    /\ stage.next = "done" => Done(Written \cup Range(stage.writes), call)
StageRepeats(stage, call) ==
    /\ \A write \in Range(stage.writes) : KeyIn(Written, JournalOf(write), write.key)
    /\ call.op = "panel" => stage.next # "stage"
StageGoes(stage, call, n) ==
    /\ StageLeads(stage, call, n)
    /\ Done(Written, call) /\ (call.op = "panel" => n = 1) => StageRepeats(stage, call)

\* The kinds of record of which there is one of a name.
Singular == {"task", "evaluation", "playtest_run", "playtest_protocol"}
Plain(write) == "record" \in DOMAIN write => write.record.record \notin Singular

LEMMA PlainLabelled == ASSUME NEW E, NEW write, Plain(write) PROVE Labelled(E, write)
BY DEF Plain, Labelled, LabelledAs, Singular

LEMMA PlainEntry ==
    ASSUME NEW E, NEW key, NEW record, record.record \notin Singular
    PROVE  Labelled(E, Entry(key, record))
BY EntryHas, PlainLabelled DEF Plain

LEMMA RangesOf ==
    /\ Range(<< >>) = {}
    /\ \A x : Range(<<x>>) = {x}
BY DEF Range

LEMMA RaisesGoes == ASSUME NEW call, NEW n PROVE StageGoes(Raises(<< >>), call, n)
<1>1. Range(Raises(<< >>).writes) = {} /\ Raises(<< >>).next = "refused"
  BY RangesOf, StageHas
<1>2. QED
  BY <1>1 DEF StageGoes, StageLeads, StageRepeats

LEMMA SingleGoes ==
    ASSUME NEW call, call.op # "panel", NEW n, NEW write,
           Labelled(Written, write), Done(Written \cup {write}, call),
           Done(Written, call) => KeyIn(Written, JournalOf(write), write.key)
    PROVE  StageGoes(Returns(<<write>>), call, n)
<1>1. Range(Returns(<<write>>).writes) = {write} /\ Returns(<<write>>).next = "done"
  BY RangesOf, StageHas
<1>2. QED
  BY <1>1 DEF StageGoes, StageLeads, StageRepeats

\* The usual one: a record under a key.
LEMMA EntryGoes ==
    ASSUME NEW call, call.op # "panel", NEW n, NEW key, NEW record,
           Labelled(Written, Entry(key, record)),
           Done(Written \cup {Entry(key, record)}, call),
           Done(Written, call) => KeyIn(Written, "climb", key)
    PROVE  StageGoes(Returns(<<Entry(key, record)>>), call, n)
BY SingleGoes, JournalsAre, EntryHas

LEMMA EntryIn ==
    ASSUME NEW E, NEW key, NEW record, Entry(key, record) \in E
    PROVE  /\ KeyIn(E, "climb", key) /\ FiledIn(E, key, record)
           /\ \A kind : record.record = kind => record \in KindIn(E, kind)
<1>1. Entry(key, record) \in Filed(E)
  BY EntryHas DEF Filed
<1>2. QED
  BY <1>1, EntryHas, JournalsAre DEF KeyIn, FiledIn, KindIn

LEMMA BindGoes ==
    ASSUME NEW call, call.op = "bind", IsCall(call), NEW n
    PROVE  StageGoes(Bind(Records(climb), call), call, n)
<1> DEFINE entry == Entry(<<"binding", call.key>>, call.binding)
<1>1. call.binding.record = "trial_binding"
  BY DEF IsCall
<1>2. Labelled(Written, entry)
  BY <1>1, PlainEntry DEF Singular
<1>3. KeyIn(Written \cup {entry}, "climb", <<"binding", call.key>>)
  BY EntryIn
<1>4. Done(Written \cup {entry}, call)
  BY <1>3 DEF Done
<1>5. Done(Written, call) => KeyIn(Written, "climb", <<"binding", call.key>>)
  BY DEF Done
<1>6. StageGoes(Returns(<<entry>>), call, n)
  BY <1>2, <1>4, <1>5, EntryGoes
<1>7. QED
  BY <1>6, RaisesGoes DEF Bind

LEMMA RegisterGoes ==
    ASSUME NEW call, call.op = "register", IsCall(call), NEW n
    PROVE  StageGoes(Returns(<<Entry(call.key, call.record)>>), call, n)
<1> DEFINE entry == Entry(call.key, call.record)
<1>1. call.record.record \in {"authority", "model_receipt"}
  BY DEF IsCall
<1>2. Labelled(Written, entry)
  BY <1>1, PlainEntry DEF Singular
<1>3. KeyIn(Written \cup {entry}, "climb", call.key)
  BY EntryIn
<1>4. Done(Written \cup {entry}, call)
  BY <1>3 DEF Done
<1>5. Done(Written, call) => KeyIn(Written, "climb", call.key)
  BY DEF Done
<1>6. QED
  BY <1>2, <1>4, <1>5, EntryGoes

LEMMA ProposalsAre ==
    ASSUME InPlace, NEW key
    PROVE  ProposalsOf(Records(climb), key) = {p \in KindIn(Written, "proposal") : p.task.key = key}
BY WrittenIs DEF ProposalsOf

LEMMA ReviewGoes ==
    ASSUME MovesInv, RepeatInv, NEW call, call.op = "review", NEW n
    PROVE  StageGoes(Review(Records(climb), call), call, n)
<1> DEFINE bundle == Records(climb)
           proposal == The(ProposalsOf(bundle, call.of))
           review == ReviewOf(bundle, call)
           kind == IF call.kind = "human" THEN "human_review" ELSE "agent_review"
           entry == Entry(<<review.record, review.proposal>>, review)
<1>1. InPlace
  BY DEF RepeatInv
<1>2. review.record = kind /\ review.proposal = proposal
  BY DEF ReviewOf, HumanReview, AgentReview
<1> HIDE DEF review, proposal
<1>3. CASE ProposalsOf(bundle, call.of) # {}
  <2>1. proposal \in KindIn(Written, "proposal") /\ proposal.task.key = call.of
    BY <1>1, <1>3, TheIn, ProposalsAre DEF proposal
  <2>2. Labelled(Written, entry)
    BY <1>2, PlainEntry DEF Singular
  <2>3. Done(Written \cup {entry}, call)
    <3>1. proposal \in KindIn(Written \cup {entry}, "proposal")
      BY <2>1, SaysMore
    <3>2. KeyIn(Written \cup {entry}, "climb", <<kind, proposal>>)
      BY <1>2, EntryIn
    <3>3. QED
      BY Zenon, <2>1, <3>1, <3>2 DEF Done
  <2>4. Done(Written, call) => KeyIn(Written, "climb", <<review.record, review.proposal>>)
    <3> HAVE Done(Written, call)
    <3>1. PICK p \in KindIn(Written, "proposal") :
             p.task.key = call.of /\ KeyIn(Written, "climb", <<kind, p>>)
      BY DEF Done
    <3>2. p = proposal
      BY <1>1, <2>1, <3>1, OneProposal
    <3>3. QED
      BY <1>2, <3>1, <3>2
  <2>5. StageGoes(Returns(<<entry>>), call, n)
    BY <2>2, <2>3, <2>4, EntryGoes
  <2>6. QED
    BY <1>3, <2>5 DEF Review, review
<1>4. CASE ProposalsOf(bundle, call.of) = {}
  BY <1>4, RaisesGoes DEF Review
<1>5. QED
  BY <1>3, <1>4

LEMMA SelectGoes ==
    ASSUME MovesInv, RepeatInv, NEW call, call.op = "select", NEW n
    PROVE  StageGoes(Select(Records(climb), call), call, n)
<1> DEFINE bundle == Records(climb)
           baselines == EvaluationsOf(bundle, call.baseline)
           children == EvaluationsOf(bundle, call.child)
           baseline == The(baselines)
           child == The(children)
           decision == DecideSelection(InstrumentOf(bundle), baseline, child)
           entry == Entry(<<"selection", baseline, child>>, decision)
<1>1. InPlace
  BY DEF RepeatInv
<1>2. decision.record = "selection"
  BY DEF DecideSelection, SelectionDecision
<1>3. \/ Select(bundle, call) = Raises(<< >>)
      \/ baselines # {} /\ children # {} /\ Select(bundle, call) = Returns(<<entry>>)
  BY DEF Select
<1>4. /\ baselines = EvaluationsIn(Written, call.baseline)
      /\ children = EvaluationsIn(Written, call.child)
  BY <1>1, NamedIn
<1> HIDE DEF baselines, children, decision
<1>5. CASE baselines # {} /\ children # {}
  <2>1. /\ baseline \in EvaluationsIn(Written, call.baseline)
        /\ child \in EvaluationsIn(Written, call.child)
    BY <1>4, <1>5, TheIn
  <2>2. Labelled(Written, entry)
    BY <1>2, PlainEntry DEF Singular
  <2> HIDE DEF baseline, child
  <2>3. Done(Written \cup {entry}, call)
    <3>1. /\ baseline \in EvaluationsIn(Written \cup {entry}, call.baseline)
          /\ child \in EvaluationsIn(Written \cup {entry}, call.child)
      <4> HIDE DEF entry
      <4>1. Written \subseteq Written \cup {entry}
        OBVIOUS
      <4>2. \A key : EvaluationsIn(Written, key) \subseteq EvaluationsIn(Written \cup {entry}, key)
        BY Zenon, <4>1, SaysMore
      <4>3. QED
        BY <2>1, <4>2
    <3>2. KeyIn(Written \cup {entry}, "climb", <<"selection", baseline, child>>)
      <4>1. entry \in Written \cup {entry}
        OBVIOUS
      <4>2. QED
        BY <4>1, EntryIn
    <3>3. QED
      BY Zenon, <3>1, <3>2 DEF Done
  <2>4. Done(Written, call) => KeyIn(Written, "climb", <<"selection", baseline, child>>)
    <3> HAVE Done(Written, call)
    <3>1. PICK b \in EvaluationsIn(Written, call.baseline), c \in EvaluationsIn(Written, call.child) :
             KeyIn(Written, "climb", <<"selection", b, c>>)
      BY DEF Done
    <3>2. b = baseline /\ c = child
      BY <2>1, <3>1, OneEvaluation
    <3>3. QED
      BY <3>1, <3>2
  <2>5. QED
    BY <1>3, <2>2, <2>3, <2>4, EntryGoes, RaisesGoes
<1>6. QED
  BY <1>3, <1>5, RaisesGoes

LEMMA AttestGoes ==
    ASSUME MovesInv, RepeatInv, NEW call, call.op = "attest", NEW n
    PROVE  StageGoes(Attest(Records(climb), call), call, n)
<1> DEFINE bundle == Records(climb)
           evaluations == [i \in DOMAIN call.of |-> The(EvaluationsOf(bundle, call.of[i]))]
           st == MachineStanding(evaluations, call.reviewer)
           entry == Entry(<<"standing", st>>, st)
<1>1. InPlace
  BY DEF RepeatInv
<1>2. \/ Attest(bundle, call) = Raises(<< >>)
      \/ /\ \A i \in DOMAIN call.of : EvaluationsOf(bundle, call.of[i]) # {}
         /\ Attest(bundle, call) = Returns(<<entry>>)
  BY DEF Attest
<1>3. \A list, reviewer : /\ MachineStanding(list, reviewer).record = "standing"
                          /\ MachineStanding(list, reviewer).evaluations = list
  BY DEF MachineStanding, StandingAttestation
<1>4. CASE \A i \in DOMAIN call.of : EvaluationsOf(bundle, call.of[i]) # {}
  <2>1. \A i \in DOMAIN call.of : evaluations[i] \in EvaluationsIn(Written, call.of[i])
    BY <1>1, <1>4, TheIn, NamedIn
  <2>2. /\ evaluations = [i \in DOMAIN call.of |-> evaluations[i]]
        /\ DOMAIN evaluations = DOMAIN call.of
    OBVIOUS
  <2> HIDE DEF evaluations
  <2>3. st.record = "standing" /\ st.evaluations = evaluations
    BY <1>3
  <2> HIDE DEF st
  <2>4. Labelled(Written, entry)
    BY <2>3, PlainEntry DEF Singular
  <2>5. Done(Written \cup {entry}, call)
    <3>1. st \in KindIn(Written \cup {entry}, "standing")
      BY <2>3, EntryIn
    <3>2. KeyIn(Written \cup {entry}, "climb", <<"standing", st>>)
      BY EntryIn
    <3>3. \A i \in DOMAIN call.of : evaluations[i] \in EvaluationsIn(Written \cup {entry}, call.of[i])
      <4> HIDE DEF entry
      <4>1. Written \subseteq Written \cup {entry}
        OBVIOUS
      <4>2. \A key : EvaluationsIn(Written, key) \subseteq EvaluationsIn(Written \cup {entry}, key)
        BY <4>1, SaysMore
      <4>3. QED
        BY <2>1, <4>2
    <3>4. AttestedIn(Written \cup {entry}, call, st)
      <4>1. MachineStanding(st.evaluations, call.reviewer) = st
        BY <2>3 DEF st
      <4> HIDE DEF entry
      <4>2. QED
        BY <2>2, <2>3, <3>2, <3>3, <4>1 DEF AttestedIn
    <3>5. QED
      BY <3>1, <3>4 DEF Done
  <2>6. Done(Written, call) => KeyIn(Written, "climb", <<"standing", st>>)
    <3> HAVE Done(Written, call)
    <3>1. PICK s \in KindIn(Written, "standing") : AttestedIn(Written, call, s)
      BY DEF Done
    <3>2. /\ s.evaluations = [i \in DOMAIN call.of |-> s.evaluations[i]]
          /\ \A i \in DOMAIN call.of : s.evaluations[i] \in EvaluationsIn(Written, call.of[i])
          /\ KeyIn(Written, "climb", <<"standing", MachineStanding(s.evaluations, call.reviewer)>>)
      BY <3>1 DEF AttestedIn
    <3>3. \A i \in DOMAIN call.of : s.evaluations[i] = evaluations[i]
      BY <2>1, <3>2, OneEvaluation
    <3>4. s.evaluations = evaluations
      BY <2>2, <3>2, <3>3
    <3>5. QED
      BY <3>2, <3>4 DEF st
  <2>7. QED
    BY <1>2, <2>4, <2>5, <2>6, EntryGoes, RaisesGoes
<1>5. QED
  BY <1>2, <1>4, RaisesGoes

LEMMA PlanIn ==
    ASSUME InPlace, Founded(climb)
    PROVE  PlanOf(Records(climb)) \in KindIn(Written, "experiment_plan")
<1>1. PICK e \in Range(climb) : e.record.record = "experiment_plan"
  BY DEF Founded
<1>2. e.record \in KindIn(Written, "experiment_plan")
  BY <1>1, WrittenIs DEF KindIn
<1>3. QED
  BY <1>2, WrittenIs DEF PlanOf

LEMMA FreezeGoes ==
    ASSUME MovesInv, RepeatInv, Founded(climb), NEW call, call.op = "freeze", NEW n
    PROVE  StageGoes(FreezeProtocol(Records(climb), call), call, n)
<1> DEFINE plan == PlanOf(Records(climb))
           protocol == PlaytestProtocol(call.binding, plan.instrument, call.terms)
           entry == Entry(<<"playtest-protocol", protocol>>, protocol)
<1>1. InPlace /\ plan \in KindIn(Written, "experiment_plan")
  BY PlanIn DEF RepeatInv
<1>2. /\ protocol.record = "playtest_protocol" /\ protocol.binding = call.binding
      /\ protocol.terms = call.terms
  BY DEF PlaytestProtocol
<1>3. FreezeProtocol(Records(climb), call) \in {Raises(<< >>), Returns(<<entry>>)}
  BY DEF FreezeProtocol, InstrumentOf
<1>4. Labelled(Written, entry)
  <2>1. protocol = PlaytestProtocol(protocol.binding, plan.instrument, protocol.terms)
    BY <1>2
  <2> HIDE DEF plan, protocol
  <2>2. QED
    BY <1>1, <1>2, <2>1, EntryHas DEF Labelled, LabelledAs
<1>5. Done(Written \cup {entry}, call)
  <2>1. KeyIn(Written \cup {entry}, "climb", <<"playtest-protocol", protocol>>)
    BY EntryIn
  <2> HIDE DEF plan
  <2>2. plan \in KindIn(Written \cup {entry}, "experiment_plan")
    <3> HIDE DEF entry
    <3>1. Written \subseteq Written \cup {entry}
      OBVIOUS
    <3>2. QED
      BY Zenon, <1>1, <3>1, SaysMore
  <2>3. QED
    BY Zenon, <2>1, <2>2 DEF Done
<1>6. Done(Written, call) => KeyIn(Written, "climb", <<"playtest-protocol", protocol>>)
  <2> HAVE Done(Written, call)
  <2>1. PICK other \in KindIn(Written, "experiment_plan") :
           KeyIn(Written, "climb", <<"playtest-protocol",
                           PlaytestProtocol(call.binding, other.instrument, call.terms)>>)
    BY DEF Done
  <2>2. other = plan
    BY <1>1, <2>1, OnePlan
  <2>3. QED
    BY <2>1, <2>2
<1> HIDE DEF protocol, entry
<1>7. StageGoes(Returns(<<entry>>), call, n)
  BY <1>4, <1>5, <1>6, EntryGoes DEF entry
<1>8. QED
  BY <1>3, <1>7, RaisesGoes

LEMMA ComparisonIs ==
    ASSUME MovesInv, RepeatInv, NEW call, MayCompare(Records(climb), call)
    PROVE  /\ ComparisonOf(Records(climb), call).record = "evidence_comparison"
           /\ ComparedIn(Written, call, ComparisonOf(Records(climb), call))
           /\ \A d : ComparedIn(Written, call, d) => d = ComparisonOf(Records(climb), call)
<1> DEFINE bundle == Records(climb)
           protocol == The(Protocols(bundle, call))
           evaluation == The(EvaluationsOf(bundle, call.of))
           runs == RunsOf(bundle, call)
           c == ComparisonOf(bundle, call)
<1>1. InPlace /\ scenario \in Scenarios
  BY DEF RepeatInv, MovesInv
<1>2. /\ Protocols(bundle, call) # {} /\ EvaluationsOf(bundle, call.of) # {}
      /\ \A i \in DOMAIN call.runs : RunsNamed(bundle, call.runs[i]) # {}
  BY DEF MayCompare
<1>3. /\ protocol \in ProtocolsIn(Written, call)
      /\ evaluation \in EvaluationsIn(Written, call.of)
  BY <1>1, <1>2, TheIn, NamedIn
<1>4. \A i \in DOMAIN call.runs : runs[i] \in RunsNamedIn(Written, call.runs[i])
  BY <1>1, <1>2, TheIn, NamedIn DEF RunsOf
<1>5. runs = [i \in DOMAIN call.runs |-> runs[i]] /\ DOMAIN runs = DOMAIN call.runs
  BY DEF RunsOf
<1>6. \A p, e, r : /\ Comparing(p, e, r).record = "evidence_comparison"
                   /\ Comparing(p, e, r).protocol = p
                   /\ Comparing(p, e, r).evaluation = e
                   /\ Comparing(p, e, r).runs = r
  BY DEF Comparing, EvidenceComparison
<1>7. c = Comparing(protocol, evaluation, runs)
  BY DEF ComparisonOf
<1> HIDE DEF protocol, evaluation, runs, c
<1>8. c.record = "evidence_comparison" /\ c.protocol = protocol /\ c.evaluation = evaluation
      /\ c.runs = runs
  BY <1>6, <1>7
<1>9. ComparedIn(Written, call, c)
  BY <1>3, <1>4, <1>5, <1>7, <1>8 DEF ComparedIn
<1>10. ASSUME NEW d, ComparedIn(Written, call, d)
       PROVE  d = c
  <2>1. /\ d.protocol \in ProtocolsIn(Written, call)
        /\ d.evaluation \in EvaluationsIn(Written, call.of)
        /\ d.runs = [i \in DOMAIN call.runs |-> d.runs[i]]
        /\ \A i \in DOMAIN call.runs : d.runs[i] \in RunsNamedIn(Written, call.runs[i])
        /\ d = Comparing(d.protocol, d.evaluation, d.runs)
    BY <1>10 DEF ComparedIn
  <2>2. d.protocol = protocol /\ d.evaluation = evaluation
    BY <1>3, <2>1, OneProtocol, OneEvaluation
  <2>3. \A i \in DOMAIN call.runs : d.runs[i] = runs[i]
    BY <1>1, <1>4, <2>1, OneRun
  <2>4. d.runs = runs
    BY <1>5, <2>1, <2>3
  <2>5. QED
    BY Zenon, <1>7, <2>1, <2>2, <2>4
<1>11. QED
  BY <1>8, <1>9, <1>10 DEF c

LEMMA CompareGoes ==
    ASSUME MovesInv, RepeatInv, NEW call, call.op = "compare", NEW n
    PROVE  StageGoes(Compared(Records(climb), call), call, n)
<1> DEFINE c == ComparisonOf(Records(climb), call)
           entry == Entry(<<"evidence-comparison", c>>, c)
<1>1. CASE MayCompare(Records(climb), call)
  <2>1. /\ c.record = "evidence_comparison" /\ ComparedIn(Written, call, c)
        /\ \A d : ComparedIn(Written, call, d) => d = c
    BY <1>1, ComparisonIs
  <2>2. Compared(Records(climb), call) = Returns(<<entry>>)
    BY <1>1 DEF Compared, ComparisonEntry
  <2> HIDE DEF c
  <2>3. Labelled(Written, entry)
    BY <2>1, PlainEntry DEF Singular
  <2>4. Done(Written \cup {entry}, call)
    <3>1. entry \in Written \cup {entry} /\ Written \subseteq Written \cup {entry}
      OBVIOUS
    <3>2. /\ c \in KindIn(Written \cup {entry}, "evidence_comparison")
          /\ KeyIn(Written \cup {entry}, "climb", <<"evidence-comparison", c>>)
      BY <2>1, <3>1, EntryIn
    <3> HIDE DEF entry
    <3>3. ComparedIn(Written \cup {entry}, call, c)
      BY <2>1, <3>1, LeavesMore
    <3>4. QED
      BY <3>2, <3>3 DEF Done
  <2>5. Done(Written, call) => KeyIn(Written, "climb", <<"evidence-comparison", c>>)
    BY Zenon, <2>1 DEF Done
  <2>6. QED
    BY <2>2, <2>3, <2>4, <2>5, EntryGoes
<1>2. CASE ~MayCompare(Records(climb), call)
  BY <1>2, RaisesGoes DEF Compared
<1>3. QED
  BY <1>1, <1>2

LEMMA ManyGo ==
    ASSUME NEW call, call.op # "panel", NEW n, NEW writes,
           \A write \in Range(writes) : Labelled(Written, write),
           Done(Written \cup Range(writes), call),
           Done(Written, call) =>
             \A write \in Range(writes) : KeyIn(Written, JournalOf(write), write.key)
    PROVE  StageGoes(Returns(writes), call, n)
BY Zenon, StageHas DEF StageGoes, StageLeads, StageRepeats

LEMMA RangesJoin ==
    ASSUME NEW one, NEW two, IsLog(one), IsLog(two)
    PROVE  IsLog(one \o two) /\ Range(one \o two) = Range(one) \cup Range(two)
<1>1. /\ IsLog(one \o two) /\ Len(one \o two) = Len(one) + Len(two)
      /\ \A i \in 1..Len(one) : (one \o two)[i] = one[i]
      /\ \A i \in 1..Len(two) : (one \o two)[Len(one) + i] = two[i]
      /\ \A i \in DOMAIN (one \o two) :
            \/ \E j \in DOMAIN one : (one \o two)[i] = one[j]
            \/ \E j \in DOMAIN two : (one \o two)[i] = two[j]
  BY JoinedWrites, SMTT(40)
<1>2. /\ Len(one) \in Nat /\ DOMAIN one = 1..Len(one)
      /\ Len(two) \in Nat /\ DOMAIN two = 1..Len(two)
      /\ DOMAIN (one \o two) = 1..(Len(one) + Len(two))
  BY <1>1, LogFacts
<1> DEFINE all == one \o two
<1> HIDE DEF all
<1>3. \A i \in 1..Len(one) : one[i] \in Range(all)
  <2>1. \A i \in 1..Len(one) : i \in DOMAIN all
    BY <1>2 DEF all
  <2>2. QED
    BY <1>1, <2>1 DEF Range, all
<1>4. \A i \in 1..Len(two) : two[i] \in Range(all)
  <2>1. \A i \in 1..Len(two) : Len(one) + i \in DOMAIN all
    BY <1>2 DEF all
  <2>2. QED
    BY <1>1, <2>1 DEF Range, all
<1>5. \A i \in DOMAIN all : all[i] \in Range(one) \cup Range(two)
  BY <1>1 DEF Range, all
<1>6. Range(all) = Range(one) \cup Range(two)
  BY <1>2, <1>3, <1>4, <1>5 DEF Range
<1>7. QED
  BY <1>1, <1>6 DEF all

LEMMA StandingGoes ==
    ASSUME MovesInv, RepeatInv, NEW call, call.op \in {"issue", "finalize"}, IsCall(call), NEW n,
           MayCompare(Records(climb), call), NEW c, c = ComparisonOf(Records(climb), call),
           call.op = "issue" => c \in KindIn(Written, "evidence_comparison")
    PROVE  StageGoes(StandingOn(Records(climb), call, c, call.op = "issue"), call, n)
<1> DEFINE bundle == Records(climb)
           recorded == call.op = "issue"
           st == AcceptedStanding(c, call.reviewer)
           known == IsRegistered(bundle, call.reviewer.id)
           reviewer == IF known THEN << >>
                       ELSE <<Entry(<<"standing-reviewer", call.reviewer.id>>, call.reviewer)>>
           compared == IF recorded THEN << >> ELSE <<ComparisonEntry(c)>>
           last == <<Entry(<<"accepted-standing", st>>, st)>>
           writes == reviewer \o compared \o last
           E == Written \cup Range(writes)
<1>1. /\ c.record = "evidence_comparison" /\ ComparedIn(Written, call, c)
      /\ \A d : ComparedIn(Written, call, d) => d = c
  BY ComparisonIs
<1>2. InPlace /\ call.reviewer.record = "authority"
  BY DEF RepeatInv, IsCall, IsAuthority
<1>3. st.record = "standing"
  BY DEF AcceptedStanding, StandingAttestation
<1>4. StandingOn(bundle, call, c, recorded) \in {Raises(<< >>), Returns(writes)}
  BY DEF StandingOn
<1>5. known <=> \E a \in KindIn(Written, "authority") : a.id = call.reviewer.id
  BY <1>2, WrittenIs DEF IsRegistered, Authorities
<1> HIDE DEF st, known
<1>6. Range(writes) = Range(reviewer) \cup Range(compared) \cup Range(last)
  <2>1. IsLog(reviewer) /\ IsLog(compared) /\ IsLog(last)
    BY OneWrite, NoWrites
  <2> HIDE DEF reviewer, compared, last
  <2>2. QED
    BY <2>1, RangesJoin
<1>7. /\ Range(reviewer) = IF known THEN {} ELSE
            {Entry(<<"standing-reviewer", call.reviewer.id>>, call.reviewer)}
      /\ Range(compared) = IF recorded THEN {} ELSE {Entry(<<"evidence-comparison", c>>, c)}
      /\ Range(last) = {Entry(<<"accepted-standing", st>>, st)}
  BY Zenon, RangesOf DEF ComparisonEntry
<1> HIDE DEF reviewer, compared, last, writes
<1>8. ASSUME NEW write \in Range(writes)
      PROVE  Labelled(Written, write)
  <2>1. Labelled(Written, Entry(<<"standing-reviewer", call.reviewer.id>>, call.reviewer))
    BY <1>2, PlainEntry DEF Singular
  <2>2. Labelled(Written, Entry(<<"evidence-comparison", c>>, c))
    BY <1>1, PlainEntry DEF Singular
  <2>3. Labelled(Written, Entry(<<"accepted-standing", st>>, st))
    BY <1>3, PlainEntry DEF Singular
  <2>4. QED
    BY <1>6, <1>7, <1>8, <2>1, <2>2, <2>3
<1>9. Written \subseteq E /\ Range(writes) \subseteq E
  OBVIOUS
<1> HIDE DEF E
<1>10. c \in KindIn(E, "evidence_comparison")
  <2>1. CASE recorded
    BY Zenon, <1>9, <2>1, SaysMore
  <2>2. CASE ~recorded
    <3>1. Entry(<<"evidence-comparison", c>>, c) \in E
      BY <1>6, <1>7, <1>9, <2>2
    <3>2. QED
      BY <1>1, <3>1, EntryIn
  <2>3. QED
    BY <2>1, <2>2
<1>11. ComparedIn(E, call, c)
  BY <1>1, <1>9, LeavesMore
<1>12. StoodIn(E, call, c)
  <2>1. KeyIn(E, "climb", <<"accepted-standing", st>>)
    BY <1>6, <1>7, <1>9, EntryIn
  <2>2. \E a \in KindIn(E, "authority") : a.id = call.reviewer.id
    <3>1. CASE known
      BY Zenon, <1>5, <1>9, <3>1, SaysMore
    <3>2. CASE ~known
      <4>1. Entry(<<"standing-reviewer", call.reviewer.id>>, call.reviewer) \in E
        BY <1>6, <1>7, <1>9, <3>2
      <4>2. call.reviewer \in KindIn(E, "authority")
        BY <1>2, <4>1, EntryIn
      <4>3. QED
        BY <4>2
    <3>3. QED
      BY <3>1, <3>2
  <2>3. QED
    BY <2>1, <2>2 DEF StoodIn, st
<1>13. ~recorded => KeyIn(E, "climb", <<"evidence-comparison", c>>)
  BY <1>6, <1>7, <1>9, EntryIn
<1>14. Done(E, call)
  BY Zenon, <1>10, <1>11, <1>12, <1>13 DEF Done
<1>15. ASSUME Done(Written, call), NEW write \in Range(writes)
       PROVE  KeyIn(Written, JournalOf(write), write.key)
  <2>1. StoodIn(Written, call, c) /\ (~recorded => KeyIn(Written, "climb", <<"evidence-comparison", c>>))
    BY Zenon, <1>1, <1>15 DEF Done
  <2>2. known /\ KeyIn(Written, "climb", <<"accepted-standing", st>>)
    BY <1>5, <2>1 DEF StoodIn, st
  <2>3. \/ ~recorded /\ write = Entry(<<"evidence-comparison", c>>, c)
        \/ write = Entry(<<"accepted-standing", st>>, st)
    BY <1>6, <1>7, <1>15, <2>2
  <2>4. QED
    BY <2>1, <2>2, <2>3, EntryHas, JournalsAre
<1>16. StageGoes(Returns(writes), call, n)
  BY <1>8, <1>14, <1>15, ManyGo DEF E
<1>17. QED
  BY <1>4, <1>16, RaisesGoes

LEMMA StandingsGo ==
    ASSUME MovesInv, RepeatInv, NEW call, IsCall(call), NEW n
    PROVE  /\ call.op = "issue" => StageGoes(IssueStanding(Records(climb), call), call, n)
           /\ call.op = "finalize" => StageGoes(FinalizeStanding(Records(climb), call), call, n)
<1> DEFINE bundle == Records(climb)
           c == ComparisonOf(bundle, call)
<1>1. InPlace
  BY DEF RepeatInv
<1>2. IssueStanding(bundle, call) =
         IF ReviewerConflicts(bundle, call.reviewer) \/ ~IsCompared(bundle, call) THEN Raises(<< >>)
         ELSE StandingOn(bundle, call, c, TRUE)
  BY DEF IssueStanding
<1>3. FinalizeStanding(bundle, call) =
         IF ReviewerConflicts(bundle, call.reviewer) \/ ~MayCompare(bundle, call) THEN Raises(<< >>)
         ELSE StandingOn(bundle, call, c, FALSE)
  BY DEF FinalizeStanding
<1>4. IsCompared(bundle, call) =>
         MayCompare(bundle, call) /\ c \in KindIn(Written, "evidence_comparison")
  BY <1>1, WrittenIs DEF IsCompared
<1>5. /\ call.op = "issue" => StandingOn(bundle, call, c, TRUE) = StandingOn(bundle, call, c, call.op = "issue")
      /\ call.op = "finalize" => StandingOn(bundle, call, c, FALSE) = StandingOn(bundle, call, c, call.op = "issue")
  <2> HIDE DEF c, bundle
  <2>1. QED
    BY Zenon DEF StandingOn
<1>6. /\ call.op = "issue" /\ IsCompared(bundle, call)
            => StageGoes(StandingOn(bundle, call, c, call.op = "issue"), call, n)
      /\ call.op = "finalize" /\ MayCompare(bundle, call)
            => StageGoes(StandingOn(bundle, call, c, call.op = "issue"), call, n)
  BY <1>4, StandingGoes
<1>7. QED
  BY Zenon, <1>2, <1>3, <1>5, <1>6, RaisesGoes

\* The events of the other journals: their keys are made of what the call names.
LEMMA EventGoes ==
    ASSUME NEW call, call.op # "panel", NEW n, NEW write, NEW journal, NEW key,
           "record" \notin DOMAIN write, JournalOf(write) = journal, write.key = key,
           \A E : KeyIn(E, journal, key) <=> Done(E, call)
    PROVE  StageGoes(Returns(<<write>>), call, n)
<1>1. Labelled(Written, write)
  BY PlainLabelled DEF Plain
<1>2. KeyIn(Written \cup {write}, journal, key)
  BY DEF KeyIn
<1>3. Done(Written \cup {write}, call)
  BY <1>2
<1>4. Done(Written, call) => KeyIn(Written, JournalOf(write), write.key)
  OBVIOUS
<1>5. QED
  BY <1>1, <1>3, <1>4, SingleGoes

LEMMA EfficiencyGoes ==
    ASSUME NEW call, NEW n
    PROVE  /\ call.op = "plan" => StageGoes(RecordPlan(call), call, n)
           /\ call.op = "authorize" => StageGoes(AuthorizeBoundary(call), call, n)
           /\ call.op = "observe" => StageGoes(RecordObservation(call), call, n)
           /\ call.op = "measure" => StageGoes(RecordFormalMeasurement(call), call, n)
<1>1. \A plan : /\ "record" \notin DOMAIN PlanEvent(plan)
                /\ JournalOf(PlanEvent(plan)) = "operational"
                /\ PlanEvent(plan).key = <<"efficiency-plan", plan>>
  BY DEF PlanEvent, JournalOf, EfficiencyTypes
<1>2. \A plan, boundary :
         /\ "record" \notin DOMAIN BoundaryEvent(plan, boundary)
         /\ JournalOf(BoundaryEvent(plan, boundary)) = "operational"
         /\ BoundaryEvent(plan, boundary).key = <<"efficiency-auth", plan, boundary>>
  BY DEF BoundaryEvent, JournalOf, EfficiencyTypes
<1>3. \A plan, observation, state :
         /\ "record" \notin DOMAIN ObservationEvent(plan, observation, state)
         /\ JournalOf(ObservationEvent(plan, observation, state)) = "operational"
         /\ ObservationEvent(plan, observation, state).key
              = <<"efficiency-observation", plan, observation.id>>
  BY DEF ObservationEvent, JournalOf, EfficiencyTypes
<1>4. \A plan, judges :
         /\ "record" \notin DOMAIN FormalEvent(plan, judges)
         /\ JournalOf(FormalEvent(plan, judges)) = "operational"
         /\ FormalEvent(plan, judges).key = <<"efficiency-formal", plan>>
  BY DEF FormalEvent, JournalOf, EfficiencyTypes
<1>5. ASSUME call.op = "plan" PROVE StageGoes(RecordPlan(call), call, n)
  <2>1. \A E : KeyIn(E, "operational", <<"efficiency-plan", call.plan>>) <=> Done(E, call)
    BY <1>5 DEF Done
  <2>2. StageGoes(Returns(<<PlanEvent(call.plan)>>), call, n)
    BY <1>1, <1>5, <2>1, EventGoes
  <2>3. QED
    BY <2>2, RaisesGoes DEF RecordPlan
<1>6. ASSUME call.op = "authorize" PROVE StageGoes(AuthorizeBoundary(call), call, n)
  <2>1. \A E : KeyIn(E, "operational", <<"efficiency-auth", call.plan, call.boundary>>)
                 <=> Done(E, call)
    BY <1>6 DEF Done
  <2>2. StageGoes(Returns(<<BoundaryEvent(call.plan, call.boundary)>>), call, n)
    BY <1>2, <1>6, <2>1, EventGoes
  <2>3. QED
    BY <2>2, RaisesGoes DEF AuthorizeBoundary
<1>7. ASSUME call.op = "observe" PROVE StageGoes(RecordObservation(call), call, n)
  <2>1. \A E : KeyIn(E, "operational",
                     <<"efficiency-observation", call.plan, call.observation.id>>) <=> Done(E, call)
    BY <1>7 DEF Done
  <2>2. \A state :
           StageGoes(Returns(<<ObservationEvent(call.plan, call.observation, state)>>), call, n)
    BY <1>3, <1>7, <2>1, EventGoes
  <2>3. QED
    BY <2>2, RaisesGoes DEF RecordObservation
<1>8. ASSUME call.op = "measure" PROVE StageGoes(RecordFormalMeasurement(call), call, n)
  <2>1. \A E : KeyIn(E, "operational", <<"efficiency-formal", call.plan>>) <=> Done(E, call)
    BY <1>8 DEF Done
  <2>2. StageGoes(Returns(<<FormalEvent(call.plan, call.judges)>>), call, n)
    BY <1>4, <1>8, <2>1, EventGoes
  <2>3. QED
    BY <2>2, RaisesGoes DEF RecordFormalMeasurement
<1>9. QED
  BY <1>5, <1>6, <1>7, <1>8

LEMMA QualifyGoes ==
    ASSUME NEW call, IsCall(call), NEW n
    PROVE  /\ call.op = "anchor" => StageGoes(Returns(<<AnchorEvent(call.candidate)>>), call, n)
           /\ call.op = "rung" => StageGoes(RecordSelectedRung(call), call, n)
<1>1. ASSUME call.op = "anchor"
      PROVE  StageGoes(Returns(<<AnchorEvent(call.candidate)>>), call, n)
  <2> DEFINE e == AnchorEvent(call.candidate)
  <2>1. /\ "record" \notin DOMAIN e /\ JournalOf(e) = "qualification"
        /\ e.key = <<"lineage-anchor", call.candidate>>
    BY DEF AnchorEvent, JournalOf, EfficiencyTypes
  <2>2. \A E : KeyIn(E, "qualification", <<"lineage-anchor", call.candidate>>) <=> Done(E, call)
    BY <1>1 DEF Done
  <2> HIDE DEF e
  <2>3. StageGoes(Returns(<<e>>), call, n)
    BY <1>1, <2>1, <2>2, EventGoes
  <2>4. QED
    BY <2>3 DEF e
<1>2. ASSUME call.op = "rung" PROVE StageGoes(RecordSelectedRung(call), call, n)
  <2>1. DOMAIN call.rung \cap {"record", "child"} = {} /\ call.rung.type = "selected_rung_recorded"
    BY <1>2 DEF IsCall
  <2>2. "record" \notin DOMAIN call.rung /\ JournalOf(call.rung) = "qualification"
    BY <2>1 DEF JournalOf, EfficiencyTypes
  <2>3. \A E : KeyIn(E, "qualification", call.rung.key) <=> Done(E, call)
    BY <1>2 DEF Done
  <2>4. StageGoes(Returns(<<call.rung>>), call, n)
    BY <1>2, <2>2, <2>3, EventGoes
  <2>5. QED
    BY <2>4, RaisesGoes DEF RecordSelectedRung
<1>3. QED
  BY <1>1, <1>2

LEMMA CommitHas ==
    ASSUME NEW key, NEW child
    PROVE  /\ "record" \notin DOMAIN Commit(key, child) /\ Commit(key, child).key = key
           /\ JournalOf(Commit(key, child)) = "lineage"
<1>1. DOMAIN Commit(key, child) = {"key", "child"} /\ Commit(key, child).key = key
  BY DEF Commit
<1>2. QED
  BY <1>1 DEF JournalOf

LEMMA CreateGoes ==
    ASSUME MovesInv, RepeatInv, NEW call, call.op = "create", IsCall(call), NEW n
    PROVE  StageGoes(Create(call), call, n)
<1> DEFINE writes == Opening(call)
<1>1. InPlace
  BY DEF RepeatInv
<1>2. /\ IsLog(writes) /\ Len(writes) = 5
      /\ writes[1] = Commit(<<"workspace-created">>, None)
      /\ writes[2] = Commit(<<"experiment-create">>, Draft(None, call.data))
      /\ writes[3] = Entry(<<"instrument", call.plan.instrument>>, call.plan.instrument)
      /\ writes[4] = Entry(<<"authority", call.reviewer.id>>, call.reviewer)
      /\ writes[5] = Entry(<<"experiment-plan">>, call.plan)
  BY OpeningHas
<1>3. /\ Create(call) \in {Raises(<< >>), Returns(writes)}
      /\ drafts # << >> => Create(call) = Raises(<< >>)
  BY DEF Create, Opening
<1> HIDE DEF writes
<1>4. DOMAIN writes = 1..5
  BY <1>2, LogFacts
<1>5. ASSUME NEW write \in Range(writes)
      PROVE  Labelled(Written, write)
  <2>1. PICK i \in 1..5 : write = writes[i]
    BY <1>4 DEF Range
  <2>2. /\ call.plan.record \notin Singular /\ call.plan.instrument.record \notin Singular
        /\ call.reviewer.record \notin Singular
    BY DEF IsCall, IsAuthority, Singular
  <2>3. CASE i = 1
    BY <1>2, <2>1, <2>3, CommitHas, PlainLabelled DEF Plain
  <2>4. CASE i = 2
    BY <1>2, <2>1, <2>4, CommitHas, PlainLabelled DEF Plain
  <2>5. CASE i = 3
    BY <1>2, <2>1, <2>2, <2>5, PlainEntry
  <2>6. CASE i = 4
    BY <1>2, <2>1, <2>2, <2>6, PlainEntry
  <2>7. CASE i = 5
    BY <1>2, <2>1, <2>2, <2>7, PlainEntry
  <2>8. QED
    BY <2>3, <2>4, <2>5, <2>6, <2>7
<1>6. Done(Written \cup Range(writes), call)
  <2>1. writes[1] \in Range(writes)
    BY <1>4 DEF Range
  <2>2. KeyIn(Written \cup Range(writes), "lineage", <<"workspace-created">>)
    BY <1>2, <2>1, CommitHas DEF KeyIn
  <2>3. QED
    BY <2>2 DEF Done
<1>7. Done(Written, call) => drafts # << >>
  <2> HAVE Done(Written, call)
  <2>1. KeyIn(Written, "lineage", <<"workspace-created">>)
    BY DEF Done
  <2>2. HasKey(drafts, <<"workspace-created">>)
    BY <1>1, <2>1, WrittenIs
  <2>3. QED
    BY <2>2 DEF HasKey
<1>8. CASE drafts # << >>
  BY <1>3, <1>8, RaisesGoes
<1>9. CASE Create(call) = Raises(<< >>)
  BY <1>9, RaisesGoes
<1>10. CASE drafts = << >> /\ Create(call) = Returns(writes)
  <2>1. ~Done(Written, call)
    BY <1>7, <1>10
  <2>2. QED
    BY <1>5, <1>6, <1>10, <2>1, ManyGo
<1>11. QED
  BY <1>3, <1>8, <1>9, <1>10

LEMMA ApplyGoes ==
    ASSUME NEW call, call.op = "apply", NEW n \in Nat \ {0}, NEW task, Reached(Written, call, n, task)
    PROVE  StageGoes(ApplyStage(Records(climb), call, n), call, n)
<1> DEFINE stage == ApplyStage(Records(climb), call, n)
           review == The(ReviewsOf(Records(climb), call))
           proposal == review.proposal
           child == Draft(proposal.baseline, proposal.data)
           move == Transition(proposal, review, review.reviewer, proposal.baseline, proposal.data, child)
           first == Commit(TransitionKey(call), child)
           last == Entry(<<"transition", call.key>>, move)
<1>1. \/ stage = Raises(<< >>)
      \/ n = 1 /\ stage = Goes(<<first>>, None)
      \/ n # 1 /\ stage = Returns(<<last>>)
  BY DEF ApplyStage
<1>2. move.record = "transition"
  BY DEF Transition
<1>3. \A E, m, t : m >= 2 => (Reached(E, call, m, t) <=> KeyIn(E, "lineage", TransitionKey(call)))
  BY DEF Reached
<1>4. \A E : Done(E, call) => /\ KeyIn(E, "lineage", TransitionKey(call))
                              /\ KeyIn(E, "climb", <<"transition", call.key>>)
  BY DEF Done, Reached
<1> HIDE DEF stage, child, move
<1>5. CASE n = 1 /\ stage = Goes(<<first>>, None)
  <2>1. Range(stage.writes) = {first} /\ stage.next = "stage" /\ stage.task = None
    BY <1>5, RangesOf, StageHas
  <2>2. /\ "record" \notin DOMAIN first /\ first.key = TransitionKey(call)
        /\ JournalOf(first) = "lineage"
    BY CommitHas
  <2> HIDE DEF first
  <2>3. Labelled(Written, first)
    BY <2>2, PlainLabelled DEF Plain
  <2>4. KeyIn(Written \cup {first}, "lineage", TransitionKey(call))
    BY <2>2 DEF KeyIn
  <2>5. Reached(Written \cup {first}, call, n + 1, None)
    BY <1>3, <1>5, <2>4
  <2>6. StageLeads(stage, call, n)
    BY <2>1, <2>3, <2>5 DEF StageLeads
  <2>7. Done(Written, call) => KeyIn(Written, JournalOf(first), first.key)
    BY <1>4, <2>2
  <2>8. QED
    BY <2>1, <2>6, <2>7 DEF StageGoes, StageRepeats, stage
<1>6. CASE n # 1 /\ stage = Returns(<<last>>)
  <2>1. KeyIn(Written, "lineage", TransitionKey(call))
    BY <1>3, <1>6
  <2>2. Labelled(Written, last)
    BY <1>2, PlainEntry DEF Singular
  <2>3. Done(Written \cup {last}, call)
    <3>1. KeyIn(Written \cup {last}, "climb", <<"transition", call.key>>)
      BY EntryIn
    <3>2. KeyIn(Written \cup {last}, "lineage", TransitionKey(call))
      <4> HIDE DEF last
      <4>1. Written \subseteq Written \cup {last}
        OBVIOUS
      <4>2. QED
        BY <2>1, <4>1, SaysMore
    <3>3. Reached(Written \cup {last}, call, 2, None)
      BY <1>3, <3>2
    <3>4. QED
      BY <3>1, <3>3 DEF Done
  <2>4. Done(Written, call) => KeyIn(Written, "climb", <<"transition", call.key>>)
    BY <1>4
  <2>5. StageGoes(Returns(<<last>>), call, n)
    BY <2>2, <2>3, <2>4, EntryGoes
  <2>6. QED
    BY <1>6, <2>5 DEF stage
<1>7. QED
  BY <1>1, <1>5, <1>6, RaisesGoes DEF stage

-----------------------------------------------------------------------------
(* Requirements and Runs *)

LEMMA TranslationLeaves ==
    ASSUME InPlace, NEW call, IsList(call.briefs), NEW findings, NEW prefix,
           NEW writes, writes = TranslateWrites(Records(climb), call, findings, prefix)
    PROVE  /\ \A write \in Range(writes) : Labelled(Written, write)
           /\ TranslatedIn(Written \cup Range(writes), call, findings, prefix)
           /\ TranslatedIn(Written, call, findings, prefix) =>
                \A write \in Range(writes) : KeyIn(Written, JournalOf(write), write.key)
<1> DEFINE R(i) == RequirementOf(call, i, findings)
           entry(i) == Entry(<<prefix, R(i)>>, R(i))
           places == {i \in DOMAIN Translated(call, findings) :
                        R(i) \notin Collection(Records(climb), "requirement")}
           new == InOrder(places)
           E == Written \cup Range(writes)
<1>1. writes = [n \in DOMAIN new |-> entry(new[n])]
  BY DEF TranslateWrites
<1>2. Range(new) = places
  <2>1. Len(call.briefs) \in Nat /\ DOMAIN call.briefs = 1..Len(call.briefs)
    BY ListHas
  <2>2. DOMAIN Translated(call, findings) \subseteq DOMAIN call.briefs
    BY DEF Translated
  <2>3. places \in SUBSET (1..Len(call.briefs))
    BY <2>1, <2>2
  <2> HIDE DEF places
  <2>4. QED
    BY Zenon, <2>1, <2>3, InOrderOnto
<1>3. \A i : R(i).record = "requirement"
  BY DEF RequirementOf, Requirement
<1>4. places = {i \in DOMAIN Translated(call, findings) : R(i) \notin KindIn(Written, "requirement")}
  BY WrittenIs
<1> HIDE DEF R, new, places
<1>5. \A write : write \in Range(writes) <=> \E i \in places : write = entry(i)
  BY Zenon, <1>1, <1>2 DEF Range
<1>6. \A write \in Range(writes) : Labelled(Written, write)
  <2> TAKE write \in Range(writes)
  <2>1. PICK i \in places : write = entry(i)
    BY <1>5
  <2>2. R(i).record \notin Singular
    BY <1>3 DEF Singular
  <2>3. QED
    BY <2>1, <2>2, PlainEntry
<1>7. Written \subseteq E /\ Range(writes) \subseteq E
  OBVIOUS
<1> HIDE DEF E
<1>8. ASSUME NEW i \in DOMAIN Translated(call, findings)
      PROVE  R(i) \in KindIn(E, "requirement") \/ KeyIn(E, "climb", <<prefix, R(i)>>)
  <2>1. CASE i \in places
    <3>1. entry(i) \in E
      BY <1>5, <1>7, <2>1
    <3>2. QED
      BY <3>1, EntryIn
  <2>2. CASE i \notin places
    <3>1. R(i) \in KindIn(Written, "requirement")
      BY <1>4, <2>2
    <3>2. QED
      BY <1>7, <3>1, SaysMore
  <2>3. QED
    BY <2>1, <2>2
<1>9. TranslatedIn(E, call, findings, prefix)
  BY <1>8 DEF TranslatedIn, R
<1>10. ASSUME TranslatedIn(Written, call, findings, prefix), NEW write \in Range(writes)
       PROVE  KeyIn(Written, JournalOf(write), write.key)
  <2>1. PICK i \in places : write = entry(i)
    BY <1>5
  <2>2. R(i) \notin KindIn(Written, "requirement") /\ i \in DOMAIN Translated(call, findings)
    BY <1>4
  <2>3. KeyIn(Written, "climb", <<prefix, R(i)>>)
    BY <1>10, <2>2 DEF TranslatedIn, R
  <2>4. QED
    BY <2>1, <2>3, EntryHas, JournalsAre
<1>11. QED
  BY <1>6, <1>9, <1>10 DEF E

LEMMA TranslateGoes ==
    ASSUME MovesInv, RepeatInv, NEW call, call.op = "translate", IsCall(call), NEW n
    PROVE  StageGoes(Translate(Records(climb), call), call, n)
<1> DEFINE evaluations == EvaluationsOf(Records(climb), call.of)
           source == The(evaluations)
           writes == TranslateWrites(Records(climb), call, source.findings, "requirement")
<1>1. InPlace /\ IsList(call.briefs)
  BY DEF RepeatInv, IsCall
<1>2. evaluations = EvaluationsIn(Written, call.of)
  BY <1>1, NamedIn
<1>3. Translate(Records(climb), call) = IF evaluations = {} THEN Raises(<< >>) ELSE Returns(writes)
  BY DEF Translate
<1>4. /\ \A write \in Range(writes) : Labelled(Written, write)
      /\ TranslatedIn(Written \cup Range(writes), call, source.findings, "requirement")
      /\ TranslatedIn(Written, call, source.findings, "requirement") =>
           \A write \in Range(writes) : KeyIn(Written, JournalOf(write), write.key)
  BY Zenon, <1>1, TranslationLeaves
<1> HIDE DEF writes, evaluations
<1>5. CASE evaluations # {}
  <2>1. source \in EvaluationsIn(Written, call.of)
    BY <1>2, <1>5, TheIn
  <2> HIDE DEF source
  <2>2. Done(Written \cup Range(writes), call)
    <3>1. Written \subseteq Written \cup Range(writes)
      OBVIOUS
    <3>2. source \in EvaluationsIn(Written \cup Range(writes), call.of)
      BY <2>1, <3>1, SaysMore
    <3>3. QED
      BY <1>4, <3>2 DEF Done, BriefsIn
  <2>3. Done(Written, call) => TranslatedIn(Written, call, source.findings, "requirement")
    <3> HAVE Done(Written, call)
    <3>1. PICK e \in EvaluationsIn(Written, call.of) :
             TranslatedIn(Written, call, e.findings, "requirement")
      BY DEF Done, BriefsIn
    <3>2. e = source
      BY <2>1, <3>1, OneEvaluation
    <3>3. QED
      BY <3>1, <3>2
  <2>4. StageGoes(Returns(writes), call, n)
    BY <1>4, <2>2, <2>3, ManyGo
  <2>5. QED
    BY <1>3, <1>5, <2>4
<1>6. CASE evaluations = {}
  BY <1>3, <1>6, RaisesGoes
<1>7. QED
  BY <1>5, <1>6

LEMMA TranslateRunGoes ==
    ASSUME MovesInv, RepeatInv, NEW call, call.op = "translate_run", IsCall(call), NEW n
    PROVE  StageGoes(TranslateRun(Records(climb), call), call, n)
<1> DEFINE runs == RunsNamed(Records(climb), call.of)
           source == The(runs)
           writes == TranslateWrites(Records(climb), call, source.findings, "playtest-requirement")
<1>1. InPlace /\ IsList(call.briefs) /\ scenario \in Scenarios
  BY DEF RepeatInv, IsCall, MovesInv
<1>2. runs = RunsNamedIn(Written, call.of)
  BY <1>1, NamedIn
<1>3. TranslateRun(Records(climb), call) = IF runs = {} THEN Raises(<< >>) ELSE Returns(writes)
  BY DEF TranslateRun
<1>4. /\ \A write \in Range(writes) : Labelled(Written, write)
      /\ TranslatedIn(Written \cup Range(writes), call, source.findings, "playtest-requirement")
      /\ TranslatedIn(Written, call, source.findings, "playtest-requirement") =>
           \A write \in Range(writes) : KeyIn(Written, JournalOf(write), write.key)
  BY Zenon, <1>1, TranslationLeaves
<1> HIDE DEF writes, runs
<1>5. CASE runs # {}
  <2>1. source \in RunsNamedIn(Written, call.of)
    BY <1>2, <1>5, TheIn
  <2> HIDE DEF source
  <2>2. Done(Written \cup Range(writes), call)
    <3>1. Written \subseteq Written \cup Range(writes)
      OBVIOUS
    <3>2. source \in RunsNamedIn(Written \cup Range(writes), call.of)
      BY Zenon, <2>1, <3>1, SaysMore
    <3>3. QED
      BY <1>4, <3>2 DEF Done
  <2>3. Done(Written, call) => TranslatedIn(Written, call, source.findings, "playtest-requirement")
    <3> HAVE Done(Written, call)
    <3>1. PICK r \in RunsNamedIn(Written, call.of) :
             TranslatedIn(Written, call, r.findings, "playtest-requirement")
      BY DEF Done
    <3>2. r = source
      BY <1>1, <2>1, <3>1, OneRun
    <3>3. QED
      BY <3>1, <3>2
  <2>4. StageGoes(Returns(writes), call, n)
    BY <1>4, <2>2, <2>3, ManyGo
  <2>5. QED
    BY <1>3, <1>5, <2>4
<1>6. CASE runs = {}
  BY <1>3, <1>6, RaisesGoes
<1>7. QED
  BY <1>5, <1>6

LEMMA NewFindings ==
    ASSUME InPlace, NEW found, NEW m \in Nat, DOMAIN found = 1..m
    PROVE  /\ \A n \in Range(NewIn(found, Records(climb))) :
                 n \in 1..m /\ found[n] # None /\ found[n] \notin KindIn(Written, "finding")
           /\ \A n \in 1..m : \/ found[n] = None \/ found[n] \in KindIn(Written, "finding")
                              \/ \E k \in Range(NewIn(found, Records(climb))) : found[k] = found[n]
<1> DEFINE places == {n \in DOMAIN found :
                        /\ found[n] \notin Collection(Records(climb), "finding") \cup {None}
                        /\ \A k \in 1..(n - 1) : found[k] # found[n]}
<1>1. NewIn(found, Records(climb)) = InOrder(places)
  BY DEF NewIn
<1>2. places = {n \in 1..m : /\ found[n] \notin KindIn(Written, "finding") \cup {None}
                             /\ \A k \in 1..(n - 1) : found[k] # found[n]}
  BY WrittenIs
<1> HIDE DEF places
<1>3. Range(NewIn(found, Records(climb))) = places
  <2>1. places \in SUBSET (1..m)
    BY <1>2
  <2>2. QED
    BY Zenon, <1>1, <2>1, InOrderOnto
<1>4. ASSUME NEW n \in 1..m, found[n] # None, found[n] \notin KindIn(Written, "finding")
      PROVE  \E k \in places : found[k] = found[n]
  <2> DEFINE T == {k \in 1..m : found[k] = found[n]}
  <2>1. T \in SUBSET (1..m) /\ T # {}
    BY Zenon
  <2>2. Min(T) \in T /\ \A y \in T : Min(T) <= y
    BY Zenon, <2>1, SmallestIndex
  <2> DEFINE k == Min(T)
  <2> HIDE DEF k
  <2>3. k \in 1..m /\ found[k] = found[n] /\ \A y \in 1..m : found[y] = found[n] => k <= y
    BY <2>2 DEF k
  <2>4. \A y \in 1..(k - 1) : y \in 1..m /\ ~ (k <= y)
    BY <2>3
  <2>5. \A y \in 1..(k - 1) : found[y] # found[k]
    BY <2>3, <2>4
  <2>6. k \in places
    BY <1>2, <1>4, <2>3, <2>5
  <2>7. QED
    BY <2>3, <2>6
<1>5. QED
  BY Zenon, <1>2, <1>3, <1>4

LEMMA PeopleGo ==
    ASSUME NEW call, call.op = "run", IsCall(call), NEW writes,
           writes = [i \in DOMAIN People(call) |->
                       Entry(<<"playtest-authority", People(call)[i].id>>, People(call)[i])]
    PROVE  StageGoes(Goes(writes, None), call, 1)
<1> DEFINE people == People(call)
           stage == Goes(writes, None)
           entry(i) == Entry(<<"playtest-authority", people[i].id>>, people[i])
           E == Written \cup Range(writes)
<1>1. \A i \in DOMAIN people : people[i].record = "authority"
  BY DEF IsCall, IsAuthority
<1>2. stage.writes = writes /\ stage.next = "stage" /\ stage.task = None
  BY StageHas
<1>3. writes = [i \in DOMAIN people |-> entry(i)]
  OBVIOUS
<1> HIDE DEF people, stage
<1>4. \A write : write \in Range(writes) <=> \E i \in DOMAIN people : write = entry(i)
  BY Zenon, <1>3 DEF Range
<1>5. \A write \in Range(writes) : Labelled(Written, write)
  <2> TAKE write \in Range(writes)
  <2>1. PICK i \in DOMAIN people : write = entry(i)
    BY <1>4
  <2>2. people[i].record \notin Singular
    BY <1>1 DEF Singular
  <2>3. QED
    BY <2>1, <2>2, PlainEntry
<1>6. \A i \in DOMAIN people : KeyIn(E, "climb", <<"playtest-authority", people[i].id>>)
  <2> TAKE i \in DOMAIN people
  <2>1. entry(i) \in E
    BY <1>4
  <2> HIDE DEF E
  <2>2. QED
    BY <2>1, EntryIn
<1>7. Reached(E, call, 2, None)
  BY <1>6 DEF Reached, people
<1>8. ASSUME Done(Written, call), NEW write \in Range(writes)
      PROVE  KeyIn(Written, JournalOf(write), write.key)
  <2>1. Reached(Written, call, 2, None)
    BY <1>8 DEF Done
  <2>2. PICK i \in DOMAIN people : write = entry(i)
    BY <1>4, <1>8
  <2>3. KeyIn(Written, "climb", <<"playtest-authority", people[i].id>>)
    BY <2>1 DEF Reached, people
  <2>4. QED
    BY <2>2, <2>3, EntryHas, JournalsAre
<1> HIDE DEF entry
<1>9. StageLeads(stage, call, 1)
  <2>1. 1 + 1 = 2
    OBVIOUS
  <2>2. QED
    BY <1>2, <1>5, <1>7, <2>1 DEF StageLeads
<1>10. Done(Written, call) => StageRepeats(stage, call)
  BY <1>2, <1>8 DEF StageRepeats
<1>11. StageGoes(stage, call, 1)
  BY <1>9, <1>10 DEF StageGoes
<1>12. QED
  BY <1>11 DEF stage

\* What a Run writes: an entry for each new Finding, and one for itself.
ObservedIn(call) == [i \in DOMAIN call.observations |-> call.observations[i].finding]
FindingKey(call, f) == <<"playtest-finding", call.id, LastPlace(call, f)>>
FindingEntry(call, f) == Entry(FindingKey(call, f), FindingOf(f))
FindingWrites(call, new) == [k \in DOMAIN new |-> FindingEntry(call, ObservedIn(call)[new[k]])]

LEMMA FindingWritesAre ==
    ASSUME InPlace, NEW call, call.op = "run", IsCall(call),
           NEW new, new = NewIn(ObservedIn(call), Records(climb)),
           NEW writes, writes = FindingWrites(call, new)
    PROVE  /\ IsLog(writes)
           /\ \A write \in Range(writes) : \E i \in DOMAIN call.observations :
                LET f == call.observations[i].finding
                IN f # None /\ f \notin KindIn(Written, "finding") /\ write = FindingEntry(call, f)
           /\ \A i \in DOMAIN call.observations :
                LET f == call.observations[i].finding
                IN \/ f = None \/ f \in KindIn(Written, "finding")
                   \/ FindingEntry(call, f) \in Range(writes)
<1> DEFINE m == Len(call.observations)
           found == ObservedIn(call)
           f(i) == call.observations[i].finding
           entry(x) == FindingEntry(call, x)
<1>1. m \in Nat /\ DOMAIN call.observations = 1..m
  BY ListHas DEF IsCall
<1>2. DOMAIN found = 1..m /\ \A i \in 1..m : found[i] = f(i)
  BY <1>1 DEF ObservedIn
<1>3. writes = [k \in DOMAIN new |-> entry(found[new[k]])]
  BY DEF FindingWrites
<1> HIDE DEF m, found, f, entry
<1>4. /\ \A i \in Range(new) :
            i \in 1..m /\ found[i] # None /\ found[i] \notin KindIn(Written, "finding")
      /\ \A i \in 1..m : \/ found[i] = None \/ found[i] \in KindIn(Written, "finding")
                         \/ \E k \in Range(new) : found[k] = found[i]
  <2>1. new = NewIn(found, Records(climb))
    BY DEF found
  <2>2. QED
    BY <1>1, <1>2, <2>1, NewFindings
<1>5. PICK c \in Nat : DOMAIN new = 1..c
  <2> DEFINE places == {i \in DOMAIN found :
                          /\ found[i] \notin Collection(Records(climb), "finding") \cup {None}
                          /\ \A k \in 1..(i - 1) : found[k] # found[i]}
  <2>1. new = InOrder(places)
    BY DEF NewIn, found
  <2>2. places \in SUBSET (1..m)
    BY <1>2
  <2> HIDE DEF places
  <2>3. QED
    BY Zenon, <1>1, <2>1, <2>2, PlacesCount
<1>6. IsLog(writes)
  <2>1. writes = [k \in 1..c |-> entry(found[new[k]])]
    BY <1>3, <1>5
  <2>2. QED
    BY <2>1, EachWrite
<1>7. \A write : write \in Range(writes) <=> \E i \in Range(new) : write = entry(found[i])
  BY <1>3 DEF Range
<1>8. \A write \in Range(writes) : \E i \in 1..m :
         f(i) # None /\ f(i) \notin KindIn(Written, "finding") /\ write = entry(f(i))
  <2> TAKE write \in Range(writes)
  <2>1. PICK i \in Range(new) : write = entry(found[i])
    BY <1>7
  <2>2. QED
    BY <1>2, <1>4, <2>1
<1>9. \A i \in 1..m : f(i) = None \/ f(i) \in KindIn(Written, "finding")
                      \/ entry(f(i)) \in Range(writes)
  BY <1>2, <1>4, <1>7
<1>10. QED
  BY <1>1, <1>6, <1>8, <1>9 DEF f, entry

LEMMA RecordRunGoes ==
    ASSUME NEW call, call.op = "run", NEW n, Reached(Written, call, 2, None),
           NEW head, IsLog(head), NEW last, last.key = <<"run", call.id>>, last \in Filed({last}),
           JournalOf(last) = "climb", Labelled(Written, last),
           \A write \in Range(head) : \E i \in DOMAIN call.observations :
                LET f == call.observations[i].finding
                IN f # None /\ f \notin KindIn(Written, "finding") /\ write = FindingEntry(call, f),
           \A i \in DOMAIN call.observations :
                LET f == call.observations[i].finding
                IN \/ f = None \/ f \in KindIn(Written, "finding")
                   \/ FindingEntry(call, f) \in Range(head)
    PROVE  StageGoes(Returns(head \o <<last>>), call, n)
<1> DEFINE writes == head \o <<last>>
           f(i) == call.observations[i].finding
           E == Written \cup Range(writes)
<1>1. Range(writes) = Range(head) \cup {last}
  <2>1. IsLog(<<last>>) /\ Range(<<last>>) = {last}
    BY OneWrite, RangesOf
  <2>2. QED
    BY <2>1, RangesJoin
<1>2. \A x : FindingOf(x).record = "finding"
  BY DEF FindingOf, Finding
<1>3. \A x : JournalOf(FindingEntry(call, x)) = "climb"
             /\ FindingEntry(call, x).key = FindingKey(call, x)
  BY EntryHas, JournalsAre DEF FindingEntry
<1> HIDE DEF writes
<1>4. Written \subseteq E /\ Range(writes) \subseteq E
  OBVIOUS
<1>5. ASSUME NEW write \in Range(writes) PROVE Labelled(Written, write)
  <2>1. \A x : Labelled(Written, FindingEntry(call, x))
    BY <1>2, PlainEntry DEF Singular, FindingEntry
  <2>2. QED
    BY <1>1, <2>1
<1> HIDE DEF E
<1>6. FindingsIn(E, call)
  <2>1. ASSUME NEW i \in DOMAIN call.observations
        PROVE  \/ f(i) = None \/ f(i) \in KindIn(E, "finding")
               \/ KeyIn(E, "climb", FindingKey(call, f(i)))
    <3>1. CASE f(i) \in KindIn(Written, "finding")
      <4> HIDE DEF f
      <4>1. QED
        BY Zenon, <1>4, <3>1, SaysMore
    <3>2. CASE FindingEntry(call, f(i)) \in Range(head)
      <4> HIDE DEF f
      <4>1. FindingEntry(call, f(i)) \in E
        BY <1>1, <1>4, <3>2
      <4>2. QED
        BY <1>3, <4>1 DEF KeyIn
    <3>3. QED
      BY <3>1, <3>2
  <2>2. QED
    BY Zenon, <2>1 DEF FindingsIn, FindingKey
<1>7. Done(E, call)
  <2>1. Reached(E, call, 2, None)
    BY <1>4, ReachedMore
  <2>2. KeyIn(E, "climb", <<"run", call.id>>)
    BY <1>1, <1>4 DEF KeyIn
  <2>3. QED
    BY <1>6, <2>1, <2>2 DEF Done
<1>8. ASSUME Done(Written, call), NEW write \in Range(writes)
      PROVE  KeyIn(Written, JournalOf(write), write.key)
  <2>1. FindingsIn(Written, call) /\ KeyIn(Written, "climb", <<"run", call.id>>)
    BY <1>8 DEF Done
  <2>2. CASE write = last
    BY <2>1, <2>2
  <2>3. CASE write \in Range(head)
    <3>1. PICK i \in DOMAIN call.observations :
             f(i) # None /\ f(i) \notin KindIn(Written, "finding") /\ write = FindingEntry(call, f(i))
      BY <2>3
    <3>2. KeyIn(Written, "climb", FindingKey(call, f(i)))
      BY <2>1, <3>1 DEF FindingsIn, FindingKey
    <3>3. QED
      BY <1>3, <3>1, <3>2
  <2>4. QED
    BY <1>1, <1>8, <2>2, <2>3
<1>9. StageGoes(Returns(writes), call, n)
  BY <1>5, <1>7, <1>8, ManyGo DEF E
<1>10. QED
  BY <1>9 DEF writes

LEMMA RunGoes ==
    ASSUME RepeatInv, NEW p \in Operators, NEW j \in DOMAIN Script[scenario][p],
           NEW call, call = Script[scenario][p][j], call.op = "run", IsCall(call),
           NEW n \in Nat \ {0}, NEW task, Reached(Written, call, n, task)
    PROVE  StageGoes(RunStage(climb, call, n), call, n)
<1> DEFINE bundle == Records(climb)
           people == [i \in DOMAIN People(call) |->
                        Entry(<<"playtest-authority", People(call)[i].id>>, People(call)[i])]
           new == NewIn(ObservedIn(call), bundle)
           run == RunOf(call, The(Protocols(bundle, call)))
           head == FindingWrites(call, new)
           last == Entry(<<"run", call.id>>, run)
<1>1. RunStage(climb, call, n) =
         IF n = 1 THEN IF MayRecordRun(bundle, call) THEN Goes(people, None) ELSE Raises(<< >>)
         ELSE Returns(head \o <<last>>)
  BY DEF RunStage, FindingWrites, FindingEntry, FindingKey, ObservedIn
<1>2. InPlace
  BY DEF RepeatInv
<1>3. run.record = "playtest_run" /\ run.key = call.key
  BY DEF RunOf, PlaytestRun
<1>4. StageGoes(Goes(people, None), call, 1)
  BY PeopleGo
<1>5. CASE n = 1
  BY <1>1, <1>4, <1>5, RaisesGoes
<1>6. CASE n # 1
  <2>1. Reached(Written, call, 2, None)
    BY <1>6 DEF Reached
  <2> HIDE DEF run
  <2>2. last.key = <<"run", call.id>> /\ last \in Filed({last}) /\ JournalOf(last) = "climb"
    BY EntryHas, JournalsAre DEF Filed
  <2>3. Labelled(Written, last)
    <3>1. last.record = run
      BY EntryHas
    <3> HIDE DEF last
    <3>2. QED
      BY <1>3, <2>2, <3>1 DEF Labelled, LabelledAs
  <2> HIDE DEF last, new, head
  <2>4. /\ IsLog(head)
        /\ \A write \in Range(head) : \E i \in DOMAIN call.observations :
              LET f == call.observations[i].finding
              IN f # None /\ f \notin KindIn(Written, "finding") /\ write = FindingEntry(call, f)
        /\ \A i \in DOMAIN call.observations :
              LET f == call.observations[i].finding
              IN \/ f = None \/ f \in KindIn(Written, "finding")
                 \/ FindingEntry(call, f) \in Range(head)
    <3>1. new = NewIn(ObservedIn(call), Records(climb)) /\ head = FindingWrites(call, new)
      BY DEF new, head
    <3>2. QED
      BY ONLY <1>2, <3>1, FindingWritesAre, call.op = "run", IsCall(call)
  <2>5. StageGoes(Returns(head \o <<last>>), call, n)
    BY Zenon, <2>1, <2>2, <2>3, <2>4, RecordRunGoes
  <2>6. QED
    BY <1>1, <1>6, <2>5
<1>7. QED
  BY <1>5, <1>6

-----------------------------------------------------------------------------
(* Blind panels *)

\* A later stage of a panel goes on with its Task, or raises, and writes records that
\* others may repeat.
LEMMA PanelGoesOn ==
    ASSUME NEW call, call.op = "panel", NEW n \in Nat \ {0, 1}, NEW task,
           Reached(Written, call, n, task), NEW writes, \A write \in Range(writes) : Plain(write)
    PROVE  /\ StageGoes(Goes(writes, task), call, n)
           /\ StageGoes(Raises(writes), call, n)
<1> DEFINE E == Written \cup Range(writes)
           goes == Goes(writes, task)
           raises == Raises(writes)
<1>1. \A write \in Range(writes) : Labelled(Written, write)
  BY PlainLabelled
<1>2. Written \subseteq E
  OBVIOUS
<1> HIDE DEF E
<1>3. Reached(E, call, n, task)
  BY <1>2, ReachedMore
<1>4. Reached(E, call, n + 1, task)
  <2>1. n >= 2 /\ n + 1 >= 2
    OBVIOUS
  <2>2. QED
    BY <1>3, <2>1 DEF Reached
<1>5. /\ goes.writes = writes /\ goes.next = "stage" /\ goes.task = task
      /\ raises.writes = writes /\ raises.next = "refused"
  BY StageHas
<1> HIDE DEF goes, raises
<1>6. StageLeads(goes, call, n) /\ StageLeads(raises, call, n)
  BY <1>1, <1>4, <1>5 DEF StageLeads, E
<1>7. StageGoes(goes, call, n) /\ StageGoes(raises, call, n)
  BY <1>6 DEF StageGoes
<1>8. QED
  BY <1>7 DEF goes, raises

LEMMA InvokeGoes ==
    ASSUME NEW call, call.op = "panel", NEW n \in Nat \ {0, 1}, NEW task, NEW given,
           Reached(Written, call, n, task)
    PROVE  StageGoes(InvokePanel(climb, call, task, given), call, n)
<1> DEFINE key(i) == ReceiptKey(task, call.members[i].id)
           pending == {i \in DOMAIN call.members : ~HasKey(climb, key(i))}
           returned == {i \in pending : given[i] # None}
           order == InOrder(returned)
           receipt(i) == Invoked(key(i), call.members[i].id, "judge",
                                 PanelInput(call, task, i), given[i])
           writes == [k \in DOMAIN order |-> receipt(order[k])]
<1>1. InvokePanel(climb, call, task, given) \in {Raises(<< >>), Raises(writes), Goes(writes, task)}
  BY DEF InvokePanel
<1>2. \A i : Plain(receipt(i))
  <2>1. \A a, b, c, d, e : ModelReceipt(a, b, c, d, e).record \notin Singular
    BY DEF ModelReceipt, Singular
  <2>2. \A k, a, b, c, d : Plain(Invoked(k, a, b, c, d))
    BY <2>1, EntryHas DEF Invoked, Plain
  <2>3. QED
    BY <2>2
<1> HIDE DEF receipt, order
<1>3. \A write \in Range(writes) : Plain(write)
  BY <1>2 DEF Range
<1> HIDE DEF writes
<1>4. QED
  BY <1>1, <1>3, PanelGoesOn, RaisesGoes

LEMMA JudgeGoes ==
    ASSUME NEW call, call.op = "panel", NEW n \in Nat \ {0, 1}, NEW task, NEW i,
           Reached(Written, call, n, task)
    PROVE  StageGoes(JudgeMember(climb, call, task, i), call, n)
<1> DEFINE bundle == Records(climb)
           id == call.members[i].id
           output == IF call.kind = "agent" THEN ModelOutput(climb, call, task, i)
                     ELSE call.members[i].output
           receipt == IF call.kind = "agent" THEN << >>
                      ELSE <<Answered(task, id, output)>>
           findings == FindingEntries(bundle, task, id, output.findings)
<1>1. CASE ObservationValid(bundle, call, output)
  <2>1. JudgeMember(climb, call, task, i) \in {Raises(<< >>), Goes(receipt \o findings, task)}
    BY DEF JudgeMember
  <2>2. IsLog(findings)
    <3>1. IsList(output.findings)
      BY <1>1 DEF ObservationValid, IsList
    <3> HIDE DEF output, bundle, id
    <3>2. QED
      BY <3>1, FindingsAvoid DEF Avoids
  <2>3. \A write \in Range(findings) : Plain(write)
    <3>1. \A k, found : Plain(Entry(k, FindingOf(found)))
      BY EntryHas DEF FindingOf, Finding, Plain, Singular
    <3> HIDE DEF output, bundle, id
    <3>2. QED
      BY Zenon, <3>1 DEF FindingEntries, Range
  <2>4. IsLog(receipt) /\ \A write \in Range(receipt) : Plain(write)
    <3> DEFINE one == Answered(task, id, output)
    <3>1. \A a, b, c, d : HumanReceipt(a, b, c, d).record \notin Singular
      BY DEF HumanReceipt, Singular
    <3>2. Plain(one)
      BY <3>1, EntryHas DEF Answered, Plain
    <3>3. receipt = << >> \/ receipt = <<one>>
      OBVIOUS
    <3> HIDE DEF one, receipt
    <3>4. QED
      BY <3>2, <3>3, RangesOf, NoWrites, OneWrite
  <2> HIDE DEF findings, receipt
  <2>5. \A write \in Range(receipt \o findings) : Plain(write)
    BY <2>2, <2>3, <2>4, RangesJoin
  <2>6. QED
    BY <2>1, <2>5, PanelGoesOn, RaisesGoes
<1>2. CASE ~ObservationValid(bundle, call, output)
  <2>1. JudgeMember(climb, call, task, i) = Raises(<< >>)
    BY <1>2 DEF JudgeMember
  <2>2. QED
    BY <2>1, RaisesGoes
<1>3. QED
  BY <1>1, <1>2

LEMMA FinalizeGoes ==
    ASSUME NEW call, call.op = "panel", NEW n \in Nat \ {0, 1}, NEW task,
           Reached(Written, call, n, task)
    PROVE  StageGoes(FinalizePanel(climb, call, task), call, n)
<1>1. PICK evaluation :
         /\ FinalizePanel(climb, call, task) = Returns(<<Entry(<<"evaluation", task>>, evaluation)>>)
         /\ evaluation.record = "evaluation" /\ evaluation.task = task
  <2>1. \A a, b, c, d, e, f, g, h, k :
           LET v == Evaluation(a, b, c, d, e, f, g, h, k) IN v.record = "evaluation" /\ v.task = a
    BY DEF Evaluation
  <2> DEFINE Files(x) ==
               \E v : /\ x = Returns(<<Entry(<<"evaluation", task>>, v)>>)
                     /\ v.record = "evaluation" /\ v.task = task
  <2>2. \A b, c, d, e, f, g, h, k :
           Files(Returns(<<Entry(<<"evaluation", task>>,
                                 Evaluation(task, b, c, d, e, f, g, h, k))>>))
    BY <2>1
  <2> HIDE DEF Files
  <2>3. Files(FinalizePanel(climb, call, task))
    BY Zenon, <2>2 DEF FinalizePanel
  <2>4. QED
    BY <2>3 DEF Files
<1> DEFINE entry == Entry(<<"evaluation", task>>, evaluation)
           E == Written \cup {entry}
           stage == Returns(<<entry>>)
<1>2. entry.key = <<"evaluation", task>> /\ entry.record = evaluation
      /\ DOMAIN entry = {"key", "record"}
  BY EntryHas
<1>3. task.key = call.key /\ FiledIn(Written, <<"task", call.key>>, task)
  <2>1. n >= 2
    OBVIOUS
  <2>2. QED
    BY <2>1 DEF Reached
<1>4. stage.writes = <<entry>> /\ stage.next = "done"
  BY StageHas
<1> HIDE DEF entry, stage
<1>5. Labelled(Written, entry)
  BY <1>1, <1>2, <1>3 DEF Labelled, LabelledAs
<1>6. evaluation \in EvaluationsIn(E, call.key)
  BY <1>1, <1>2, <1>3 DEF EvaluationsIn, KindIn, Filed
<1>7. Done(E, call)
  BY <1>6 DEF Done
<1>8. StageLeads(stage, call, n)
  <2>1. Range(stage.writes) = {entry} /\ E = Written \cup Range(stage.writes)
    BY <1>4, RangesOf
  <2> HIDE DEF E
  <2>2. QED
    BY <1>4, <1>5, <1>7, <2>1 DEF StageLeads
<1>9. StageGoes(stage, call, n)
  BY <1>8 DEF StageGoes
<1>10. QED
  BY <1>1, <1>9 DEF stage, entry

\* The first stage leaves the Task that the others work on.
LEMMA PrepareGoes ==
    ASSUME RepeatInv, NEW call, call.op = "panel", IsCall(call),
           EvaluationsIn(Written, call.key) = {}
    PROVE  StageGoes(PreparePanel(Records(climb), call), call, 1)
<1> DEFINE bundle == Records(climb)
           existing == TasksNamed(bundle, call.key)
           panel == PanelTask(bundle, call)
           task == IF existing = {} THEN panel ELSE The(existing)
           judge(i) == Entry(<<"authority", call.members[i].id>>, JudgeOf(call, i))
           judges == [i \in DOMAIN call.members |-> judge(i)]
           taken == {i \in DOMAIN call.members :
                       \E a \in Authorities(bundle) :
                          a.id = call.members[i].id /\ a # JudgeOf(call, i)}
           exposure(i) == Entry(<<"exposure", call.key, call.members[i].id>>,
                                Exposure(call.members[i].id, call.binding.trial,
                                         "trial-tree", task))
           exposures == [i \in DOMAIN call.members |-> exposure(i)]
           filing == Entry(<<"task", call.key>>, task)
           tasks == IF existing = {} THEN <<filing>> ELSE << >>
           writes == (judges \o tasks) \o exposures
           first == SubSeq(judges, 1, Min(taken) - 1)
           E == Written \cup Range(writes)
<1>1. PreparePanel(bundle, call) = IF taken # {} THEN Raises(first) ELSE Goes(writes, task)
  BY DEF PreparePanel
<1>2. PICK m \in Nat : DOMAIN call.members = 1..m
  BY ListHas DEF IsCall
<1>3. IsLog(judges) /\ Len(judges) = m /\ DOMAIN judges = 1..m /\ IsLog(exposures)
  <2> HIDE DEF judge, exposure
  <2>1. judges = [i \in 1..m |-> judges[i]] /\ exposures = [i \in 1..m |-> exposures[i]]
    BY <1>2
  <2> HIDE DEF judges, exposures
  <2>2. QED
    BY <2>1, EachWrite
<1>4. \A write \in Range(judges) : Plain(write)
  <2>1. \A i : JudgeOf(call, i).record \notin Singular
    BY DEF JudgeOf, Authority, Singular
  <2>2. \A i : Plain(judge(i))
    BY <2>1, EntryHas DEF Plain
  <2> HIDE DEF judge
  <2>3. QED
    BY Zenon, <2>2 DEF Range
<1>5. \A write \in Range(exposures) : Plain(write)
  <2> HIDE DEF task
  <2>1. \A a, b, c : Exposure(a, b, c, task).record \notin Singular
    BY DEF Exposure, Singular
  <2>2. \A i : Plain(exposure(i))
    BY <2>1, EntryHas DEF Plain
  <2> HIDE DEF exposure
  <2>3. QED
    BY Zenon, <2>2 DEF Range
<1>6. IsLog(tasks) /\ Range(tasks) = IF existing = {} THEN {filing} ELSE {}
  <2> HIDE DEF filing, existing
  <2>1. QED
    BY Zenon, RangesOf, NoWrites, OneWrite
<1>7. filing.key = <<"task", call.key>> /\ filing.record = task /\ DOMAIN filing = {"key", "record"}
  BY EntryHas
<1>8. existing = {} => /\ task.record = "task" /\ task.key = call.key
  <2>1. panel.record = "task" /\ panel.key = call.key
    BY DEF PanelTask, Task
  <2> HIDE DEF panel
  <2>2. QED
    BY <2>1
<1>9. existing # {} => task.key = call.key /\ FiledIn(Written, <<"task", call.key>>, task)
  <2> SUFFICES ASSUME existing # {} PROVE task.key = call.key /\ FiledIn(Written, <<"task", call.key>>, task)
    OBVIOUS
  <2>1. task \in existing
    BY TheIn
  <2>2. task \in Collection(bundle, "task") /\ task.key = call.key
    BY <2>1 DEF TasksNamed
  <2>3. task \in KindIn(Written, "task")
    BY <2>2, WrittenIs DEF RepeatInv
  <2> HIDE DEF task
  <2>4. QED
    BY <2>2, <2>3, TaskFiled
<1> HIDE DEF task, filing, tasks, judges, exposures, judge, exposure, existing, panel
<1>10. Range(writes) = (Range(judges) \cup Range(tasks)) \cup Range(exposures)
  <2> DEFINE some == judges \o tasks
  <2>1. IsLog(some) /\ Range(some) = Range(judges) \cup Range(tasks)
    BY <1>3, <1>6, RangesJoin
  <2> HIDE DEF some
  <2>2. Range(some \o exposures) = Range(some) \cup Range(exposures)
    BY <1>3, <2>1, RangesJoin
  <2>3. QED
    BY <2>1, <2>2 DEF some
<1> HIDE DEF writes
<1>11. \A write \in Range(writes) : Labelled(Written, write)
  <2>1. existing = {} => Labelled(Written, filing)
    BY <1>7, <1>8 DEF Labelled, LabelledAs
  <2>2. QED
    BY <1>4, <1>5, <1>6, <1>10, <2>1, PlainLabelled
<1>12. Reached(E, call, 2, task)
  <2>1. task.key = call.key /\ FiledIn(E, <<"task", call.key>>, task)
    <3>1. CASE existing = {}
      <4>1. filing \in Range(writes)
        BY <1>6, <1>10, <3>1
      <4>2. QED
        BY <1>7, <1>8, <3>1, <4>1 DEF FiledIn, Filed
    <3>2. CASE existing # {}
      <4>1. Written \subseteq E
        OBVIOUS
      <4> HIDE DEF E
      <4>2. QED
        BY <1>9, <3>2, <4>1, SaysMore
    <3>3. QED
      BY <3>1, <3>2
  <2>2. QED
    BY <2>1 DEF Reached
<1>13. ~Done(Written, call)
  BY DEF Done
<1>14. CASE taken = {}
  <2> DEFINE stage == Goes(writes, task)
  <2>1. stage.writes = writes /\ stage.next = "stage" /\ stage.task = task
    BY StageHas
  <2> HIDE DEF stage
  <2>2. 1 + 1 = 2
    OBVIOUS
  <2>3. StageLeads(stage, call, 1)
    BY <1>11, <1>12, <2>1, <2>2 DEF StageLeads, E
  <2>4. StageGoes(stage, call, 1)
    BY <1>13, <2>3 DEF StageGoes
  <2>5. QED
    BY <1>1, <1>14, <2>4 DEF stage
<1>15. CASE taken # {}
  <2>1. Min(taken) \in 1..m
    <3>1. taken \in SUBSET (1..m)
      BY <1>2
    <3> HIDE DEF taken
    <3>2. QED
      BY Zenon, <1>15, <3>1, SmallestIndex
  <2>2. Min(taken) - 1 \in 0..m
    BY <2>1
  <2> DEFINE c == Min(taken) - 1
             stage == Raises(SubSeq(judges, 1, c))
  <2>3. c \in 0..m
    BY <2>2
  <2>4. first = SubSeq(judges, 1, c)
    OBVIOUS
  <2> HIDE DEF c
  <2>5. DOMAIN SubSeq(judges, 1, c) = 1..c /\ \A i \in 1..c : SubSeq(judges, 1, c)[i] = judges[i]
    BY <1>3, <2>3, PrefixLog
  <2>6. \A write \in Range(SubSeq(judges, 1, c)) : Labelled(Written, write)
    <3>1. \A i \in 1..c : i \in DOMAIN judges
      BY <1>3, <2>3
    <3>2. \A write \in Range(SubSeq(judges, 1, c)) : write \in Range(judges)
      BY Zenon, <2>5, <3>1 DEF Range
    <3>3. QED
      BY <1>4, <3>2, PlainLabelled
  <2>7. stage.writes = SubSeq(judges, 1, c) /\ stage.next = "refused"
    BY Zenon, StageHas
  <2> HIDE DEF stage, first
  <2>8. StageLeads(stage, call, 1)
    BY <2>6, <2>7 DEF StageLeads
  <2>9. StageGoes(stage, call, 1)
    BY <1>13, <2>8 DEF StageGoes
  <2>10. QED
    BY <1>1, <1>15, <2>4, <2>9 DEF stage
<1>16. QED
  BY <1>14, <1>15

LEMMA PanelGoes ==
    ASSUME RepeatInv, NEW call, call.op = "panel", IsCall(call),
           NEW n \in Nat \ {0}, NEW task, NEW given, Reached(Written, call, n, task)
    PROVE  StageGoes(PanelStage(climb, call, n, task, given), call, n)
<1>1. CASE n = 1
  <2> DEFINE bundle == Records(climb)
             done == EvaluationsOf(bundle, call.key)
  <2>1. PanelStage(climb, call, n, task, given) = StartPanel(bundle, call)
    BY <1>1 DEF PanelStage
  <2>2. done = EvaluationsIn(Written, call.key)
    BY NamedIn DEF RepeatInv
  <2>3. CASE done = {}
    <3>1. StartPanel(bundle, call) \in {Raises(<< >>), PreparePanel(bundle, call)}
      BY <2>3 DEF StartPanel
    <3>2. StageGoes(PreparePanel(bundle, call), call, 1)
      BY Zenon, <2>2, <2>3, PrepareGoes
    <3>3. QED
      BY <1>1, <2>1, <3>1, <3>2, RaisesGoes
  <2>4. CASE done # {}
    <3> DEFINE stage == Returns(<< >>)
    <3>1. StartPanel(bundle, call) \in {Raises(<< >>), stage}
      BY <2>4 DEF StartPanel
    <3>2. stage.writes = << >> /\ stage.next = "done"
      BY StageHas
    <3>3. Done(Written, call)
      BY <2>2, <2>4 DEF Done
    <3> HIDE DEF stage
    <3>4. StageGoes(stage, call, n)
      <4>1. Range(stage.writes) = {} /\ Written \cup {} = Written
        BY <3>2, RangesOf
      <4>2. QED
        BY Zenon, <3>2, <3>3, <4>1 DEF StageGoes, StageLeads, StageRepeats
    <3>5. QED
      BY <2>1, <3>1, <3>4, RaisesGoes
  <2>5. QED
    BY <2>3, <2>4
<1>2. CASE n # 1
  <2> DEFINE first == IF call.kind = "agent" THEN 3 ELSE 2
             judging == n \in first..(first + Len(call.members) - 1)
  <2>1. \/ PanelStage(climb, call, n, task, given) = InvokePanel(climb, call, task, given)
        \/ \E i : PanelStage(climb, call, n, task, given) = JudgeMember(climb, call, task, i)
        \/ PanelStage(climb, call, n, task, given) = FinalizePanel(climb, call, task)
    <3>1. CASE n = 2 /\ call.kind = "agent"
      BY <1>2, <3>1 DEF PanelStage
    <3>2. CASE ~(n = 2 /\ call.kind = "agent") /\ judging
      <4>1. PanelStage(climb, call, n, task, given) = JudgeMember(climb, call, task, n - first + 1)
        BY Zenon, <1>2, <3>2 DEF PanelStage
      <4>2. QED
        BY <4>1
    <3>3. CASE ~(n = 2 /\ call.kind = "agent") /\ ~judging
      BY Zenon, <1>2, <3>3 DEF PanelStage
    <3>4. QED
      BY Zenon, <3>1, <3>2, <3>3
  <2>2. n \in Nat \ {0, 1}
    BY <1>2
  <2>3. QED
    BY <2>1, <2>2, InvokeGoes, JudgeGoes, FinalizeGoes
<1>3. QED
  BY <1>1, <1>2

-----------------------------------------------------------------------------
(* Proposals *)

\* A stage that others follow, of a call that is not a panel.
LEMMA FollowedGoes ==
    ASSUME NEW call, call.op # "panel", NEW n, NEW task, NEW writes,
           \A write \in Range(writes) : Labelled(Written, write),
           Reached(Written \cup Range(writes), call, n + 1, task),
           Done(Written, call) =>
             \A write \in Range(writes) : KeyIn(Written, JournalOf(write), write.key)
    PROVE  StageGoes(Goes(writes, task), call, n)
<1> DEFINE stage == Goes(writes, task)
<1>1. stage.writes = writes /\ stage.next = "stage" /\ stage.task = task
  BY StageHas
<1> HIDE DEF stage
<1>2. StageLeads(stage, call, n)
  BY <1>1 DEF StageLeads
<1>3. Done(Written, call) => StageRepeats(stage, call)
  BY <1>1 DEF StageRepeats
<1>4. StageGoes(stage, call, n)
  BY <1>2, <1>3 DEF StageGoes
<1>5. QED
  BY <1>4 DEF stage

\* What a successful proposal has left behind.
LEMMA ProposalLeft ==
    ASSUME NEW call, call.op = "propose", Done(Written, call)
    PROVE  \E task : /\ FiledIn(Written, <<"task", call.key>>, task)
                     /\ Reached(Written, call, 5, task)
                     /\ KeyIn(Written, "climb", <<"task", call.key>>)
<1>1. PICK e \in Filed(Written) : e.key = <<"task", call.key>> /\ Reached(Written, call, 5, e.record)
  BY DEF Done
<1>2. FiledIn(Written, <<"task", call.key>>, e.record)
  BY <1>1 DEF FiledIn
<1>3. KeyIn(Written, "climb", <<"task", call.key>>)
  BY <1>1, JournalsAre DEF KeyIn, Filed
<1>4. QED
  BY <1>1, <1>2, <1>3

LEMMA BriefsGo ==
    ASSUME RepeatInv, NEW call, call.op = "propose", IsCall(call)
    PROVE  StageGoes(ProposeStage(climb, call, 1, None, None, None), call, 1)
<1> DEFINE bundle == Records(climb)
           sources == SourcesOf(bundle, call)
           source == The(sources)
           writes == TranslateWrites(bundle, call, source.findings, "requirement")
           E == Written \cup Range(writes)
<1>1. InPlace /\ IsList(call.briefs)
  BY DEF RepeatInv, IsCall
<1>2. CASE call.from = "run" /\ sources # {}
  <2>1. ProposeStage(climb, call, 1, None, None, None) = Goes(<< >>, None)
    BY <1>2 DEF ProposeStage
  <2>2. \A F : Reached(F, call, 1 + 1, None)
    BY <1>2 DEF Reached
  <2>3. StageGoes(Goes(<< >>, None), call, 1)
    BY Zenon, <2>2, RangesOf, FollowedGoes
  <2>4. QED
    BY <2>1, <2>3
<1>3. CASE call.from # "run" /\ sources # {}
  <2>1. sources = EvaluationsOf(bundle, call.of) /\ sources = EvaluationsIn(Written, call.of)
    BY <1>1, <1>3, NamedIn DEF SourcesOf
  <2>2. ProposeStage(climb, call, 1, None, None, None) = Goes(writes, None)
    <3>1. Translate(bundle, call) = Returns(writes)
      BY <1>3, <2>1 DEF Translate
    <3> HIDE DEF writes
    <3>2. [Returns(writes) EXCEPT !.next = "stage"] = Goes(writes, None)
      BY DEF Returns, Goes
    <3>3. ProposeStage(climb, call, 1, None, None, None)
            = [Translate(bundle, call) EXCEPT !.next = "stage"]
      BY <1>3 DEF ProposeStage
    <3>4. QED
      BY <3>1, <3>2, <3>3
  <2>3. /\ \A write \in Range(writes) : Labelled(Written, write)
        /\ TranslatedIn(E, call, source.findings, "requirement")
        /\ TranslatedIn(Written, call, source.findings, "requirement") =>
             \A write \in Range(writes) : KeyIn(Written, JournalOf(write), write.key)
    BY Zenon, <1>1, TranslationLeaves
  <2> HIDE DEF writes, sources
  <2>4. source \in EvaluationsIn(Written, call.of)
    BY <1>3, <2>1, TheIn
  <2> HIDE DEF source
  <2>5. Reached(E, call, 1 + 1, None)
    <3>1. Written \subseteq E
      OBVIOUS
    <3> HIDE DEF E
    <3>2. source \in EvaluationsIn(E, call.of)
      BY Zenon, <2>4, <3>1, SaysMore
    <3>3. BriefsIn(E, call)
      BY <2>3, <3>2 DEF BriefsIn
    <3>4. QED
      BY <3>3 DEF Reached
  <2>6. Done(Written, call) => TranslatedIn(Written, call, source.findings, "requirement")
    <3> HAVE Done(Written, call)
    <3>1. BriefsIn(Written, call)
      <4>1. PICK old : Reached(Written, call, 5, old)
        BY Zenon, ProposalLeft
      <4>2. QED
        BY <1>3, <4>1 DEF Reached
    <3>2. PICK e \in EvaluationsIn(Written, call.of) :
             TranslatedIn(Written, call, e.findings, "requirement")
      BY <3>1 DEF BriefsIn
    <3>3. e = source
      BY <2>4, <3>2, OneEvaluation
    <3>4. QED
      BY <3>2, <3>3
  <2>7. StageGoes(Goes(writes, None), call, 1)
    BY <2>3, <2>5, <2>6, FollowedGoes
  <2>8. QED
    BY <2>2, <2>7
<1>4. CASE sources = {}
  <2>1. ProposeStage(climb, call, 1, None, None, None) = Raises(<< >>)
    BY <1>4 DEF ProposeStage
  <2>2. QED
    BY <2>1, RaisesGoes
<1>5. QED
  BY <1>2, <1>3, <1>4

LEMMA BuilderGoes ==
    ASSUME NEW call, call.op = "propose", IsCall(call), NEW task, Reached(Written, call, 2, task)
    PROVE  StageGoes(Goes(<<Entry(<<"authority", call.builder.id>>, call.builder)>>, None), call, 2)
<1> DEFINE entry == Entry(<<"authority", call.builder.id>>, call.builder)
           E == Written \cup {entry}
<1>1. call.builder.record = "authority"
  BY DEF IsCall, IsAuthority
<1>2. Labelled(Written, entry)
  BY <1>1, PlainEntry DEF Singular
<1>3. Written \subseteq E /\ KeyIn(E, "climb", <<"authority", call.builder.id>>)
  BY EntryIn
<1>4. JournalOf(entry) = "climb" /\ entry.key = <<"authority", call.builder.id>>
  BY EntryHas, JournalsAre
<1> HIDE DEF E, entry
<1>5. Reached(E, call, 2 + 1, None)
  <2>1. Reached(E, call, 2, task)
    BY <1>3, ReachedMore
  <2>2. QED
    BY <1>3, <2>1 DEF Reached
<1>6. Done(Written, call) => KeyIn(Written, "climb", <<"authority", call.builder.id>>)
  <2> HAVE Done(Written, call)
  <2>1. PICK old : Reached(Written, call, 5, old)
    BY Zenon, ProposalLeft
  <2>2. QED
    BY <2>1 DEF Reached
<1>7. Range(<<entry>>) = {entry} /\ Written \cup Range(<<entry>>) = E
  BY RangesOf DEF E
<1>8. StageGoes(Goes(<<entry>>, None), call, 2)
  BY <1>2, <1>4, <1>5, <1>6, <1>7, FollowedGoes
<1>9. QED
  BY <1>8 DEF entry

LEMMA FixGoes ==
    ASSUME NEW call, call.op = "propose", NEW head, NEW task, Reached(Written, call, 3, task)
    PROVE  StageGoes(PrepareFix(Records(climb), call, head), call, 3)
<1> DEFINE fix == FixTask(Records(climb), call, head)
           key(label) == <<"exposure", call.key, label>>
           exposure(label, object) ==
              Entry(key(label), Exposure(call.builder.id, object, label, fix))
           one == Entry(<<"task", call.key>>, fix)
           two == exposure("answer_safe_requirements", fix.inputs.requirements)
           three == exposure("authoring_package", fix.inputs.package)
           writes == <<one, two, three>>
           E == Written \cup Range(writes)
<1>1. PrepareFix(Records(climb), call, head) = Goes(writes, fix)
  BY DEF PrepareFix
<1>2. fix.record = "task" /\ fix.key = call.key
  BY DEF FixTask, Task
<1> HIDE DEF fix
<1>3. \A label, object : /\ Plain(exposure(label, object))
                         /\ exposure(label, object).key = key(label)
                         /\ JournalOf(exposure(label, object)) = "climb"
  BY EntryHas, JournalsAre DEF Plain, Exposure, Singular
<1>4. one.key = <<"task", call.key>> /\ one.record = fix /\ one \in Filed({one})
      /\ JournalOf(one) = "climb"
  BY EntryHas, JournalsAre DEF Filed
<1>5. /\ Plain(two) /\ two.key = key("answer_safe_requirements") /\ JournalOf(two) = "climb"
      /\ Plain(three) /\ three.key = key("authoring_package") /\ JournalOf(three) = "climb"
  BY <1>3
<1> HIDE DEF one, two, three
<1>6. Range(writes) = {one, two, three}
  <2>1. DOMAIN writes = {1, 2, 3} /\ writes[1] = one /\ writes[2] = two /\ writes[3] = three
    OBVIOUS
  <2> HIDE DEF writes
  <2>2. QED
    BY <2>1 DEF Range
<1> HIDE DEF writes
<1>7. \A write \in Range(writes) : Labelled(Written, write)
  <2>1. Labelled(Written, one)
    BY <1>2, <1>4 DEF Labelled, LabelledAs
  <2>2. QED
    BY <1>5, <1>6, <2>1, PlainLabelled
<1>8. Written \subseteq E /\ one \in E /\ two \in E /\ three \in E
  BY <1>6
<1> HIDE DEF E
<1>9. Reached(E, call, 3 + 1, fix)
  <2>1. Reached(E, call, 3, task)
    BY <1>8, ReachedMore
  <2>2. FiledIn(E, <<"task", call.key>>, fix)
    BY <1>4, <1>8 DEF FiledIn, Filed
  <2>3. KeyIn(E, "climb", key("answer_safe_requirements")) /\ KeyIn(E, "climb", key("authoring_package"))
    BY <1>5, <1>8 DEF KeyIn
  <2>4. QED
    BY <1>2, <2>1, <2>2, <2>3 DEF Reached
<1>10. Done(Written, call) =>
          \A write \in Range(writes) : KeyIn(Written, JournalOf(write), write.key)
  <2> HAVE Done(Written, call)
  <2>1. PICK old : Reached(Written, call, 5, old) /\ KeyIn(Written, "climb", <<"task", call.key>>)
    BY ProposalLeft
  <2>2. /\ KeyIn(Written, "climb", key("answer_safe_requirements"))
        /\ KeyIn(Written, "climb", key("authoring_package"))
    BY <2>1 DEF Reached
  <2>3. QED
    BY <1>4, <1>5, <1>6, <2>1, <2>2
<1>11. StageGoes(Goes(writes, fix), call, 3)
  BY <1>7, <1>9, <1>10, FollowedGoes DEF E
<1>12. QED
  BY <1>1, <1>11

LEMMA AnswerGoes ==
    ASSUME RepeatInv, NEW call, call.op = "propose", NEW task, NEW given,
           Reached(Written, call, 4, task)
    PROVE  StageGoes(InvokeBuilder(climb, call, task, given), call, 4)
<1> DEFINE entry == Invoked(BuilderKey(task), call.builder.id, "builder", [task |-> task], given)
           E == Written \cup {entry}
<1>1. CASE HasKey(climb, BuilderKey(task))
  <2>1. InvokeBuilder(climb, call, task, given) \in {Goes(<< >>, task), Raises(<< >>)}
    BY <1>1 DEF InvokeBuilder
  <2>2. KeyIn(Written, "climb", BuilderKey(task))
    BY <1>1, WrittenIs DEF RepeatInv
  <2>3. Range(<< >>) = {} /\ Written \cup Range(<< >>) = Written
    BY RangesOf
  <2>4. Reached(Written, call, 4 + 1, task)
    BY <2>2 DEF Reached
  <2>5. StageGoes(Goes(<< >>, task), call, 4)
    BY <2>3, <2>4, FollowedGoes
  <2>6. QED
    BY <2>1, <2>5, RaisesGoes
<1>2. CASE ~HasKey(climb, BuilderKey(task))
  <2>1. InvokeBuilder(climb, call, task, given) \in {Goes(<<entry>>, task), Raises(<< >>)}
    BY <1>2 DEF InvokeBuilder
  <2>2. Plain(entry) /\ JournalOf(entry) = "climb" /\ entry.key = BuilderKey(task)
    BY EntryHas, JournalsAre DEF Invoked, Plain, ModelReceipt, Singular
  <2> HIDE DEF entry
  <2>3. Written \subseteq E /\ entry \in E
    OBVIOUS
  <2>4. Range(<<entry>>) = {entry} /\ Written \cup Range(<<entry>>) = E
    BY RangesOf
  <2> HIDE DEF E
  <2>5. Reached(E, call, 4 + 1, task)
    <3>1. Reached(E, call, 4, task)
      BY <2>3, ReachedMore
    <3>2. KeyIn(E, "climb", BuilderKey(task))
      BY <2>2, <2>3 DEF KeyIn
    <3>3. QED
      BY <3>1, <3>2 DEF Reached
  <2>6. Done(Written, call) => KeyIn(Written, "climb", BuilderKey(task))
    <3> HAVE Done(Written, call)
    <3>1. PICK old : /\ FiledIn(Written, <<"task", call.key>>, old)
                     /\ Reached(Written, call, 5, old)
      BY ProposalLeft
    <3>2. FiledIn(Written, <<"task", call.key>>, task)
      BY DEF Reached
    <3>3. old = task
      BY <3>1, <3>2, OneFiled DEF RepeatInv
    <3>4. QED
      BY <3>1, <3>3 DEF Reached
  <2>7. Labelled(Written, entry)
    BY <2>2, PlainLabelled
  <2>8. StageGoes(Goes(<<entry>>, task), call, 4)
    BY <2>2, <2>4, <2>5, <2>6, <2>7, FollowedGoes
  <2>9. QED
    BY <2>1, <2>8, RaisesGoes
<1>3. QED
  BY <1>1, <1>2

LEMMA ProposalGoes ==
    ASSUME NEW call, call.op = "propose", NEW head, NEW n, NEW task,
           Reached(Written, call, 5, task)
    PROVE  StageGoes(Propose(climb, call, task, head), call, n)
<1> DEFINE receipt == EventForKey(climb, BuilderKey(task)).record
           proposal == Proposal(task, head, receipt.output.data, task.inputs.requirements,
                                call.builder.id, receipt)
           entry == Entry(<<"proposal", call.key>>, proposal)
           E == Written \cup {entry}
<1>1. Propose(climb, call, task, head) \in {Returns(<<entry>>), Raises(<< >>)}
  BY DEF Propose
<1>2. proposal.record \notin Singular
  BY DEF Proposal, Singular
<1> HIDE DEF proposal
<1>3. Labelled(Written, entry)
  BY <1>2, PlainEntry
<1>4. Written \subseteq E
  OBVIOUS
<1>5. KeyIn(E, "climb", <<"proposal", call.key>>)
  BY EntryIn
<1> HIDE DEF E, entry
<1>6. Done(E, call)
  <2>1. FiledIn(Written, <<"task", call.key>>, task)
    BY DEF Reached
  <2>2. FiledIn(E, <<"task", call.key>>, task) /\ Reached(E, call, 5, task)
    BY <1>4, <2>1, SaysMore, ReachedMore
  <2>3. QED
    BY <1>5, <2>2 DEF Done, FiledIn
<1>7. Done(Written, call) => KeyIn(Written, "climb", <<"proposal", call.key>>)
  BY DEF Done
<1>8. StageGoes(Returns(<<entry>>), call, n)
  BY <1>3, <1>6, <1>7, EntryGoes DEF E, entry
<1>9. QED
  BY <1>1, <1>8, RaisesGoes

LEMMA ProposeGoes ==
    ASSUME RepeatInv, NEW call, call.op = "propose", IsCall(call), NEW head,
           NEW n \in Nat \ {0}, NEW task, NEW given, Reached(Written, call, n, task)
    PROVE  StageGoes(ProposeStage(climb, call, n, task, given, head), call, n)
<1> DEFINE stage == ProposeStage(climb, call, n, task, given, head)
<1>1. CASE n = 1
  <2>1. stage = ProposeStage(climb, call, 1, None, None, None)
    BY <1>1 DEF ProposeStage
  <2>2. QED
    BY <1>1, <2>1, BriefsGo
<1>2. CASE n = 2
  BY <1>2, BuilderGoes DEF ProposeStage
<1>3. CASE n = 3
  BY <1>3, FixGoes DEF ProposeStage
<1>4. CASE n = 4
  BY <1>4, AnswerGoes DEF ProposeStage
<1>5. CASE n \notin {1, 2, 3, 4}
  <2>1. n >= 5
    BY <1>5
  <2>2. Reached(Written, call, 5, task)
    BY <2>1 DEF Reached
  <2>3. stage = Propose(climb, call, task, head)
    BY <1>5 DEF ProposeStage
  <2>4. QED
    BY <2>2, <2>3, ProposalGoes
<1>6. QED
  BY <1>1, <1>2, <1>3, <1>4, <1>5

-----------------------------------------------------------------------------
(* The steps, one by one *)

LEMMA AnyGoes ==
    ASSUME MovesInv, RepeatInv, NEW p \in Operators, Remaining(p),
           CallOf(p).op # "create" => Founded(climb),
           NEW n \in Nat \ {0}, NEW task, NEW given, Reached(Written, CallOf(p), n, task)
    PROVE  StageGoes(StageOf(CallOf(p), n, task, given), CallOf(p), n)
<1> DEFINE call == CallOf(p)
           j == Len(results[p]) + 1
<1>1. IsCall(call) /\ call.op \in Operations
  BY InCall DEF IsCall
<1>2. call = Script[scenario][p][j] /\ j \in DOMAIN Script[scenario][p]
  <2>1. IsList(Script[scenario][p]) /\ IsLog(results[p])
    BY ScriptAssumption DEF MovesInv, Settled
  <2>2. /\ Len(Script[scenario][p]) \in Nat
        /\ DOMAIN Script[scenario][p] = 1..Len(Script[scenario][p])
    BY <2>1, ListHas
  <2>3. Len(results[p]) \in Nat /\ Len(results[p]) < Len(Script[scenario][p])
    BY <2>1, LogFacts DEF Remaining
  <2>4. QED
    BY <2>2, <2>3 DEF CallOf
<1> DEFINE stage == StageOf(call, n, task, given)
           bundle == Records(climb)
           Fits(x) == StageGoes(x, call, n)
<1>3. Reached(Written, call, n, task) /\ (call.op # "create" => Founded(climb))
  OBVIOUS
<1> HIDE DEF call, j
<1>4. /\ call.op = "create" => stage = Create(call) /\ Fits(Create(call))
      /\ call.op = "bind" => stage = Bind(bundle, call) /\ Fits(Bind(bundle, call))
      /\ call.op = "translate" => stage = Translate(bundle, call) /\ Fits(Translate(bundle, call))
      /\ call.op = "review" => stage = Review(bundle, call) /\ Fits(Review(bundle, call))
  BY <1>1, CreateGoes, BindGoes, TranslateGoes, ReviewGoes DEF StageOf
<1>5. /\ call.op = "select" => stage = Select(bundle, call) /\ Fits(Select(bundle, call))
      /\ call.op = "attest" => stage = Attest(bundle, call) /\ Fits(Attest(bundle, call))
      /\ call.op = "freeze" =>
           stage = FreezeProtocol(bundle, call) /\ Fits(FreezeProtocol(bundle, call))
      /\ call.op = "translate_run" =>
           stage = TranslateRun(bundle, call) /\ Fits(TranslateRun(bundle, call))
  BY <1>1, <1>3, SelectGoes, AttestGoes, FreezeGoes, TranslateRunGoes DEF StageOf
<1>6. /\ call.op = "compare" => stage = Compared(bundle, call) /\ Fits(Compared(bundle, call))
      /\ call.op = "issue" => stage = IssueStanding(bundle, call) /\ Fits(IssueStanding(bundle, call))
      /\ call.op = "finalize" =>
           stage = FinalizeStanding(bundle, call) /\ Fits(FinalizeStanding(bundle, call))
  BY <1>1, CompareGoes, StandingsGo DEF StageOf
<1>7. /\ call.op = "plan" => stage = RecordPlan(call) /\ Fits(RecordPlan(call))
      /\ call.op = "authorize" => stage = AuthorizeBoundary(call) /\ Fits(AuthorizeBoundary(call))
      /\ call.op = "observe" => stage = RecordObservation(call) /\ Fits(RecordObservation(call))
      /\ call.op = "measure" =>
           stage = RecordFormalMeasurement(call) /\ Fits(RecordFormalMeasurement(call))
      /\ call.op = "rung" => stage = RecordSelectedRung(call) /\ Fits(RecordSelectedRung(call))
  BY <1>1, EfficiencyGoes, QualifyGoes DEF StageOf
<1>8. /\ call.op = "anchor" => LET done == Returns(<<AnchorEvent(call.candidate)>>)
                               IN stage = done /\ Fits(done)
      /\ call.op = "register" => LET done == Returns(<<Entry(call.key, call.record)>>)
                                 IN stage = done /\ Fits(done)
  BY <1>1, QualifyGoes, RegisterGoes DEF StageOf
<1>9. call.op = "panel" => LET done == PanelStage(climb, call, n, task, given)
                           IN stage = done /\ Fits(done)
  BY <1>1, <1>3, PanelGoes DEF StageOf
<1>10. call.op = "propose" =>
         LET done == ProposeStage(climb, call, n, task, given, CurrentDraft)
         IN stage = done /\ Fits(done)
  <2>1. call.op = "propose" => \A head : Fits(ProposeStage(climb, call, n, task, given, head))
    BY <1>1, <1>3, ProposeGoes
  <2> HIDE DEF Goes
  <2>2. QED
    BY <2>1 DEF StageOf
<1>11. call.op = "apply" => stage = ApplyStage(bundle, call, n) /\ Fits(ApplyStage(bundle, call, n))
  BY <1>3, ApplyGoes DEF StageOf
<1>12. call.op = "run" => stage = RunStage(climb, call, n) /\ Fits(RunStage(climb, call, n))
  BY <1>1, <1>2, <1>3, RunGoes DEF StageOf
<1> HIDE DEF stage, Fits
<1>13. Fits(stage)
  <2>1. call.op \in {"create", "bind", "translate", "review", "select", "attest", "freeze",
                     "translate_run", "compare", "issue", "finalize"} => Fits(stage)
    BY <1>4, <1>5, <1>6
  <2>2. call.op \in {"plan", "authorize", "observe", "measure", "rung", "anchor", "register",
                     "panel", "propose", "apply", "run"} => Fits(stage)
    BY <1>7, <1>8, <1>9, <1>10, <1>11, <1>12
  <2>3. QED
    BY <1>1, <2>1, <2>2 DEF Operations
<1>14. QED
  BY <1>13 DEF call, stage, Fits

LEMMA LastingMore ==
    ASSUME NEW E, NEW F, E \subseteq F, NEW s, NEW w, NEW call, IsCall(call)
    PROVE  /\ Lasting(s, E, w, call) => Lasting(s, F, w, call)
           /\ Repeating(E, w, call) => Repeating(F, w, call)
<1>1. \A write : LabelledAs(s, E, write) => LabelledAs(s, F, write)
  BY Zenon, SaysMore DEF LabelledAs
<1> DEFINE EE == E \cup Range(w.todo)
           FF == F \cup Range(w.todo)
<1>2. EE \subseteq FF
  OBVIOUS
<1>3. \A n, task : Reached(E, call, n, task) => Reached(F, call, n, task)
  BY ReachedMore
<1> HIDE DEF EE, FF
<1>4. \A n, task : Reached(EE, call, n, task) => Reached(FF, call, n, task)
  BY <1>2, ReachedMore
<1>5. Done(EE, call) => Done(FF, call)
  <2>1. call.op \in Operations
    BY DEF IsCall
  <2>2. QED
    BY <1>2, <2>1, DoneMore
<1>6. \A journal, key : KeyIn(E, journal, key) => KeyIn(F, journal, key)
  BY SaysMore
<1>7. Lasting(s, E, w, call) => Lasting(s, F, w, call)
  BY <1>1, <1>3, <1>4, <1>5 DEF Lasting, EE, FF
<1>8. Repeating(E, w, call) => Repeating(F, w, call)
  BY <1>6 DEF Repeating
<1>9. QED
  BY <1>7, <1>8

\* The journals as a step leaves them.
Later ==
    /\ scenario' = scenario
    /\ Written \subseteq Written' /\ InPlace'
    /\ \A e \in Range(climb') : LabelledAs(scenario, Written', e)


LEMMA ScriptHas ==
    ASSUME MovesInv, NEW q \in Operators
    PROVE  /\ IsLog(results[q]) /\ Len(results[q]) \in Nat
           /\ DOMAIN results[q] = 1..Len(results[q])
           /\ DOMAIN Script[scenario][q] = 1..Len(Script[scenario][q])
           /\ Len(Script[scenario][q]) \in Nat
           /\ \A i \in DOMAIN Script[scenario][q] : Script[scenario][q][i].op \in Operations
<1>1. scenario \in Scenarios /\ IsLog(results[q])
  BY DEF MovesInv, Settled
<1>2. IsList(Script[scenario][q]) /\ \A i \in DOMAIN Script[scenario][q] : IsCall(Script[scenario][q][i])
  BY <1>1, ScriptAssumption
<1>3. QED
  BY <1>1, <1>2, LogFacts, ListHas DEF IsCall

\* What is kept of all but the process that takes the step.
LEMMA OthersStay ==
    ASSUME MovesInv, RepeatInv, NEW p \in Operators, Steps(p), Later, NEW q \in Operators \ {p}
    PROVE  /\ (Remaining(q) => /\ Lasting(scenario, Written, work[q], CallOf(q))
                               /\ Repeats(q) => Repeating(Written, work[q], CallOf(q)))'
           /\ (\A i \in DOMAIN results[q] :
                 /\ i \in DOMAIN Script[scenario][q]
                 /\ results[q][i].outcome = "done" => Done(Written, Script[scenario][q][i]))'
           /\ (\A i, j \in DOMAIN results[q] :
                 /\ i < j /\ Script[scenario][q][i] = Script[scenario][q][j]
                 /\ results[q][i].outcome = "done"
                 => results[q][j].added = 0)'
<1>1. work'[q] = work[q] /\ results'[q] = results[q] /\ scenario' = scenario
  BY LedgerGrows, CallsStay DEF Alone
<1>2. CallOf(q)' = CallOf(q) /\ Remaining(q)' = Remaining(q)
  BY <1>1 DEF CallOf, Remaining
<1>3. Repeats(q)' = Repeats(q)
  BY <1>1, <1>2 DEF Repeats
<1>4. ASSUME Remaining(q)
      PROVE  /\ Lasting(scenario, Written', work[q], CallOf(q))
             /\ Repeats(q) => Repeating(Written', work[q], CallOf(q))
  <2>1. Lasting(scenario, Written, work[q], CallOf(q))
        /\ (Repeats(q) => Repeating(Written, work[q], CallOf(q)))
    BY <1>4 DEF RepeatInv
  <2>2. IsCall(CallOf(q))
    BY <1>4, InCall
  <2>3. Written \subseteq Written'
    BY DEF Later
  <2>4. QED
    BY <2>1, <2>2, <2>3, LastingMore
<1>5. \A i \in DOMAIN results[q] :
         /\ i \in DOMAIN Script[scenario][q]
         /\ results[q][i].outcome = "done" => Done(Written', Script[scenario][q][i])
  <2> TAKE i \in DOMAIN results[q]
  <2>1. i \in DOMAIN Script[scenario][q]
        /\ (results[q][i].outcome = "done" => Done(Written, Script[scenario][q][i]))
    BY DEF RepeatInv, Lasts
  <2>2. Script[scenario][q][i].op \in Operations
    BY <2>1, ScriptHas
  <2>3. Written \subseteq Written'
    BY DEF Later
  <2>4. QED
    BY <2>1, <2>2, <2>3, DoneMore
<1>6. \A i, j \in DOMAIN results[q] :
         /\ i < j /\ Script[scenario][q][i] = Script[scenario][q][j]
         /\ results[q][i].outcome = "done"
         => results[q][j].added = 0
  BY DEF RepeatInv, RepeatsAddNothing
<1>7. QED
  BY <1>1, <1>2, <1>3, <1>4, <1>5, <1>6

LEMMA RepeatOn ==
    ASSUME MovesInv, RepeatInv, NEW p \in Operators, Steps(p), Later,
           (Remaining(p) => /\ Lasting(scenario, Written, work[p], CallOf(p))
                            /\ Repeats(p) => Repeating(Written, work[p], CallOf(p)))',
           (\A i \in DOMAIN results[p] :
              /\ i \in DOMAIN Script[scenario][p]
              /\ results[p][i].outcome = "done" => Done(Written, Script[scenario][p][i]))',
           (\A i, j \in DOMAIN results[p] :
              /\ i < j /\ Script[scenario][p][i] = Script[scenario][p][j]
              /\ results[p][i].outcome = "done"
              => results[p][j].added = 0)'
    PROVE  RepeatInv'
<1>1. \A q \in Operators :
         (Remaining(q) => /\ Lasting(scenario, Written, work[q], CallOf(q))
                          /\ Repeats(q) => Repeating(Written, work[q], CallOf(q)))'
  BY OthersStay
<1>2. \A q \in Operators :
         (\A i \in DOMAIN results[q] :
            /\ i \in DOMAIN Script[scenario][q]
            /\ results[q][i].outcome = "done" => Done(Written, Script[scenario][q][i]))'
  BY OthersStay
<1>3. \A q \in Operators :
         (\A i, j \in DOMAIN results[q] :
            /\ i < j /\ Script[scenario][q][i] = Script[scenario][q][j]
            /\ results[q][i].outcome = "done"
            => results[q][j].added = 0)'
  BY OthersStay
<1>4. InPlace' /\ (\A e \in Range(climb) : Labelled(Written, e))'
  BY DEF Later, Labelled
<1>5. Lasts' /\ RepeatsAddNothing'
  BY <1>2, <1>3 DEF Lasts, RepeatsAddNothing
<1>6. QED
  BY <1>1, <1>4, <1>5 DEF RepeatInv

LEMMA RestingFits ==
    ASSUME NEW s, NEW E, NEW w, NEW call, w.phase \in {"closed", "ready"}, w.stage = 1
    PROVE  Lasting(s, E, w, call) /\ (w.added = 0 => Repeating(E, w, call))
<1>1. w.phase # "run" /\ ~Working(w) /\ ~Landed(w)
  BY DEF Working, Landed
<1>2. QED
  BY <1>1 DEF Lasting, Repeating

\* A process that goes on with the writes it had.
LEMMA SameFits ==
    ASSUME NEW s, NEW E, NEW w, Working(w), NEW call, NEW v, Working(v),
           v.todo = w.todo, v.next = w.next, v.task = w.task, v.stage = w.stage,
           Landed(v) => Head(v.todo) \in E
    PROVE  /\ Lasting(s, E, w, call) => Lasting(s, E, v, call)
           /\ v.added = 0 /\ Repeating(E, w, call) => Repeating(E, v, call)
<1>1. v.phase # "run"
  BY DEF Working
<1>2. QED
  BY <1>1 DEF Lasting, Repeating

\* One that has written the first of them.
LEMMA TailFits ==
    ASSUME NEW s, NEW E, NEW w, Working(w), Landed(w), IsLog(w.todo), w.todo # << >>, NEW call,
           NEW v, v.phase = "write", v.todo = Tail(w.todo), v.next = w.next, v.task = w.task,
           v.stage = w.stage, v.added = w.added
    PROVE  /\ Lasting(s, E, w, call) => Lasting(s, E, v, call)
           /\ Repeating(E, w, call) => Repeating(E, v, call)
<1>1. Range(w.todo) = {Head(w.todo)} \cup Range(v.todo)
  <2>1. /\ Len(w.todo) \in Nat /\ DOMAIN w.todo = 1..Len(w.todo) /\ Len(w.todo) >= 1
        /\ DOMAIN v.todo = 1..(Len(w.todo) - 1)
        /\ \A i \in 1..(Len(w.todo) - 1) : v.todo[i] = w.todo[i + 1]
        /\ Head(w.todo) = w.todo[1]
    BY TailLog, LogFacts
  <2>2. \A i \in 1..(Len(w.todo) - 1) : i + 1 \in 1..Len(w.todo)
    BY <2>1
  <2>3. \A i \in 1..Len(w.todo) : i = 1 \/ (i - 1 \in 1..(Len(w.todo) - 1) /\ (i - 1) + 1 = i)
    BY <2>1
  <2>4. 1 \in 1..Len(w.todo)
    BY <2>1
  <2>5. ASSUME NEW x \in Range(w.todo) PROVE x \in {Head(w.todo)} \cup Range(v.todo)
    <3>1. PICK i \in 1..Len(w.todo) : w.todo[i] = x
      BY <2>1 DEF Range
    <3>2. CASE i = 1
      BY <2>1, <3>1, <3>2
    <3>3. CASE i # 1
      <4>1. v.todo[i - 1] = x /\ i - 1 \in DOMAIN v.todo
        BY <2>1, <2>3, <3>1, <3>3
      <4>2. QED
        BY Zenon, <4>1 DEF Range
    <3>4. QED
      BY <3>2, <3>3
  <2>6. ASSUME NEW x \in Range(v.todo) PROVE x \in Range(w.todo)
    <3>1. PICK i \in 1..(Len(w.todo) - 1) : v.todo[i] = x
      BY <2>1 DEF Range
    <3>2. QED
      BY <2>1, <2>2, <3>1 DEF Range
  <2>7. Head(w.todo) \in Range(w.todo)
    BY <2>1, <2>4 DEF Range
  <2>8. QED
    BY <2>5, <2>6, <2>7
<1>2. Working(v) /\ ~Landed(v) /\ v.phase # "run"
  BY DEF Working, Landed
<1>3. Lasting(s, E, w, call) => E \cup Range(v.todo) = E \cup Range(w.todo)
  BY <1>1 DEF Lasting
<1>4. Lasting(s, E, w, call) => Lasting(s, E, v, call)
  BY Zenon, <1>1, <1>2, <1>3 DEF Lasting
<1>5. Repeating(E, w, call) => Repeating(E, v, call)
  BY <1>1, <1>2 DEF Repeating
<1>6. QED
  BY <1>4, <1>5

\* A step with which no call ends.
LEMMA RepeatStays ==
    ASSUME MovesInv, RepeatInv, NEW p \in Operators, Steps(p), Later, results' = results,
           Lasting(scenario, Written', work'[p], CallOf(p)),
           Repeats(p) => Repeating(Written', work'[p], CallOf(p))
    PROVE  RepeatInv'
<1>1. scenario' = scenario /\ Written \subseteq Written'
  BY DEF Later
<1>2. CallOf(p)' = CallOf(p)
  BY <1>1 DEF CallOf
<1>3. Repeats(p)' = Repeats(p)
  BY <1>1, <1>2 DEF Repeats
<1>4. (Remaining(p) => /\ Lasting(scenario, Written, work[p], CallOf(p))
                       /\ Repeats(p) => Repeating(Written, work[p], CallOf(p)))'
  BY <1>1, <1>2, <1>3
<1>5. (\A i \in DOMAIN results[p] :
         /\ i \in DOMAIN Script[scenario][p]
         /\ results[p][i].outcome = "done" => Done(Written, Script[scenario][p][i]))'
  <2>1. ASSUME NEW i \in DOMAIN results[p]
        PROVE  /\ i \in DOMAIN Script[scenario][p]
               /\ results[p][i].outcome = "done" => Done(Written', Script[scenario][p][i])
    <3>1. i \in DOMAIN Script[scenario][p]
          /\ (results[p][i].outcome = "done" => Done(Written, Script[scenario][p][i]))
      BY DEF RepeatInv, Lasts
    <3>2. Script[scenario][p][i].op \in Operations
      BY <3>1, ScriptHas
    <3>3. QED
      BY <1>1, <3>1, <3>2, DoneMore
  <2>2. QED
    BY <1>1, <2>1
<1>6. (\A i, j \in DOMAIN results[p] :
         /\ i < j /\ Script[scenario][p][i] = Script[scenario][p][j]
         /\ results[p][i].outcome = "done"
         => results[p][j].added = 0)'
  BY <1>1 DEF RepeatInv, RepeatsAddNothing
<1>7. QED
  BY <1>4, <1>5, <1>6, RepeatOn

\* A step with which one ends.
LEMMA RepeatEnds ==
    ASSUME MovesInv, RepeatInv, NEW p \in Operators, Steps(p), Later, Remaining(p),
           NEW outcome, End(p, outcome), outcome = "done" => Done(Written', CallOf(p))
    PROVE  RepeatInv'
<1> DEFINE r == [outcome |-> outcome, added |-> work[p].added, interrupted |-> work[p].interrupted]
           n == Len(results[p])
           script == Script[scenario][p]
<1>1. scenario' = scenario /\ Written \subseteq Written'
  BY DEF Later
<1>2. Placed /\ DOMAIN results = Operators
  BY DEF MovesInv, Settled
<1>3. results'[p] = Append(results[p], r)
  BY <1>2 DEF End
<1>4. r.outcome = outcome /\ r.added = work[p].added
  OBVIOUS
<1> HIDE DEF r
<1>5. /\ IsLog(results[p]) /\ n \in Nat /\ DOMAIN results[p] = 1..n
      /\ DOMAIN script = 1..Len(script) /\ Len(script) \in Nat
      /\ \A i \in DOMAIN script : script[i].op \in Operations
  BY ScriptHas
<1>6. /\ DOMAIN results'[p] = 1..(n + 1)
      /\ \A i \in 1..n : results'[p][i] = results[p][i]
      /\ results'[p][n + 1] = r
  BY <1>3, <1>5, LongerLog
<1>7. n + 1 \in DOMAIN script /\ CallOf(p) = script[n + 1]
  BY <1>5 DEF Remaining, CallOf
<1> HIDE DEF n, script
<1>8. \A i \in 1..(n + 1) : i \in 1..n \/ i = n + 1
  BY <1>5
<1>9. Repeats(p) => work[p].added = 0
  BY DEF RepeatInv, Repeating
<1>10. (\A i \in DOMAIN results[p] :
          /\ i \in DOMAIN Script[scenario][p]
          /\ results[p][i].outcome = "done" => Done(Written, Script[scenario][p][i]))'
  <2>1. ASSUME NEW i \in 1..n
        PROVE  i \in DOMAIN script /\ (results[p][i].outcome = "done" => Done(Written', script[i]))
    <3>1. i \in DOMAIN script /\ (results[p][i].outcome = "done" => Done(Written, script[i]))
      BY <1>5 DEF RepeatInv, Lasts, script
    <3>2. QED
      BY <1>1, <1>5, <3>1, DoneMore
  <2>2. \A i \in DOMAIN results'[p] :
           i \in DOMAIN script /\ (results'[p][i].outcome = "done" => Done(Written', script[i]))
    BY <1>4, <1>6, <1>7, <1>8, <2>1
  <2>3. QED
    BY <1>1, <2>2 DEF script
<1>11. (\A i, j \in DOMAIN results[p] :
          /\ i < j /\ Script[scenario][p][i] = Script[scenario][p][j]
          /\ results[p][i].outcome = "done"
          => results[p][j].added = 0)'
  <2>1. ASSUME NEW i \in 1..(n + 1), NEW j \in 1..(n + 1), i < j, script[i] = script[j],
               results'[p][i].outcome = "done"
        PROVE  results'[p][j].added = 0
    <3>1. i \in 1..n
      BY <1>5, <2>1
    <3>2. results[p][i].outcome = "done"
      BY <1>6, <2>1, <3>1
    <3>3. CASE j \in 1..n
      <4>1. results[p][j].added = 0
        BY Zenon, <1>5, <2>1, <3>1, <3>2, <3>3 DEF RepeatInv, RepeatsAddNothing, script
      <4>2. QED
        BY <1>6, <3>3, <4>1
    <3>4. CASE j = n + 1
      <4>1. script[i] = CallOf(p)
        BY <1>7, <2>1, <3>4
      <4>2. Repeats(p)
        BY <1>5, <3>1, <3>2, <4>1 DEF Repeats, script
      <4>3. QED
        BY <1>4, <1>6, <1>9, <3>4, <4>2
    <3>5. QED
      BY <1>8, <3>3, <3>4
  <2>2. QED
    BY <1>1, <1>6, <2>1 DEF script
<1>12. (Remaining(p) => /\ Lasting(scenario, Written, work[p], CallOf(p))
                        /\ Repeats(p) => Repeating(Written, work[p], CallOf(p)))'
  <2>1. PICK phase \in {"closed", "ready"} : work' = [work EXCEPT ![p] = [Idle EXCEPT !.phase = phase]]
    BY Zenon DEF End
  <2>2. work'[p] = [Idle EXCEPT !.phase = phase]
    BY <1>2, <2>1 DEF Placed
  <2>3. work'[p].phase \in {"closed", "ready"} /\ work'[p].stage = 1 /\ work'[p].added = 0
    BY <2>2 DEF Idle
  <2>4. \A s, E, call : Lasting(s, E, work'[p], call) /\ Repeating(E, work'[p], call)
    BY <2>3, RestingFits
  <2>5. QED
    BY <2>4
<1>13. QED
  BY <1>10, <1>11, <1>12, RepeatOn

-----------------------------------------------------------------------------
(* The journals, from one step to the next *)

LEMMA NothingWritten ==
    ASSUME RepeatInv, UNCHANGED <<scenario, journals>>
    PROVE  Later /\ Written' = Written
<1>1. /\ climb' = climb /\ operational' = operational /\ qualification' = qualification
      /\ drafts' = drafts /\ scenario' = scenario
  BY DEF journals
<1>2. Written' = Written
  BY <1>1 DEF Written
<1>3. InPlace' = InPlace
  BY <1>1 DEF InPlace
<1>4. InPlace /\ \A e \in Range(climb) : LabelledAs(scenario, Written, e)
  BY DEF RepeatInv, Labelled
<1>5. QED
  BY <1>1, <1>2, <1>3, <1>4 DEF Later

LEMMA KeptAppend ==
    ASSUME NEW log, NEW journal, Kept(log, journal), NEW write, ~HasKey(log, write.key),
           JournalOf(write) = journal
    PROVE  Kept(Append(log, write), journal) /\ Range(Append(log, write)) = Range(log) \cup {write}
<1>1. IsLog(log) /\ KeysUnique(log) /\ \A e \in Range(log) : JournalOf(e) = journal
  BY DEF Kept
<1>2. KeysUnique(Append(log, write)) /\ IsLog(Append(log, write))
      /\ Range(Append(log, write)) = Range(log) \cup {write}
  BY <1>1, KeysStayUnique, LongerLog, RangeAppend
<1>3. QED
  BY <1>1, <1>2 DEF Kept

\* One entry is written, to its journal.
LEMMA OneWritten ==
    ASSUME RepeatInv, scenario' = scenario, NEW write, Labelled(Written, write),
           \/ /\ climb' = Append(climb, write) /\ JournalOf(write) = "climb"
              /\ ~HasKey(climb, write.key) /\ UNCHANGED <<operational, qualification, drafts>>
           \/ /\ operational' = Append(operational, write) /\ JournalOf(write) = "operational"
              /\ ~HasKey(operational, write.key) /\ UNCHANGED <<climb, qualification, drafts>>
           \/ /\ qualification' = Append(qualification, write)
              /\ JournalOf(write) = "qualification"
              /\ ~HasKey(qualification, write.key) /\ UNCHANGED <<climb, operational, drafts>>
           \/ /\ drafts' = Append(drafts, write) /\ JournalOf(write) = "lineage"
              /\ ~HasKey(drafts, write.key) /\ UNCHANGED <<climb, operational, qualification>>
    PROVE  Later /\ write \in Written'
<1>1. /\ Kept(climb, "climb") /\ Kept(operational, "operational")
      /\ Kept(qualification, "qualification") /\ Kept(drafts, "lineage")
      /\ \A e \in Range(climb) : LabelledAs(scenario, Written, e)
  BY DEF RepeatInv, InPlace, Labelled
<1>2. LabelledAs(scenario, Written, write)
  BY DEF Labelled
<1>3. /\ InPlace' /\ Written' = Written \cup {write}
      /\ Range(climb') \subseteq Range(climb) \cup {write}
  <2>1. CASE /\ climb' = Append(climb, write) /\ JournalOf(write) = "climb"
             /\ ~HasKey(climb, write.key) /\ UNCHANGED <<operational, qualification, drafts>>
    <3>1. Kept(climb', "climb") /\ Range(climb') = Range(climb) \cup {write}
      BY <1>1, <2>1, KeptAppend
    <3>2. operational' = operational /\ qualification' = qualification /\ drafts' = drafts
      BY <2>1
    <3>3. InPlace'
      BY <1>1, <3>1, <3>2 DEF InPlace
    <3>4. Written' = Written \cup {write}
      BY <3>1, <3>2 DEF Written
    <3>5. QED
      BY <3>1, <3>3, <3>4
  <2>2. CASE /\ operational' = Append(operational, write) /\ JournalOf(write) = "operational"
             /\ ~HasKey(operational, write.key) /\ UNCHANGED <<climb, qualification, drafts>>
    <3>1. Kept(operational', "operational") /\ Range(operational') = Range(operational) \cup {write}
      BY <1>1, <2>2, KeptAppend
    <3>2. climb' = climb /\ qualification' = qualification /\ drafts' = drafts
      BY <2>2
    <3>3. InPlace'
      BY <1>1, <3>1, <3>2 DEF InPlace
    <3>4. Written' = Written \cup {write}
      BY <3>1, <3>2 DEF Written
    <3>5. QED
      BY <3>2, <3>3, <3>4
  <2>3. CASE /\ qualification' = Append(qualification, write) /\ JournalOf(write) = "qualification"
             /\ ~HasKey(qualification, write.key) /\ UNCHANGED <<climb, operational, drafts>>
    <3>1. Kept(qualification', "qualification")
          /\ Range(qualification') = Range(qualification) \cup {write}
      BY <1>1, <2>3, KeptAppend
    <3>2. climb' = climb /\ operational' = operational /\ drafts' = drafts
      BY <2>3
    <3>3. InPlace'
      BY <1>1, <3>1, <3>2 DEF InPlace
    <3>4. Written' = Written \cup {write}
      BY <3>1, <3>2 DEF Written
    <3>5. QED
      BY <3>2, <3>3, <3>4
  <2>4. CASE /\ drafts' = Append(drafts, write) /\ JournalOf(write) = "lineage"
             /\ ~HasKey(drafts, write.key) /\ UNCHANGED <<climb, operational, qualification>>
    <3>1. Kept(drafts', "lineage") /\ Range(drafts') = Range(drafts) \cup {write}
      BY <1>1, <2>4, KeptAppend
    <3>2. climb' = climb /\ operational' = operational /\ qualification' = qualification
      BY <2>4
    <3>3. InPlace'
      BY <1>1, <3>1, <3>2 DEF InPlace
    <3>4. Written' = Written \cup {write}
      BY <3>1, <3>2 DEF Written
    <3>5. QED
      BY <3>2, <3>3, <3>4
  <2>5. QED
    BY <2>1, <2>2, <2>3, <2>4
<1>4. \A e : LabelledAs(scenario, Written, e) => LabelledAs(scenario, Written', e)
  <2>1. Written \subseteq Written'
    BY <1>3
  <2>2. QED
    BY Zenon, <2>1, SaysMore DEF LabelledAs
<1>5. QED
  BY Zenon, <1>1, <1>2, <1>3, <1>4 DEF Later

-----------------------------------------------------------------------------
(* A repeated call, step by step *)

\* What is known of the process that takes a step within its call.
LEMMA WithinCall ==
    ASSUME MovesInv, RepeatInv, NEW p \in Operators, Working(work[p])
    PROVE  /\ Remaining(p) /\ Placed /\ IsLog(work[p].todo)
           /\ LocalOf(work[p], CallOf(p), climb, drafts)
           /\ Lasting(scenario, Written, work[p], CallOf(p))
           /\ Repeats(p) => Repeating(Written, work[p], CallOf(p))
           /\ \A write \in Range(work[p].todo) : Labelled(Written, write)
           /\ work[p].todo # << >> => Head(work[p].todo) \in Range(work[p].todo)
<1>1. Busy(p)
  BY DEF Working, Busy
<1>2. Remaining(p)
  BY <1>1 DEF MovesInv
<1>3. LocalOf(work[p], CallOf(p), climb, drafts) /\ Placed
  BY <1>2, InCall
<1>4. IsLog(work[p].todo)
  BY <1>3 DEF LocalOf
<1>5. /\ Lasting(scenario, Written, work[p], CallOf(p))
      /\ Repeats(p) => Repeating(Written, work[p], CallOf(p))
  BY <1>2 DEF RepeatInv
<1>6. \A write \in Range(work[p].todo) : Labelled(Written, write)
  BY <1>5 DEF Lasting, Labelled
<1>7. work[p].todo # << >> => Head(work[p].todo) \in Range(work[p].todo)
  BY <1>4, TailLog DEF Range
<1>8. QED
  BY <1>2, <1>3, <1>4, <1>5, <1>6, <1>7

\* A call that opens, or is open, has nothing to register yet.
LEMMA BeginsRepeats ==
    ASSUME MovesInv, RepeatInv, NEW p \in Operators, Open(p) \/ OpenActive(p),
           Remaining(p), work[p].stage = 1,
           NEW phase \in {"open", "run"}, Goto(p, phase), results' = results
    PROVE  RepeatInv'
<1>1. /\ Steps(p) /\ Placed
      /\ Later /\ Written' = Written
  <2>1. UNCHANGED <<scenario, journals>>
    BY DEF Open, OpenActive
  <2>2. QED
    BY <2>1, NothingWritten DEF Steps, MovesInv, Settled
<1>2. work'[p].phase = phase /\ work'[p].stage = 1 /\ work'[p].added = work[p].added
  BY <1>1, IdleFields DEF Goto, Placed
<1>3. ~Working(work'[p]) /\ ~Landed(work'[p])
  BY <1>2 DEF Working, Landed
<1>4. Reached(Written, CallOf(p), work'[p].stage, work'[p].task)
  BY <1>2 DEF Reached
<1>5. Lasting(scenario, Written, work'[p], CallOf(p))
  BY <1>3, <1>4 DEF Lasting
<1>6. Repeats(p) => Repeating(Written, work'[p], CallOf(p))
  <2>1. Repeats(p) => work[p].added = 0
    BY DEF RepeatInv, Repeating
  <2>2. QED
    BY <1>2, <1>3, <2>1 DEF Repeating
<1>7. QED
  BY <1>1, <1>5, <1>6, RepeatStays

LEMMA OpenRepeats ==
    ASSUME MovesInv, RepeatInv, NEW p \in Operators, Open(p) \/ OpenActive(p) PROVE RepeatInv'
<1>1. /\ Remaining(p) /\ work[p].stage = 1 /\ Steps(p)
      /\ Later /\ Written' = Written
  <2>1. UNCHANGED <<scenario, journals>>
    BY DEF Open, OpenActive
  <2>2. Remaining(p)
    BY DEF Open, OpenActive, MovesInv, Busy
  <2>3. work[p].stage = 1
    BY <2>2, InCall DEF Open, OpenActive, LocalOf
  <2>4. QED
    BY <2>1, <2>2, <2>3, NothingWritten DEF Steps
<1>2. CASE \E phase \in {"open", "run"} : Goto(p, phase) /\ results' = results
  BY <1>1, <1>2, BeginsRepeats
<1>3. CASE End(p, "unopenable")
  BY <1>1, <1>3, RepeatEnds
<1>4. QED
  BY Zenon, <1>2, <1>3 DEF Open, OpenActive

LEMMA StageRepeated ==
    ASSUME MovesInv, FoundedInv, RepeatInv, NEW p \in Operators, Stage(p) PROVE RepeatInv'
<1> DEFINE call == CallOf(p)
           w == work[p]
           v == work'[p]
<1>0. Later /\ Written' = Written /\ Steps(p) /\ Placed
  <2>1. UNCHANGED <<scenario, journals>>
    BY DEF Stage
  <2>2. QED
    BY <2>1, NothingWritten DEF Steps, MovesInv, Settled
<1>1. /\ Remaining(p) /\ results' = results
      /\ climb' = climb /\ drafts' = drafts /\ scenario' = scenario
      /\ \/ w.phase = "run"
         \/ w.phase = "ready"
         \/ w.phase = "closed" /\ call.op = "create"
  BY DEF Stage, journals
<1>2. LocalOf(w, call, climb, drafts) /\ IsCall(call)
  BY <1>0, <1>1, InCall
<1>3. PICK given, heads :
        LET stage == StageOf(call, w.stage, w.task, given)
        IN work' = [work EXCEPT ![p].phase = "write", ![p].todo = stage.writes,
                                ![p].next = stage.next, ![p].task = stage.task,
                                ![p].seen = heads]
  BY Zenon DEF Stage
<1> DEFINE stage == StageOf(call, w.stage, w.task, given)
<1>4. Lasting(scenario, Written, w, call) /\ (Repeats(p) => Repeating(Written, w, call))
  BY <1>0, <1>1 DEF RepeatInv
<1>5. w.stage \in Nat \ {0} /\ (w.phase \in {"closed", "ready"} => w.stage = 1)
  BY <1>2 DEF LocalOf
<1>6. Reached(Written, call, w.stage, w.task)
  <2>1. CASE w.phase = "run"
    BY <1>4, <2>1 DEF Lasting
  <2>2. CASE w.phase # "run"
    BY <1>0, <1>1, <1>5, <2>2 DEF Reached
  <2>3. QED
    BY <2>1, <2>2
<1>7. call.op # "create" => Founded(climb)
  BY <1>0, <1>1 DEF FoundedInv, FoundedAt
<1>8. StageGoes(stage, call, w.stage)
  BY <1>0, <1>1, <1>5, <1>6, <1>7, AnyGoes
<1> HIDE DEF stage
<1>9. /\ v.phase = "write" /\ v.todo = stage.writes /\ v.added = w.added
      /\ v.next = stage.next /\ v.task = stage.task /\ v.stage = w.stage
  <2>1. work' = [work EXCEPT ![p].phase = "write", ![p].todo = stage.writes,
                             ![p].next = stage.next, ![p].task = stage.task,
                             ![p].seen = heads]
    BY <1>3 DEF stage
  <2>2. QED
    BY <1>0, <1>1, <2>1, IdleFields DEF Placed
<1>10. Working(v) /\ ~Landed(v) /\ v.phase # "run"
  BY <1>9 DEF Working, Landed
<1> HIDE DEF v, w
<1>11. Lasting(scenario, Written, v, call)
  <2>1. StageLeads(stage, call, w.stage)
    BY <1>8 DEF StageGoes
  <2>2. QED
    BY <1>9, <1>10, <2>1 DEF StageLeads, Lasting, Labelled
<1>12. ASSUME Repeats(p) PROVE Repeating(Written, v, call)
  <2>1. PICK i \in DOMAIN results[p] : Script[scenario][p][i] = call /\ results[p][i].outcome = "done"
    BY <1>0, <1>12 DEF Repeats
  <2>2. Done(Written, call)
    BY <2>1 DEF RepeatInv, Lasts
  <2>3. w.added = 0 /\ (call.op = "panel" => w.stage = 1)
    BY <1>4, <1>12 DEF Repeating
  <2>4. StageRepeats(stage, call)
    BY <1>8, <2>2, <2>3 DEF StageGoes
  <2>5. QED
    BY <1>9, <2>3, <2>4 DEF StageRepeats, Repeating
<1>13. QED
  BY <1>0, <1>1, <1>11, <1>12, RepeatStays DEF v

LEMMA CheckRepeats ==
    ASSUME MovesInv, RepeatInv, NEW p \in Operators, CheckRecord(p) PROVE RepeatInv'
<1>1. /\ work[p].phase = "write" /\ Steps(p) /\ Later /\ Written' = Written
  <2>1. UNCHANGED <<scenario, journals>>
    BY DEF CheckRecord
  <2>2. QED
    BY <2>1, NothingWritten DEF CheckRecord, Writing, Steps
<1>2. Working(work[p])
  BY <1>1 DEF Working
<1>3. /\ Remaining(p) /\ Placed /\ Lasting(scenario, Written, work[p], CallOf(p))
      /\ Repeats(p) => Repeating(Written, work[p], CallOf(p))
  BY <1>2, WithinCall
<1>4. CASE End(p, "refused")
  BY <1>1, <1>3, <1>4, RepeatEnds
<1>5. CASE ~End(p, "refused")
  <2>1. /\ results' = results
        /\ \E heads : work' = [work EXCEPT ![p].phase = "append", ![p].seen = heads]
    BY <1>5 DEF CheckRecord
  <2>2. /\ work'[p].phase = "append" /\ work'[p].todo = work[p].todo /\ work'[p].next = work[p].next
        /\ work'[p].task = work[p].task /\ work'[p].stage = work[p].stage
        /\ work'[p].added = work[p].added
    BY <1>3, <2>1, IdleFields DEF Placed
  <2>3. Working(work'[p]) /\ ~Landed(work'[p])
    BY <2>2 DEF Working, Landed
  <2>4. Repeats(p) => work[p].added = 0
    BY <1>3 DEF Repeating
  <2>5. /\ Lasting(scenario, Written, work'[p], CallOf(p))
        /\ Repeats(p) => Repeating(Written, work'[p], CallOf(p))
    BY <1>2, <1>3, <2>2, <2>3, <2>4, SameFits
  <2>6. QED
    BY Zenon, <1>1, <2>1, <2>5, RepeatStays
<1>6. QED
  BY <1>4, <1>5

\* A write that has been made, found made, or refused.
LEMMA AppendedRepeats ==
    ASSUME MovesInv, RepeatInv, NEW p \in Operators, Steps(p), Later, Working(work[p]),
           work[p].todo # << >>, NEW verdict, NEW grown, Appended(p, verdict, grown),
           NEW write, write = Head(work[p].todo),
           verdict \in {"append", "existing"} => write \in Written',
           verdict = "append" => ~KeyIn(Written, JournalOf(write), write.key)
    PROVE  RepeatInv'
<1>1. /\ Remaining(p) /\ Placed /\ Lasting(scenario, Written, work[p], CallOf(p))
      /\ Repeats(p) => Repeating(Written, work[p], CallOf(p))
      /\ write \in Range(work[p].todo)
  BY WithinCall
<1>2. CASE verdict \in {"append", "existing"}
  <2> DEFINE n == IF verdict = "append" THEN 1 ELSE 0
  <2>1. results' = results /\ work' = [work EXCEPT ![p].phase = "index", ![p].added = @ + n]
    BY <1>2 DEF Appended
  <2> HIDE DEF n
  <2>2. /\ work'[p].phase = "index" /\ work'[p].todo = work[p].todo /\ work'[p].next = work[p].next
        /\ work'[p].task = work[p].task /\ work'[p].stage = work[p].stage
        /\ work'[p].added = work[p].added + n
    BY <1>1, <2>1, IdleFields DEF Placed
  <2>3. Working(work'[p])
    BY <2>2 DEF Working
  <2>4. IsCall(CallOf(p)) /\ Written \subseteq Written'
    BY <1>1, InCall DEF Later
  <2>5. /\ Lasting(scenario, Written', work[p], CallOf(p))
        /\ Repeats(p) => Repeating(Written', work[p], CallOf(p))
    BY <1>1, <2>4, LastingMore
  <2>6. ASSUME Repeats(p) PROVE work'[p].added = 0
    <3>1. work[p].added = 0 /\ KeyIn(Written, JournalOf(write), write.key)
      BY <1>1, <2>6 DEF Repeating
    <3>2. n = 0
      BY <3>1 DEF n
    <3>3. QED
      BY <2>2, <3>1, <3>2
  <2>7. /\ Lasting(scenario, Written', work'[p], CallOf(p))
        /\ Repeats(p) => Repeating(Written', work'[p], CallOf(p))
    BY <1>2, <2>2, <2>3, <2>5, <2>6, SameFits
  <2>8. QED
    BY Zenon, <2>1, <2>7, RepeatStays
<1>3. CASE verdict \notin {"append", "existing"}
  <2>1. End(p, "refused")
    BY <1>3 DEF Appended
  <2>2. QED
    BY <1>1, <2>1, RepeatEnds
<1>4. QED
  BY <1>2, <1>3

\* What a journal says of a write of the process.
LEMMA VerdictKeeps ==
    ASSUME RepeatInv, NEW log, NEW write, NEW journal, JournalOf(write) = journal,
           \/ journal = "climb" /\ log = climb
           \/ journal = "operational" /\ log = operational
           \/ journal = "qualification" /\ log = qualification
           \/ journal = "lineage" /\ log = drafts
    PROVE  /\ Verdict(log, write, Unset) = "append" =>
                ~HasKey(log, write.key) /\ ~KeyIn(Written, JournalOf(write), write.key)
           /\ Verdict(log, write, Unset) = "existing" => write \in Written
<1>1. IsLog(log) /\ KeysUnique(log)
  BY DEF RepeatInv, InPlace, Kept
<1>2. /\ Verdict(log, write, Unset) = "append" => ~HasKey(log, write.key)
      /\ Verdict(log, write, Unset) = "existing" => write \in Range(log)
  BY <1>1, VerdictMeans
<1>3. KeyIn(Written, journal, write.key) => HasKey(log, write.key)
  BY WrittenIs DEF RepeatInv
<1>4. Range(log) \subseteq Written
  BY DEF Written
<1>5. QED
  BY <1>2, <1>3, <1>4

LEMMA GrownRepeats ==
    ASSUME MovesInv, RepeatInv, NEW p \in Operators, Steps(p), scenario' = scenario,
           work[p].phase \in {"write", "append"}, work[p].todo # << >>,
           NEW write, write = Head(work[p].todo), NEW log, NEW verdict,
           verdict = Verdict(log, write, Unset), NEW grown, Appended(p, verdict, grown),
           \/ /\ JournalOf(write) = "climb" /\ log = climb
              /\ climb' = IF verdict = "append" THEN Append(climb, write) ELSE climb
              /\ UNCHANGED <<operational, qualification, drafts>>
           \/ /\ JournalOf(write) = "operational" /\ log = operational
              /\ operational' = IF verdict = "append" THEN Append(operational, write)
                                ELSE operational
              /\ UNCHANGED <<climb, qualification, drafts>>
           \/ /\ JournalOf(write) = "qualification" /\ log = qualification
              /\ qualification' = IF verdict = "append" THEN Append(qualification, write)
                                  ELSE qualification
              /\ UNCHANGED <<climb, operational, drafts>>
    PROVE  RepeatInv'
<1>1. Working(work[p])
  BY DEF Working
<1>2. Labelled(Written, write)
  BY <1>1, WithinCall
<1>3. /\ verdict = "append" => /\ ~HasKey(log, write.key)
                               /\ ~KeyIn(Written, JournalOf(write), write.key)
      /\ verdict = "existing" => write \in Written
  BY VerdictKeeps
<1>4. CASE verdict = "append"
  <2>1. Later /\ write \in Written'
    BY <1>2, <1>3, <1>4, OneWritten
  <2>2. QED
    BY <1>1, <1>3, <2>1, AppendedRepeats
<1>5. CASE verdict # "append"
  <2>1. UNCHANGED <<scenario, journals>>
    BY <1>5 DEF journals
  <2>2. Later /\ Written' = Written
    BY <2>1, NothingWritten
  <2>3. QED
    BY <1>1, <1>3, <1>5, <2>2, AppendedRepeats
<1>6. QED
  BY <1>4, <1>5

LEMMA AppendRepeats ==
    ASSUME MovesInv, RepeatInv, NEW p \in Operators,
           AppendRecord(p) \/ AppendOperational(p) \/ AppendQualification(p)
    PROVE  RepeatInv'
<1> DEFINE write == Head(work[p].todo)
<1>1. CASE AppendRecord(p)
  <2> DEFINE verdict == Verdict(climb, write, Unset)
             grown == Len(climb) # work[p].seen.climb
  <2>1. /\ work[p].phase = "append" /\ work[p].todo # << >> /\ scenario' = scenario
        /\ JournalOf(write) = "climb" /\ Appended(p, verdict, grown)
        /\ climb' = IF verdict = "append" THEN Append(climb, write) ELSE climb
        /\ UNCHANGED <<operational, qualification, drafts>>
    BY <1>1 DEF AppendRecord, Writing
  <2>2. Steps(p)
    BY <1>1 DEF Steps
  <2> HIDE DEF verdict, grown, write
  <2>3. QED
    BY <2>1, <2>2, GrownRepeats DEF verdict, write
<1>2. CASE AppendOperational(p)
  <2> DEFINE verdict == Verdict(operational, write, Unset)
             grown == Len(operational) # work[p].seen.operational
  <2>1. /\ work[p].phase = "write" /\ work[p].todo # << >> /\ scenario' = scenario
        /\ JournalOf(write) = "operational" /\ Appended(p, verdict, grown)
        /\ operational' = IF verdict = "append" THEN Append(operational, write)
                          ELSE operational
        /\ UNCHANGED <<climb, qualification, drafts>>
    BY <1>2 DEF AppendOperational, Writing
  <2>2. Steps(p)
    BY <1>2 DEF Steps
  <2> HIDE DEF verdict, grown, write
  <2>3. QED
    BY <2>1, <2>2, GrownRepeats DEF verdict, write
<1>3. CASE AppendQualification(p)
  <2> DEFINE verdict == Verdict(qualification, write, Unset)
             grown == Len(qualification) # work[p].seen.qualification
  <2>1. /\ work[p].phase = "write" /\ work[p].todo # << >> /\ scenario' = scenario
        /\ JournalOf(write) = "qualification" /\ Appended(p, verdict, grown)
        /\ qualification' = IF verdict = "append" THEN Append(qualification, write)
                            ELSE qualification
        /\ UNCHANGED <<climb, operational, drafts>>
    BY <1>3 DEF AppendQualification, Writing
  <2>2. Steps(p)
    BY <1>3 DEF Steps
  <2> HIDE DEF verdict, grown, write
  <2>3. QED
    BY <2>1, <2>2, GrownRepeats DEF verdict, write
<1>4. QED
  BY <1>1, <1>2, <1>3

LEMMA CommitRepeats ==
    ASSUME MovesInv, RepeatInv, NEW p \in Operators, CommitDraft(p) PROVE RepeatInv'
<1> DEFINE write == Head(work[p].todo)
           verdict == Verdict(drafts, write, Unset)
           fits == write.child = None \/ write.child.parent = CurrentDraft
<1>1. /\ work[p].phase = "write" /\ work[p].todo # << >> /\ scenario' = scenario
      /\ Steps(p) /\ JournalOf(write) = "lineage"
      /\ UNCHANGED <<climb, operational, qualification>>
      /\ IF verdict = "append" /\ fits
         THEN drafts' = Append(drafts, write) /\ Appended(p, "append", FALSE)
         ELSE /\ Appended(p, IF verdict = "append" THEN "head_conflict" ELSE verdict, FALSE)
              /\ UNCHANGED drafts
  BY Zenon DEF CommitDraft, Writing, Steps
<1>2. Working(work[p])
  BY <1>1 DEF Working
<1>3. Labelled(Written, write)
  BY <1>1, <1>2, WithinCall
<1> HIDE DEF write, fits
<1>4. /\ verdict = "append" => /\ ~HasKey(drafts, write.key)
                               /\ ~KeyIn(Written, JournalOf(write), write.key)
      /\ verdict = "existing" => write \in Written
  BY <1>1, VerdictKeeps
<1> HIDE DEF verdict
<1>5. CASE verdict = "append" /\ fits
  <2>1. Later /\ write \in Written'
    BY <1>1, <1>3, <1>4, <1>5, OneWritten
  <2>2. QED
    BY Zenon, <1>1, <1>2, <1>4, <1>5, <2>1, AppendedRepeats DEF write
<1>6. CASE ~(verdict = "append" /\ fits)
  <2>1. UNCHANGED <<scenario, journals>>
    BY Zenon, <1>1, <1>6 DEF journals
  <2>2. Later /\ Written' = Written
    BY <2>1, NothingWritten
  <2> DEFINE said == IF verdict = "append" THEN "head_conflict" ELSE verdict
  <2>3. Appended(p, said, FALSE)
    BY Zenon, <1>1, <1>6
  <2>4. said # "append" /\ (said = "existing" => write \in Written')
    BY <1>4, <2>2
  <2> HIDE DEF said
  <2>5. QED
    BY Zenon, <1>1, <1>2, <2>2, <2>3, <2>4, AppendedRepeats DEF write
<1>7. QED
  BY <1>5, <1>6

LEMMA MoveRepeats ==
    ASSUME MovesInv, RepeatInv, NEW p \in Operators, Index(p) \/ Project(p) PROVE RepeatInv'
<1>1. /\ Landed(work[p]) /\ Steps(p) /\ Later /\ Written' = Written
      /\ \/ Goto(p, "project") /\ results' = results
         \/ End(p, "refused")
         \/ /\ work' = [work EXCEPT ![p].phase = "write", ![p].todo = Tail(@)]
            /\ results' = results
  <2>1. UNCHANGED <<scenario, journals>>
    BY DEF Index, Project
  <2>2. Later /\ Written' = Written
    BY <2>1, NothingWritten
  <2>3. QED
    BY <2>2 DEF Index, Project, Landed, Steps
<1>2. Working(work[p])
  BY <1>1 DEF Working, Landed
<1>3. /\ Remaining(p) /\ Placed /\ IsLog(work[p].todo)
      /\ Lasting(scenario, Written, work[p], CallOf(p))
      /\ Repeats(p) => Repeating(Written, work[p], CallOf(p))
      /\ LocalOf(work[p], CallOf(p), climb, drafts)
  BY <1>2, WithinCall
<1>4. work[p].todo # << >> /\ Head(work[p].todo) \in Written
  BY <1>1, <1>3 DEF LocalOf, Lasting
<1>5. CASE End(p, "refused")
  BY <1>1, <1>3, <1>5, RepeatEnds
<1>6. CASE Goto(p, "project") /\ results' = results
  <2>1. /\ work'[p].phase = "project" /\ work'[p].todo = work[p].todo /\ work'[p].next = work[p].next
        /\ work'[p].task = work[p].task /\ work'[p].stage = work[p].stage
        /\ work'[p].added = work[p].added
    BY <1>3, <1>6, IdleFields DEF Goto, Placed
  <2>2. Working(work'[p])
    BY <2>1 DEF Working
  <2>3. Repeats(p) => work[p].added = 0
    BY <1>3 DEF Repeating
  <2>4. /\ Lasting(scenario, Written, work'[p], CallOf(p))
        /\ Repeats(p) => Repeating(Written, work'[p], CallOf(p))
    BY <1>2, <1>3, <1>4, <2>1, <2>2, <2>3, SameFits
  <2>5. QED
    BY <1>1, <1>6, <2>4, RepeatStays
<1>7. CASE /\ work' = [work EXCEPT ![p].phase = "write", ![p].todo = Tail(@)]
           /\ results' = results
  <2>1. /\ work'[p].phase = "write" /\ work'[p].todo = Tail(work[p].todo)
        /\ work'[p].next = work[p].next /\ work'[p].task = work[p].task
        /\ work'[p].stage = work[p].stage /\ work'[p].added = work[p].added
    BY <1>3, <1>7, IdleFields DEF Placed
  <2>2. /\ Lasting(scenario, Written, work'[p], CallOf(p))
        /\ Repeats(p) => Repeating(Written, work'[p], CallOf(p))
    BY <1>1, <1>2, <1>3, <1>4, <2>1, TailFits
  <2>3. QED
    BY Zenon, <1>1, <1>7, <2>2, RepeatStays
<1>8. QED
  BY <1>1, <1>5, <1>6, <1>7

LEMMA SettleRepeats ==
    ASSUME MovesInv, RepeatInv, NEW p \in Operators, Settle(p) PROVE RepeatInv'
<1> DEFINE w == work[p]
           v == work'[p]
<1>1. /\ w.phase = "write" /\ w.todo = << >> /\ Steps(p) /\ Later /\ Written' = Written
      /\ \/ /\ w.next = "stage" /\ results' = results
            /\ work' = [work EXCEPT ![p].phase = "run", ![p].stage = @ + 1]
         \/ w.next = "done" /\ Goto(p, "verify") /\ results' = results
         \/ End(p, w.next)
  <2>1. UNCHANGED <<scenario, journals>>
    BY DEF Settle
  <2>2. Later /\ Written' = Written
    BY <2>1, NothingWritten
  <2>3. QED
    BY <2>2 DEF Settle, Steps
<1>2. Working(w)
  BY <1>1 DEF Working
<1>3. /\ Remaining(p) /\ Placed /\ Lasting(scenario, Written, w, CallOf(p))
      /\ Repeats(p) => Repeating(Written, w, CallOf(p))
      /\ LocalOf(w, CallOf(p), climb, drafts)
  BY <1>2, WithinCall
<1>4. /\ w.next = "stage" => Reached(Written, CallOf(p), w.stage + 1, w.task)
      /\ w.next = "done" => Done(Written, CallOf(p))
  <2>1. Written \cup Range(w.todo) = Written
    BY <1>1, RangesOf
  <2>2. QED
    BY <1>2, <1>3, <2>1 DEF Lasting
<1>5. CASE End(p, w.next)
  BY <1>1, <1>3, <1>4, <1>5, RepeatEnds
<1>6. CASE w.next = "done" /\ Goto(p, "verify") /\ results' = results
  <2>1. /\ v.phase = "verify" /\ v.todo = w.todo /\ v.next = w.next
        /\ v.task = w.task /\ v.stage = w.stage /\ v.added = w.added
    BY <1>3, <1>6, IdleFields DEF Goto, Placed
  <2>2. Working(v) /\ ~Landed(v)
    BY <2>1 DEF Working, Landed
  <2>3. Repeats(p) => w.added = 0
    BY <1>3 DEF Repeating
  <2>4. /\ Lasting(scenario, Written, v, CallOf(p))
        /\ Repeats(p) => Repeating(Written, v, CallOf(p))
    BY <1>2, <1>3, <2>1, <2>2, <2>3, SameFits
  <2>5. QED
    BY <1>1, <1>6, <2>4, RepeatStays
<1>7. CASE /\ w.next = "stage" /\ results' = results
           /\ work' = [work EXCEPT ![p].phase = "run", ![p].stage = @ + 1]
  <2>1. /\ v.phase = "run" /\ v.stage = w.stage + 1 /\ v.task = w.task /\ v.added = w.added
    BY <1>3, <1>7, IdleFields DEF Placed
  <2>2. ~Working(v) /\ ~Landed(v)
    BY <2>1 DEF Working, Landed
  <2>3. Lasting(scenario, Written, v, CallOf(p))
    BY <1>4, <1>7, <2>1, <2>2 DEF Lasting
  <2>4. Repeats(p) => Repeating(Written, v, CallOf(p))
    BY <1>2, <1>3, <1>7, <2>1, <2>2 DEF Repeating
  <2>5. QED
    BY Zenon, <1>1, <1>7, <2>3, <2>4, RepeatStays
<1>8. QED
  BY <1>1, <1>5, <1>6, <1>7

LEMMA VerifyRepeats ==
    ASSUME MovesInv, RepeatInv, NEW p \in Operators, Verify(p) PROVE RepeatInv'
<1>1. /\ work[p].phase = "verify" /\ Steps(p) /\ Later /\ Written' = Written
      /\ \E outcome : End(p, outcome)
  <2>1. UNCHANGED <<scenario, journals>>
    BY DEF Verify
  <2>2. Later /\ Written' = Written
    BY <2>1, NothingWritten
  <2>3. QED
    BY <2>2 DEF Verify, Steps
<1>2. Working(work[p])
  BY <1>1 DEF Working
<1>3. /\ Remaining(p) /\ Lasting(scenario, Written, work[p], CallOf(p))
      /\ work[p].todo = << >> /\ work[p].next = "done"
  BY <1>1, <1>2, WithinCall DEF LocalOf
<1>4. Done(Written, CallOf(p))
  <2>1. Written \cup Range(work[p].todo) = Written
    BY <1>3, RangesOf
  <2>2. QED
    BY Zenon, <1>2, <1>3, <2>1 DEF Lasting
<1>5. QED
  BY <1>1, <1>3, <1>4, RepeatEnds

LEMMA CrashRepeats ==
    ASSUME MovesInv, RepeatInv, NEW p \in Operators, Crash(p) PROVE RepeatInv'
<1>1. /\ Busy(p) /\ Steps(p) /\ Later /\ Written' = Written /\ Placed /\ results' = results
      /\ work' = [work EXCEPT ![p] = [Idle EXCEPT !.added = work[p].added, !.interrupted = TRUE]]
  <2>1. UNCHANGED <<scenario, journals>>
    BY DEF Crash
  <2>2. QED
    BY <2>1, NothingWritten DEF Crash, Steps, MovesInv, Settled
<1>2. Remaining(p)
  BY <1>1 DEF MovesInv
<1>3. work'[p] = [Idle EXCEPT !.added = work[p].added, !.interrupted = TRUE]
  BY <1>1 DEF Placed
<1>4. work'[p].phase = "closed" /\ work'[p].stage = 1 /\ work'[p].added = work[p].added
  BY <1>3 DEF Idle
<1>5. Repeats(p) => work[p].added = 0
  BY <1>2 DEF RepeatInv, Repeating
<1>6. Lasting(scenario, Written', work'[p], CallOf(p))
      /\ (Repeats(p) => Repeating(Written', work'[p], CallOf(p)))
  BY <1>4, <1>5, RestingFits
<1>7. QED
  BY Zenon, <1>1, <1>6, RepeatStays

LEMMA RepeatNext == MovesInv /\ FoundedInv /\ RepeatInv /\ [Next]_vars => RepeatInv'
<1> SUFFICES ASSUME MovesInv, FoundedInv, RepeatInv, [Next]_vars PROVE RepeatInv'
  OBVIOUS
<1>1. CASE Next
  <2>1. PICK p \in Operators : Steps(p)
    BY <1>1 DEF Next, Steps
  <2>2. CASE Open(p) \/ OpenActive(p) \/ Stage(p) \/ CheckRecord(p)
    BY <2>2, OpenRepeats, StageRepeated, CheckRepeats
  <2>3. CASE AppendRecord(p) \/ AppendOperational(p) \/ AppendQualification(p) \/ CommitDraft(p)
    BY <2>3, AppendRepeats, CommitRepeats
  <2>4. CASE Index(p) \/ Project(p) \/ Settle(p) \/ Verify(p) \/ Crash(p)
    BY <2>4, MoveRepeats, SettleRepeats, VerifyRepeats, CrashRepeats
  <2>5. QED
    BY <2>1, <2>2, <2>3, <2>4 DEF Steps
<1>2. CASE UNCHANGED vars
  <2>1. /\ UNCHANGED <<scenario, journals>> /\ work' = work /\ results' = results
        /\ scenario' = scenario
    BY <1>2 DEF vars, journals
  <2>2. Written' = Written /\ InPlace' /\ \A e \in Range(climb') : LabelledAs(scenario, Written, e)
    BY <2>1, NothingWritten DEF Later
  <2>3. \A p : CallOf(p)' = CallOf(p) /\ Remaining(p)' = Remaining(p) /\ Repeats(p)' = Repeats(p)
    BY <2>1 DEF CallOf, Remaining, Repeats
  <2>4. Lasts' /\ RepeatsAddNothing'
    BY <2>1, <2>2 DEF RepeatInv, Lasts, RepeatsAddNothing
  <2>5. QED
    BY <2>1, <2>2, <2>3, <2>4 DEF RepeatInv, Labelled
<1>3. QED
  BY <1>1, <1>2

LEMMA RepeatInit == Init => RepeatInv
<1> SUFFICES ASSUME Init PROVE RepeatInv
  OBVIOUS
<1>1. /\ climb = << >> /\ operational = << >> /\ qualification = << >> /\ drafts = << >>
      /\ \A p \in Operators : results[p] = << >> /\ work[p] = Idle
  BY DEF Init
<1>2. \A journal : Kept(<< >>, journal)
  <2>1. IsLog(<< >>) /\ Range(<< >>) = {} /\ DOMAIN << >> = {}
    BY NoWrites, RangesOf
  <2>2. KeysUnique(<< >>)
    BY <2>1 DEF KeysUnique
  <2>3. QED
    BY <2>1, <2>2 DEF Kept
<1>3. InPlace /\ Range(climb) = {}
  BY <1>1, <1>2, RangesOf DEF InPlace
<1>4. \A p \in Operators : DOMAIN results[p] = {}
  BY <1>1
<1>5. \A E, call : Lasting(scenario, E, Idle, call) /\ Repeating(E, Idle, call)
  <2>1. Idle.phase = "closed" /\ Idle.stage = 1 /\ Idle.added = 0
    BY DEF Idle
  <2>2. QED
    BY <2>1, RestingFits
<1>6. \A p \in Operators : /\ Lasting(scenario, Written, work[p], CallOf(p))
                           /\ Repeating(Written, work[p], CallOf(p))
  BY <1>1, <1>5
<1>7. QED
  BY <1>3, <1>4, <1>6 DEF RepeatInv, Lasts, RepeatsAddNothing

\* A call made again after it has succeeded adds nothing to any journal
\* (Experiment.create to the API's idempotency keys: api.py, playtest/program.py,
\* climb/ledger.py), for every Script, whatever other processes do in between and
\* however often processes die: what the call has left stays in the journals, and it
\* holds the key of everything a repetition would write.
THEOREM RepeatsAlwaysAddNothing == Spec => []RepeatsAddNothing
<1>1. RepeatInv => RepeatsAddNothing
  BY DEF RepeatInv
<1>2. QED
  BY <1>1, MovesInit, MovesNext, FoundedInit, FoundedNext, RepeatInit, RepeatNext, PTL DEF Spec

-----------------------------------------------------------------------------
(* An Experiment that a call has succeeded in can be opened *)

\* Only Experiment.__init__ finds that it cannot be.
Calls(stage) == stage.next # "unopenable"

LEMMA EachCalls ==
    /\ \A writes, task : Calls(Goes(writes, task))
    /\ \A writes : Calls(Returns(writes)) /\ Calls(Raises(writes))
BY DEF Calls, Goes, Returns, Raises

LEMMA PanelCalls ==
    ASSUME NEW call, NEW n, NEW task, NEW given
    PROVE  Calls(PanelStage(climb, call, n, task, given))
<1>1. Calls(StartPanel(Records(climb), call))
  <2>1. Calls(PreparePanel(Records(climb), call))
    BY Zenon, EachCalls DEF PreparePanel
  <2>2. QED
    BY Zenon, <2>1, EachCalls DEF StartPanel
<1>2. Calls(InvokePanel(climb, call, task, given))
  BY Zenon, EachCalls DEF InvokePanel
<1>3. \A i : Calls(JudgeMember(climb, call, task, i))
  BY Zenon, EachCalls DEF JudgeMember
<1>4. Calls(FinalizePanel(climb, call, task))
  BY Zenon, EachCalls DEF FinalizePanel
<1>5. QED
  BY Zenon, <1>1, <1>2, <1>3, <1>4 DEF PanelStage

LEMMA ProposeCalls ==
    ASSUME NEW call, NEW n, NEW task, NEW given, NEW head
    PROVE  Calls(ProposeStage(climb, call, n, task, given, head))
<1>1. Calls([Translate(Records(climb), call) EXCEPT !.next = "stage"])
  BY DEF Calls, Translate, Returns, Raises
<1>2. Calls(PrepareFix(Records(climb), call, head))
  BY Zenon, EachCalls DEF PrepareFix
<1>3. Calls(InvokeBuilder(climb, call, task, given))
  BY Zenon, EachCalls DEF InvokeBuilder
<1>4. Calls(Propose(climb, call, task, head))
  BY Zenon, EachCalls DEF Propose
<1>5. QED
  BY Zenon, <1>1, <1>2, <1>3, <1>4, EachCalls DEF ProposeStage

LEMMA StageCalls ==
    ASSUME NEW call, IsCall(call), NEW n, NEW task, NEW given
    PROVE  Calls(StageOf(call, n, task, given))
<1> DEFINE bundle == Records(climb)
           stage == StageOf(call, n, task, given)
<1>1. /\ Calls(Bind(bundle, call)) /\ Calls(Translate(bundle, call)) /\ Calls(Review(bundle, call))
      /\ Calls(ApplyStage(bundle, call, n)) /\ Calls(Select(bundle, call))
      /\ Calls(Attest(bundle, call))
  BY Zenon, EachCalls DEF Bind, Translate, Review, ApplyStage, Select, Attest
<1>2. /\ Calls(FreezeProtocol(bundle, call)) /\ Calls(RunStage(climb, call, n))
      /\ Calls(TranslateRun(bundle, call)) /\ Calls(Compared(bundle, call))
  BY Zenon, EachCalls DEF FreezeProtocol, RunStage, TranslateRun, Compared
<1>3. Calls(IssueStanding(bundle, call)) /\ Calls(FinalizeStanding(bundle, call))
  <2>1. \A c, recorded : Calls(StandingOn(bundle, call, c, recorded))
    BY Zenon, EachCalls DEF StandingOn
  <2>2. QED
    BY Zenon, <2>1, EachCalls DEF IssueStanding, FinalizeStanding
<1>4. /\ Calls(Create(call)) /\ Calls(RecordPlan(call)) /\ Calls(AuthorizeBoundary(call))
      /\ Calls(RecordObservation(call)) /\ Calls(RecordFormalMeasurement(call))
      /\ Calls(RecordSelectedRung(call))
  BY Zenon, EachCalls DEF Create, RecordPlan, AuthorizeBoundary, RecordObservation,
     RecordFormalMeasurement, RecordSelectedRung
<1>5. \A writes : Calls(Returns(writes))
  BY EachCalls
<1>6. CASE call.op \in {"create", "bind", "panel", "translate", "propose", "review", "apply", "select"}
  BY Zenon, <1>1, <1>4, <1>6, PanelCalls, ProposeCalls DEF StageOf
<1>7. CASE call.op \in {"attest", "register", "freeze", "run", "translate_run", "compare", "issue"}
  BY Zenon, <1>1, <1>2, <1>3, <1>5, <1>7 DEF StageOf
<1>8. CASE call.op \in {"finalize", "plan", "authorize", "observe", "measure", "anchor", "rung"}
  BY Zenon, <1>3, <1>4, <1>5, <1>8 DEF StageOf
<1>9. QED
  BY <1>6, <1>7, <1>8 DEF IsCall, Operations

OpenInv ==
    /\ CreatedOpens
    /\ \A p \in Operators : Working(work[p]) => Calls(work[p])
    /\ \A p \in Operators : \A i \in DOMAIN results[p] :
          results[p][i].outcome = "done" => Founded(climb)

\* How a step ends its call, if it does.
LEMMA EndsFounded ==
    ASSUME MovesInv, FoundedInv, OpenInv, NEW p \in Operators, Steps(p)
    PROVE  \/ results' = results
           \/ \E outcome : /\ End(p, outcome)
                           /\ outcome = "done" => Founded(climb')
                           /\ outcome = "unopenable" => ~CanOpen
<1>1. CASE Open(p) \/ OpenActive(p)
  <2>1. results' = results \/ (End(p, "unopenable") /\ ~CanOpen)
    BY <1>1 DEF Open, OpenActive, CanOpen
  <2>2. QED
    BY Zenon, <2>1
<1>2. CASE Stage(p) \/ CheckRecord(p) \/ Index(p) \/ Project(p) \/ Crash(p)
  <2>1. results' = results \/ End(p, "refused")
    BY Zenon, <1>2 DEF Stage, CheckRecord, Index, Project, Crash
  <2>2. QED
    BY <2>1
<1>3. CASE AppendRecord(p) \/ AppendOperational(p) \/ AppendQualification(p) \/ CommitDraft(p)
  <2>1. \E verdict, grown : Appended(p, verdict, grown)
    BY Zenon, <1>3 DEF AppendRecord, AppendOperational, AppendQualification, CommitDraft
  <2>2. results' = results \/ End(p, "refused")
    BY Zenon, <2>1 DEF Appended
  <2>3. QED
    BY <2>2
<1>4. CASE Settle(p)
  <2>1. /\ work[p].phase = "write" /\ work[p].todo = << >> /\ climb' = climb
        /\ results' = results \/ End(p, work[p].next)
    BY Zenon, <1>4 DEF Settle, journals
  <2>2. Working(work[p]) /\ Busy(p)
    BY <2>1 DEF Working, Busy
  <2>3. Remaining(p) /\ FoundedAt(work[p], CallOf(p), climb)
    BY <2>2 DEF MovesInv, FoundedInv
  <2>4. work[p].next = "done" => Founded(climb')
    BY <2>1, <2>2, <2>3 DEF FoundedAt, Opened
  <2>5. work[p].next # "unopenable"
    BY <2>2 DEF OpenInv, Calls
  <2>6. QED
    BY Zenon, <2>1, <2>4, <2>5
<1>5. CASE Verify(p)
  <2>1. /\ work[p].phase = "verify" /\ climb' = climb
        /\ End(p, "done") \/ End(p, "unverified")
    BY Zenon, <1>5 DEF Verify, journals
  <2>2. Working(work[p]) /\ Busy(p)
    BY <2>1 DEF Working, Busy
  <2>3. Remaining(p) /\ FoundedAt(work[p], CallOf(p), climb)
    BY <2>2 DEF MovesInv, FoundedInv
  <2>4. work[p].todo = << >> /\ work[p].next = "done"
    BY <2>1, <2>3, InCall DEF LocalOf
  <2>5. Founded(climb')
    BY <2>1, <2>2, <2>3, <2>4 DEF FoundedAt, Opened
  <2>6. \A outcome \in {"done", "unverified"} : outcome # "unopenable"
    OBVIOUS
  <2>7. \E outcome \in {"done", "unverified"} : End(p, outcome)
    BY <2>1
  <2>8. QED
    BY Zenon, <2>5, <2>6, <2>7
<1>6. QED
  BY Zenon, <1>1, <1>2, <1>3, <1>4, <1>5 DEF Steps

\* A process that goes on with its call goes on to what the stage said.
LEMMA CallsOn ==
    ASSUME MovesInv, OpenInv, NEW p \in Operators, Steps(p)
    PROVE  \A q \in Operators : Working(work'[q]) => Calls(work'[q])
<1>1. Placed /\ Alone(p)
  BY LedgerGrows DEF MovesInv, Settled
<1>2. ASSUME NEW q \in Operators, q # p, Working(work'[q]) PROVE Calls(work'[q])
  <2>1. work'[q] = work[q]
    BY <1>1, <1>2 DEF Alone
  <2>2. QED
    BY <1>2, <2>1 DEF OpenInv
<1>3. ASSUME Working(work'[p]) PROVE Calls(work'[p])
  <2>1. CASE Stage(p)
    <3>1. PICK given, heads :
            LET stage == StageOf(CallOf(p), work[p].stage, work[p].task, given)
            IN work' = [work EXCEPT ![p].phase = "write", ![p].todo = stage.writes,
                                    ![p].next = stage.next, ![p].task = stage.task,
                                    ![p].seen = heads]
      BY Zenon, <2>1 DEF Stage
    <3> DEFINE stage == StageOf(CallOf(p), work[p].stage, work[p].task, given)
    <3>2. Calls(stage)
      <4>1. Remaining(p)
        BY <2>1 DEF Stage
      <4>2. QED
        BY <4>1, InCall, StageCalls
    <3> HIDE DEF stage
    <3>3. work' = [work EXCEPT ![p].phase = "write", ![p].todo = stage.writes,
                               ![p].next = stage.next, ![p].task = stage.task,
                               ![p].seen = heads]
      BY <3>1 DEF stage
    <3>4. work'[p].next = stage.next
      BY <1>1, <3>3, IdleFields DEF Placed
    <3>5. QED
      BY <3>2, <3>4 DEF Calls
  <2>2. CASE ~Stage(p)
    <3>1. Working(work[p])
      <4>1. IsLog(climb)
        BY DEF MovesInv, GlobalOf
      <4>2. Continues(p)
        BY <1>1, <2>2, <4>1, StepContinues DEF Steps
      <4>3. QED
        BY <1>3, <4>2 DEF Continues
    <3>2. ~ \E outcome : End(p, outcome)
      BY <1>1, <1>3, EndAlone DEF Working
    <3>3. \/ \E phase : Goto(p, phase)
          \/ \E phase, heads : work' = [work EXCEPT ![p].phase = phase, ![p].seen = heads]
          \/ \E phase, n : work' = [work EXCEPT ![p].phase = phase, ![p].added = @ + n]
          \/ \E phase, n : work' = [work EXCEPT ![p].phase = phase, ![p].stage = @ + n]
          \/ \E phase : work' = [work EXCEPT ![p].phase = phase, ![p].todo = Tail(@)]
      <4>1. ASSUME \/ Open(p) \/ OpenActive(p) \/ CheckRecord(p) \/ Index(p) \/ Project(p)
                   \/ Settle(p) \/ Verify(p)
            PROVE  \/ \E phase : Goto(p, phase)
                   \/ \E phase, heads : work' = [work EXCEPT ![p].phase = phase, ![p].seen = heads]
                   \/ \E phase, n : work' = [work EXCEPT ![p].phase = phase, ![p].stage = @ + n]
                   \/ \E phase : work' = [work EXCEPT ![p].phase = phase, ![p].todo = Tail(@)]
        BY Zenon, <3>2, <4>1 DEF Open, OpenActive, CheckRecord, Index, Project, Settle, Verify
      <4>2. ASSUME AppendRecord(p) \/ AppendOperational(p) \/ AppendQualification(p) \/ CommitDraft(p)
            PROVE  \E phase, n : work' = [work EXCEPT ![p].phase = phase, ![p].added = @ + n]
        <5>1. \E verdict, grown : Appended(p, verdict, grown)
          BY Zenon, <4>2 DEF AppendRecord, AppendOperational, AppendQualification, CommitDraft
        <5>2. QED
          BY Zenon, <3>2, <5>1 DEF Appended
      <4>3. ~Crash(p)
        <5>1. Crash(p) => \E n : work'[p] = [Idle EXCEPT !.added = n, !.interrupted = TRUE]
          BY Zenon, <1>1 DEF Crash, Placed
        <5>2. QED
          BY <1>3, <5>1 DEF Idle, Working
      <4>4. QED
        BY Zenon, <2>2, <4>1, <4>2, <4>3 DEF Steps
    <3>4. work'[p].next = work[p].next
      BY <1>1, <3>3, IdleFields DEF Goto, Placed
    <3>5. QED
      BY <1>3, <3>1, <3>4 DEF OpenInv, Calls
  <2>3. QED
    BY <2>1, <2>2
<1>4. QED
  BY <1>2, <1>3

LEMMA OpenOn ==
    ASSUME MovesInv, FoundedInv, EfficiencyInv, OpenInv, NEW p \in Operators, Steps(p),
           MovesInv', EfficiencyInv'
    PROVE  OpenInv'
<1>1. /\ IsLog(results[p]) /\ DOMAIN results = Operators
      /\ \A q \in Operators \ {p} : results'[q] = results[q]
      /\ Founded(climb) => Founded(climb') /\ (mixed => mixed')
  BY CallsStay, LedgerGrows, FoundedLater, ViewsStay DEF MovesInv, Settled, EfficiencyInv
<1> DEFINE n == Len(results[p])
<1>2. n \in Nat /\ DOMAIN results[p] = 1..n
  BY <1>1, LogFacts
<1> HIDE DEF n
<1>3. \/ results'[p] = results[p]
      \/ \E r : /\ results'[p] = Append(results[p], r)
                /\ r.outcome = "done" => Founded(climb')
                /\ r.outcome = "unopenable" => ~CanOpen
  <2>1. CASE results' = results
    BY <2>1
  <2>2. ASSUME NEW outcome, End(p, outcome), outcome = "done" => Founded(climb'),
               outcome = "unopenable" => ~CanOpen
        PROVE  \E r : /\ results'[p] = Append(results[p], r)
                      /\ r.outcome = "done" => Founded(climb')
                      /\ r.outcome = "unopenable" => ~CanOpen
    <3> DEFINE r == [outcome |-> outcome, added |-> work[p].added,
                     interrupted |-> work[p].interrupted]
    <3>1. results'[p] = Append(results[p], r)
      BY <1>1, <2>2 DEF End
    <3>2. r.outcome = outcome
      OBVIOUS
    <3> HIDE DEF r
    <3>3. QED
      BY <2>2, <3>1, <3>2
  <2>3. QED
    BY <2>1, <2>2, EndsFounded
<1>4. \A k \in 1..n : results'[p][k] = results[p][k]
  <2>1. \A r : \A k \in 1..n : Append(results[p], r)[k] = results[p][k]
    BY <1>1, LongerLog DEF n
  <2>2. CASE results'[p] = results[p]
    BY <2>2
  <2>3. ASSUME NEW r, results'[p] = Append(results[p], r)
        PROVE  \A k \in 1..n : results'[p][k] = results[p][k]
    BY <2>1, <2>3
  <2>4. results'[p] = results[p] \/ \E r : results'[p] = Append(results[p], r)
    BY Zenon, <1>3
  <2>5. QED
    BY Zenon, <2>2, <2>3, <2>4
<1>5. ASSUME NEW i \in DOMAIN results'[p]
      PROVE  \/ i \in DOMAIN results[p] /\ results'[p][i] = results[p][i]
             \/ /\ i = n + 1
                /\ results'[p][i].outcome = "done" => Founded(climb')
                /\ results'[p][i].outcome = "unopenable" => ~CanOpen
  <2>1. CASE results'[p] = results[p]
    BY <2>1
  <2>2. ASSUME NEW r, results'[p] = Append(results[p], r), r.outcome = "done" => Founded(climb'),
               r.outcome = "unopenable" => ~CanOpen
        PROVE  \/ i \in DOMAIN results[p] /\ results'[p][i] = results[p][i]
               \/ /\ i = n + 1
                  /\ results'[p][i].outcome = "done" => Founded(climb')
                  /\ results'[p][i].outcome = "unopenable" => ~CanOpen
    <3>1. /\ DOMAIN results'[p] = 1..(n + 1) /\ results'[p][n + 1] = r
          /\ \A k \in 1..n : results'[p][k] = results[p][k]
      BY <1>1, <2>2, LongerLog DEF n
    <3>2. i \in 1..n \/ i = n + 1
      BY <1>2, <3>1
    <3>3. QED
      BY <1>2, <2>2, <3>1, <3>2
  <2>3. CASE \E r : /\ results'[p] = Append(results[p], r)
                    /\ r.outcome = "done" => Founded(climb')
                    /\ r.outcome = "unopenable" => ~CanOpen
    BY Zenon, <2>2, <2>3
  <2>4. QED
    BY Zenon, <1>3, <2>1, <2>3
<1>6. ASSUME NEW q \in Operators, NEW i \in DOMAIN results'[q], results'[q][i].outcome = "done"
      PROVE  Founded(climb')
  <2>1. CASE q = p
    BY <1>1, <1>5, <1>6, <2>1 DEF OpenInv
  <2>2. CASE q # p
    BY <1>1, <1>6, <2>2 DEF OpenInv
  <2>3. QED
    BY <2>1, <2>2
<1>7. ASSUME NEW q \in Operators, NEW i \in DOMAIN results'[q], ~mixed'
      PROVE  /\ results'[q][i].outcome = "done" => CanOpen'
             /\ results'[q][1].outcome = "done" => results'[q][i].outcome # "unopenable"
  <2>1. Founded(climb') => CanOpen'
    <3>1. JournalReplays(operational')
      BY <1>7 DEF EfficiencyInv
    <3>2. (MovesInv /\ Founded(climb) /\ JournalReplays(operational) => CanOpen)'
      BY FoundedOpens, PTL
    <3>3. QED
      BY <3>1, <3>2
  <2>2. results'[q][i].outcome = "done" => CanOpen'
    BY <1>6, <2>1
  <2>3. ASSUME results'[q][1].outcome = "done" PROVE results'[q][i].outcome # "unopenable"
    <3>1. ASSUME NEW k \in DOMAIN results[q], results[q][1].outcome = "done"
          PROVE  CanOpen /\ results[q][k].outcome # "unopenable"
      <4>1. 1 \in DOMAIN results[q]
        BY LogFacts, <3>1 DEF MovesInv, Settled
      <4>2. QED
        BY <1>1, <1>7, <3>1, <4>1 DEF OpenInv, CreatedOpens
    <3>2. CASE q # p
      BY <1>1, <1>7, <2>3, <3>1, <3>2
    <3>3. CASE q = p /\ i \in DOMAIN results[p] /\ results'[p][i] = results[p][i]
      <4>1. 1 \in DOMAIN results[p]
        BY <1>2, <3>3
      <4>2. results'[p][1] = results[p][1]
        BY <1>2, <1>4, <4>1
      <4>3. QED
        BY <2>3, <3>1, <3>3, <4>2
    <3>4. CASE q = p /\ i = n + 1 /\ (results'[p][i].outcome = "unopenable" => ~CanOpen)
      <4>1. CASE n = 0
        BY <2>3, <3>4, <4>1
      <4>2. CASE n # 0
        <5>1. 1 \in DOMAIN results[p]
          BY <1>2, <4>2
        <5>2. results'[p][1] = results[p][1]
          BY <1>2, <1>4, <5>1
        <5>3. QED
          BY <2>3, <3>1, <3>4, <5>1, <5>2
      <4>3. QED
        BY <4>1, <4>2
    <3>5. QED
      BY <1>5, <1>7, <3>2, <3>3, <3>4
  <2>4. QED
    BY <2>2, <2>3
<1>8. QED
  BY <1>6, <1>7, CallsOn DEF OpenInv, CreatedOpens

LEMMA OpenNext ==
    /\ MovesInv /\ FoundedInv /\ EfficiencyInv /\ OpenInv
    /\ MovesInv' /\ EfficiencyInv' /\ [Next]_vars
    => OpenInv'
<1> SUFFICES ASSUME MovesInv, FoundedInv, EfficiencyInv, OpenInv, MovesInv', EfficiencyInv',
                    [Next]_vars
             PROVE  OpenInv'
  OBVIOUS
<1>1. CASE UNCHANGED vars
  BY <1>1 DEF OpenInv, CreatedOpens, CanOpen, vars
<1>2. CASE Next
  BY <1>2, OpenOn DEF Next, Steps
<1>3. QED
  BY <1>1, <1>2

LEMMA OpenInit == Init => OpenInv
<1> SUFFICES ASSUME Init PROVE OpenInv
  OBVIOUS
<1>1. \A p \in Operators : DOMAIN results[p] = {} /\ work[p].phase = "closed"
  BY DEF Init, Idle
<1>2. QED
  BY <1>1 DEF OpenInv, CreatedOpens, Working

\* An Experiment that a call of anyone has succeeded in can be opened, so no later
\* call finds that it cannot be, as long as one operator works at a time
\* (Experiment.__init__ and Ledger.replay; see CreatedOpens).
THEOREM ExperimentsStayOpenable == Spec => []CreatedOpens
<1>1. OpenInv => CreatedOpens
  BY DEF OpenInv
<1>2. QED
  BY <1>1, MovesInit, MovesNext, FreshInit, FreshNext, FoundedInit, FoundedNext,
     EfficiencyInit, EfficiencyNext, OpenInit, OpenNext, PTL DEF Spec

-----------------------------------------------------------------------------
\* The compiler of the climbs' Releases.
Compiler == INSTANCE Releases

-----------------------------------------------------------------------------
(* Changes, and the Releases they lead to *)

\* Whatever changes are made together: nothing is carried forward that one of them rebuilds,
\* nor anything that no change alone would carry; what they rebuild is what each rebuilds,
\* and so whatever is changed under other bytes by anything but the instrument (assess_impact).
THEOREM NothingChangedIsCarriedOver ==
    ASSUME NEW changes, AssessImpact(changes) # Refused
    PROVE  LET impact == AssessImpact(changes)
               each == {AssessImpact({c}) : c \in changes}
           IN  /\ impact.carry \cap impact.rebuild = {}
               /\ impact.carry \subseteq UNION {i.carry : i \in each}
               /\ impact.rebuild = UNION {i.rebuild : i \in each}
               /\ \A c \in changes : ~c.identical /\ c.kind # "instrument"
                                        => c.units \subseteq impact.rebuild
<1> DEFINE Carried(cs) == UNION {c.units : c \in {x \in cs : x.identical}}
           Rebuilt(cs) == UNION {Rebuilds(c) : c \in cs}
           impact == AssessImpact(changes)
           each == {AssessImpact({c}) : c \in changes}
<1>1. \A cs : cs # {} /\ (\A c \in cs : IsHandled(c))
                 => /\ AssessImpact(cs).rebuild = Rebuilt(cs)
                    /\ AssessImpact(cs).carry = Carried(cs) \ Rebuilt(cs)
  BY Zenon DEF AssessImpact
<1>2. changes # {} /\ \A c \in changes : IsHandled(c)
  BY Zenon DEF AssessImpact
<1>3. /\ impact.rebuild = Rebuilt(changes) /\ impact.carry = Carried(changes) \ Rebuilt(changes)
  BY <1>1, <1>2
<1>4. \A c \in changes : /\ AssessImpact({c}).rebuild = Rebuilds(c)
                         /\ c.identical => AssessImpact({c}).carry = c.units \ Rebuilds(c)
  <2>1. \A c \in changes : /\ AssessImpact({c}).rebuild = Rebuilt({c})
                           /\ AssessImpact({c}).carry = Carried({c}) \ Rebuilt({c})
    <3>1. \A c \in changes : {c} # {} /\ \A x \in {c} : IsHandled(x)
      BY <1>2
    <3> HIDE DEF Carried, Rebuilt
    <3>2. QED
      BY <1>1, <3>1
  <2>2. \A c : Rebuilt({c}) = Rebuilds(c) /\ (c.identical => Carried({c}) = c.units)
    OBVIOUS
  <2> HIDE DEF Carried, Rebuilt
  <2>3. QED
    BY <2>1, <2>2
<1>5. impact.rebuild = UNION {i.rebuild : i \in each}
  <2>1. UNION {i.rebuild : i \in each} = UNION {AssessImpact({c}).rebuild : c \in changes}
    OBVIOUS
  <2>2. UNION {AssessImpact({c}).rebuild : c \in changes} = UNION {Rebuilds(c) : c \in changes}
    BY <1>4
  <2>3. QED
    BY <1>3, <2>1, <2>2
<1>6. ASSUME NEW u \in impact.carry PROVE u \in UNION {i.carry : i \in each}
  <2>1. PICK c \in changes : c.identical /\ u \in c.units
    BY <1>3
  <2>2. u \notin Rebuilds(c)
    BY <1>3
  <2>3. u \in AssessImpact({c}).carry /\ AssessImpact({c}) \in each
    BY <1>4, <2>1, <2>2
  <2> HIDE DEF each
  <2>4. QED
    BY <2>3
<1>7. \A c \in changes : ~c.identical /\ c.kind # "instrument" => c.units \subseteq impact.rebuild
  <2>1. \A c : ~c.identical /\ c.kind # "instrument" => c.units \subseteq Rebuilds(c)
    BY DEF Rebuilds
  <2>2. QED
    BY <1>3, <2>1
<1>8. impact.carry \cap impact.rebuild = {}
  BY <1>3
<1>9. impact.carry \subseteq UNION {i.carry : i \in each}
  BY <1>6
<1> HIDE DEF impact, each
<1>10. QED
  BY <1>5, <1>7, <1>8, <1>9 DEF impact, each

-----------------------------------------------------------------------------
\* The bytes of a Release are a set of entries, each a path and what is under it; its
\* manifest has an id and a core.
IsBundle(bundle) ==
    /\ \A e \in bundle : e = <<e[1], e[2]>>
    /\ \E id, core : Compiler!Entry(bundle, Compiler!ReleasePath) = [id |-> id, core |-> core]

LEMMA EntryIs ==
    ASSUME NEW bundle, \A d, e \in bundle : d[1] = e[1] => d = e, NEW e \in bundle
    PROVE  Compiler!Entry(bundle, e[1]) = e[2]
BY DEF Compiler!Entry

LEMMA Loads ==
    ASSUME NEW bundle
    PROVE  LET manifest == Compiler!Entry(bundle, Compiler!ReleasePath)
               loads == /\ \A d, e \in bundle : d[1] = e[1] => d = e
                        /\ \E e \in bundle : e[1] = Compiler!ReleasePath
                        /\ Compiler!BundleMatches(bundle, manifest)
           IN  /\ loads => Compiler!LoadRelease(bundle)
                           = Compiler!ReleaseOf(manifest,
                                {Compiler!Bundled(d[1], Compiler!Entry(bundle, d[1]), d[2]) :
                                   d \in manifest.core.files}, bundle)
               /\ ~loads => Compiler!LoadRelease(bundle) = Refused
<1> DEFINE manifest == Compiler!Entry(bundle, Compiler!ReleasePath)
           files == {Compiler!Bundled(d[1], Compiler!Entry(bundle, d[1]), d[2]) :
                        d \in manifest.core.files}
<1>1. Compiler!LoadRelease(bundle) =
         IF \/ \E d, e \in bundle : d # e /\ d[1] = e[1]
            \/ ~\E e \in bundle : e[1] = Compiler!ReleasePath
         THEN Refused
         ELSE IF ~Compiler!BundleMatches(bundle, manifest) THEN Refused
              ELSE Compiler!ReleaseOf(manifest, files, bundle)
  BY DEF Compiler!LoadRelease
<1> HIDE DEF files, manifest
<1>2. QED
  BY <1>1 DEF files, manifest

\* Of the bytes that load under one id there is one set: not one entry can be dropped, added,
\* doubled or replaced (load_release; two values of one digest are one).
THEOREM OneBundleOfEachRelease ==
    ASSUME NEW bundle, NEW other, IsBundle(bundle), IsBundle(other),
           Compiler!LoadRelease(bundle) # Refused, Compiler!LoadRelease(other) # Refused,
           Compiler!Entry(bundle, Compiler!ReleasePath).id
             = Compiler!Entry(other, Compiler!ReleasePath).id
    PROVE  bundle = other
<1> DEFINE ManifestOf(b) == Compiler!Entry(b, Compiler!ReleasePath)
<1>1. \A b \in {bundle, other} :
         /\ \A d, e \in b : d[1] = e[1] => d = e
         /\ \E e \in b : e[1] = Compiler!ReleasePath
         /\ Compiler!BundleMatches(b, ManifestOf(b))
  BY Loads
<1> HIDE DEF ManifestOf
<1>2. ManifestOf(bundle).id = ManifestOf(other).id
  BY DEF ManifestOf
<1>3. ManifestOf(bundle) = ManifestOf(other)
  <2>1. \A b \in {bundle, other} : ManifestOf(b).id = <<"sha256", ManifestOf(b).core>>
    BY <1>1 DEF Compiler!BundleMatches, Compiler!Digest
  <2>2. ManifestOf(bundle).core = ManifestOf(other).core
    BY <1>2, <2>1
  <2>3. \A b \in {bundle, other} : \E id, core : ManifestOf(b) = [id |-> id, core |-> core]
    BY DEF IsBundle, ManifestOf
  <2>4. QED
    BY <1>2, <2>2, <2>3
<1>4. ASSUME NEW b \in {bundle, other}, NEW c \in {bundle, other}, NEW e \in b PROVE e \in c
  <2>1. ManifestOf(b) = ManifestOf(c)
    BY <1>3
  <2> DEFINE described == ManifestOf(b).core.files
  <2>2. /\ Compiler!BundleMatches(b, ManifestOf(b)) /\ Compiler!BundleMatches(c, ManifestOf(b))
        /\ \A d, x \in b : d[1] = x[1] => d = x
    BY <1>1, <2>1
  <2>3. \A x \in b \cup c : x = <<x[1], x[2]>>
    BY DEF IsBundle
  <2>4. CASE e[1] = Compiler!ReleasePath
    <3>1. PICK x \in c : x[1] = Compiler!ReleasePath
      BY <1>1
    <3>2. ManifestOf(b) = e[2] /\ ManifestOf(c) = x[2]
      BY <1>1, <2>4, <3>1, EntryIs DEF ManifestOf
    <3>3. e = <<e[1], e[2]>> /\ x = <<x[1], x[2]>>
      BY <2>3
    <3>4. e[1] = x[1] /\ e[2] = x[2]
      BY <2>1, <2>4, <3>1, <3>2
    <3>5. QED
      BY Zenon, <3>1, <3>3, <3>4
  <2>5. CASE e[1] # Compiler!ReleasePath
    <3>1. PICK d \in described : d[1] = e[1]
      BY <2>2, <2>5 DEF Compiler!BundleMatches
    <3>2. PICK x \in b : x[1] = d[1] /\ d[3] = <<"sha256", x[2]>>
      BY <2>2 DEF Compiler!BundleMatches, Compiler!Digest
    <3>3. PICK y \in c : y[1] = d[1] /\ d[3] = <<"sha256", y[2]>>
      BY <2>2 DEF Compiler!BundleMatches, Compiler!Digest
    <3>4. x = e /\ x[2] = y[2]
      BY <2>2, <3>1, <3>2, <3>3
    <3>5. QED
      BY <2>3, <3>1, <3>3, <3>4
  <2>6. QED
    BY <2>4, <2>5
<1>5. QED
  BY <1>4

\* What names are not: parts of a path that lead elsewhere.
IsName(id) == id # "" /\ id # ".."

LEMMA OneMaterialOfEachResource ==
    ASSUME NEW candidate, IsLog(candidate.materials),
           Compiler!CandidateFindings(candidate) # Refused,
           Compiler!CandidateFindings(candidate) = {}
    PROVE  \A m, o \in ToSet(candidate.materials) : m.resource = o.resource => m = o
<1> DEFINE materials == candidate.materials
           supplied == [i \in DOMAIN materials |-> [id |-> materials[i].resource]]
           lock == candidate.settings.lock
<1>1. Compiler!InputFindings(candidate.game, lock, materials) = {}
      /\ Compiler!InputFindings(candidate.game, lock, materials) # Refused
  <2> DEFINE found == Compiler!InputFindings(candidate.game, lock, materials)
  <2>1. found # Refused
    BY Zenon DEF Compiler!CandidateFindings
  <2>2. \A x \in found : x \in Compiler!CandidateFindings(candidate)
    <3> HIDE DEF found
    <3>1. QED
      BY <2>1 DEF Compiler!CandidateFindings, found
  <2> HIDE DEF found
  <2>3. found = {}
    BY <2>2
  <2>4. QED
    BY <2>1, <2>3 DEF found
<1>2. Compiler!MaterialFindings(candidate.game, materials) = {}
  <2> HIDE DEF materials, lock
  <2>1. Compiler!Findings(candidate.game) # Refused
    BY <1>1 DEF Compiler!InputFindings
  <2>2. \A x \in Compiler!MaterialFindings(candidate.game, materials) :
           x \in Compiler!InputFindings(candidate.game, lock, materials)
    BY <2>1 DEF Compiler!InputFindings
  <2>3. QED
    BY <1>1, <2>2
<1>3. Compiler!Repeated(supplied) = {}
  <2>1. Compiler!Blockers("duplicate-material", Compiler!Repeated(supplied))
           \subseteq Compiler!MaterialFindings(candidate.game, materials)
    BY DEF Compiler!MaterialFindings
  <2>2. \A q \in Compiler!Repeated(supplied) :
           <<"duplicate-material", q>>
             \in Compiler!Blockers("duplicate-material", Compiler!Repeated(supplied))
    BY DEF Compiler!Blockers
  <2> HIDE DEF supplied, materials
  <2>3. QED
    BY <1>2, <2>1, <2>2
<1>4. DOMAIN materials = 1..Len(materials) /\ Len(materials) \in Nat
  BY LogFacts
<1>5. ASSUME NEW i \in DOMAIN materials, NEW k \in DOMAIN materials, k < i
      PROVE  materials[k].resource # materials[i].resource
  <2> SUFFICES ASSUME materials[k].resource = materials[i].resource PROVE FALSE
    OBVIOUS
  <2>1. /\ DOMAIN supplied = DOMAIN materials /\ k \in 1..(i - 1)
        /\ supplied[k].id = supplied[i].id
    BY <1>4, <1>5
  <2> HIDE DEF supplied, materials
  <2>2. supplied[i].id \in Compiler!Repeated(supplied)
    BY <2>1 DEF Compiler!Repeated
  <2>3. QED
    BY <1>3, <2>2
<1>6. \A i, k \in DOMAIN materials : materials[i].resource = materials[k].resource => i = k
  <2>1. \A i, k \in DOMAIN materials : i = k \/ i < k \/ k < i
    BY <1>4
  <2> HIDE DEF materials
  <2>2. QED
    BY <1>5, <2>1
<1>7. QED
  BY <1>6 DEF ToSet

\* The files of a Release are triples, under paths that all differ, none of them its own
\* or leading elsewhere.
LEMMA FilesHavePaths ==
    ASSUME NEW candidate, NEW views,
           \A m, o \in ToSet(candidate.materials) : m.resource = o.resource => m = o,
           \A m \in ToSet(candidate.materials) : IsName(m.resource),
           \A s \in DOMAIN views : IsName(s)
    PROVE  \A f \in Compiler!FilesOf(candidate, views) :
              /\ f = <<f[1], f[2], f[3]>>
              /\ f[1] # Compiler!ReleasePath /\ Compiler!IsWellFormed(f[1])
              /\ \A g \in Compiler!FilesOf(candidate, views) : f[1] = g[1] => f = g
<1> DEFINE materials == ToSet(candidate.materials)
           game == <<<<"trusted", "game">>, "trusted", candidate.game>>
           host == <<<<"projections", "host">>, "trusted-host",
                     Compiler!HostProjection(candidate.game)>>
           simulation == <<<<"projections", "simulation">>, "trusted-simulation",
                           Compiler!SimulationProjection(candidate.game, views)>>
           export == <<<<"projections", "export">>, "trusted-exporter",
                       Compiler!ExportProjection(candidate.game)>>
           seat(s) == <<<<"projections", "seats", s>>, Compiler!SeatRef(s), views[s]>>
           material(m) == <<<<"materials", m.resource>>, "access-policy", m.data>>
           receipt(m) == <<<<"receipts", m.resource>>, "trusted", m.receipt>>
           attestation(m) == <<<<"attestations", m.resource>>, "trusted", m.attestation>>
           files == Compiler!FilesOf(candidate, views)
           Root(f) == f[1][1]
           Leaf(f) == f[1][2]
           Third(f) == f[1][3]
<1>1. ASSUME NEW f \in files
      PROVE  \/ f = game \/ f = host \/ f = simulation \/ f = export
             \/ \E s \in DOMAIN views : f = seat(s)
             \/ \E m \in materials : f = material(m) \/ f = receipt(m) \/ f = attestation(m)
  <2>1. files = {game, host, simulation, export} \cup {seat(s) : s \in DOMAIN views}
                \cup {material(m) : m \in materials} \cup {receipt(m) : m \in materials}
                \cup {attestation(m) : m \in {n \in materials : n.attestation # None}}
    BY DEF Compiler!FilesOf, Compiler!Bundled, Compiler!MaterialPath, Compiler!ToSet, ToSet
  <2> HIDE DEF files, game, host, simulation, export, seat, material, receipt, attestation, materials
  <2>2. QED
    BY <1>1, <2>1
<1>2. /\ Root(game) = "trusted"
      /\ Root(host) = "projections" /\ Leaf(host) = "host"
      /\ Root(simulation) = "projections" /\ Leaf(simulation) = "simulation"
      /\ Root(export) = "projections" /\ Leaf(export) = "export"
      /\ \A s : Root(seat(s)) = "projections" /\ Leaf(seat(s)) = "seats" /\ Third(seat(s)) = s
      /\ \A m : /\ Root(material(m)) = "materials" /\ Leaf(material(m)) = m.resource
                /\ Root(receipt(m)) = "receipts" /\ Leaf(receipt(m)) = m.resource
                /\ Root(attestation(m)) = "attestations" /\ Leaf(attestation(m)) = m.resource
  OBVIOUS
<1>3. \A f \in files : f = <<f[1], f[2], f[3]>>
  <2>1. /\ \A f \in {game, host, simulation, export} : f = <<f[1], f[2], f[3]>>
        /\ \A s : seat(s) = <<seat(s)[1], seat(s)[2], seat(s)[3]>>
        /\ \A m : /\ material(m) = <<material(m)[1], material(m)[2], material(m)[3]>>
                  /\ receipt(m) = <<receipt(m)[1], receipt(m)[2], receipt(m)[3]>>
                  /\ attestation(m) = <<attestation(m)[1], attestation(m)[2], attestation(m)[3]>>
    OBVIOUS
  <2> HIDE DEF files, game, host, simulation, export, seat, material, receipt, attestation, materials
  <2>2. QED
    BY <1>1, <2>1
<1>4. \A f \in files : f[1] # Compiler!ReleasePath /\ Compiler!IsWellFormed(f[1])
  <2>1. \A f : Root(f) # "release" => f[1] # Compiler!ReleasePath
    BY DEF Compiler!ReleasePath
  <2>2. /\ \A x, y : IsName(x) /\ IsName(y) => Compiler!IsWellFormed(<<x, y>>)
        /\ \A x, y, z : IsName(x) /\ IsName(y) /\ IsName(z) => Compiler!IsWellFormed(<<x, y, z>>)
    <3>1. /\ \A x, y : Compiler!ToSet(<<x, y>>) = {x, y}
          /\ \A x, y, z : Compiler!ToSet(<<x, y, z>>) = {x, y, z}
      <4>1. /\ \A x, y : DOMAIN <<x, y>> = {1, 2} /\ <<x, y>>[1] = x /\ <<x, y>>[2] = y
            /\ \A x, y, z : /\ DOMAIN <<x, y, z>> = {1, 2, 3} /\ <<x, y, z>>[1] = x
                            /\ <<x, y, z>>[2] = y /\ <<x, y, z>>[3] = z
        OBVIOUS
      <4>2. \A x, y : Compiler!ToSet(<<x, y>>) = {x, y}
        BY <4>1 DEF Compiler!ToSet
      <4>3. \A x, y, z : Compiler!ToSet(<<x, y, z>>) = {x, y, z}
        BY <4>1 DEF Compiler!ToSet
      <4>4. QED
        BY <4>2, <4>3
    <3>2. \A x : IsName(x) => x \notin {"", ".."}
      BY DEF IsName
    <3>3. ASSUME NEW p, Compiler!ToSet(p) \cap {"", ".."} = {}
          PROVE  Compiler!IsWellFormed(p)
      BY <3>3 DEF Compiler!IsWellFormed
    <3>4. \A x, y : IsName(x) /\ IsName(y) => {x, y} \cap {"", ".."} = {}
      BY <3>2
    <3>5. \A x, y, z : IsName(x) /\ IsName(y) /\ IsName(z) => {x, y, z} \cap {"", ".."} = {}
      BY <3>2
    <3>6. ASSUME NEW x, NEW y, IsName(x), IsName(y) PROVE Compiler!IsWellFormed(<<x, y>>)
      <4>1. {x, y} \cap {"", ".."} = {}
        BY <3>4, <3>6
      <4>2. Compiler!ToSet(<<x, y>>) = {x, y}
        BY <3>1
      <4>3. QED
        BY <3>3, <4>1, <4>2, Zenon
    <3>7. ASSUME NEW x, NEW y, NEW z, IsName(x), IsName(y), IsName(z)
          PROVE  Compiler!IsWellFormed(<<x, y, z>>)
      <4>1. {x, y, z} \cap {"", ".."} = {}
        BY <3>5, <3>7
      <4>2. Compiler!ToSet(<<x, y, z>>) = {x, y, z}
        BY <3>1
      <4>3. QED
        BY <3>3, <4>1, <4>2, Zenon
    <3>8. QED
      BY <3>6, <3>7
  <2>3. \A x \in {"trusted", "game", "projections", "host", "simulation", "export", "seats",
                  "materials", "receipts", "attestations"} : IsName(x) /\ x # "release"
    BY DEF IsName
  <2>4. /\ \A f \in {game, host, simulation, export} : Compiler!IsWellFormed(f[1])
        /\ \A s \in DOMAIN views : Compiler!IsWellFormed(seat(s)[1])
        /\ \A m \in materials : /\ Compiler!IsWellFormed(material(m)[1])
                                /\ Compiler!IsWellFormed(receipt(m)[1])
                                /\ Compiler!IsWellFormed(attestation(m)[1])
    BY <2>2, <2>3
  <2> HIDE DEF files, game, host, simulation, export, seat, material, receipt, attestation, materials
  <2> HIDE DEF Root, Leaf, Third
  <2>5. QED
    BY <1>1, <1>2, <2>1, <2>3, <2>4
<1>5. ASSUME NEW f \in files, NEW g \in files, f[1] = g[1] PROVE f = g
  <2>1. \A m, o \in materials : m.resource = o.resource => m = o
    OBVIOUS
  <2> HIDE DEF files, game, host, simulation, export, seat, material, receipt, attestation, materials
  <2>2. Root(f) = Root(g) /\ Leaf(f) = Leaf(g) /\ Third(f) = Third(g)
    BY <1>5
  <2> HIDE DEF Root, Leaf, Third
  <2>3. CASE f = game
    BY <1>1, <1>2, <2>2, <2>3
  <2>4. CASE f = host \/ f = simulation \/ f = export
    BY <1>1, <1>2, <2>2, <2>4
  <2>5. ASSUME NEW s \in DOMAIN views, f = seat(s) PROVE f = g
    <3>1. \E t \in DOMAIN views : g = seat(t)
      BY <1>1, <1>2, <2>2, <2>5
    <3>2. QED
      BY <1>2, <2>2, <2>5, <3>1
  <2>6. ASSUME NEW m \in materials, f = material(m) \/ f = receipt(m) \/ f = attestation(m)
        PROVE  f = g
    <3>1. CASE f = material(m)
      <4>1. \E o \in materials : g = material(o)
        BY <1>1, <1>2, <2>2, <3>1
      <4>2. QED
        BY <1>2, <2>1, <2>2, <3>1, <4>1
    <3>2. CASE f = receipt(m)
      <4>1. \E o \in materials : g = receipt(o)
        BY <1>1, <1>2, <2>2, <3>2
      <4>2. QED
        BY <1>2, <2>1, <2>2, <3>2, <4>1
    <3>3. CASE f = attestation(m)
      <4>1. \E o \in materials : g = attestation(o)
        BY <1>1, <1>2, <2>2, <3>3
      <4>2. QED
        BY <1>2, <2>1, <2>2, <3>3, <4>1
    <3>4. QED
      BY <2>6, <3>1, <3>2, <3>3
  <2>7. QED
    BY <1>1, <2>3, <2>4, <2>5, <2>6
<1>6. QED
  BY <1>3, <1>4, <1>5

\* Whatever a Candidate is compiled to loads as it is: the files of a Release have paths of
\* their own, for its materials are of Resources that all differ, and its manifest describes
\* each of them (compile_candidate, load_release).
THEOREM CompiledReleasesLoad ==
    ASSUME NEW candidate, IsLog(candidate.materials),
           \A m \in ToSet(candidate.materials) : IsName(m.resource),
           \A s \in Compiler!IdsOf(candidate.game.seats) : IsName(s),
           Compiler!CompileCandidate(candidate) # Refused,
           Compiler!CompileCandidate(candidate).release # None
    PROVE  LET release == Compiler!CompileCandidate(candidate).release
           IN  Compiler!LoadRelease(release.bundle) = release
<1> DEFINE found == Compiler!CandidateFindings(candidate)
           views == [s \in Compiler!IdsOf(candidate.game.seats) |->
                        Compiler!SeatProjection(candidate.game, s)]
           files == Compiler!FilesOf(candidate, views)
           manifest == Compiler!Sealed(Compiler!ReleaseCore(candidate, files))
           entries == Compiler!EntriesOf(files) \cup {<<Compiler!ReleasePath, manifest>>}
           release == Compiler!CompileCandidate(candidate).release
<1>1. /\ found # Refused /\ found = {}
      /\ release = Compiler!ReleaseOf(manifest, files, entries)
  <2> DEFINE outcome ==
         IF \E s \in DOMAIN views : views[s] = Refused THEN Refused
         ELSE [release |-> Compiler!ReleaseOf(manifest, files, entries),
               attempt |-> <<"released", candidate.settings.advisories>>]
  <2>1. Compiler!CompileCandidate(candidate) =
           IF found = Refused THEN Refused
           ELSE IF found # {} THEN [release |-> None, attempt |-> <<"blocked", found>>]
           ELSE outcome
    BY DEF Compiler!CompileCandidate
  <2> HIDE DEF outcome, found
  <2>2. found # Refused /\ found = {} /\ Compiler!CompileCandidate(candidate) = outcome
    BY <2>1
  <2>3. outcome # Refused
    BY <2>2
  <2> HIDE DEF views, files, manifest, entries
  <2>4. outcome.release = Compiler!ReleaseOf(manifest, files, entries)
    BY <2>3 DEF outcome
  <2>5. QED
    BY <2>2, <2>4
<1>2. DOMAIN views = Compiler!IdsOf(candidate.game.seats)
  OBVIOUS
<1> HIDE DEF found, views
<1>3. \A m, o \in ToSet(candidate.materials) : m.resource = o.resource => m = o
  BY <1>1, OneMaterialOfEachResource DEF found
<1>4. \A f \in files : /\ f = <<f[1], f[2], f[3]>>
                       /\ f[1] # Compiler!ReleasePath /\ Compiler!IsWellFormed(f[1])
                       /\ \A g \in files : f[1] = g[1] => f = g
  BY <1>2, <1>3, FilesHavePaths
<1> HIDE DEF files
<1>5. /\ manifest.id = Compiler!Digest(manifest.core)
      /\ manifest.core.files = {Compiler!FileDescriptor(f) : f \in files}
  BY DEF Compiler!Sealed, Compiler!ReleaseCore
<1>6. \A f \in files : Compiler!FileDescriptor(f) = <<f[1], f[2], Compiler!Digest(f[3])>>
  <2>1. \A x, y, z : Compiler!FileDescriptor(<<x, y, z>>) = <<x, y, Compiler!Digest(z)>>
    BY DEF Compiler!FileDescriptor
  <2>2. QED
    BY <1>4, <2>1
<1> HIDE DEF manifest
<1>7. /\ \A e \in entries : \/ e = <<Compiler!ReleasePath, manifest>>
                            \/ \E f \in files : e = <<f[1], f[3]>>
      /\ \A f \in files : <<f[1], f[3]>> \in entries
      /\ <<Compiler!ReleasePath, manifest>> \in entries
  BY DEF Compiler!EntriesOf
<1> HIDE DEF entries
<1>8. \A d, e \in entries : d[1] = e[1] => d = e
  <2>1. ASSUME NEW d \in entries, NEW e \in entries, d[1] = e[1] PROVE d = e
    <3>1. CASE d = <<Compiler!ReleasePath, manifest>> /\ e = <<Compiler!ReleasePath, manifest>>
      BY <3>1
    <3>2. ASSUME NEW f \in files, d = <<f[1], f[3]>> PROVE d = e
      <4>1. e[1] # Compiler!ReleasePath
        BY <1>4, <2>1, <3>2
      <4>2. PICK g \in files : e = <<g[1], g[3]>>
        BY <1>7, <4>1
      <4>3. f = g
        BY <1>4, <2>1, <3>2, <4>2
      <4>4. QED
        BY <3>2, <4>2, <4>3
    <3>3. ASSUME NEW f \in files, e = <<f[1], f[3]>> PROVE d = e
      <4>1. d[1] # Compiler!ReleasePath
        BY <1>4, <2>1, <3>3
      <4>2. PICK g \in files : d = <<g[1], g[3]>>
        BY <1>7, <4>1
      <4>3. f = g
        BY <1>4, <2>1, <3>3, <4>2
      <4>4. QED
        BY <3>3, <4>2, <4>3
    <3>4. QED
      BY <1>7, <3>1, <3>2, <3>3
  <2>2. QED
    BY <2>1
<1>9. /\ Compiler!Entry(entries, Compiler!ReleasePath) = manifest
      /\ \A f \in files : Compiler!Entry(entries, f[1]) = f[3]
  <2>1. \A e \in entries : Compiler!Entry(entries, e[1]) = e[2]
    BY <1>8, EntryIs
  <2>2. \A x, y : <<x, y>> \in entries => Compiler!Entry(entries, x) = y
    BY <2>1
  <2>3. QED
    BY <1>7, <2>2
<1>10. Compiler!BundleMatches(entries, manifest)
  <2> DEFINE described == manifest.core.files
  <2>1. \A d \in described : \E f \in files : d = <<f[1], f[2], Compiler!Digest(f[3])>>
    BY <1>5, <1>6
  <2>2. \A f \in files : <<f[1], f[2], Compiler!Digest(f[3])>> \in described
    BY <1>5, <1>6
  <2> HIDE DEF described
  <2>3. \A d, o \in described : d[1] = o[1] => d = o
    <3>1. ASSUME NEW d \in described, NEW o \in described, d[1] = o[1] PROVE d = o
      <4>1. PICK f \in files : d = <<f[1], f[2], Compiler!Digest(f[3])>>
        BY <2>1
      <4>2. PICK g \in files : o = <<g[1], g[2], Compiler!Digest(g[3])>>
        BY <2>1
      <4>3. f = g
        BY <1>4, <3>1, <4>1, <4>2
      <4>4. QED
        BY <4>1, <4>2, <4>3
    <3>2. QED
      BY <3>1
  <2>4. ASSUME NEW d \in described
        PROVE  /\ d[1] # Compiler!ReleasePath /\ Compiler!IsWellFormed(d[1])
               /\ \E e \in entries : e[1] = d[1] /\ d[3] = Compiler!Digest(e[2])
    <3>1. PICK f \in files : d = <<f[1], f[2], Compiler!Digest(f[3])>>
      BY <2>1
    <3>2. d[1] = f[1] /\ d[3] = Compiler!Digest(f[3])
      BY <3>1
    <3>3. \E e \in entries : e[1] = f[1] /\ e[2] = f[3]
      BY <1>7
    <3>4. QED
      BY <1>4, <3>2, <3>3
  <2>5. {e[1] : e \in entries} = {d[1] : d \in described} \cup {Compiler!ReleasePath}
    <3>1. ASSUME NEW e \in entries
          PROVE  e[1] \in {d[1] : d \in described} \cup {Compiler!ReleasePath}
      <4>1. CASE e = <<Compiler!ReleasePath, manifest>>
        BY <4>1
      <4>2. ASSUME NEW f \in files, e = <<f[1], f[3]>> PROVE e[1] \in {d[1] : d \in described}
        <5>1. \E d \in described : d[1] = f[1]
          BY <2>2
        <5>2. QED
          BY <4>2, <5>1
      <4>3. QED
        BY <1>7, <4>1, <4>2
    <3>2. ASSUME NEW d \in described PROVE \E e \in entries : e[1] = d[1]
      BY <2>4
    <3>3. \E e \in entries : e[1] = Compiler!ReleasePath
      BY <1>7
    <3>4. QED
      BY <3>1, <3>2, <3>3
  <2>6. QED
    BY <1>5, <2>3, <2>4, <2>5 DEF Compiler!BundleMatches, described
<1>11. {Compiler!Bundled(d[1], Compiler!Entry(entries, d[1]), d[2]) : d \in manifest.core.files} = files
  <2> DEFINE loaded == {Compiler!Bundled(d[1], Compiler!Entry(entries, d[1]), d[2]) :
                           d \in manifest.core.files}
  <2>1. \A f \in files :
           LET d == <<f[1], f[2], Compiler!Digest(f[3])>>
           IN  Compiler!Bundled(d[1], Compiler!Entry(entries, d[1]), d[2]) = f
    BY <1>4, <1>9 DEF Compiler!Bundled
  <2>2. \A d \in manifest.core.files :
           \E f \in files : d = <<f[1], f[2], Compiler!Digest(f[3])>>
    BY <1>5, <1>6
  <2>3. \A f \in files : <<f[1], f[2], Compiler!Digest(f[3])>> \in manifest.core.files
    BY <1>5, <1>6
  <2>4. \A x \in loaded : x \in files
    BY <2>1, <2>2
  <2>5. \A f \in files : f \in loaded
    BY <2>1, <2>3
  <2> HIDE DEF loaded
  <2>6. loaded = files
    BY <2>4, <2>5
  <2>7. QED
    BY <2>6 DEF loaded
<1>12. Compiler!LoadRelease(entries) = Compiler!ReleaseOf(manifest, files, entries)
  <2>1. \E e \in entries : e[1] = Compiler!ReleasePath
    BY <1>7
  <2>2. QED
    BY <1>8, <1>9, <1>10, <1>11, <2>1, Loads
<1>13. release.bundle = entries
  BY <1>1 DEF Compiler!ReleaseOf
<1> HIDE DEF release
<1>14. Compiler!LoadRelease(release.bundle) = release
  BY <1>1, <1>12, <1>13
<1>15. QED
  BY <1>14 DEF release

-----------------------------------------------------------------------------
\* What a climb gives to the judges of a blind trial.
Packages == INSTANCE BlindTrial

-----------------------------------------------------------------------------
(* The packages of blind trials *)

\* What each seat is granted.
SeatGrants(game) ==
    {g \in UNION {{p.resource} \X p.grantees : p \in game.policies} : g[2].kind = "seat"}

\* Seats are told of one game what they are told of the other: the same materials, at the
\* same time, in the same words.
SeatsAgree(game, other) ==
    /\ SeatGrants(game) = SeatGrants(other)
    /\ \A g \in SeatGrants(game) :
          /\ game.resources[g[1]] = other.resources[g[1]]
          /\ Packages!RenditionPath(game, g[1]) = Packages!RenditionPath(other, g[1])
          /\ Packages!Delivery(game, g[1], g[2].id) = Packages!Delivery(other, g[1], g[2].id)
    /\ game.projections = other.projections /\ game.hostly = other.hostly

\* Every material has a print of its own, what is granted is there, and no seat's container
\* bears the name of the host's.
IsPrintable(game) ==
    /\ \A r, q \in Packages!ResourcesOf(game) :
          Packages!RenditionPath(game, r) = Packages!RenditionPath(game, q) => r = q
    /\ \A g \in SeatGrants(game) :
          /\ g[1] \in Packages!ResourcesOf(game)
          /\ g[2].id \o Packages!Delivery(game, g[1], g[2].id) # <<"host", "binder">>

LEMMA CopiesOfSeats ==
    ASSUME NEW game
    PROVE  /\ {c \in Packages!PlanCopies(game) : c.audience.kind = "seat"}
                = {Packages!CopyFor(game, g[1], g[2]) : g \in SeatGrants(game)}
           /\ \A g \in SeatGrants(game) :
                 Packages!CopyFor(game, g[1], g[2])
                   = [resource |-> g[1], rendition |-> Packages!RenditionPath(game, g[1]),
                      audience |-> g[2], condition |-> Packages!Delivery(game, g[1], g[2].id),
                      container |-> g[2].id \o Packages!Delivery(game, g[1], g[2].id)]
           /\ \A c \in Packages!PlanCopies(game) :
                 c.audience.kind # "seat" => c.container = <<"host", "binder">>
<1> DEFINE Pairs == UNION {{p.resource} \X p.grantees : p \in game.policies}
           Granted == UNION {{p.resource} \X {g \in p.grantees : g = Packages!Host \/ g.kind = "seat"} :
                             p \in game.policies}
           Copy(g) == Packages!CopyFor(game, g[1], g[2])
<1>1. /\ Packages!Host.kind = "viewer" /\ Packages!Host.id = <<"host">>
      /\ Packages!PlanCopies(game) = {Copy(g) : g \in Granted}
  BY DEF Packages!Host, Packages!PlanCopies
<1>2. \A g : g \in Granted <=> g \in Pairs /\ (g[2] = Packages!Host \/ g[2].kind = "seat")
  OBVIOUS
<1>3. \A g : /\ Copy(g).audience = g[2]
             /\ g[2] # Packages!Host
                  => Copy(g) = [resource |-> g[1], rendition |-> Packages!RenditionPath(game, g[1]),
                                audience |-> g[2],
                                condition |-> Packages!Delivery(game, g[1], g[2].id),
                                container |-> g[2].id \o Packages!Delivery(game, g[1], g[2].id)]
             /\ g[2] = Packages!Host => Copy(g).container = <<"host", "binder">>
  BY DEF Packages!CopyFor
<1>4. SeatGrants(game) = {g \in Pairs : g[2].kind = "seat"}
  BY DEF SeatGrants
<1> HIDE DEF Pairs, Granted, Copy
<1>5. {c \in Packages!PlanCopies(game) : c.audience.kind = "seat"} = {Copy(g) : g \in SeatGrants(game)}
  BY <1>1, <1>2, <1>3, <1>4
<1>6. \A g \in SeatGrants(game) : g[2] # Packages!Host
  BY <1>1, <1>4
<1>7. \A c \in Packages!PlanCopies(game) :
         c.audience.kind # "seat" => c.container = <<"host", "binder">>
  BY <1>1, <1>2, <1>3
<1>8. QED
  BY <1>3, <1>5, <1>6, <1>7 DEF Copy

\* Which containers a schedule lists follows from the copies of seats alone.
LEMMA ContainersOfSeats ==
    ASSUME NEW game, IsPrintable(game)
    PROVE  LET copies == {c \in Packages!PlanCopies(game) : c.audience.kind = "seat"}
               Of(id) == CHOOSE o \in {[audience |-> c.audience, condition |-> c.condition] :
                                        c \in {d \in copies : d.container = id}} : TRUE
           IN  {k.of : k \in {c \in Packages!PlanContainers(game) : c.of.audience.kind = "seat"}}
                 = {Of(id) : id \in {c.container : c \in copies}}
<1> DEFINE all == Packages!PlanCopies(game)
           copies == {c \in all : c.audience.kind = "seat"}
           InPlan(id) == {c \in all : c.container = id}
           Holds(cs) == {[audience |-> c.audience, condition |-> c.condition] : c \in cs}
           Of(id) == CHOOSE o \in Holds({d \in copies : d.container = id}) : TRUE
           Intended(id) == CHOOSE o \in Holds(InPlan(id)) : TRUE
           ids == {c.container : c \in all}
<1>1. /\ \A c \in copies : c.container # <<"host", "binder">>
      /\ \A c \in all : c.audience.kind # "seat" => c.container = <<"host", "binder">>
  <2>1. \A g \in SeatGrants(game) :
           Packages!CopyFor(game, g[1], g[2]).container # <<"host", "binder">>
    <3>1. ASSUME NEW g \in SeatGrants(game)
          PROVE  Packages!CopyFor(game, g[1], g[2]).container # <<"host", "binder">>
      <4>1. Packages!CopyFor(game, g[1], g[2]).container
              = g[2].id \o Packages!Delivery(game, g[1], g[2].id)
        <5> DEFINE id == g[2].id \o Packages!Delivery(game, g[1], g[2].id)
        <5>1. Packages!CopyFor(game, g[1], g[2])
                = [resource |-> g[1], rendition |-> Packages!RenditionPath(game, g[1]),
                   audience |-> g[2], condition |-> Packages!Delivery(game, g[1], g[2].id),
                   container |-> id]
          BY CopiesOfSeats, Zenon
        <5> HIDE DEF id
        <5>2. Packages!CopyFor(game, g[1], g[2]).container = id
          BY <5>1
        <5>3. QED
          BY <5>2 DEF id
      <4>2. g[2].id \o Packages!Delivery(game, g[1], g[2].id) # <<"host", "binder">>
        BY Zenon DEF IsPrintable
      <4>3. QED
        BY <4>1, <4>2, Zenon
    <3>2. QED
      BY <3>1
  <2> DEFINE binder == <<"host", "binder">>
  <2>2. /\ copies = {Packages!CopyFor(game, g[1], g[2]) : g \in SeatGrants(game)}
        /\ \A c \in all : c.audience.kind # "seat" => c.container = binder
    BY CopiesOfSeats
  <2>3. \A g \in SeatGrants(game) : Packages!CopyFor(game, g[1], g[2]).container # binder
    BY <2>1
  <2> HIDE DEF binder, copies, all
  <2>4. /\ \A c \in copies : c.container # binder
        /\ \A c \in all : c.audience.kind # "seat" => c.container = binder
    BY <2>2, <2>3
  <2>5. QED
    BY <2>4 DEF binder
<1>2. Packages!PlanContainers(game) = {[id |-> id, of |-> Intended(id)] : id \in ids}
  BY DEF Packages!PlanContainers
<1> HIDE DEF all
<1>3. \A id \in ids : /\ Intended(id) \in Holds(InPlan(id))
                      /\ \E c \in InPlan(id) : Intended(id).audience = c.audience
  <2>1. ASSUME NEW id \in ids
        PROVE  /\ Intended(id) \in Holds(InPlan(id))
               /\ \E c \in InPlan(id) : Intended(id).audience = c.audience
    <3>1. PICK c \in InPlan(id) : TRUE
      OBVIOUS
    <3>2. \E o : o \in Holds(InPlan(id))
      BY <3>1
    <3>3. Intended(id) \in Holds(InPlan(id))
      <4> HIDE DEF Holds, InPlan
      <4>1. QED
        BY <3>2
    <3> HIDE DEF Intended
    <3>4. QED
      BY <3>3
  <2>2. QED
    BY <2>1
<1>4. ASSUME NEW id \in {c.container : c \in copies}
      PROVE  id \in ids /\ Intended(id) = Of(id) /\ Intended(id).audience.kind = "seat"
  <2>1. id \in ids /\ InPlan(id) = {d \in copies : d.container = id}
    BY <1>1
  <2>2. Intended(id) = Of(id)
    BY <2>1
  <2>3. QED
    BY <1>3, <2>1, <2>2
<1>5. ASSUME NEW id \in ids, Intended(id).audience.kind = "seat"
      PROVE  id \in {c.container : c \in copies}
  BY <1>3, <1>5
<1> DEFINE listed == {k.of : k \in {c \in Packages!PlanContainers(game) : c.of.audience.kind = "seat"}}
<1>6. listed = {Intended(id) : id \in {i \in ids : Intended(i).audience.kind = "seat"}}
  <2> HIDE DEF Intended, ids
  <2>1. \A id : [id |-> id, of |-> Intended(id)].of = Intended(id)
    OBVIOUS
  <2> DEFINE Container(id) == [id |-> id, of |-> Intended(id)]
  <2>2. /\ Packages!PlanContainers(game) = {Container(id) : id \in ids}
        /\ \A id : Container(id).of = Intended(id)
    BY <1>2, <2>1
  <2> HIDE DEF Container
  <2>3. QED
    BY <2>2
<1>7. listed = {Of(id) : id \in {c.container : c \in copies}}
  <2> HIDE DEF Intended, ids, Of, listed, copies
  <2>1. QED
    BY <1>4, <1>5, <1>6
<1>8. QED
  BY <1>7 DEF all

LEMMA ExportIs ==
    ASSUME NEW game, IsPrintable(game), Packages!Export(game) # Refused
    PROVE  LET physical == Packages!Export(game)
           IN  /\ Packages!SeatCopies(physical)
                     = {Packages!CopyFor(game, g[1], g[2]) : g \in SeatGrants(game)}
               /\ physical.containers = Packages!PlanContainers(game)
               /\ \A r \in Packages!ResourcesOf(game) :
                     /\ Packages!RenditionPath(game, r) \in physical.checks
                     /\ (CHOOSE f \in physical.files : f.path = Packages!RenditionPath(game, r))
                          = Packages!Rendition(game, r)
<1> DEFINE physical == Packages!Export(game)
           prints == {Packages!Rendition(game, r) : r \in Packages!ResourcesOf(game)}
<1>1. /\ physical.files = prints /\ physical.copies = Packages!PlanCopies(game)
      /\ physical.containers = Packages!PlanContainers(game)
      /\ physical.checks = {f.path : f \in prints}
  BY DEF Packages!Export
<1>2. \A r : Packages!Rendition(game, r).path = Packages!RenditionPath(game, r)
  BY DEF Packages!Rendition, Packages!File
<1> HIDE DEF physical
<1>3. Packages!SeatCopies(physical) = {Packages!CopyFor(game, g[1], g[2]) : g \in SeatGrants(game)}
  BY <1>1, CopiesOfSeats, Zenon DEF Packages!SeatCopies
<1>4. ASSUME NEW r \in Packages!ResourcesOf(game)
      PROVE  /\ Packages!RenditionPath(game, r) \in physical.checks
             /\ (CHOOSE f \in physical.files : f.path = Packages!RenditionPath(game, r))
                  = Packages!Rendition(game, r)
  <2>1. \A f \in prints : f.path = Packages!RenditionPath(game, r) => f = Packages!Rendition(game, r)
    BY <1>2 DEF IsPrintable
  <2>2. Packages!Rendition(game, r) \in prints
    OBVIOUS
  <2> HIDE DEF prints
  <2>3. QED
    BY <1>1, <1>2, <2>1, <2>2
<1>5. QED
  BY <1>1, <1>3, <1>4 DEF physical

\* What of a game a package is made of.
LEMMA PackedFrom ==
    ASSUME NEW game, IsPrintable(game), Packages!Export(game) # Refused
    PROVE  LET physical == Packages!Export(game)
               resources == {c.resource : c \in Packages!SeatCopies(physical)}
           IN  /\ resources = {g[1] : g \in SeatGrants(game)}
               /\ Packages!ProjectedChecks(physical, resources)
                     = {Packages!PrintPath(r) : r \in resources}
               /\ Packages!ShippedFiles(game, physical, resources)
                     = {Packages!File(Packages!PrintPath(r), "application/pdf",
                                      Packages!Text(game.resources[r].text)) : r \in resources}
                       \cup {Packages!File(Packages!MaterialPath(game, r), game.resources[r].media,
                                           Packages!Text(game.resources[r].text)) :
                                r \in {q \in resources : game.resources[q].media # "application/pdf"}}
<1> DEFINE physical == Packages!Export(game)
           copies == Packages!SeatCopies(physical)
           resources == {c.resource : c \in copies}
           Copy(g) == Packages!CopyFor(game, g[1], g[2])
           grants == SeatGrants(game)
           Shipped(r) == CHOOSE f \in physical.files : f.path = Packages!RenditionPath(game, r)
<1>1. /\ copies = {Copy(g) : g \in grants}
      /\ \A g \in grants : /\ Copy(g).resource = g[1]
                            /\ Copy(g).rendition = Packages!RenditionPath(game, g[1])
      /\ \A g \in grants : g[1] \in Packages!ResourcesOf(game)
  <2>1. copies = {Copy(g) : g \in grants}
    BY ExportIs, Zenon
  <2>2. \A g : /\ Copy(g).resource = g[1]
               /\ Copy(g).rendition = Packages!RenditionPath(game, g[1])
    BY DEF Packages!CopyFor
  <2>3. \A g \in grants : g[1] \in Packages!ResourcesOf(game)
    BY Zenon DEF IsPrintable
  <2>4. QED
    BY <2>1, <2>2, <2>3
<1>2. \A r \in Packages!ResourcesOf(game) :
         /\ Packages!RenditionPath(game, r) \in physical.checks
         /\ Shipped(r) = Packages!Rendition(game, r)
  BY ExportIs, Zenon
<1> HIDE DEF copies, Copy, grants, physical, Shipped
<1>3. /\ resources = {g[1] : g \in grants}
      /\ resources \subseteq Packages!ResourcesOf(game)
  BY <1>1
<1>4. \A r \in resources : \E c \in copies : c.resource = r /\ c.rendition \in physical.checks
  BY <1>1, <1>2
<1> HIDE DEF resources
<1>5. Packages!ProjectedChecks(physical, resources) = {Packages!PrintPath(r) : r \in resources}
  BY <1>4 DEF Packages!ProjectedChecks, copies
<1>6. \A r \in resources :
         Packages!File(Packages!PrintPath(r), Shipped(r).media, Shipped(r).data)
           = Packages!File(Packages!PrintPath(r), "application/pdf",
                           Packages!Text(game.resources[r].text))
  <2>1. \A r : /\ Packages!Rendition(game, r).media = "application/pdf"
               /\ Packages!Rendition(game, r).data = Packages!Text(game.resources[r].text)
    BY DEF Packages!Rendition, Packages!File
  <2>2. QED
    BY <1>2, <1>3, <2>1
<1>7. {Packages!File(Packages!PrintPath(r), Shipped(r).media, Shipped(r).data) : r \in resources}
        = {Packages!File(Packages!PrintPath(r), "application/pdf",
                         Packages!Text(game.resources[r].text)) : r \in resources}
  BY <1>6
<1>8. Packages!ShippedFiles(game, physical, resources)
        = {Packages!File(Packages!PrintPath(r), Shipped(r).media, Shipped(r).data) : r \in resources}
          \cup {Packages!File(Packages!MaterialPath(game, r), game.resources[r].media,
                              Packages!Text(game.resources[r].text)) :
                   r \in {q \in resources : game.resources[q].media # "application/pdf"}}
  BY Zenon DEF Packages!ShippedFiles, Shipped
<1>9. QED
  BY <1>3, <1>5, <1>7, <1>8 DEF resources, copies, grants, physical

\* Whatever else two games hold - truth, prose, materials and grants of the host's and of
\* other viewers, reveals, phases - if the seats are told the same, judges get the same
\* package, or both are refused (prepare_blind_trial, of what export_physical made).
THEOREM JudgesSeeNothingOfTheHost ==
    ASSUME NEW game, NEW other, NEW story, SeatsAgree(game, other),
           IsPrintable(game), IsPrintable(other),
           Packages!Export(game) # Refused, Packages!Export(other) # Refused
    PROVE  Packages!Prepare(game, Packages!Export(game), story)
             = Packages!Prepare(other, Packages!Export(other), story)
<1> DEFINE its(g) == Packages!Export(g)
           Copies(g) == Packages!SeatCopies(its(g))
           Resources(g) == {c.resource : c \in Copies(g)}
           Shipped(g) == Packages!ShippedFiles(g, its(g), Resources(g))
           Scheduled(g) == Packages!Schedule(g, its(g), Resources(g))
           grants == SeatGrants(game)
<1>1. /\ SeatGrants(other) = grants
      /\ \A g \in grants : Packages!CopyFor(game, g[1], g[2]) = Packages!CopyFor(other, g[1], g[2])
  <2>1. SeatGrants(other) = grants
    BY Zenon DEF SeatsAgree
  <2>2. ASSUME NEW g \in grants
        PROVE  Packages!CopyFor(game, g[1], g[2]) = Packages!CopyFor(other, g[1], g[2])
    <3>1. Packages!CopyFor(game, g[1], g[2])
            = [resource |-> g[1], rendition |-> Packages!RenditionPath(game, g[1]),
               audience |-> g[2], condition |-> Packages!Delivery(game, g[1], g[2].id),
               container |-> g[2].id \o Packages!Delivery(game, g[1], g[2].id)]
      BY CopiesOfSeats, Zenon
    <3>2. Packages!CopyFor(other, g[1], g[2])
            = [resource |-> g[1], rendition |-> Packages!RenditionPath(other, g[1]),
               audience |-> g[2], condition |-> Packages!Delivery(other, g[1], g[2].id),
               container |-> g[2].id \o Packages!Delivery(other, g[1], g[2].id)]
      BY <2>1, CopiesOfSeats, Zenon
    <3>3. /\ Packages!RenditionPath(game, g[1]) = Packages!RenditionPath(other, g[1])
          /\ Packages!Delivery(game, g[1], g[2].id) = Packages!Delivery(other, g[1], g[2].id)
      BY Zenon DEF SeatsAgree
    <3>4. QED
      BY <3>1, <3>2, <3>3, Zenon
  <2>3. QED
    BY <2>1, <2>2
<1>2. Copies(game) = Copies(other) /\ Resources(game) = Resources(other)
  <2>1. /\ Copies(game) = {Packages!CopyFor(game, g[1], g[2]) : g \in grants}
        /\ Copies(other) = {Packages!CopyFor(other, g[1], g[2]) : g \in grants}
    BY <1>1, ExportIs, Zenon
  <2> HIDE DEF grants, Copies
  <2>2. Copies(game) = Copies(other)
    BY <1>1, <2>1
  <2>3. QED
    BY <2>2
<1>3. \A r \in Resources(game) :
         /\ game.resources[r] = other.resources[r]
         /\ Packages!MaterialPath(game, r) = Packages!MaterialPath(other, r)
  <2>1. Resources(game) = {g[1] : g \in grants}
    BY PackedFrom, Zenon
  <2>2. \A g \in grants : game.resources[g[1]] = other.resources[g[1]]
    BY Zenon DEF SeatsAgree
  <2> HIDE DEF Resources, grants
  <2>3. \A r \in Resources(game) : game.resources[r] = other.resources[r]
    BY <2>1, <2>2
  <2>4. QED
    BY <2>3 DEF Packages!MaterialPath
<1>4. Shipped(game) = Shipped(other)
  <2> DEFINE Paged(g, r) == Packages!File(Packages!PrintPath(r), "application/pdf",
                                          Packages!Text(g.resources[r].text))
             Sourced(g, r) == Packages!File(Packages!MaterialPath(g, r), g.resources[r].media,
                                            Packages!Text(g.resources[r].text))
             Textual(g, rs) == {q \in rs : g.resources[q].media # "application/pdf"}
  <2>1. /\ Shipped(game) = {Paged(game, r) : r \in Resources(game)}
                             \cup {Sourced(game, r) : r \in Textual(game, Resources(game))}
        /\ Shipped(other) = {Paged(other, r) : r \in Resources(other)}
                             \cup {Sourced(other, r) : r \in Textual(other, Resources(other))}
    BY PackedFrom, Zenon
  <2> HIDE DEF Shipped, Resources
  <2>2. /\ \A r \in Resources(game) : Paged(game, r) = Paged(other, r)
        /\ \A r \in Resources(game) : Sourced(game, r) = Sourced(other, r)
        /\ Textual(game, Resources(game)) = Textual(other, Resources(game))
    BY <1>3
  <2>3. Textual(game, Resources(game)) \subseteq Resources(game)
    OBVIOUS
  <2> HIDE DEF Paged, Sourced, Textual
  <2>4. QED
    BY <1>2, <2>1, <2>2, <2>3
<1>5. Scheduled(game) = Scheduled(other)
  <2> DEFINE Listed(g) == {c.of : c \in {k \in its(g).containers : k.of.audience.kind = "seat"}}
             Copied(g, c) == [audience |-> c.audience, condition |-> c.condition,
                              resource |-> c.resource,
                              material |-> Packages!MaterialPath(g, c.resource),
                              print |-> Packages!PrintPath(c.resource)]
             Checks(g) == Packages!ProjectedChecks(its(g), Resources(g))
  <2>1. \A g \in {game, other} :
           Scheduled(g) = <<"schedule", [containers |-> Listed(g),
                                         copies |-> {Copied(g, c) : c \in Copies(g)},
                                         checks |-> Checks(g),
                                         ok |-> Packages!Cardinality(Checks(g))
                                                  = Packages!Cardinality(Resources(g))]>>
    <3>1. ASSUME NEW g \in {game, other}
          PROVE  Scheduled(g) = <<"schedule", [containers |-> Listed(g),
                                         copies |-> {Copied(g, c) : c \in Copies(g)},
                                         checks |-> Checks(g),
                                         ok |-> Packages!Cardinality(Checks(g))
                                                  = Packages!Cardinality(Resources(g))]>>
      BY Zenon DEF Packages!Schedule
    <3>2. QED
      BY <3>1
  <2>2. Checks(game) = Checks(other)
    BY <1>2, PackedFrom, Zenon
  <2>3. Listed(game) = Listed(other)
    <3> DEFINE Of(cs, id) ==
                  CHOOSE o \in {[audience |-> c.audience, condition |-> c.condition] :
                                c \in {d \in cs : d.container = id}} : TRUE
               Intended(g) == {c \in Packages!PlanCopies(g) : c.audience.kind = "seat"}
    <3>1. \A g \in {game, other} :
             /\ its(g).containers = Packages!PlanContainers(g)
             /\ Copies(g) = Intended(g)
      BY ExportIs, CopiesOfSeats, Zenon
    <3>2. \A g \in {game, other} :
             {k.of : k \in {c \in Packages!PlanContainers(g) : c.of.audience.kind = "seat"}}
               = {Of(Intended(g), id) : id \in {c.container : c \in Intended(g)}}
      <4>1. ASSUME NEW g \in {game, other} PROVE IsPrintable(g)
        OBVIOUS
      <4>2. QED
        BY <4>1, ContainersOfSeats
    <3> HIDE DEF Copies, Intended, its, Of
    <3>3. /\ Listed(game) = {Of(Intended(game), id) : id \in {c.container : c \in Intended(game)}}
          /\ Listed(other) = {Of(Intended(other), id) : id \in {c.container : c \in Intended(other)}}
      BY <3>1, <3>2, Zenon
    <3>4. Intended(game) = Intended(other)
      BY <1>2, <3>1
    <3>5. QED
      BY <3>3, <3>4, Zenon
  <2>4. {Copied(game, c) : c \in Copies(game)} = {Copied(other, c) : c \in Copies(other)}
    <3>1. \A c \in Copies(game) : Packages!MaterialPath(game, c.resource)
                                    = Packages!MaterialPath(other, c.resource)
      BY <1>3
    <3> HIDE DEF Copies
    <3>2. QED
      BY <1>2, <3>1
  <2> HIDE DEF Scheduled, Listed, Copied, Checks, Copies, Resources
  <2>5. QED
    BY <1>2, <2>1, <2>2, <2>3, <2>4
<1>6. Packages!SeatFiles(game) = Packages!SeatFiles(other) /\ game.hostly = other.hostly
  BY DEF SeatsAgree, Packages!SeatFiles
<1> DEFINE Content(g) == {Packages!File(<<"trial", "cover-story">>, "text/plain", Packages!Text(story))}
                         \cup Packages!SeatFiles(g) \cup Shipped(g)
                         \cup {Packages!File(Packages!SchedulePath, "application/json", Scheduled(g))}
           Built(g) == Packages!Trial(Packages!WithManifest(Content(g)), Packages!Manifest(Content(g)),
                                     Packages!Archive(Packages!WithManifest(Content(g))))
<1>7. \A g \in {game, other} :
         Packages!Prepare(g, its(g), story)
           = IF \/ story = {} \/ Packages!SeatFiles(g) = {} \/ Resources(g) = {}
                \/ ~Packages!VerifyTrial(Built(g), g.hostly)
             THEN Refused ELSE Built(g)
  BY Zenon DEF Packages!Prepare
<1>8. Built(game) = Built(other)
  <2> HIDE DEF Shipped, Scheduled
  <2>1. Content(game) = Content(other)
    BY <1>4, <1>5, <1>6
  <2> HIDE DEF Content
  <2>2. QED
    BY <2>1
<1> HIDE DEF Built, Resources
<1>9. QED
  BY <1>2, <1>6, <1>7, <1>8

\* A path under two words keeps them, and what follows.
LEMMA PathsUnder ==
    ASSUME NEW Words, NEW first \in Words, NEW second \in Words
    PROVE  /\ \A s \in Seq(Words) : /\ (<<first, second>> \o s)[1] = first
                                    /\ (<<first, second>> \o s)[2] = second
           /\ \A s, t \in Seq(Words) : <<first, second>> \o s = <<first, second>> \o t => s = t
<1> DEFINE root == <<first, second>>
<1>1. root \in Seq(Words) /\ Len(root) = 2 /\ root[1] = first /\ root[2] = second
  OBVIOUS
<1> HIDE DEF root
<1>2. ASSUME NEW s \in Seq(Words) PROVE (root \o s)[1] = first /\ (root \o s)[2] = second
  <2> DEFINE path == root \o s
  <2>1. \A i \in 1..Len(root) + Len(s) : path[i] = IF i <= Len(root) THEN root[i] ELSE s[i - Len(root)]
    BY <1>1, ConcatProperties, Zenon
  <2>2. Len(s) \in Nat
    OBVIOUS
  <2> HIDE DEF path
  <2>3. path[1] = root[1] /\ path[2] = root[2]
    BY <1>1, <2>1, <2>2
  <2>4. QED
    BY <1>1, <2>3 DEF path
<1>3. ASSUME NEW s \in Seq(Words), NEW t \in Seq(Words), root \o s = root \o t PROVE s = t
  BY <1>1, <1>3, ConcatSimplifications, Zenon
<1>4. QED
  BY <1>2, <1>3 DEF root

\* The package of these files.
PackageOf(content) ==
    Packages!Trial(Packages!WithManifest(content), Packages!Manifest(content),
                   Packages!Archive(Packages!WithManifest(content)))

LEMMA ArchivesLoad ==
    ASSUME NEW content, NEW hostly, IsFiniteSet(content),
           \A f \in content : /\ f = Packages!File(f.path, f.media, f.data)
                              /\ f.path # Packages!ManifestPath,
           \A f, g \in content : f.path = g.path => f = g,
           Packages!VerifyTrial(PackageOf(content), hostly)
    PROVE  Packages!Load(PackageOf(content).archive, hostly) = PackageOf(content)
<1> DEFINE card == Packages!File(Packages!ManifestPath, "application/json", Packages!Manifest(content))
           files == content \cup {card}
           Stored(f) == <<f.path, f.data>>
           archive == {Stored(f) : f \in files}
           paths == {e[1] : e \in archive}
           manifest == (CHOOSE e \in archive : e[1] = Packages!ManifestPath)[2][2]
           MediaOf(p) == IF p = Packages!ManifestPath THEN "application/json"
                         ELSE (CHOOSE f \in manifest : f.path = p).media
           loaded == {Packages!File(e[1], MediaOf(e[1]), e[2]) : e \in archive}
           trial == Packages!Trial(loaded, <<"manifest", manifest>>, archive)
<1>1. /\ card.path = Packages!ManifestPath /\ card.media = "application/json"
      /\ card.data = <<"manifest", content>>
      /\ card = Packages!File(card.path, card.media, card.data)
  BY DEF Packages!File, Packages!Manifest
<1>2. /\ Packages!WithManifest(content) = files
      /\ PackageOf(content) = Packages!Trial(files, <<"manifest", content>>, archive)
      /\ PackageOf(content).archive = archive
  BY DEF PackageOf, Packages!WithManifest, Packages!Manifest, Packages!Archive, Packages!Trial
<1>3. Packages!Load(archive, hostly)
        = IF \/ Packages!ManifestPath \notin paths
             \/ Packages!Cardinality(archive) # Packages!Cardinality(paths)
             \/ paths # {f.path : f \in manifest} \cup {Packages!ManifestPath}
             \/ ~Packages!VerifyTrial(trial, hostly)
          THEN Refused ELSE trial
  BY Zenon DEF Packages!Load
<1> HIDE DEF card
<1>4. /\ \A f \in files : f = Packages!File(f.path, f.media, f.data)
      /\ \A f, g \in files : f.path = g.path => f = g
      /\ card \in files
  BY <1>1
<1> HIDE DEF files
<1>5. \A f : Stored(f)[1] = f.path /\ Stored(f)[2] = f.data
  OBVIOUS
<1> HIDE DEF Stored
<1>6. manifest = content
  <2> DEFINE found == CHOOSE e \in archive : e[1] = Packages!ManifestPath
  <2>1. Stored(card) \in archive /\ Stored(card)[1] = Packages!ManifestPath
    BY <1>1, <1>4, <1>5
  <2>2. found \in archive /\ found[1] = Packages!ManifestPath
    <3> HIDE DEF archive
    <3>1. QED
      BY <2>1
  <2> HIDE DEF found
  <2>3. found = Stored(card)
    BY <1>1, <1>4, <1>5, <2>2
  <2>4. found[2][2] = content
    BY <1>1, <1>5, <2>3
  <2>5. QED
    BY <2>4 DEF found
<1>7. \A f \in files : MediaOf(f.path) = f.media
  <2>1. ASSUME NEW f \in files, f.path # Packages!ManifestPath PROVE MediaOf(f.path) = f.media
    <3>1. f \in content
      BY <1>1, <2>1 DEF files
    <3>2. (CHOOSE g \in content : g.path = f.path) = f
      BY <3>1
    <3>3. MediaOf(f.path) = (CHOOSE g \in manifest : g.path = f.path).media
      BY <2>1, Zenon
    <3> HIDE DEF manifest, MediaOf
    <3>4. QED
      BY <1>6, <3>2, <3>3
  <2>2. ASSUME NEW f \in files, f.path = Packages!ManifestPath PROVE MediaOf(f.path) = f.media
    BY <1>1, <1>4, <2>2
  <2>3. QED
    BY <2>1, <2>2
<1>8. /\ Packages!ManifestPath \in paths
      /\ paths = {f.path : f \in content} \cup {Packages!ManifestPath}
  BY <1>1, <1>4, <1>5 DEF files
<1>9. Packages!Cardinality(archive) = Packages!Cardinality(paths)
  <2>1. IsFiniteSet(files)
    BY FS_AddElement DEF files
  <2>2. IsFiniteSet(archive)
    <3> DEFINE entry == [f \in files |-> Stored(f)]
    <3>1. entry \in Surjection(files, archive)
      BY DEF Surjection
    <3> HIDE DEF entry, archive
    <3>2. QED
      BY <2>1, <3>1, FS_Surjection, Zenon
  <2>3. \A d, e \in archive : d[1] = e[1] => d = e
    BY <1>4, <1>5
  <2> HIDE DEF archive
  <2> DEFINE path == [e \in archive |-> e[1]]
  <2>4. path \in Bijection(archive, paths)
    BY <2>3, Zenon DEF Bijection, Injection, Surjection, IsInjective
  <2>5. Cardinality(archive) = Cardinality(paths)
    <3> HIDE DEF path, paths
    <3>1. ExistsBijection(archive, paths)
      BY <2>4 DEF ExistsBijection
    <3>2. QED
      BY <2>2, <3>1, FS_Bijection
  <2>6. QED
    BY <2>5, Zenon DEF Packages!Cardinality, Cardinality
<1> HIDE DEF MediaOf, manifest
<1>10. loaded = files
  BY <1>4, <1>5, <1>7
<1> HIDE DEF archive, paths, loaded
<1>11. trial = PackageOf(content)
  BY <1>2, <1>6, <1>10
<1> HIDE DEF trial
<1>12. QED
  BY <1>2, <1>3, <1>6, <1>8, <1>9, <1>11

\* What a game is packed in.
PackedIn(game, story, schedule, resources) ==
    {Packages!File(<<"trial", "cover-story">>, "text/plain", Packages!Text(story))}
    \cup Packages!SeatFiles(game)
    \cup ({Packages!File(Packages!PrintPath(r), "application/pdf",
                         Packages!Text(game.resources[r].text)) : r \in resources}
          \cup {Packages!File(Packages!MaterialPath(game, r), game.resources[r].media,
                              Packages!Text(game.resources[r].text)) :
                   r \in {q \in resources :
                             game.resources[q].media # "application/pdf"}})
    \cup {Packages!File(Packages!SchedulePath, "application/json", schedule)}

\* These are files of paths of their own, and finitely many.
LEMMA PackedFiles ==
    ASSUME NEW game, NEW story, NEW schedule, NEW resources, NEW Words,
           {"trial", "seats", "print", "materials"} \subseteq Words,
           DOMAIN game.projections \subseteq Seq(Words), resources \subseteq Seq(Words),
           IsFiniteSet(DOMAIN game.projections), IsFiniteSet(resources)
    PROVE  LET content == PackedIn(game, story, schedule, resources)
           IN  /\ IsFiniteSet(content)
               /\ \A f \in content : /\ f = Packages!File(f.path, f.media, f.data)
                                      /\ f.path # Packages!ManifestPath
               /\ \A f, g \in content : f.path = g.path => f = g
<1> DEFINE cover == Packages!File(<<"trial", "cover-story">>, "text/plain", Packages!Text(story))
           plan == Packages!File(Packages!SchedulePath, "application/json", schedule)
           Sheet(s) == Packages!File(<<"trial", "seats">> \o s, "application/json",
                                     Packages!Text(game.projections[s]))
           Page(r) == Packages!File(Packages!PrintPath(r), "application/pdf",
                                    Packages!Text(game.resources[r].text))
           Source(r) == Packages!File(Packages!MaterialPath(game, r), game.resources[r].media,
                                      Packages!Text(game.resources[r].text))
           plain == {q \in resources : game.resources[q].media # "application/pdf"}
           seats == DOMAIN game.projections
           sheets == {Sheet(s) : s \in seats}
           pages == {Page(r) : r \in resources}
           sources == {Source(r) : r \in plain}
           content == {cover} \cup sheets \cup (pages \cup sources) \cup {plan}
<1>1. Packages!SeatFiles(game) = sheets
  BY Zenon DEF Packages!SeatFiles
<1>2. /\ cover.path = <<"trial", "cover-story">> /\ plan.path = <<"trial", "schedule">>
      /\ \A s : Sheet(s).path = <<"trial", "seats">> \o s
      /\ \A r : Page(r).path = <<"trial", "print">> \o r
      /\ \A r \in plain : Source(r).path = <<"trial", "materials">> \o r
  <2>1. \A p, m, d : Packages!File(p, m, d).path = p
    BY DEF Packages!File
  <2>2. \A r : Packages!PrintPath(r) = <<"trial", "print">> \o r
    BY Zenon DEF Packages!PrintPath
  <2>3. \A r \in plain : Packages!MaterialPath(game, r) = <<"trial", "materials">> \o r
    BY Zenon DEF Packages!MaterialPath
  <2>4. Packages!SchedulePath = <<"trial", "schedule">>
    BY Zenon DEF Packages!SchedulePath
  <2>5. QED
    BY <2>1, <2>2, <2>3, <2>4, Zenon
<1>3. \A f \in content : f = Packages!File(f.path, f.media, f.data)
  <2>1. \A p, m, d : LET f == Packages!File(p, m, d) IN f = Packages!File(f.path, f.media, f.data)
    BY DEF Packages!File
  <2>2. cover = Packages!File(cover.path, cover.media, cover.data)
    BY <2>1, Zenon
  <2>3. plan = Packages!File(plan.path, plan.media, plan.data)
    BY <2>1, Zenon
  <2>4. \A s : Sheet(s) = Packages!File(Sheet(s).path, Sheet(s).media, Sheet(s).data)
    BY <2>1, Zenon
  <2>5. \A r : Page(r) = Packages!File(Page(r).path, Page(r).media, Page(r).data)
    BY <2>1, Zenon
  <2>6. \A r : Source(r) = Packages!File(Source(r).path, Source(r).media, Source(r).data)
    BY <2>1, Zenon
  <2> HIDE DEF cover, plan, Sheet, Page, Source
  <2>7. QED
    BY <2>2, <2>3, <2>4, <2>5, <2>6
<1>4. IsFiniteSet(content)
  <2> HIDE DEF cover, plan, Sheet, Page, Source, plain
  <2>1. IsFiniteSet(sheets)
    <3> DEFINE sheet == [s \in seats |-> Sheet(s)]
    <3>1. sheet \in Surjection(seats, sheets)
      BY DEF Surjection
    <3> HIDE DEF sheet, sheets
    <3>2. QED
      BY <3>1, FS_Surjection, Zenon
  <2>2. IsFiniteSet(pages)
    <3> DEFINE page == [r \in resources |-> Page(r)]
    <3>1. page \in Surjection(resources, pages)
      BY DEF Surjection
    <3> HIDE DEF page, pages
    <3>2. QED
      BY <3>1, FS_Surjection, Zenon
  <2>3. IsFiniteSet(sources)
    <3> DEFINE source == [r \in plain |-> Source(r)]
    <3>1. IsFiniteSet(plain)
      <4>1. plain \subseteq resources
        BY DEF plain
      <4>2. QED
        BY <4>1, FS_Subset, Zenon
    <3>2. source \in Surjection(plain, sources)
      BY DEF Surjection
    <3> HIDE DEF source, sources
    <3>3. QED
      BY <3>1, <3>2, FS_Surjection, Zenon
  <2> HIDE DEF sheets, pages, sources
  <2>4. IsFiniteSet({cover}) /\ IsFiniteSet({plan})
    BY FS_Singleton
  <2>5. QED
    BY <2>1, <2>2, <2>3, <2>4, FS_Union
<1> DEFINE First(f) == f.path[1]
           Second(f) == f.path[2]
           Under(second, s) == <<"trial", second>> \o s
<1>5. /\ \A s \in seats : Sheet(s).path = Under("seats", s) /\ s \in Seq(Words)
      /\ \A r \in resources : Page(r).path = Under("print", r) /\ r \in Seq(Words)
      /\ \A r \in plain : Source(r).path = Under("materials", r) /\ r \in Seq(Words)
      /\ \A second \in {"seats", "print", "materials"}, s \in Seq(Words) :
            /\ Under(second, s)[1] = "trial" /\ Under(second, s)[2] = second
            /\ \A t \in Seq(Words) : Under(second, s) = Under(second, t) => s = t
  <2>1. \A second \in {"seats", "print", "materials"}, s \in Seq(Words) :
           /\ Under(second, s)[1] = "trial" /\ Under(second, s)[2] = second
           /\ \A t \in Seq(Words) : Under(second, s) = Under(second, t) => s = t
    <3>1. ASSUME NEW second \in {"seats", "print", "materials"}, NEW s \in Seq(Words)
          PROVE  /\ Under(second, s)[1] = "trial" /\ Under(second, s)[2] = second
                 /\ \A t \in Seq(Words) : Under(second, s) = Under(second, t) => s = t
      <4>1. "trial" \in Words /\ second \in Words
        OBVIOUS
      <4>2. /\ \A x \in Seq(Words) : /\ (<<"trial", second>> \o x)[1] = "trial"
                                     /\ (<<"trial", second>> \o x)[2] = second
            /\ \A x, t \in Seq(Words) :
                  <<"trial", second>> \o x = <<"trial", second>> \o t => x = t
        BY <4>1, PathsUnder, Zenon
      <4>3. Under(second, s)[1] = "trial" /\ Under(second, s)[2] = second
        BY <4>2, Zenon
      <4>4. \A t \in Seq(Words) : Under(second, s) = Under(second, t) => s = t
        BY <4>2, Zenon
      <4>5. QED
        BY <4>3, <4>4
    <3>2. QED
      BY <3>1
  <2>2. plain \subseteq resources
    OBVIOUS
  <2> HIDE DEF cover, plan, Sheet, Page, Source, plain, First, Second
  <2>3. /\ \A s \in seats : Sheet(s).path = Under("seats", s)
        /\ \A r \in resources : Page(r).path = Under("print", r)
        /\ \A r \in plain : Source(r).path = Under("materials", r)
    BY <1>2, Zenon
  <2> HIDE DEF Under
  <2>4. QED
    BY <2>1, <2>2, <2>3
<1>6. /\ First(cover) = "trial" /\ Second(cover) = "cover-story"
      /\ First(plan) = "trial" /\ Second(plan) = "schedule"
      /\ \A s \in seats : First(Sheet(s)) = "trial" /\ Second(Sheet(s)) = "seats"
      /\ \A r \in resources : First(Page(r)) = "trial" /\ Second(Page(r)) = "print"
      /\ \A r \in plain : First(Source(r)) = "trial" /\ Second(Source(r)) = "materials"
      /\ \A s, t \in seats : Sheet(s).path = Sheet(t).path => s = t
      /\ \A r, q \in resources : Page(r).path = Page(q).path => r = q
      /\ \A r, q \in plain : Source(r).path = Source(q).path => r = q
  <2>1. /\ <<"trial", "cover-story">>[1] = "trial" /\ <<"trial", "cover-story">>[2] = "cover-story"
        /\ <<"trial", "schedule">>[1] = "trial" /\ <<"trial", "schedule">>[2] = "schedule"
    OBVIOUS
  <2> HIDE DEF cover, plan, Sheet, Page, Source, plain, Under
  <2>2. /\ First(cover) = "trial" /\ Second(cover) = "cover-story"
        /\ First(plan) = "trial" /\ Second(plan) = "schedule"
    BY <1>2, <2>1, Zenon
  <2>3. /\ \A s \in seats : First(Sheet(s)) = "trial" /\ Second(Sheet(s)) = "seats"
        /\ \A s, t \in seats : Sheet(s).path = Sheet(t).path => s = t
    BY <1>5
  <2>4. /\ \A r \in resources : First(Page(r)) = "trial" /\ Second(Page(r)) = "print"
        /\ \A r, q \in resources : Page(r).path = Page(q).path => r = q
    BY <1>5
  <2>5. /\ \A r \in plain : First(Source(r)) = "trial" /\ Second(Source(r)) = "materials"
        /\ \A r, q \in plain : Source(r).path = Source(q).path => r = q
    BY <1>5
  <2>6. QED
    BY <2>2, <2>3, <2>4, <2>5
<1> HIDE DEF cover, plan, Sheet, Page, Source, plain, seats, Under
<1>7. \A f \in content : f.path # Packages!ManifestPath
  <2>1. Packages!ManifestPath[1] = "blind-trial"
    BY DEF Packages!ManifestPath
  <2>2. \A f \in content : First(f) = "trial"
    <3> HIDE DEF First
    <3>1. QED
      BY <1>6
  <2>3. QED
    BY <2>1, <2>2
<1>8. ASSUME NEW f \in content, NEW g \in content, f.path = g.path PROVE f = g
  <2>1. Second(f) = Second(g)
    BY <1>8
  <2> HIDE DEF First, Second
  <2>2. CASE f = cover \/ f = plan
    BY <1>6, <2>1, <2>2
  <2>3. ASSUME NEW s \in seats, f = Sheet(s) PROVE f = g
    <3>1. PICK t \in seats : g = Sheet(t)
      BY <1>6, <2>1, <2>3
    <3>2. QED
      BY <1>6, <1>8, <2>3, <3>1
  <2>4. ASSUME NEW r \in resources, f = Page(r) PROVE f = g
    <3>1. PICK q \in resources : g = Page(q)
      BY <1>6, <2>1, <2>4
    <3>2. QED
      BY <1>6, <1>8, <2>4, <3>1
  <2>5. ASSUME NEW r \in plain, f = Source(r) PROVE f = g
    <3>1. PICK q \in plain : g = Source(q)
      BY <1>6, <2>1, <2>5
    <3>2. QED
      BY <1>6, <1>8, <2>5, <3>1
  <2>6. QED
    BY <2>2, <2>3, <2>4, <2>5
<1> HIDE DEF First, Second, sheets, pages, sources
<1>9. /\ IsFiniteSet(content)
      /\ \A f \in content : /\ f = Packages!File(f.path, f.media, f.data)
                             /\ f.path # Packages!ManifestPath
      /\ \A f, g \in content : f.path = g.path => f = g
  BY <1>3, <1>4, <1>7, <1>8
<1>10. QED
  BY <1>1, <1>9, Zenon DEF PackedIn, content, cover, plan, Sheet, Page, Source, plain, seats, sheets, pages, sources

\* Whatever the game: a package that is prepared is loaded from its archive as it was made,
\* with the media types that its manifest says; its files have paths of their own, and each
\* is described (prepare_blind_trial, load_blind_trial).
THEOREM PackagesLoadAsMade ==
    ASSUME NEW game, NEW story, NEW Words, IsPrintable(game), Packages!Export(game) # Refused,
           {"trial", "seats", "print", "materials"} \subseteq Words,
           DOMAIN game.projections \subseteq Seq(Words), IsFiniteSet(DOMAIN game.projections),
           \A g \in SeatGrants(game) : g[1] \in Seq(Words), IsFiniteSet(SeatGrants(game)),
           Packages!Prepare(game, Packages!Export(game), story) # Refused
    PROVE  LET trial == Packages!Prepare(game, Packages!Export(game), story)
           IN  Packages!Load(trial.archive, game.hostly) = trial
<1> DEFINE physical == Packages!Export(game)
           grants == SeatGrants(game)
           resources == {c.resource : c \in Packages!SeatCopies(physical)}
           Content(shipped) ==
              {Packages!File(<<"trial", "cover-story">>, "text/plain", Packages!Text(story))}
              \cup Packages!SeatFiles(game) \cup shipped
              \cup {Packages!File(Packages!SchedulePath, "application/json",
                                  Packages!Schedule(game, physical, resources))}
           pages == {Packages!File(Packages!PrintPath(r), "application/pdf",
                                   Packages!Text(game.resources[r].text)) : r \in resources}
                    \cup {Packages!File(Packages!MaterialPath(game, r), game.resources[r].media,
                                        Packages!Text(game.resources[r].text)) :
                             r \in {q \in resources : game.resources[q].media # "application/pdf"}}
           shipped == Packages!ShippedFiles(game, physical, resources)
           trial == Packages!Prepare(game, physical, story)
<1>1. /\ trial = PackageOf(Content(shipped))
      /\ Packages!VerifyTrial(PackageOf(Content(shipped)), game.hostly)
  <2>1. trial = IF \/ story = {} \/ Packages!SeatFiles(game) = {} \/ resources = {}
                   \/ ~Packages!VerifyTrial(PackageOf(Content(shipped)), game.hostly)
                THEN Refused ELSE PackageOf(Content(shipped))
    BY Zenon DEF Packages!Prepare, PackageOf
  <2> HIDE DEF trial, Content, resources, shipped
  <2>2. trial # Refused
    BY DEF trial
  <2>3. QED
    BY <2>1, <2>2
<1>2. shipped = pages
  BY PackedFrom, Zenon
<1>3. resources = {g[1] : g \in grants}
  BY PackedFrom, Zenon
<1>4. resources \subseteq Seq(Words) /\ IsFiniteSet(resources)
  <2> HIDE DEF resources
  <2> DEFINE granted == [g \in grants |-> g[1]]
  <2>1. granted \in Surjection(grants, resources)
    BY <1>3 DEF Surjection
  <2> HIDE DEF granted
  <2>2. IsFiniteSet(resources)
    BY <2>1, FS_Surjection, Zenon
  <2>3. QED
    BY <1>3, <2>2
<1>5. /\ IsFiniteSet(Content(pages))
      /\ \A f \in Content(pages) : /\ f = Packages!File(f.path, f.media, f.data)
                                   /\ f.path # Packages!ManifestPath
      /\ \A f, g \in Content(pages) : f.path = g.path => f = g
  <2> DEFINE schedule == Packages!Schedule(game, physical, resources)
             packed == PackedIn(game, story, schedule, resources)
  <2> HIDE DEF resources, schedule
  <2>1. /\ DOMAIN game.projections \subseteq Seq(Words) /\ IsFiniteSet(DOMAIN game.projections)
        /\ {"trial", "seats", "print", "materials"} \subseteq Words
    OBVIOUS
  <2>2. /\ IsFiniteSet(packed)
        /\ \A f \in packed : /\ f = Packages!File(f.path, f.media, f.data)
                              /\ f.path # Packages!ManifestPath
        /\ \A f, g \in packed : f.path = g.path => f = g
    BY <1>4, <2>1, PackedFiles, Zenon
  <2>3. Content(pages) = packed
    BY Zenon DEF PackedIn, schedule
  <2>4. QED
    BY <2>2, <2>3, Zenon
<1> DEFINE content == Content(pages)
<1>6. Packages!Load(PackageOf(content).archive, game.hostly) = PackageOf(content)
  <2>1. Packages!VerifyTrial(PackageOf(content), game.hostly)
    BY <1>1, <1>2, Zenon
  <2> HIDE DEF content
  <2>2. /\ IsFiniteSet(content)
        /\ \A f \in content : /\ f = Packages!File(f.path, f.media, f.data)
                               /\ f.path # Packages!ManifestPath
        /\ \A f, g \in content : f.path = g.path => f = g
    BY <1>5 DEF content
  <2>3. QED
    BY <2>1, <2>2, ArchivesLoad
<1>7. trial = PackageOf(content)
  BY <1>1, <1>2, Zenon
<1>8. QED
  BY <1>6, <1>7, Zenon

\* Of the archives that load with one manifest there is one: not one file can be dropped,
\* added, renamed or replaced (load_blind_trial; two values of one digest are one).
THEOREM OneArchiveOfEachManifest ==
    ASSUME NEW archive, NEW other, NEW hostly, IsFiniteSet(archive), IsFiniteSet(other),
           \A e \in archive \cup other : e = <<e[1], e[2]>>,
           Packages!Load(archive, hostly) # Refused, Packages!Load(other, hostly) # Refused,
           Packages!Load(archive, hostly).manifest = Packages!Load(other, hostly).manifest
    PROVE  archive = other
<1> DEFINE ManifestOf(a) == (CHOOSE e \in a : e[1] = Packages!ManifestPath)[2][2]
           MediaOf(a, p) == IF p = Packages!ManifestPath THEN "application/json"
                            ELSE (CHOOSE f \in ManifestOf(a) : f.path = p).media
           FilesOf(a) == {Packages!File(e[1], MediaOf(a, e[1]), e[2]) : e \in a}
           TrialOf(a) == Packages!Trial(FilesOf(a), <<"manifest", ManifestOf(a)>>, a)
           both == {archive, other}
<1>1. ASSUME NEW a \in both
      PROVE  /\ Packages!Load(a, hostly) = TrialOf(a)
             /\ Packages!ManifestPath \in {e[1] : e \in a}
             /\ Packages!VerifyTrial(TrialOf(a), hostly)
             /\ Packages!Cardinality(a) = Packages!Cardinality({e[1] : e \in a})
  <2>1. Packages!Load(a, hostly)
          = IF \/ Packages!ManifestPath \notin {e[1] : e \in a}
               \/ Packages!Cardinality(a) # Packages!Cardinality({e[1] : e \in a})
               \/ {e[1] : e \in a} # {f.path : f \in ManifestOf(a)} \cup {Packages!ManifestPath}
               \/ ~Packages!VerifyTrial(TrialOf(a), hostly)
            THEN Refused ELSE TrialOf(a)
    BY Zenon DEF Packages!Load
  <2> HIDE DEF TrialOf, ManifestOf
  <2>2. Packages!Load(a, hostly) # Refused
    OBVIOUS
  <2>3. QED
    BY <2>1, <2>2
<1> HIDE DEF ManifestOf, MediaOf
<1>2. ASSUME NEW a \in both
      PROVE  /\ TrialOf(a).manifest = <<"manifest", ManifestOf(a)>>
             /\ ManifestOf(a) = {f \in FilesOf(a) : f.path # Packages!ManifestPath}
             /\ \E f \in FilesOf(a) : /\ f.path = Packages!ManifestPath
                                      /\ f.data = <<"manifest", ManifestOf(a)>>
  <2>1. /\ TrialOf(a).files = FilesOf(a)
        /\ TrialOf(a).manifest = <<"manifest", ManifestOf(a)>>
    BY DEF Packages!Trial
  <2> DEFINE trial == TrialOf(a)
             files == FilesOf(a)
             its == ManifestOf(a)
             content == {f \in files : f.path # Packages!ManifestPath}
  <2> HIDE DEF trial, files
  <2>2. /\ trial.manifest = <<"manifest", {f \in trial.files : f.path # Packages!ManifestPath}>>
        /\ \E f \in trial.files : f.path = Packages!ManifestPath /\ f.data = trial.manifest
    BY <1>1 DEF trial, Packages!VerifyTrial, Packages!Manifest, Packages!ContentOf
  <2>3. trial.files = files /\ trial.manifest = <<"manifest", its>>
    BY <2>1 DEF trial, files
  <2> HIDE DEF its
  <2>4. <<"manifest", its>> = <<"manifest", content>>
    BY <2>2, <2>3, Zenon
  <2>5. its = content
    BY <2>4
  <2>6. QED
    BY <2>2, <2>3, <2>5, Zenon DEF trial, files, its
<1>3. ManifestOf(archive) = ManifestOf(other)
  <2>1. <<"manifest", ManifestOf(archive)>> = <<"manifest", ManifestOf(other)>>
    BY <1>1, <1>2, Zenon
  <2>2. QED
    BY <2>1
<1>4. ASSUME NEW a \in both, NEW d \in a, NEW e \in a, d[1] = e[1] PROVE d = e
  <2> DEFINE paths == {c[1] : c \in a}
             path == [c \in a |-> c[1]]
  <2>1. Cardinality(a) = Cardinality(paths)
    BY <1>1, Zenon DEF Packages!Cardinality, Cardinality
  <2>2. path \in Surjection(a, paths)
    BY DEF Surjection
  <2>3. IsFiniteSet(a)
    OBVIOUS
  <2> HIDE DEF paths
  <2>4. path \in Injection(a, paths)
    <3> HIDE DEF path
    <3>1. QED
      BY <2>1, <2>2, <2>3, FS_SurjSameCardinalityImpliesInj, Zenon
  <2>5. QED
    BY <1>4, <2>4 DEF Injection, IsInjective
<1>5. \A p, m, d : LET f == Packages!File(p, m, d) IN f.path = p /\ f.data = d
  BY DEF Packages!File
<1>6. ASSUME NEW a \in both, NEW e \in a
      PROVE  \/ e = <<Packages!ManifestPath, <<"manifest", ManifestOf(a)>>>>
             \/ \E f \in ManifestOf(a) : e = <<f.path, f.data>>
  <2> DEFINE file == Packages!File(e[1], MediaOf(a, e[1]), e[2])
  <2>1. file \in FilesOf(a) /\ file.path = e[1] /\ file.data = e[2] /\ e = <<e[1], e[2]>>
    BY <1>5
  <2> HIDE DEF file
  <2>2. CASE e[1] # Packages!ManifestPath
    <3> HIDE DEF FilesOf
    <3>1. file \in ManifestOf(a)
      BY <1>2, <2>1, <2>2
    <3>2. QED
      BY <2>1, <3>1
  <2>3. CASE e[1] = Packages!ManifestPath
    <3>1. PICK c \in a : c[1] = Packages!ManifestPath /\ c[2] = <<"manifest", ManifestOf(a)>>
      BY <1>2, <1>5
    <3>2. QED
      BY <1>4, <2>1, <2>3, <3>1
  <2>4. QED
    BY <2>2, <2>3
<1>7. ASSUME NEW a \in both
      PROVE  /\ <<Packages!ManifestPath, <<"manifest", ManifestOf(a)>>>> \in a
             /\ \A f \in ManifestOf(a) : <<f.path, f.data>> \in a
  <2>1. \A f \in FilesOf(a) : <<f.path, f.data>> \in a
    BY <1>5
  <2> HIDE DEF FilesOf
  <2>2. QED
    BY <1>2, <2>1
<1> HIDE DEF TrialOf, FilesOf
<1>8. \A e : e \in archive <=> e \in other
  BY <1>3, <1>6, <1>7
<1>9. QED
  BY <1>8

-----------------------------------------------------------------------------
(* Games without Findings *)

\* A finite set of integers has a least and a greatest one.
LEMMA LeastOfFinite ==
    ASSUME NEW T \in SUBSET Int, IsFiniteSet(T), T # {}
    PROVE  \E x \in T : \A y \in T : x <= y
<1> DEFINE below(x) == {y \in T : y < x}
           counts == {Cardinality(below(x)) : x \in T}
<1>1. \A x \in T : IsFiniteSet(below(x)) /\ Cardinality(below(x)) \in Nat
  <2>1. \A x \in T : below(x) \subseteq T
    OBVIOUS
  <2> HIDE DEF below
  <2>2. QED
    BY <2>1, FS_Subset, FS_CardinalityType
<1>2. counts \subseteq Nat /\ counts # {}
  <2> HIDE DEF below
  <2>1. QED
    BY <1>1
<1>3. PICK c \in counts : \A d \in counts : ~(<<d, c>> \in OpToRel(<, Nat))
  <2> HIDE DEF counts
  <2>1. QED
    BY <1>2, NatLessThanWellFounded, WFMin
<1>4. PICK x \in T : c = Cardinality(below(x))
  OBVIOUS
<1>5. ASSUME NEW y \in T, y < x PROVE FALSE
  <2>1. below(y) \subseteq below(x) /\ y \in below(x) /\ y \notin below(y)
    <3>1. \A z \in T : z \in Int
      OBVIOUS
    <3>2. \A z \in T : z < y => z < x
      BY <1>5, <3>1
    <3>3. ~(y < y)
      BY <3>1
    <3>4. QED
      BY <1>5, <3>2, <3>3
  <2> HIDE DEF below
  <2>2. Cardinality(below(y)) <= Cardinality(below(x)) /\ Cardinality(below(y)) # Cardinality(below(x))
    BY <1>1, <2>1, FS_Subset
  <2>3. Cardinality(below(y)) \in counts
    OBVIOUS
  <2> HIDE DEF counts
  <2>4. ~(<<Cardinality(below(y)), Cardinality(below(x))>> \in OpToRel(<, Nat))
    BY <1>3, <1>4, <2>3
  <2>5. ~(Cardinality(below(y)) < Cardinality(below(x)))
    BY <1>1, <2>4 DEF OpToRel
  <2>6. QED
    BY <1>1, <2>2, <2>5
<1>6. \A y \in T : x <= y
  BY <1>5
<1>7. QED
  BY <1>6

LEMMA FiniteBounds ==
    ASSUME NEW T \in SUBSET Int, IsFiniteSet(T), T # {}
    PROVE  /\ Compiler!Min(T) \in T /\ \A y \in T : Compiler!Min(T) <= y
           /\ Compiler!Max(T) \in T /\ \A y \in T : Compiler!Max(T) >= y
<1> DEFINE mirror == {-x : x \in T}
           opposite == [x \in T |-> -x]
<1>1. \E x \in T : \A y \in T : x <= y
  BY LeastOfFinite
<1>2. opposite \in Surjection(T, mirror)
  BY DEF Surjection
<1>3. IsFiniteSet(mirror)
  <2> HIDE DEF opposite, mirror
  <2>1. QED
    BY <1>2, FS_Surjection, Zenon
<1>4. mirror \in SUBSET Int /\ mirror # {}
  <2>1. \A x \in T : -x \in Int
    OBVIOUS
  <2>2. \A y \in mirror : y \in Int
    BY <2>1
  <2>3. \E x \in T : TRUE
    OBVIOUS
  <2>4. QED
    BY <2>2, <2>3
<1>5. PICK m \in mirror : \A k \in mirror : m <= k
  <2> HIDE DEF mirror
  <2>1. QED
    BY <1>3, <1>4, LeastOfFinite
<1>6. PICK x \in T : m = -x
  OBVIOUS
<1>7. \A y \in T : x >= y
  BY <1>5, <1>6
<1>8. Compiler!Min(T) \in T /\ \A y \in T : Compiler!Min(T) <= y
  BY <1>1 DEF Compiler!Min
<1>9. Compiler!Max(T) \in T /\ \A y \in T : Compiler!Max(T) >= y
  BY <1>7 DEF Compiler!Max
<1>10. QED
  BY <1>8, <1>9

\* A game as it is read: Phases and events in sequences, their orders whole numbers.
IsRead(game) ==
    /\ IsLog(game.phases) /\ \A p \in Compiler!ToSet(game.phases) : p.order \in Int
    /\ IsLog(game.events) /\ \A e \in Compiler!ToSet(game.events) : e.order \in Int

\* Which item an id stands for is one of the items.
LEMMA NamedItems ==
    ASSUME NEW items, IsLog(items)
    PROVE  \A id \in Compiler!IdsOf(items) : /\ Compiler!ById(items)[id] \in Compiler!ToSet(items)
                                             /\ Compiler!ById(items)[id].id = id
<1> SUFFICES ASSUME NEW id \in Compiler!IdsOf(items)
             PROVE  /\ Compiler!ById(items)[id] \in Compiler!ToSet(items)
                    /\ Compiler!ById(items)[id].id = id
  OBVIOUS
<1> DEFINE places == {i \in DOMAIN items : items[i].id = id}
<1>1. Len(items) \in Nat /\ DOMAIN items = 1..Len(items)
  BY LogFacts
<1>2. places # {} /\ places \in SUBSET (1..Len(items))
  BY <1>1 DEF Compiler!IdsOf
<1>3. Compiler!ById(items)[id] = items[Compiler!Max(places)]
  BY Zenon DEF Compiler!ById
<1> HIDE DEF places
<1>4. Compiler!Max(places) \in places
  <2>1. Max(places) \in places
    BY <1>1, <1>2, LargestIndex
  <2>2. QED
    BY <2>1, Zenon DEF Compiler!Max, Max
<1>5. QED
  BY <1>3, <1>4 DEF places, Compiler!ToSet

LEMMA OrdersAreFinite ==
    ASSUME NEW game, IsRead(game)
    PROVE  LET orders == {Compiler!Order(game)[p] : p \in Compiler!IdsOf(game.phases)}
           IN  orders \subseteq Int /\ IsFiniteSet(orders)
<1> DEFINE phases == game.phases
           all == {p.order : p \in Compiler!ToSet(phases)}
           orders == {Compiler!Order(game)[p] : p \in Compiler!IdsOf(phases)}
<1>1. \A p \in Compiler!IdsOf(phases) : Compiler!Order(game)[p] \in all
  <2>1. \A p \in Compiler!IdsOf(phases) : /\ Compiler!Order(game)[p] = Compiler!ById(phases)[p].order
                                         /\ Compiler!ById(phases)[p] \in Compiler!ToSet(phases)
    BY NamedItems DEF IsRead, Compiler!Order, Compiler!ById
  <2>2. QED
    BY <2>1
<1>2. all \subseteq Int
  BY DEF IsRead
<1>3. IsFiniteSet(all)
  <2> DEFINE order == [i \in 1..Len(phases) |-> phases[i].order]
  <2>1. Len(phases) \in Nat /\ DOMAIN phases = 1..Len(phases)
    BY LogFacts DEF IsRead
  <2>2. order \in Surjection(1..Len(phases), all)
    BY <2>1 DEF Surjection, Compiler!ToSet
  <2>3. IsFiniteSet(1..Len(phases))
    BY <2>1, FS_Interval
  <2> HIDE DEF order, all
  <2>4. QED
    BY <2>2, <2>3, FS_Surjection, Zenon
<1> HIDE DEF all
<1>4. orders \subseteq all
  BY <1>1
<1> HIDE DEF orders
<1>5. QED
  BY <1>2, <1>3, <1>4, FS_Subset DEF orders

\* A game without Findings has none of any kind.
LEMMA SoundGames ==
    ASSUME NEW game, Compiler!Findings(game) # Refused, Compiler!Findings(game) = {}
    PROVE  /\ Compiler!ReferenceFindings(game) = {} /\ Compiler!ChronologyFindings(game) = {}
           /\ \A items \in Compiler!Identified(game) :
                 Compiler!Blockers("duplicate-id", Compiler!Repeated(items)) = {}
           /\ ~Compiler!ProgressionRaises(game) /\ Compiler!ProgressionFindings(game) = {}
           /\ game.program # None => /\ ~Compiler!ProgramRaises(game)
                                     /\ Compiler!CharacterFindings(game) = {}
<1> DEFINE duplicates == UNION {Compiler!Blockers("duplicate-id", Compiler!Repeated(items)) :
                                  items \in Compiler!Identified(game)}
           found == Compiler!KernelFindings(game) \cup Compiler!TruthFindings(game)
                    \cup Compiler!ReferenceFindings(game) \cup Compiler!ChronologyFindings(game)
                    \cup Compiler!ContractFindings(game) \cup duplicates
           raises == \/ Compiler!ProgressionRaises(game)
                     \/ game.program # None /\ Compiler!ProgramRaises(game)
           programs == IF game.program = None THEN {} ELSE Compiler!CharacterFindings(game)
           all == Compiler!Findings(game)
<1>1. all = IF \E f \in found : f[1] = "dangling-reference" THEN found
            ELSE IF raises THEN Refused
            ELSE found \cup Compiler!ProgressionFindings(game) \cup programs
  BY Zenon DEF Compiler!Findings
<1> HIDE DEF found, raises, programs, all
<1>2. ~raises /\ found = {} /\ Compiler!ProgressionFindings(game) = {} /\ programs = {}
  <2>1. all # Refused /\ all = {}
    BY DEF all
  <2>2. QED
    BY <1>1, <2>1
<1>3. /\ Compiler!ReferenceFindings(game) = {} /\ Compiler!ChronologyFindings(game) = {}
      /\ duplicates = {}
  <2> HIDE DEF duplicates
  <2>1. QED
    BY <1>2 DEF found
<1>4. QED
  BY <1>2, <1>3 DEF raises, programs

\* Of a game without Findings every name of a Phase, of evidence and of a seat that the
\* proofs need leads somewhere, and what is revealed is granted.
LEMMA SoundReferences ==
    ASSUME NEW game, Compiler!Findings(game) # Refused, Compiler!Findings(game) = {}
    PROVE  /\ \A v \in Compiler!ToSet(game.reveals) :
                 /\ v.phase \in Compiler!IdsOf(game.phases)
                 /\ v.audience \subseteq Compiler!MayOpen(game, v.evidence)
           /\ game.resolution.phase \in Compiler!IdsOf(game.phases)
           /\ Compiler!SupportedSeats(game) \subseteq Compiler!IdsOf(game.seats)
           /\ \A c \in Compiler!ToSet(game.casts) : c.seats \subseteq Compiler!SupportedSeats(game)
<1> DEFINE phases == Compiler!IdsOf(game.phases)
           seats == Compiler!IdsOf(game.seats)
           found == Compiler!ReferenceFindings(game)
<1>1. \A names, present : Compiler!Dangling(names, present) = {} => names \subseteq present
  BY DEF Compiler!Dangling, Compiler!Blockers
<1>2. /\ \A v \in Compiler!ToSet(game.reveals) : Compiler!Dangling({v.phase}, phases) \subseteq found
      /\ Compiler!Dangling({game.resolution.phase}, phases) \subseteq found
      /\ Compiler!Dangling(Compiler!SupportedSeats(game), seats) \subseteq found
  <2>1. ASSUME NEW x \in Compiler!Dangling({game.resolution.phase}, phases) PROVE x \in found
    BY Zenon DEF Compiler!ReferenceFindings
  <2>2. ASSUME NEW x \in Compiler!Dangling(Compiler!SupportedSeats(game), seats) PROVE x \in found
    BY Zenon DEF Compiler!ReferenceFindings
  <2>3. ASSUME NEW v \in Compiler!ToSet(game.reveals), NEW x \in Compiler!Dangling({v.phase}, phases)
        PROVE  x \in found
    <3> DEFINE Lost(r) == Compiler!Dangling({r.evidence}, Compiler!IdsOf(game.evidence))
                          \cup Compiler!Dangling({r.phase}, phases)
                          \cup Compiler!Dangling(r.audience, seats)
    <3>1. ASSUME NEW y \in UNION {Lost(r) : r \in Compiler!ToSet(game.reveals)} PROVE y \in found
      BY Zenon DEF Compiler!ReferenceFindings
    <3>2. x \in Lost(v)
      BY <2>3
    <3> HIDE DEF Lost, found
    <3>3. QED
      BY <3>1, <3>2
  <2> HIDE DEF found, phases, seats
  <2>4. QED
    BY <2>1, <2>2, <2>3
<1>3. found = {}
  BY SoundGames
<1> HIDE DEF found
<1>4. Compiler!UnauthorizedReveals(game) = {}
  <2>1. Compiler!ProgressionFindings(game) = {}
    BY SoundGames
  <2>2. Compiler!Blockers("unauthorized-disclosure", Compiler!UnauthorizedReveals(game)) = {}
    BY <2>1 DEF Compiler!ProgressionFindings
  <2>3. QED
    BY <2>2 DEF Compiler!Blockers
<1>5. \A v \in Compiler!ToSet(game.reveals) : v.audience \subseteq Compiler!MayOpen(game, v.evidence)
  BY <1>4 DEF Compiler!UnauthorizedReveals
<1>6. \A c \in Compiler!ToSet(game.casts) : c.seats \subseteq Compiler!SupportedSeats(game)
  BY DEF Compiler!SupportedSeats, Compiler!ToSet
<1> HIDE DEF phases, seats
<1>7. /\ Compiler!Dangling({game.resolution.phase}, phases) = {}
      /\ Compiler!Dangling(Compiler!SupportedSeats(game), seats) = {}
      /\ \A v \in Compiler!ToSet(game.reveals) : Compiler!Dangling({v.phase}, phases) = {}
  BY <1>2, <1>3
<1>8. /\ {game.resolution.phase} \subseteq phases
      /\ Compiler!SupportedSeats(game) \subseteq seats
      /\ \A v \in Compiler!ToSet(game.reveals) : {v.phase} \subseteq phases
  BY <1>1, <1>7, Zenon
<1>9. QED
  BY <1>5, <1>6, <1>8 DEF phases, seats

\* What a cast knows in a Phase, and whether it can prove a Hypothesis of it without what
\* it overlooks.
KnownTo(game, cast, phase) == UNION {Compiler!AvailableEvidence(game, s, phase) : s \in cast.seats}
CanProve(game, cast, phase, lost) ==
    \E p \in Compiler!Acceptable(game) : p.evidence \subseteq KnownTo(game, cast, phase) \ lost

\* What has reached a seat by a Phase is what it may open and was shown by then.
LEMMA ReachedIs ==
    ASSUME NEW game, NEW e, NEW s, NEW n
    PROVE  <<e, s, n>> \in Compiler!Reaches(game)
             <=> /\ s \in Compiler!SupportedSeats(game) /\ s \in Compiler!MayOpen(game, e)
                 /\ n <= Compiler!ResolutionOrder(game)
                 /\ \E v \in Compiler!ToSet(game.reveals) :
                       /\ v.evidence = e /\ s \in v.audience /\ n = Compiler!Order(game)[v.phase]
<1> DEFINE reached == {rs \in Compiler!ToSet(game.reveals) \X Compiler!SupportedSeats(game) :
                         /\ rs[2] \in rs[1].audience \cap Compiler!MayOpen(game, rs[1].evidence)
                         /\ Compiler!Order(game)[rs[1].phase] <= Compiler!ResolutionOrder(game)}
           Reach(rs) == <<rs[1].evidence, rs[2], Compiler!Order(game)[rs[1].phase]>>
<1>1. Compiler!Reaches(game) = {Reach(rs) : rs \in reached}
  BY Zenon DEF Compiler!Reaches
<1>2. \A rs : <<e, s, n>> = Reach(rs) <=> /\ rs[1].evidence = e /\ rs[2] = s
                                         /\ n = Compiler!Order(game)[rs[1].phase]
  OBVIOUS
<1>3. <<e, s, n>> \in Compiler!Reaches(game) <=> \E rs \in reached : <<e, s, n>> = Reach(rs)
  <2> HIDE DEF reached, Reach
  <2>1. QED
    BY <1>1
<1> HIDE DEF Reach
<1>4. (\E rs \in reached : <<e, s, n>> = Reach(rs))
        <=> \E v \in Compiler!ToSet(game.reveals), t \in Compiler!SupportedSeats(game) :
               /\ t \in v.audience /\ t \in Compiler!MayOpen(game, v.evidence)
               /\ Compiler!Order(game)[v.phase] <= Compiler!ResolutionOrder(game)
               /\ v.evidence = e /\ t = s /\ n = Compiler!Order(game)[v.phase]
  <2>1. ASSUME NEW rs \in reached, <<e, s, n>> = Reach(rs)
        PROVE  /\ rs[1] \in Compiler!ToSet(game.reveals) /\ rs[2] \in Compiler!SupportedSeats(game)
               /\ rs[2] \in rs[1].audience /\ rs[2] \in Compiler!MayOpen(game, rs[1].evidence)
               /\ Compiler!Order(game)[rs[1].phase] <= Compiler!ResolutionOrder(game)
               /\ rs[1].evidence = e /\ rs[2] = s /\ n = Compiler!Order(game)[rs[1].phase]
    BY <1>2, <2>1
  <2>2. ASSUME NEW v \in Compiler!ToSet(game.reveals), NEW t \in Compiler!SupportedSeats(game),
               t \in v.audience, t \in Compiler!MayOpen(game, v.evidence),
               Compiler!Order(game)[v.phase] <= Compiler!ResolutionOrder(game),
               v.evidence = e, t = s, n = Compiler!Order(game)[v.phase]
        PROVE  <<v, t>> \in reached /\ <<e, s, n>> = Reach(<<v, t>>)
    <3> DEFINE rs == <<v, t>>
    <3>1. rs[1] = v /\ rs[2] = t
      OBVIOUS
    <3>2. rs \in Compiler!ToSet(game.reveals) \X Compiler!SupportedSeats(game)
      OBVIOUS
    <3> HIDE DEF rs
    <3>3. rs \in reached /\ <<e, s, n>> = Reach(rs)
      BY <1>2, <2>2, <3>1, <3>2
    <3>4. QED
      BY <3>3 DEF rs
  <2> HIDE DEF reached
  <2>3. QED
    BY <2>1, <2>2
<1>5. QED
  BY <1>3, <1>4, Zenon

LEMMA ReachesAreTriples ==
    ASSUME NEW game, NEW r \in Compiler!Reaches(game)
    PROVE  r = <<r[1], r[2], r[3]>>
BY DEF Compiler!Reaches

\* A seat has evidence in a Phase exactly if it has reached the seat by then.
LEMMA AvailableIs ==
    ASSUME NEW game, NEW s \in Compiler!IdsOf(game.seats), NEW phase, NEW e
    PROVE  e \in Compiler!AvailableEvidence(game, s, phase)
             <=> /\ s \in Compiler!MayOpen(game, e)
                 /\ \E v \in Compiler!ToSet(game.reveals) :
                       /\ v.evidence = e /\ s \in v.audience
                       /\ Compiler!Order(game)[v.phase] <= Compiler!Order(game)[phase]
BY DEF Compiler!AvailableEvidence, Compiler!MayOpen, Compiler!ResourceOf

LEMMA SoundProofs ==
    ASSUME NEW game, Compiler!Findings(game) # Refused, Compiler!Findings(game) = {}
    PROVE  /\ Compiler!InaccessibleCasts(game) = {}
           /\ Compiler!Acceptable(game) # {}
           /\ \A e : \E p \in Compiler!Acceptable(game) : e \notin p.evidence
           /\ \A p \in Compiler!Acceptable(game) :
                 /\ p.evidence # {} /\ p.evidence \subseteq {r[1] : r \in Compiler!Reaches(game)}
                 /\ ~(Compiler!CompleteAt(game, p) < Compiler!ResolutionOrder(game))
<1> DEFINE proofs == Compiler!Acceptable(game)
           critical == Compiler!CriticalEvidence(game)
           stuck == Compiler!InaccessibleCasts(game)
           single == \/ Compiler!Cardinality(proofs) < 2
                     \/ \E e \in critical : \A p \in proofs : e \in p.evidence
           early == {p.id : p \in {q \in proofs : Compiler!CompleteAt(game, q)
                                                    < Compiler!ResolutionOrder(game)}}
           found == Compiler!ProofFindings(game)
<1>1. found = {} /\ ~Compiler!ProgressionRaises(game)
  <2>1. Compiler!ProgressionFindings(game) = {} /\ ~Compiler!ProgressionRaises(game)
    BY SoundGames
  <2>2. \A x \in found : x \in Compiler!ProgressionFindings(game)
    <3> HIDE DEF found
    <3>1. QED
      BY Zenon DEF Compiler!ProgressionFindings, found
  <2> HIDE DEF found
  <2>3. QED
    BY <2>1, <2>2
<1>2. found = IF stuck # {} THEN Compiler!Blockers("inaccessible-critical-evidence", stuck)
              ELSE (IF single THEN {<<"single-point-proof-failure", "resolution">>} ELSE {})
                   \cup Compiler!Blockers("premature-proof", early)
  BY Zenon DEF Compiler!ProofFindings
<1>3. \A code, quotes : Compiler!Blockers(code, quotes) = {} => quotes = {}
  BY DEF Compiler!Blockers
<1> HIDE DEF found, single
<1>4. stuck = {} /\ ~single /\ early = {}
  <2> HIDE DEF stuck, early
  <2>1. stuck = {}
    BY <1>1, <1>2, <1>3
  <2>2. ~single /\ Compiler!Blockers("premature-proof", early) = {}
    BY <1>1, <1>2, <2>1
  <2>3. QED
    BY <1>3, <2>1, <2>2
<1>5. proofs # {}
  <2>1. Compiler!Cardinality({}) = 0
    <3>1. Cardinality({}) = 0
      BY FS_EmptySet
    <3>2. QED
      BY <3>1, Zenon DEF Compiler!Cardinality, Cardinality
  <2> HIDE DEF proofs
  <2>2. QED
    BY <1>4, <2>1 DEF single
<1>6. \A e : \E p \in proofs : e \notin p.evidence
  <2>1. \A e \in critical : \E p \in proofs : e \notin p.evidence
    BY <1>4 DEF single
  <2>2. \A p \in proofs : p.evidence \subseteq critical
    BY DEF Compiler!CriticalEvidence
  <2> HIDE DEF proofs, critical
  <2>3. QED
    BY <1>5, <2>1, <2>2
<1>7. \A p \in proofs : /\ p.evidence # {} /\ p.evidence \subseteq {r[1] : r \in Compiler!Reaches(game)}
  BY <1>1, <1>4 DEF Compiler!ProgressionRaises
<1>8. \A p \in proofs : ~(Compiler!CompleteAt(game, p) < Compiler!ResolutionOrder(game))
  <2> HIDE DEF proofs
  <2>1. QED
    BY <1>4
<1>9. QED
  BY <1>4, <1>5, <1>6, <1>7, <1>8

\* Where no id is written twice, it stands for the item that has it.
LEMMA DistinctItems ==
    ASSUME NEW items, IsLog(items), Compiler!Repeated(items) = {}
    PROVE  \A x \in Compiler!ToSet(items) : /\ x.id \in Compiler!IdsOf(items)
                                            /\ Compiler!ById(items)[x.id] = x
<1>1. Len(items) \in Nat /\ DOMAIN items = 1..Len(items)
  BY LogFacts
<1>2. \A i, j \in DOMAIN items : items[i].id = items[j].id => i = j
  <2>1. ASSUME NEW i \in DOMAIN items, NEW j \in DOMAIN items, items[i].id = items[j].id, i < j
        PROVE  FALSE
    <3>1. i \in 1..(j - 1)
      BY <1>1, <2>1
    <3>2. items[j].id \in Compiler!Repeated(items)
      BY <2>1, <3>1 DEF Compiler!Repeated
    <3>3. QED
      BY <3>2
  <2>2. \A i, j \in DOMAIN items : i < j \/ j < i \/ i = j
    BY <1>1
  <2>3. QED
    BY <2>1, <2>2
<1>3. ASSUME NEW x \in Compiler!ToSet(items)
      PROVE  x.id \in Compiler!IdsOf(items) /\ Compiler!ById(items)[x.id] = x
  <2>1. PICK i \in DOMAIN items : x = items[i]
    BY DEF Compiler!ToSet
  <2>2. x.id \in Compiler!IdsOf(items)
    BY <2>1 DEF Compiler!IdsOf
  <2>3. /\ Compiler!ById(items)[x.id] \in Compiler!ToSet(items)
        /\ Compiler!ById(items)[x.id].id = x.id
    BY <2>2, NamedItems
  <2>4. PICK j \in DOMAIN items : Compiler!ById(items)[x.id] = items[j]
    BY <2>3 DEF Compiler!ToSet
  <2>5. i = j
    BY <1>2, <2>1, <2>3, <2>4
  <2>6. QED
    BY <2>1, <2>2, <2>4, <2>5
<1>4. QED
  BY <1>3

\* Among any events of a game without Findings some come before all that they follow from.
LEMMA SoundChronology ==
    ASSUME NEW game, IsRead(game), Compiler!Findings(game) # Refused, Compiler!Findings(game) = {}
    PROVE  \A some \in (SUBSET Compiler!ToSet(game.events)) \ {{}} :
              \E first \in some : first.causes \cap {x.id : x \in some} = {}
<1> DEFINE events == Compiler!ToSet(game.events)
<1>1. Compiler!Repeated(game.events) = {}
  <2>1. game.events \in Compiler!Identified(game)
    BY DEF Compiler!Identified
  <2>2. Compiler!Blockers("duplicate-id", Compiler!Repeated(game.events)) = {}
    BY <2>1, SoundGames
  <2>3. QED
    BY <2>2 DEF Compiler!Blockers
<1>2. \A x \in events : /\ x.id \in Compiler!IdsOf(game.events)
                        /\ Compiler!ById(game.events)[x.id] = x
  BY <1>1, DistinctItems DEF IsRead
<1>3. \A x \in events, c \in Compiler!IdsOf(game.events) :
         c \in x.causes => ~(Compiler!ById(game.events)[c].order >= x.order)
  <2>1. Compiler!ChronologyFindings(game) = {}
    BY SoundGames
  <2>2. DOMAIN Compiler!ById(game.events) = Compiler!IdsOf(game.events)
    BY DEF Compiler!ById
  <2>3. {e.id : e \in {f \in events : \E c \in f.causes \cap DOMAIN Compiler!ById(game.events) :
                         Compiler!ById(game.events)[c].order >= f.order}} = {}
    BY <2>1 DEF Compiler!ChronologyFindings, Compiler!Blockers
  <2>4. QED
    BY <2>2, <2>3
<1>4. ASSUME NEW some \in (SUBSET events) \ {{}}
      PROVE  \E first \in some : first.causes \cap {x.id : x \in some} = {}
  <2> DEFINE orders == {x.order : x \in some}
             all == {x.order : x \in events}
             order == [i \in 1..Len(game.events) |-> game.events[i].order]
  <2>0. some \in SUBSET events /\ some # {}
    OBVIOUS
  <2>1. Len(game.events) \in Nat /\ DOMAIN game.events = 1..Len(game.events)
    <3>1. IsLog(game.events)
      BY DEF IsRead
    <3>2. QED
      BY <3>1, LogFacts
  <2>2. IsFiniteSet(all)
    <3>1. order \in Surjection(1..Len(game.events), all)
      BY <2>1 DEF Surjection, Compiler!ToSet
    <3>2. IsFiniteSet(1..Len(game.events))
      BY <2>1, FS_Interval
    <3> HIDE DEF order, all
    <3>3. QED
      BY <3>1, <3>2, FS_Surjection, Zenon
  <2>3. all \subseteq Int
    BY DEF IsRead
  <2>4. orders \subseteq all /\ orders # {}
    BY <2>0
  <2>5. \E m \in orders : \A n \in orders : m <= n
    <3> HIDE DEF orders, all
    <3>1. IsFiniteSet(orders) /\ orders \in SUBSET Int
      BY <2>2, <2>3, <2>4, FS_Subset
    <3>2. QED
      BY <2>4, <3>1, LeastOfFinite
  <2>6. PICK first \in some : \A y \in some : first.order <= y.order
    BY <2>5
  <2>7. ASSUME NEW y \in some, y.id \in first.causes PROVE FALSE
    <3>1. y.id \in Compiler!IdsOf(game.events) /\ Compiler!ById(game.events)[y.id] = y
      BY <1>2, <2>0
    <3>2. ~(y.order >= first.order)
      BY <1>3, <2>0, <2>7, <3>1
    <3>3. first.order \in Int /\ y.order \in Int /\ first.order <= y.order
      BY <2>0, <2>6 DEF IsRead
    <3>4. QED
      BY <3>2, <3>3
  <2>8. QED
    BY <2>7
<1>5. QED
  BY <1>4

\* Whatever one piece of evidence a cast overlooks, in the Phase of the resolution it can
\* prove a Hypothesis that the resolution accepts.
LEMMA SoundInTheEnd ==
    ASSUME NEW game, Compiler!Findings(game) # Refused, Compiler!Findings(game) = {},
           NEW c \in Compiler!ToSet(game.casts), NEW e
    PROVE  CanProve(game, c, game.resolution.phase, {e})
<1>1. PICK p \in Compiler!Acceptable(game) : e \notin p.evidence
  BY SoundProofs
<1>2. ASSUME NEW x \in p.evidence
      PROVE  x \in KnownTo(game, c, game.resolution.phase)
  <2>1. x \in Compiler!CriticalEvidence(game)
    BY DEF Compiler!CriticalEvidence
  <2>2. Compiler!InaccessibleCasts(game) = {}
    BY SoundProofs
  <2>3. PICK r \in Compiler!Reaches(game) : r[1] = x /\ r[2] \in c.seats
    BY <2>1, <2>2 DEF Compiler!InaccessibleCasts
  <2>4. <<x, r[2], r[3]>> \in Compiler!Reaches(game)
    BY <2>3, ReachesAreTriples
  <2>5. PICK v \in Compiler!ToSet(game.reveals) : /\ v.evidence = x /\ r[2] \in v.audience
                                                 /\ r[3] = Compiler!Order(game)[v.phase]
    BY <2>4, ReachedIs
  <2>6. /\ r[2] \in Compiler!SupportedSeats(game) /\ r[2] \in Compiler!MayOpen(game, x)
        /\ r[3] <= Compiler!ResolutionOrder(game)
    BY <2>4, ReachedIs
  <2>7. r[2] \in Compiler!IdsOf(game.seats)
    BY <2>6, SoundReferences
  <2>8. x \in Compiler!AvailableEvidence(game, r[2], game.resolution.phase)
    <3>1. Compiler!ResolutionOrder(game) = Compiler!Order(game)[game.resolution.phase]
      BY DEF Compiler!ResolutionOrder
    <3>2. Compiler!Order(game)[v.phase] <= Compiler!Order(game)[game.resolution.phase]
      BY <2>5, <2>6, <3>1
    <3>3. QED
      BY <2>5, <2>6, <2>7, <3>2, AvailableIs
  <2>9. QED
    BY <2>3, <2>8 DEF KnownTo
<1>3. QED
  BY <1>1, <1>2 DEF CanProve

\* No cast can prove one before, with all that it was shown.
LEMMA SoundUntilThen ==
    ASSUME NEW game, IsRead(game), Compiler!Findings(game) # Refused, Compiler!Findings(game) = {},
           NEW c \in Compiler!ToSet(game.casts), NEW phase \in Compiler!IdsOf(game.phases),
           Compiler!Order(game)[phase] < Compiler!ResolutionOrder(game)
    PROVE  ~CanProve(game, c, phase, {})
<1> SUFFICES ASSUME CanProve(game, c, phase, {}) PROVE FALSE
  OBVIOUS
<1> DEFINE orders == {Compiler!Order(game)[p] : p \in Compiler!IdsOf(game.phases)}
           now == Compiler!Order(game)[phase]
           final == Compiler!ResolutionOrder(game)
<1>1. PICK q \in Compiler!Acceptable(game) : q.evidence \subseteq KnownTo(game, c, phase)
  BY DEF CanProve
<1>2. orders \subseteq Int /\ IsFiniteSet(orders)
  BY OrdersAreFinite
<1>3. now \in orders /\ final \in orders
  BY SoundReferences DEF Compiler!ResolutionOrder
<1> HIDE DEF final, now
<1>4. now \in Int /\ final \in Int
  <2> HIDE DEF orders
  <2>1. QED
    BY <1>2, <1>3
<1>5. now < final
  BY DEF now, final
<1>6. ASSUME NEW e \in q.evidence
      PROVE  Compiler!FirstOrder(game, e) \in orders /\ Compiler!FirstOrder(game, e) <= now
  <2> DEFINE times == {r[3] : r \in {x \in Compiler!Reaches(game) : x[1] = e}}
  <2>1. PICK s \in c.seats : e \in Compiler!AvailableEvidence(game, s, phase)
    BY <1>1 DEF KnownTo
  <2>2. s \in Compiler!SupportedSeats(game) /\ s \in Compiler!IdsOf(game.seats)
    BY SoundReferences
  <2>3. PICK v \in Compiler!ToSet(game.reveals) : /\ v.evidence = e /\ s \in v.audience
                                                 /\ Compiler!Order(game)[v.phase] <= now
    BY <2>1, <2>2, AvailableIs DEF now
  <2>4. s \in Compiler!MayOpen(game, e)
    BY <2>1, <2>2, AvailableIs
  <2> DEFINE then == Compiler!Order(game)[v.phase]
  <2>5. then \in orders
    BY SoundReferences
  <2>6. then \in Int /\ then <= now
    <3> HIDE DEF orders, then
    <3>1. then \in Int
      BY <1>2, <2>5
    <3>2. QED
      BY <2>3, <3>1 DEF then
  <2>7. then <= final
    <3> HIDE DEF then
    <3>1. QED
      BY <1>4, <1>5, <2>6
  <2>8. <<e, s, then>> \in Compiler!Reaches(game)
    BY <2>2, <2>3, <2>4, <2>7, ReachedIs DEF final
  <2>9. then \in times
    <3> DEFINE r == <<e, s, then>>
    <3>1. r[1] = e /\ r[3] = then
      OBVIOUS
    <3> HIDE DEF r, then
    <3>2. r \in Compiler!Reaches(game)
      BY <2>8 DEF r, then
    <3>3. QED
      BY <3>1, <3>2
  <2>10. times \subseteq orders
    <3>1. ASSUME NEW r \in Compiler!Reaches(game) PROVE r[3] \in orders
      <4>1. <<r[1], r[2], r[3]>> \in Compiler!Reaches(game)
        BY ReachesAreTriples
      <4>2. PICK w \in Compiler!ToSet(game.reveals) : r[3] = Compiler!Order(game)[w.phase]
        BY <4>1, ReachedIs
      <4>3. QED
        BY <4>2, SoundReferences
    <3> HIDE DEF orders
    <3>2. QED
      BY <3>1
  <2>11. Compiler!FirstOrder(game, e) = Compiler!Min(times)
    BY Zenon DEF Compiler!FirstOrder
  <2> HIDE DEF times, orders, then
  <2>12. IsFiniteSet(times) /\ times \in SUBSET Int /\ times # {}
    BY <1>2, <2>9, <2>10, FS_Subset
  <2>13. Compiler!Min(times) \in times /\ Compiler!Min(times) <= then
    BY <2>9, <2>12, FiniteBounds
  <2>14. Compiler!Min(times) \in Int
    BY <2>12, <2>13
  <2>15. QED
    BY <1>4, <2>6, <2>10, <2>11, <2>13, <2>14
<1> DEFINE firsts == {Compiler!FirstOrder(game, e) : e \in q.evidence}
<1>7. firsts \subseteq orders /\ (\A n \in firsts : n <= now) /\ firsts # {}
  <2>1. q.evidence # {}
    BY SoundProofs
  <2> HIDE DEF orders
  <2>2. QED
    BY <1>6, <2>1
<1>8. Compiler!CompleteAt(game, q) = Compiler!Max(firsts)
  BY Zenon DEF Compiler!CompleteAt
<1>9. ~(Compiler!CompleteAt(game, q) < final)
  BY SoundProofs DEF final
<1> HIDE DEF firsts, orders
<1>10. IsFiniteSet(firsts) /\ firsts \in SUBSET Int
  BY <1>2, <1>7, FS_Subset
<1>11. Compiler!Max(firsts) \in firsts
  BY <1>7, <1>10, FiniteBounds
<1>12. Compiler!Max(firsts) \in Int /\ Compiler!Max(firsts) <= now
  BY <1>7, <1>10, <1>11
<1>13. QED
  BY <1>4, <1>5, <1>8, <1>9, <1>12

\* validate_game: a game without Findings can be solved, and not too soon.  In the Phase of
\* the resolution every cast can prove an accepted Hypothesis from what its seats were
\* shown, even if it overlooks any one piece of evidence; in an earlier Phase none can; and
\* its chronology has no circle of causes: of any events some one follows from none of them.
THEOREM SoundGamesCanBeSolved ==
    ASSUME NEW game, IsRead(game), Compiler!Findings(game) # Refused, Compiler!Findings(game) = {}
    PROVE  /\ \A c \in Compiler!ToSet(game.casts) : \A e :
                 CanProve(game, c, game.resolution.phase, {e})
           /\ \A c \in Compiler!ToSet(game.casts), phase \in Compiler!IdsOf(game.phases) :
                 Compiler!Order(game)[phase] < Compiler!ResolutionOrder(game)
                    => ~CanProve(game, c, phase, {})
           /\ \A some \in (SUBSET Compiler!ToSet(game.events)) \ {{}} :
                 \E first \in some : first.causes \cap {x.id : x \in some} = {}
BY SoundInTheEnd, SoundUntilThen, SoundChronology

\* Of a game without Findings there is none against any Dossier.
LEMMA SoundPrograms ==
    ASSUME NEW game, Compiler!Findings(game) # Refused, Compiler!Findings(game) = {},
           game.program # None
    PROVE  /\ ~Compiler!Overlaps(game.program.public, game.program.grants, game.program.hostOnly)
           /\ ~Compiler!Overlaps(game.program.publicEvents, game.program.eventGrants,
                                 game.program.hostEvents)
           /\ \A d \in Compiler!ToSet(game.program.dossiers) :
                 Compiler!IsSomebodys(game, d) /\ Compiler!DossierFindings(game, d) = {}
<1> DEFINE program == game.program
           overlaps == \/ Compiler!Overlaps(program.public, program.grants, program.hostOnly)
                       \/ Compiler!Overlaps(program.publicEvents, program.eventGrants,
                                            program.hostEvents)
           dossiers == Compiler!ToSet(program.dossiers)
           all == UNION {Compiler!DossierFindings(game, d) : d \in dossiers}
<1>1. Compiler!CharacterFindings(game) = Compiler!ProgramFindings(game, program) \cup all
  BY Zenon DEF Compiler!CharacterFindings
<1>2. Compiler!CharacterFindings(game) = {}
  BY SoundGames
<1> HIDE DEF all
<1>3. Compiler!ProgramFindings(game, program) = {} /\ all = {}
  BY <1>1, <1>2
<1>4. ~overlaps
  <2> DEFINE told == IF overlaps THEN {<<"knowledge-overlap", "program">>} ELSE {}
  <2>1. ASSUME NEW x \in told PROVE x \in Compiler!ProgramFindings(game, program)
    BY Zenon DEF Compiler!ProgramFindings
  <2> HIDE DEF overlaps
  <2>2. QED
    BY <1>3, <2>1
<1>5. \A d \in dossiers : Compiler!DossierFindings(game, d) = {}
  <2> HIDE DEF dossiers
  <2>1. QED
    BY <1>3 DEF all
<1>6. \A d \in dossiers : Compiler!IsSomebodys(game, d)
  <2>1. \A d : ~Compiler!IsSomebodys(game, d) => Compiler!DossierFindings(game, d) # {}
    BY DEF Compiler!DossierFindings
  <2> HIDE DEF dossiers
  <2>2. QED
    BY <1>5, <2>1
<1>7. QED
  BY <1>4, <1>5, <1>6

LEMMA OrderOfPhase ==
    ASSUME NEW game, IsRead(game), NEW p \in Compiler!IdsOf(game.phases)
    PROVE  Compiler!Order(game)[p] \in Int
BY OrdersAreFinite

\* What a seat may know is nothing of the host's.
LEMMA KnownIsNotTheHosts ==
    ASSUME NEW public, NEW grants, NEW hosts, ~Compiler!Overlaps(public, grants, hosts), NEW seat,
           NEW x \in public \cup Compiler!GrantedTo(grants, seat)
    PROVE  /\ x \notin hosts
           /\ x \in public \/ \E g \in grants : g.id = x /\ seat \in g.seats
BY DEF Compiler!Overlaps, Compiler!GrantedTo

\* A text without Findings cites what its seat may know.
LEMMA SoundTexts ==
    ASSUME NEW game, NEW d, NEW t, Compiler!TextFindings(game, d, t) = {}
    PROVE  /\ t.propositions \subseteq Compiler!PropositionsFor(game.program, d.seat)
           /\ t.events \subseteq Compiler!EventsFor(game.program, d.seat)
           /\ \A e \in t.evidence : Compiler!RevealOrders(game, e, d.seat) # {}
<1> DEFINE propositions == t.propositions \ Compiler!PropositionsFor(game.program, d.seat)
           events == t.events \ Compiler!EventsFor(game.program, d.seat)
           evidence == {e \in t.evidence : \/ e \notin Compiler!IdsOf(game.evidence)
                                           \/ Compiler!RevealOrders(game, e, d.seat) = {}}
           told == Compiler!Blockers("unauthorized-knowledge", propositions \cup events \cup evidence)
<1>1. \A x \in told : x \in Compiler!TextFindings(game, d, t)
  BY Zenon DEF Compiler!TextFindings
<1> HIDE DEF propositions, events, evidence
<1>2. propositions \cup events \cup evidence = {}
  BY <1>1 DEF Compiler!Blockers
<1>3. propositions = {} /\ events = {} /\ evidence = {}
  BY <1>2
<1>4. QED
  BY <1>3 DEF propositions, events, evidence

\* An Arc that is looked at names Moves that there are, of evidence that the seat was shown.
LEMMA SoundArcs ==
    ASSUME NEW game, NEW d, Compiler!ArcFindings(game, d) = {}
    PROVE  /\ Compiler!ArcPhases(d) = Compiler!IdsOf(game.phases)
           /\ \A phase \in Compiler!ArcPhases(d) :
                 /\ Compiler!ArcOf(d, phase).moves \subseteq Compiler!IdsOf(d.moves)
                 /\ Compiler!Unavailable(game, d, Compiler!ArcOf(d, phase)) = {}
<1> DEFINE moves == Compiler!ById(d.moves)
           Of(p) == LET arc == Compiler!ArcOf(d, p)
                        kinds == {moves[m].kind : m \in arc.moves \cap DOMAIN moves}
                    IN Compiler!Dangling(arc.moves, DOMAIN moves)
                       \cup Compiler!Unless({"action", "fallback", "after_exposure"} \subseteq kinds,
                                            "dead-end-state", d)
                       \cup Compiler!Blockers("unavailable-evidence",
                                              Compiler!Unavailable(game, d, arc))
           gaps == Compiler!Unless(Compiler!ArcPhases(d) = Compiler!IdsOf(game.phases),
                                   "incomplete-phase-arc", d)
           all == UNION {Of(p) : p \in Compiler!ArcPhases(d)}
<1>1. Compiler!ArcFindings(game, d) = all \cup gaps
  BY Zenon DEF Compiler!ArcFindings
<1> HIDE DEF all, gaps
<1>2. all = {} /\ gaps = {}
  BY <1>1
<1>3. DOMAIN moves = Compiler!IdsOf(d.moves)
  BY DEF Compiler!ById
<1>4. ASSUME NEW phase \in Compiler!ArcPhases(d)
      PROVE  /\ Compiler!ArcOf(d, phase).moves \subseteq Compiler!IdsOf(d.moves)
             /\ Compiler!Unavailable(game, d, Compiler!ArcOf(d, phase)) = {}
  <2>1. Of(phase) = {}
    <3> HIDE DEF Of
    <3>1. QED
      BY <1>2 DEF all
  <2> HIDE DEF moves
  <2>2. /\ Compiler!Dangling(Compiler!ArcOf(d, phase).moves, DOMAIN moves) = {}
        /\ Compiler!Blockers("unavailable-evidence",
                             Compiler!Unavailable(game, d, Compiler!ArcOf(d, phase))) = {}
    BY <2>1
  <2>3. QED
    BY <1>3, <2>2 DEF Compiler!Dangling, Compiler!Blockers
<1>5. Compiler!ArcPhases(d) = Compiler!IdsOf(game.phases)
  BY <1>2 DEF gaps, Compiler!Unless
<1>6. QED
  BY <1>4, <1>5

\* An Arc that is the only one of its Phase is both the one shown and the one looked at.
LEMMA OnlyArcs ==
    ASSUME NEW d, IsLog(d.arcs), NEW phase \in Compiler!ArcPhases(d),
           \A i, j \in DOMAIN d.arcs : d.arcs[i].phase = d.arcs[j].phase => i = j
    PROVE  /\ Compiler!ShownArc(d, phase) = Compiler!ArcOf(d, phase)
           /\ Compiler!ArcOf(d, phase).phase = phase
<1> DEFINE places == {i \in DOMAIN d.arcs : d.arcs[i].phase = phase}
<1>1. DOMAIN d.arcs = 1..Len(d.arcs) /\ Len(d.arcs) \in Nat
  BY LogFacts
<1>2. PICK i \in DOMAIN d.arcs : d.arcs[i].phase = phase
  BY DEF Compiler!ArcPhases, Compiler!ToSet
<1>3. i \in Int
  BY <1>1
<1>4. places = {i}
  BY <1>2
<1>5. Compiler!Min(places) = i /\ Compiler!Max(places) = i
  <2> HIDE DEF places
  <2>1. Compiler!Min({i}) = i /\ Compiler!Max({i}) = i
    BY <1>3 DEF Compiler!Min, Compiler!Max
  <2>2. QED
    BY <1>4, <2>1
<1>6. /\ Compiler!ShownArc(d, phase) = d.arcs[Compiler!Min(places)]
      /\ Compiler!ArcOf(d, phase) = d.arcs[Compiler!Max(places)]
  BY Zenon DEF Compiler!ShownArc, Compiler!ArcOf
<1> HIDE DEF places
<1>7. QED
  BY <1>2, <1>5, <1>6

\* validate_character_program: in a game without Findings no text of a Dossier speaks of
\* what only the host is to know: all it says is public or granted to its seat, and each
\* piece of evidence it cites the seat is shown in some Phase.  If it has one Arc for a
\* Phase, the Moves that a player is shown in a Phase cite only evidence that the seat has
\* by then.
THEOREM SoundDossiersAreDiscreet ==
    ASSUME NEW game, IsRead(game), Compiler!Findings(game) # Refused, Compiler!Findings(game) = {},
           game.program # None, NEW d \in Compiler!ToSet(game.program.dossiers)
    PROVE  /\ \A t \in Compiler!TextsOf(d) :
                 /\ t.propositions \cap game.program.hostOnly = {}
                 /\ t.events \cap game.program.hostEvents = {}
                 /\ \A p \in t.propositions : \/ p \in game.program.public
                                              \/ \E g \in game.program.grants :
                                                    g.id = p /\ d.seat \in g.seats
                 /\ \A e \in t.events : \/ e \in game.program.publicEvents
                                        \/ \E g \in game.program.eventGrants :
                                              g.id = e /\ d.seat \in g.seats
                 /\ \A e \in t.evidence : \E phase \in Compiler!IdsOf(game.phases) :
                       e \in Compiler!AvailableEvidence(game, d.seat, phase)
           /\ IsLog(d.arcs) /\ (\A i, j \in DOMAIN d.arcs : d.arcs[i].phase = d.arcs[j].phase => i = j)
                => \A phase \in Compiler!IdsOf(game.phases) :
                      /\ Compiler!PhaseProjection(d, phase).dossier = d.id
                      /\ \A m \in Compiler!PhaseProjection(d, phase).moves :
                            m.instruction.evidence
                              \subseteq Compiler!AvailableEvidence(game, d.seat, phase)
<1> DEFINE program == game.program
<1>1. /\ ~Compiler!Overlaps(program.public, program.grants, program.hostOnly)
      /\ ~Compiler!Overlaps(program.publicEvents, program.eventGrants, program.hostEvents)
      /\ Compiler!IsSomebodys(game, d) /\ Compiler!DossierFindings(game, d) = {}
  BY SoundPrograms
<1>2. d.seat \in Compiler!IdsOf(game.seats)
  BY <1>1 DEF Compiler!IsSomebodys
<1>3. /\ Compiler!ArcFindings(game, d) = {}
      /\ \A t \in Compiler!TextsOf(d) : Compiler!TextFindings(game, d, t) = {}
  <2> DEFINE texts == UNION {Compiler!TextFindings(game, d, t) : t \in Compiler!TextsOf(d)}
  <2>1. /\ \A x \in Compiler!ArcFindings(game, d) : x \in Compiler!DossierFindings(game, d)
        /\ \A x \in texts : x \in Compiler!DossierFindings(game, d)
    BY <1>1, Zenon DEF Compiler!DossierFindings
  <2> HIDE DEF texts
  <2>2. Compiler!ArcFindings(game, d) = {} /\ texts = {}
    BY <1>1, <2>1
  <2>3. QED
    BY <2>2 DEF texts
<1>4. ASSUME NEW e, NEW v \in Compiler!ToSet(game.reveals), v.evidence = e, d.seat \in v.audience
      PROVE  v.phase \in Compiler!IdsOf(game.phases) /\ d.seat \in Compiler!MayOpen(game, e)
  BY <1>4, SoundReferences
<1>5. ASSUME NEW t \in Compiler!TextsOf(d)
      PROVE  /\ t.propositions \cap program.hostOnly = {}
             /\ t.events \cap program.hostEvents = {}
             /\ \A p \in t.propositions : \/ p \in program.public
                                          \/ \E g \in program.grants : g.id = p /\ d.seat \in g.seats
             /\ \A e \in t.events : \/ e \in program.publicEvents
                                    \/ \E g \in program.eventGrants : g.id = e /\ d.seat \in g.seats
             /\ \A e \in t.evidence : \E phase \in Compiler!IdsOf(game.phases) :
                   e \in Compiler!AvailableEvidence(game, d.seat, phase)
  <2>1. /\ t.propositions \subseteq program.public \cup Compiler!GrantedTo(program.grants, d.seat)
        /\ t.events \subseteq program.publicEvents \cup Compiler!GrantedTo(program.eventGrants, d.seat)
        /\ \A e \in t.evidence : Compiler!RevealOrders(game, e, d.seat) # {}
    BY <1>3, SoundTexts DEF Compiler!PropositionsFor, Compiler!EventsFor
  <2>2. ASSUME NEW p \in t.propositions
        PROVE  /\ p \notin program.hostOnly
               /\ p \in program.public \/ \E g \in program.grants : g.id = p /\ d.seat \in g.seats
    BY <1>1, <2>1, KnownIsNotTheHosts
  <2>3. ASSUME NEW e \in t.events
        PROVE  /\ e \notin program.hostEvents
               /\ e \in program.publicEvents \/ \E g \in program.eventGrants : g.id = e /\ d.seat \in g.seats
    BY <1>1, <2>1, KnownIsNotTheHosts
  <2>4. ASSUME NEW e \in t.evidence
        PROVE  \E phase \in Compiler!IdsOf(game.phases) :
                  e \in Compiler!AvailableEvidence(game, d.seat, phase)
    <3>1. PICK v \in Compiler!ToSet(game.reveals) : v.evidence = e /\ d.seat \in v.audience
      BY <2>1 DEF Compiler!RevealOrders
    <3>2. v.phase \in Compiler!IdsOf(game.phases) /\ d.seat \in Compiler!MayOpen(game, e)
      BY <1>4, <3>1
    <3>3. Compiler!Order(game)[v.phase] <= Compiler!Order(game)[v.phase]
      BY <3>2, OrderOfPhase
    <3>4. e \in Compiler!AvailableEvidence(game, d.seat, v.phase)
      BY <1>2, <3>1, <3>2, <3>3, AvailableIs
    <3>5. QED
      BY <3>2, <3>4
  <2>5. QED
    BY <2>2, <2>3, <2>4
<1>6. ASSUME IsLog(d.arcs), \A i, j \in DOMAIN d.arcs : d.arcs[i].phase = d.arcs[j].phase => i = j,
             NEW phase \in Compiler!IdsOf(game.phases)
      PROVE  /\ Compiler!PhaseProjection(d, phase).dossier = d.id
             /\ \A m \in Compiler!PhaseProjection(d, phase).moves :
                   m.instruction.evidence \subseteq Compiler!AvailableEvidence(game, d.seat, phase)
  <2> DEFINE arc == Compiler!ShownArc(d, phase)
             moves == Compiler!ById(d.moves)
             projection == [dossier |-> d.id, secret |-> d.secret,
                            boundary |-> d.boundary, chronology |-> d.chronology,
                            arc |-> arc, moves |-> {moves[m] : m \in arc.moves},
                            endings |-> d.endings]
  <2>1. phase \in Compiler!ArcPhases(d)
    BY <1>3, SoundArcs
  <2>2. arc = Compiler!ArcOf(d, phase) /\ arc.phase = phase
    BY <1>6, <2>1, OnlyArcs
  <2>3. arc.moves \subseteq DOMAIN moves /\ Compiler!Unavailable(game, d, arc) = {}
    <3>1. DOMAIN moves = Compiler!IdsOf(d.moves)
      BY DEF Compiler!ById
    <3> HIDE DEF arc, moves
    <3>2. QED
      BY <1>3, <2>1, <2>2, <3>1, SoundArcs
  <2>4. Compiler!PhaseProjection(d, phase) = projection
    <3> HIDE DEF arc, moves
    <3>1. Compiler!PhaseProjection(d, phase)
            = IF phase \notin Compiler!ArcPhases(d) THEN Refused
              ELSE IF ~(arc.moves \subseteq DOMAIN moves) THEN Refused ELSE projection
      BY Zenon DEF Compiler!PhaseProjection, arc, moves
    <3>2. QED
      BY <2>1, <2>3, <3>1
  <2> HIDE DEF arc
  <2>5. ASSUME NEW m \in arc.moves, NEW e \in moves[m].instruction.evidence
        PROVE  e \in Compiler!AvailableEvidence(game, d.seat, phase)
    <3> DEFINE cited == {moves[k].instruction.evidence : k \in arc.moves \cap DOMAIN moves}
               late == {x \in UNION cited : \A order \in Compiler!RevealOrders(game, x, d.seat) :
                                               order > Compiler!Order(game)[arc.phase]}
    <3>1. Compiler!Unavailable(game, d, arc) = late
      BY Zenon DEF Compiler!Unavailable
    <3>2. e \in UNION cited
      <4> HIDE DEF moves
      <4>1. QED
        BY <2>3, <2>5
    <3> HIDE DEF cited, moves
    <3>3. PICK order \in Compiler!RevealOrders(game, e, d.seat) :
             ~(order > Compiler!Order(game)[phase])
      BY <2>2, <2>3, <3>1, <3>2
    <3>4. PICK v \in Compiler!ToSet(game.reveals) : /\ v.evidence = e /\ d.seat \in v.audience
                                                   /\ order = Compiler!Order(game)[v.phase]
      BY DEF Compiler!RevealOrders
    <3>5. v.phase \in Compiler!IdsOf(game.phases) /\ d.seat \in Compiler!MayOpen(game, e)
      BY <1>4, <3>4
    <3>6. Compiler!Order(game)[v.phase] <= Compiler!Order(game)[phase]
      BY <3>3, <3>4, <3>5, OrderOfPhase
    <3>7. QED
      BY <1>2, <3>4, <3>5, <3>6, AvailableIs
  <2>6. projection.dossier = d.id /\ projection.moves = {moves[m] : m \in arc.moves}
    <3> HIDE DEF moves
    <3>1. QED
      OBVIOUS
  <2> HIDE DEF projection, moves
  <2>7. QED
    BY <2>4, <2>5, <2>6
<1>7. QED
  BY <1>5, <1>6
=============================================================================
