--------------------------- MODULE ExperimentProofs ---------------------------
(* What the climb ledger of an Experiment guarantees for any operators and    *)
(* any calls they make, at once or one after the other, whichever processes    *)
(* die: what it names is in it, who moved the branch, who judges; and what     *)
(* the operational journal says of efficiency plans is what it replays to.     *)
EXTENDS Experiment, LogLemmas, FiniteSetTheorems

-----------------------------------------------------------------------------
(* Bundles *)

\* A bundle that has the records of two others.
Joins(c, a, b) == Range(c) = Range(a) \cup Range(b)

LEMMA CollectionIs ==
    ASSUME NEW b, NEW kind
    PROVE  Collection(b, kind) = {r \in Range(b) : r.record = kind}
BY DEF Collection, Range

LEMMA CollectionJoins ==
    ASSUME NEW a, NEW b, NEW c, Joins(c, a, b)
    PROVE  \A kind : Collection(c, kind) = Collection(a, kind) \cup Collection(b, kind)
<1> SUFFICES ASSUME NEW kind
             PROVE  Collection(c, kind) = Collection(a, kind) \cup Collection(b, kind)
  OBVIOUS
<1>1. Collection(a, kind) = {r \in Range(a) : r.record = kind}
  BY CollectionIs
<1>2. Collection(b, kind) = {r \in Range(b) : r.record = kind}
  BY CollectionIs
<1>3. Collection(c, kind) = {r \in Range(c) : r.record = kind}
  BY CollectionIs
<1>4. QED
  BY <1>1, <1>2, <1>3 DEF Joins

LEMMA JoinsOther == ASSUME NEW a, NEW b, NEW c, Joins(c, a, b) PROVE Joins(c, b, a)
BY DEF Joins

\* What one of two bundles says of an identity, the joined bundle says.
LEMMA RolesJoin ==
    ASSUME NEW a, NEW b, NEW c, Joins(c, a, b)
    PROVE  /\ \A id, kinds, roles : HasRole(a, id, kinds, roles) => HasRole(c, id, kinds, roles)
           /\ \A id : IsRegistered(a, id) => IsRegistered(c, id)
           /\ \A kind : Collection(a, kind) \subseteq Collection(c, kind)
<1>1. Collection(c, "authority") = Collection(a, "authority") \cup Collection(b, "authority")
  BY CollectionJoins
<1>2. \A kind : Collection(a, kind) \subseteq Collection(c, kind)
  <2>1. \A kind : Collection(c, kind) = Collection(a, kind) \cup Collection(b, kind)
    BY CollectionJoins
  <2>2. QED
    BY <2>1
<1>3. QED
  BY <1>1, <1>2 DEF HasRole, IsRegistered, Authorities

-----------------------------------------------------------------------------
(* Two closed bundles joined are closed *)

LEMMA AuthoritiesJoin ==
    ASSUME NEW a, NEW b, NEW c, Joins(c, a, b), AuthoritiesClosed(a), AuthoritiesClosed(b)
    PROVE  AuthoritiesClosed(c)
<1>1. Authorities(c) = Authorities(a) \cup Authorities(b)
  BY CollectionJoins DEF Authorities
<1>2. QED
  BY <1>1 DEF AuthoritiesClosed

LEMMA InstrumentsJoin ==
    ASSUME NEW a, NEW b, NEW c, Joins(c, a, b), InstrumentsClosed(a), InstrumentsClosed(b)
    PROVE  InstrumentsClosed(c)
<1>1. Collection(c, "instrument") = Collection(a, "instrument") \cup Collection(b, "instrument")
  BY CollectionJoins
<1>2. QED
  BY <1>1 DEF InstrumentsClosed

LEMMA TasksJoin ==
    ASSUME NEW a, NEW b, NEW c, Joins(c, a, b), TasksClosed(a), TasksClosed(b)
    PROVE  TasksClosed(c)
<1>1. Joins(c, b, a)
  BY JoinsOther
<1>2. Collection(c, "task") = Collection(a, "task") \cup Collection(b, "task")
  BY CollectionJoins
<1>3. Collection(a, "instrument") \subseteq Collection(c, "instrument")
  BY RolesJoin
<1>4. Collection(b, "instrument") \subseteq Collection(c, "instrument")
  BY <1>1, RolesJoin
<1>5. \A id, kinds, roles : HasRole(a, id, kinds, roles) => HasRole(c, id, kinds, roles)
  BY RolesJoin
<1>6. \A id, kinds, roles : HasRole(b, id, kinds, roles) => HasRole(c, id, kinds, roles)
  BY <1>1, RolesJoin
<1>7. QED
  BY <1>2, <1>3, <1>4, <1>5, <1>6 DEF TasksClosed

LEMMA ModelReceiptsJoin ==
    ASSUME NEW a, NEW b, NEW c, Joins(c, a, b), ModelReceiptsClosed(a), ModelReceiptsClosed(b)
    PROVE  ModelReceiptsClosed(c)
<1>1. Joins(c, b, a)
  BY JoinsOther
<1>2. Collection(c, "model_receipt") = Collection(a, "model_receipt") \cup Collection(b, "model_receipt")
  BY CollectionJoins
<1>3. \A id, kinds, roles : HasRole(a, id, kinds, roles) => HasRole(c, id, kinds, roles)
  BY RolesJoin
<1>4. \A id, kinds, roles : HasRole(b, id, kinds, roles) => HasRole(c, id, kinds, roles)
  BY <1>1, RolesJoin
<1>5. QED
  BY Zenon, <1>2, <1>3, <1>4 DEF ModelReceiptsClosed

LEMMA HumanReceiptsJoin ==
    ASSUME NEW a, NEW b, NEW c, Joins(c, a, b), HumanReceiptsClosed(a), HumanReceiptsClosed(b)
    PROVE  HumanReceiptsClosed(c)
<1>1. Joins(c, b, a)
  BY JoinsOther
<1>2. Collection(c, "human_receipt") = Collection(a, "human_receipt") \cup Collection(b, "human_receipt")
  BY CollectionJoins
<1>3. /\ Collection(a, "task") \subseteq Collection(c, "task")
      /\ \A id, kinds, roles : HasRole(a, id, kinds, roles) => HasRole(c, id, kinds, roles)
  BY RolesJoin
<1>4. /\ Collection(b, "task") \subseteq Collection(c, "task")
      /\ \A id, kinds, roles : HasRole(b, id, kinds, roles) => HasRole(c, id, kinds, roles)
  BY <1>1, RolesJoin
<1>5. QED
  BY <1>2, <1>3, <1>4 DEF HumanReceiptsClosed

LEMMA RequirementsJoin ==
    ASSUME NEW a, NEW b, NEW c, Joins(c, a, b), RequirementsClosed(a), RequirementsClosed(b)
    PROVE  RequirementsClosed(c)
<1>1. Joins(c, b, a)
  BY JoinsOther
<1>2. Collection(c, "requirement") = Collection(a, "requirement") \cup Collection(b, "requirement")
  BY CollectionJoins
<1>3. Collection(a, "finding") \subseteq Collection(c, "finding")
  BY RolesJoin
<1>4. Collection(b, "finding") \subseteq Collection(c, "finding")
  BY <1>1, RolesJoin
<1>5. QED
  BY <1>2, <1>3, <1>4 DEF RequirementsClosed

LEMMA ExposuresJoin ==
    ASSUME NEW a, NEW b, NEW c, Joins(c, a, b), ExposuresClosed(a), ExposuresClosed(b)
    PROVE  ExposuresClosed(c)
<1>1. Joins(c, b, a)
  BY JoinsOther
<1>2. Collection(c, "exposure") = Collection(a, "exposure") \cup Collection(b, "exposure")
  BY CollectionJoins
<1>3. /\ Collection(a, "task") \subseteq Collection(c, "task")
      /\ \A id : IsRegistered(a, id) => IsRegistered(c, id)
  BY RolesJoin
<1>4. /\ Collection(b, "task") \subseteq Collection(c, "task")
      /\ \A id : IsRegistered(b, id) => IsRegistered(c, id)
  BY <1>1, RolesJoin
<1>5. QED
  BY <1>2, <1>3, <1>4 DEF ExposuresClosed

LEMMA ProposalsJoin ==
    ASSUME NEW a, NEW b, NEW c, Joins(c, a, b), ProposalsClosed(a), ProposalsClosed(b)
    PROVE  ProposalsClosed(c)
<1>1. Joins(c, b, a)
  BY JoinsOther
<1>2. Collection(c, "proposal") = Collection(a, "proposal") \cup Collection(b, "proposal")
  BY CollectionJoins
<1>3. /\ \A kind : Collection(a, kind) \subseteq Collection(c, kind)
      /\ \A id : IsRegistered(a, id) => IsRegistered(c, id)
  BY RolesJoin
<1>4. /\ \A kind : Collection(b, kind) \subseteq Collection(c, kind)
      /\ \A id : IsRegistered(b, id) => IsRegistered(c, id)
  BY <1>1, RolesJoin
<1>5. QED
  BY <1>2, <1>3, <1>4 DEF ProposalsClosed

LEMMA TransitionsJoin ==
    ASSUME NEW a, NEW b, NEW c, Joins(c, a, b), TransitionsClosed(a), TransitionsClosed(b)
    PROVE  TransitionsClosed(c)
<1>1. Joins(c, b, a)
  BY JoinsOther
<1>2. Collection(c, "transition") = Collection(a, "transition") \cup Collection(b, "transition")
  BY CollectionJoins
<1>3. \A kind : Collection(a, kind) \subseteq Collection(c, kind)
  BY RolesJoin
<1>4. \A kind : Collection(b, kind) \subseteq Collection(c, kind)
  BY <1>1, RolesJoin
<1>5. QED
  BY <1>2, <1>3, <1>4 DEF TransitionsClosed, Reviews

LEMMA ProtocolsJoin ==
    ASSUME NEW a, NEW b, NEW c, Joins(c, a, b), ProtocolsClosed(a), ProtocolsClosed(b)
    PROVE  ProtocolsClosed(c)
<1>1. Joins(c, b, a)
  BY JoinsOther
<1>2. Collection(c, "playtest_protocol")
        = Collection(a, "playtest_protocol") \cup Collection(b, "playtest_protocol")
  BY CollectionJoins
<1>3. \A kind : Collection(a, kind) \subseteq Collection(c, kind)
  BY RolesJoin
<1>4. \A kind : Collection(b, kind) \subseteq Collection(c, kind)
  BY <1>1, RolesJoin
<1>5. QED
  BY <1>2, <1>3, <1>4 DEF ProtocolsClosed

LEMMA RunJoins ==
    ASSUME NEW a, NEW c, NEW run,
           \A kind : Collection(a, kind) \subseteq Collection(c, kind),
           \A id, kinds, roles : HasRole(a, id, kinds, roles) => HasRole(c, id, kinds, roles),
           ObservationsClosed(a, run)
    PROVE  ObservationsClosed(c, run)
BY DEF ObservationsClosed

LEMMA RunsJoin ==
    ASSUME NEW a, NEW b, NEW c, Joins(c, a, b), RunsClosed(a), RunsClosed(b)
    PROVE  RunsClosed(c)
<1>1. Joins(c, b, a)
  BY JoinsOther
<1>2. Collection(c, "playtest_run") = Collection(a, "playtest_run") \cup Collection(b, "playtest_run")
  BY CollectionJoins
<1>3. /\ \A kind : Collection(a, kind) \subseteq Collection(c, kind)
      /\ \A id, kinds, roles : HasRole(a, id, kinds, roles) => HasRole(c, id, kinds, roles)
  BY RolesJoin
<1>4. /\ \A kind : Collection(b, kind) \subseteq Collection(c, kind)
      /\ \A id, kinds, roles : HasRole(b, id, kinds, roles) => HasRole(c, id, kinds, roles)
  BY <1>1, RolesJoin
<1>5. \A run : ObservationsClosed(a, run) \/ ObservationsClosed(b, run) => ObservationsClosed(c, run)
  BY <1>3, <1>4, RunJoins
<1>6. QED
  BY <1>2, <1>3, <1>4, <1>5 DEF RunsClosed

LEMMA ComparisonsJoin ==
    ASSUME NEW a, NEW b, NEW c, Joins(c, a, b), ComparisonsClosed(a), ComparisonsClosed(b)
    PROVE  ComparisonsClosed(c)
<1>1. Joins(c, b, a)
  BY JoinsOther
<1>2. Collection(c, "evidence_comparison")
        = Collection(a, "evidence_comparison") \cup Collection(b, "evidence_comparison")
  BY CollectionJoins
<1>3. \A kind : Collection(a, kind) \subseteq Collection(c, kind)
  BY RolesJoin
<1>4. \A kind : Collection(b, kind) \subseteq Collection(c, kind)
  BY <1>1, RolesJoin
<1>5. QED
  BY <1>2, <1>3, <1>4 DEF ComparisonsClosed

LEMMA BindingsJoin ==
    ASSUME NEW a, NEW b, NEW c, Joins(c, a, b), BindingsClosed(a), BindingsClosed(b)
    PROVE  BindingsClosed(c)
<1>1. Collection(c, "trial_binding") = Collection(a, "trial_binding") \cup Collection(b, "trial_binding")
  BY CollectionJoins
<1>2. QED
  BY <1>1 DEF BindingsClosed

LEMMA SelectionsJoin ==
    ASSUME NEW a, NEW b, NEW c, Joins(c, a, b), SelectionsClosed(a), SelectionsClosed(b)
    PROVE  SelectionsClosed(c)
<1>1. Joins(c, b, a)
  BY JoinsOther
<1>2. Collection(c, "selection") = Collection(a, "selection") \cup Collection(b, "selection")
  BY CollectionJoins
<1>3. \A kind : Collection(a, kind) \subseteq Collection(c, kind)
  BY RolesJoin
<1>4. \A kind : Collection(b, kind) \subseteq Collection(c, kind)
  BY <1>1, RolesJoin
<1>5. QED
  BY <1>2, <1>3, <1>4 DEF SelectionsClosed

\* A ledger that was closed when a record was checked, and one it has become since:
\* what no later record takes away holds of both together.
LEMMA ClosedJoins ==
    ASSUME NEW a, NEW b, NEW c, Joins(c, a, b), ClosedForGood(a), ClosedForGood(b)
    PROVE  ClosedForGood(c)
<1>1. AuthoritiesClosed(c) /\ InstrumentsClosed(c) /\ TasksClosed(c)
  BY AuthoritiesJoin, InstrumentsJoin, TasksJoin DEF ClosedForGood
<1>2. ModelReceiptsClosed(c) /\ HumanReceiptsClosed(c)
  BY ModelReceiptsJoin, HumanReceiptsJoin DEF ClosedForGood
<1>3. RequirementsClosed(c) /\ ExposuresClosed(c) /\ ProposalsClosed(c)
  BY RequirementsJoin, ExposuresJoin, ProposalsJoin DEF ClosedForGood
<1>4. TransitionsClosed(c) /\ ProtocolsClosed(c) /\ RunsClosed(c)
  BY TransitionsJoin, ProtocolsJoin, RunsJoin DEF ClosedForGood
<1>5. ComparisonsClosed(c) /\ BindingsClosed(c) /\ SelectionsClosed(c)
  BY ComparisonsJoin, BindingsJoin, SelectionsJoin DEF ClosedForGood
<1>6. QED
  BY <1>1, <1>2, <1>3, <1>4, <1>5 DEF ClosedForGood

LEMMA ClosedIsForGood == ASSUME NEW b, Closed(b) PROVE ClosedForGood(b)
BY DEF Closed, ClosedForGood

LEMMA EmptyIsClosed == Closed(<< >>)
<1>1. Range(<< >>) = {} /\ DOMAIN << >> = {}
  BY DEF Range
<1>2. \A kind : Collection(<< >>, kind) = {}
  BY <1>1 DEF Collection
<1>3. NoDuplicates(<< >>)
  BY <1>1 DEF NoDuplicates
<1>4. PlansClosed(<< >>)
  BY <1>2, FS_EmptySet DEF PlansClosed
<1>5. Authorities(<< >>) = {} /\ Reviews(<< >>) = {}
  BY <1>2 DEF Authorities, Reviews
<1>6. /\ AuthoritiesClosed(<< >>) /\ InstrumentsClosed(<< >>) /\ TasksClosed(<< >>)
      /\ ModelReceiptsClosed(<< >>) /\ HumanReceiptsClosed(<< >>) /\ RequirementsClosed(<< >>)
      /\ ExposuresClosed(<< >>)
  BY <1>2, <1>5 DEF AuthoritiesClosed, InstrumentsClosed, TasksClosed, ModelReceiptsClosed,
     HumanReceiptsClosed, RequirementsClosed, ExposuresClosed
<1>7. /\ EvaluationsClosed(<< >>) /\ ProposalsClosed(<< >>) /\ ReviewsClosed(<< >>)
      /\ TransitionsClosed(<< >>) /\ ProtocolsClosed(<< >>) /\ RunsDistinct(<< >>)
  BY <1>2, <1>5 DEF EvaluationsClosed, ProposalsClosed, ReviewsClosed, TransitionsClosed,
     ProtocolsClosed, RunsDistinct
<1>8. /\ RunsClosed(<< >>) /\ ComparisonsClosed(<< >>) /\ StandingsClosed(<< >>)
      /\ BindingsClosed(<< >>) /\ SelectionsClosed(<< >>)
  BY <1>2 DEF RunsClosed, ComparisonsClosed, StandingsClosed, BindingsClosed, SelectionsClosed
<1>9. QED
  BY <1>3, <1>4, <1>6, <1>7, <1>8 DEF Closed

-----------------------------------------------------------------------------
(* Ledgers and lineages that grow *)

LEMMA RecordsAre ==
    ASSUME NEW log, IsLog(log)
    PROVE  /\ IsLog(Records(log)) /\ Len(Records(log)) = Len(log)
           /\ DOMAIN Records(log) = 1..Len(log)
           /\ \A i \in 1..Len(log) : Records(log)[i] = log[i].record
           /\ Range(Records(log)) = {e.record : e \in Range(log)}
<1>1. Len(log) \in Nat /\ DOMAIN log = 1..Len(log)
  BY LogFacts
<1> DEFINE S == {log[i].record : i \in 1..Len(log)}
<1>2. Records(log) = [i \in 1..Len(log) |-> log[i].record]
  BY <1>1 DEF Records
<1>3. Records(log) \in Seq(S)
  <2>1. [i \in 1..Len(log) |-> log[i].record] \in [1..Len(log) -> S]
    OBVIOUS
  <2>2. QED
    BY <1>1, <1>2, <2>1, SeqDef
<1>4. IsLog(Records(log))
  BY <1>3, SeqIsLog
<1>5. DOMAIN Records(log) = 1..Len(log)
  BY <1>2
<1>6. Len(Records(log)) = Len(log)
  BY <1>1, <1>3, <1>5, LenProperties
<1>7. Range(Records(log)) = {e.record : e \in Range(log)}
  BY <1>1, <1>2 DEF Range
<1>8. QED
  BY <1>2, <1>4, <1>5, <1>6, <1>7

LEMMA RecordsAppend ==
    ASSUME NEW log, IsLog(log), NEW e
    PROVE  Records(Append(log, e)) = Append(Records(log), e.record)
<1>1. /\ IsLog(Append(log, e)) /\ Len(Append(log, e)) = Len(log) + 1 /\ Len(log) \in Nat
      /\ \A i \in 1..Len(log) : Append(log, e)[i] = log[i]
      /\ Append(log, e)[Len(log) + 1] = e
  BY LongerLog, LogFacts
<1>2. /\ IsLog(Records(log)) /\ Len(Records(log)) = Len(log)
      /\ \A i \in 1..Len(log) : Records(log)[i] = log[i].record
  BY RecordsAre
<1>3. /\ IsLog(Records(Append(log, e))) /\ Len(Records(Append(log, e))) = Len(log) + 1
      /\ \A i \in 1..(Len(log) + 1) : Records(Append(log, e))[i] = Append(log, e)[i].record
  BY Zenon, <1>1, RecordsAre
<1>4. /\ IsLog(Append(Records(log), e.record))
      /\ Len(Append(Records(log), e.record)) = Len(log) + 1
      /\ \A i \in 1..Len(log) : Append(Records(log), e.record)[i] = Records(log)[i]
      /\ Append(Records(log), e.record)[Len(log) + 1] = e.record
  BY <1>2, LongerLog
<1>5. \A i \in 1..(Len(log) + 1) : Records(Append(log, e))[i] = Append(Records(log), e.record)[i]
  <2> SUFFICES ASSUME NEW i \in 1..(Len(log) + 1)
               PROVE  Records(Append(log, e))[i] = Append(Records(log), e.record)[i]
    BY Zenon
  <2>1. CASE i \in 1..Len(log)
    BY <2>1, <1>1, <1>2, <1>3, <1>4
  <2>2. CASE i = Len(log) + 1
    BY <2>2, <1>1, <1>3, <1>4
  <2>3. Len(log) \in Nat
    BY <1>1
  <2>4. i \in 1..Len(log) \/ i = Len(log) + 1
    BY <2>3
  <2>5. QED
    BY Zenon, <2>1, <2>2, <2>4
<1> DEFINE longer == Records(Append(log, e))
           other == Append(Records(log), e.record)
<1>6. IsLog(longer) /\ IsLog(other) /\ Len(longer) = Len(other)
      /\ \A i \in 1..Len(longer) : longer[i] = other[i]
  BY <1>3, <1>4, <1>5, <1>2
<1> HIDE DEF longer, other
<1>7. longer = other
  BY <1>6, SameLog
<1>8. QED
  BY <1>7 DEF longer, other

LEMMA RangeAppend ==
    ASSUME NEW log, IsLog(log), NEW e
    PROVE  Range(Append(log, e)) = Range(log) \cup {e}
<1>1. /\ DOMAIN log = 1..Len(log) /\ Len(log) \in Nat
      /\ DOMAIN Append(log, e) = 1..(Len(log) + 1)
      /\ \A i \in 1..Len(log) : Append(log, e)[i] = log[i]
      /\ Append(log, e)[Len(log) + 1] = e
  BY LongerLog, LogFacts
<1>2. 1..(Len(log) + 1) = 1..Len(log) \cup {Len(log) + 1}
  BY <1>1
<1>3. QED
  BY <1>1, <1>2 DEF Range

\* A log as it is later: nothing is lost and nothing moves.
Grows(later, log) ==
    /\ IsLog(log) /\ IsLog(later)
    /\ Len(log) <= Len(later)
    /\ \A i \in 1..Len(log) : later[i] = log[i]

LEMMA SameGrows == ASSUME NEW log, IsLog(log) PROVE Grows(log, log)
BY LogFacts DEF Grows

LEMMA AppendGrows == ASSUME NEW log, IsLog(log), NEW e PROVE Grows(Append(log, e), log)
BY LongerLog, LogFacts DEF Grows

LEMMA GrowsKeeps ==
    ASSUME NEW log, NEW later, Grows(later, log)
    PROVE  /\ Range(log) \subseteq Range(later)
           /\ \A key : HasKey(log, key) => HasKey(later, key)
           /\ \A n \in 0..Len(log) : n \in 0..Len(later) /\ SubSeq(later, 1, n) = SubSeq(log, 1, n)
           /\ log # << >> => later # << >>
           /\ \A kind : Collection(Records(log), kind) \subseteq Collection(Records(later), kind)
           /\ Reviews(Records(log)) \subseteq Reviews(Records(later))
<1>1. /\ DOMAIN log = 1..Len(log) /\ DOMAIN later = 1..Len(later)
      /\ Len(log) \in Nat /\ Len(later) \in Nat /\ Len(log) <= Len(later)
      /\ \A i \in 1..Len(log) : later[i] = log[i]
      /\ IsLog(log) /\ IsLog(later)
  BY LogFacts DEF Grows
<1>2. Range(log) \subseteq Range(later)
  BY <1>1 DEF Range
<1>3. \A key : HasKey(log, key) => HasKey(later, key)
  <2> SUFFICES ASSUME NEW key, HasKey(log, key) PROVE HasKey(later, key)
    OBVIOUS
  <2>1. PICK i \in DOMAIN log : log[i].key = key
    BY DEF HasKey
  <2>2. i \in DOMAIN later /\ later[i].key = key
    BY <1>1, <2>1
  <2>3. QED
    BY <2>2 DEF HasKey
<1>4. ASSUME NEW n \in 0..Len(log) PROVE n \in 0..Len(later) /\ SubSeq(later, 1, n) = SubSeq(log, 1, n)
  <2>1. n \in 0..Len(later)
    BY <1>1
  <2>2. /\ IsLog(SubSeq(log, 1, n)) /\ Len(SubSeq(log, 1, n)) = n
        /\ \A i \in 1..n : SubSeq(log, 1, n)[i] = log[i]
    BY <1>1, PrefixLog
  <2>3. /\ IsLog(SubSeq(later, 1, n)) /\ Len(SubSeq(later, 1, n)) = n
        /\ \A i \in 1..n : SubSeq(later, 1, n)[i] = later[i]
    BY <1>1, <2>1, PrefixLog
  <2>4. \A i \in 1..n : SubSeq(later, 1, n)[i] = SubSeq(log, 1, n)[i]
    BY <1>1, <2>2, <2>3
  <2>5. QED
    BY <2>1, <2>2, <2>3, <2>4, SameLog
<1>5. log # << >> => later # << >>
  <2>1. log # << >> => Len(log) >= 1
    BY <1>1, LogFacts
  <2>2. QED
    BY <1>1, <2>1
<1>6. Range(Records(log)) \subseteq Range(Records(later))
  <2>1. Range(Records(log)) = {e.record : e \in Range(log)}
    BY <1>1, RecordsAre
  <2>2. Range(Records(later)) = {e.record : e \in Range(later)}
    BY <1>1, RecordsAre
  <2>3. QED
    BY <1>2, <2>1, <2>2
<1>7. \A kind : Collection(Records(log), kind) \subseteq Collection(Records(later), kind)
  <2> SUFFICES ASSUME NEW kind PROVE Collection(Records(log), kind) \subseteq Collection(Records(later), kind)
    OBVIOUS
  <2>1. Collection(Records(log), kind) = {r \in Range(Records(log)) : r.record = kind}
    BY CollectionIs
  <2>2. Collection(Records(later), kind) = {r \in Range(Records(later)) : r.record = kind}
    BY CollectionIs
  <2>3. QED
    BY <1>6, <2>1, <2>2
<1>8. Reviews(Records(log)) \subseteq Reviews(Records(later))
  BY <1>7 DEF Reviews
<1>9. QED
  BY <1>2, <1>3, <1>4, <1>5, <1>7, <1>8

\* What appending an entry adds to the records of a kind.
LEMMA CollectionAppend ==
    ASSUME NEW log, IsLog(log), NEW e
    PROVE  \A kind : Collection(Records(Append(log, e)), kind)
              = Collection(Records(log), kind) \cup (IF e.record.record = kind THEN {e.record} ELSE {})
<1> SUFFICES ASSUME NEW kind
             PROVE  Collection(Records(Append(log, e)), kind)
              = Collection(Records(log), kind) \cup (IF e.record.record = kind THEN {e.record} ELSE {})
  OBVIOUS
<1>1. IsLog(Records(log)) /\ Records(Append(log, e)) = Append(Records(log), e.record)
  BY Zenon, RecordsAre, RecordsAppend
<1>2. Range(Records(Append(log, e))) = Range(Records(log)) \cup {e.record}
  BY <1>1, RangeAppend
<1>3. Collection(Records(log), kind) = {r \in Range(Records(log)) : r.record = kind}
  BY CollectionIs
<1>4. Collection(Records(Append(log, e)), kind) = {r \in Range(Records(Append(log, e))) : r.record = kind}
  BY CollectionIs
<1>5. QED
  BY <1>2, <1>3, <1>4

LEMMA KeysStayUnique ==
    ASSUME NEW log, IsLog(log), NEW e, KeysUnique(log), ~HasKey(log, e.key)
    PROVE  KeysUnique(Append(log, e))
<1>1. /\ DOMAIN log = 1..Len(log) /\ Len(log) \in Nat
      /\ DOMAIN Append(log, e) = 1..(Len(log) + 1)
      /\ \A i \in 1..Len(log) : Append(log, e)[i] = log[i]
      /\ Append(log, e)[Len(log) + 1] = e
  BY LongerLog, LogFacts
<1>2. \A i \in 1..Len(log) : log[i].key # e.key
  BY <1>1 DEF HasKey
<1>3. QED
  BY <1>1, <1>2 DEF KeysUnique

\* The verdict of a journal on a write that has not been refused.
LEMMA VerdictMeans ==
    ASSUME NEW log, IsLog(log), KeysUnique(log), NEW e
    PROVE  /\ Verdict(log, e, Unset) = "append" => ~HasKey(log, e.key)
           /\ Verdict(log, e, Unset) = "existing" => e \in Range(log)
<1>1. Verdict(log, e, Unset) = "append" => ~HasKey(log, e.key)
  BY DEF Verdict
<1>2. ASSUME Verdict(log, e, Unset) = "existing" PROVE e \in Range(log)
  <2>1. HasKey(log, e.key) /\ EventForKey(log, e.key) = e
    BY <1>2 DEF Verdict
  <2>2. PICK n \in DOMAIN log : log[n].key = e.key
    BY <2>1 DEF HasKey
  <2>3. \A j \in DOMAIN log : log[j].key = e.key => j = n
    BY <2>2 DEF KeysUnique
  <2>4. DOMAIN log \subseteq Nat
    BY LogFacts
  <2>5. log[n].key = e.key /\ \A j \in DOMAIN log : log[j].key = e.key => n <= j
    BY <2>2, <2>3, <2>4
  <2>6. \E i \in DOMAIN log : log[i].key = e.key /\ \A j \in DOMAIN log : log[j].key = e.key => i <= j
    BY <2>5
  <2>7. EventForKey(log, e.key) \in Range(log)
    BY Zenon, <2>6 DEF EventForKey, Range
  <2>8. QED
    BY <2>1, <2>7
<1>3. QED
  BY <1>1, <1>2

-----------------------------------------------------------------------------
(* What one step leaves alone *)

\* Where processes are, as far as every step keeps it.
Placed == DOMAIN work = Operators /\ \A p \in Operators : DOMAIN work[p] = DOMAIN Idle

\* What a process does alone leaves the others where they are.
Alone(p) == /\ DOMAIN work' = Operators
            /\ \A q \in Operators \ {p} : work'[q] = work[q]
            /\ DOMAIN work'[p] = DOMAIN Idle

LEMMA IdleFields ==
    DOMAIN Idle = {"phase", "stage", "todo", "next", "task", "seen", "added", "interrupted"}
BY DEF Idle

LEMMA EndAlone ==
    ASSUME Placed, NEW p \in Operators, NEW outcome, End(p, outcome)
    PROVE  Alone(p) /\ work'[p].phase \in {"closed", "ready"}
<1>1. PICK phase \in {"closed", "ready"} : work' = [work EXCEPT ![p] = [Idle EXCEPT !.phase = phase]]
  BY Zenon DEF End
<1>2. DOMAIN [Idle EXCEPT !.phase = phase] = DOMAIN Idle
  OBVIOUS
<1>3. [Idle EXCEPT !.phase = phase].phase = phase
  BY IdleFields
<1>4. QED
  BY <1>1, <1>2, <1>3 DEF Placed, Alone

LEMMA GotoAlone ==
    ASSUME Placed, NEW p \in Operators, NEW phase, Goto(p, phase)
    PROVE  Alone(p) /\ work'[p].phase = phase
<1>1. work'[p] = [work[p] EXCEPT !.phase = phase]
  BY DEF Goto, Placed
<1>2. QED
  BY <1>1, IdleFields DEF Goto, Placed, Alone

LEMMA AppendedAlone ==
    ASSUME Placed, NEW p \in Operators, NEW verdict, NEW grown, Appended(p, verdict, grown)
    PROVE  Alone(p) /\ work'[p].phase \in {"closed", "ready", "index"} /\ (raced => raced')
<1>1. raced => raced'
  BY Zenon DEF Appended
<1>2. CASE verdict \in {"append", "existing"}
  <2>1. work' = [work EXCEPT ![p].phase = "index",
                             ![p].added = @ + IF verdict = "append" THEN 1 ELSE 0]
    BY <1>2 DEF Appended
  <2>2. QED
    BY <1>1, <2>1, IdleFields DEF Placed, Alone
<1>3. CASE verdict \notin {"append", "existing"}
  <2>1. End(p, "refused")
    BY <1>3 DEF Appended
  <2>2. QED
    BY <1>1, <2>1, EndAlone
<1>4. QED
  BY <1>2, <1>3

\* Steps that register nothing in the climb ledger and check nothing.
LEMMA QuietSteps ==
    ASSUME Placed, NEW p \in Operators,
           \/ Open(p) \/ OpenActive(p) \/ Stage(p)
           \/ AppendOperational(p) \/ AppendQualification(p)
           \/ CommitDraft(p) \/ Index(p) \/ Project(p) \/ Settle(p) \/ Verify(p) \/ Crash(p)
    PROVE  /\ Alone(p) /\ work'[p].phase # "append"
           /\ climb' = climb /\ (raced => raced')
<1>1. CASE Open(p) \/ OpenActive(p)
  <2>1. /\ climb' = climb /\ raced' = raced
        /\ Goto(p, "open") \/ Goto(p, "run") \/ End(p, "unopenable")
    BY <1>1 DEF Open, OpenActive, journals
  <2>2. ASSUME NEW phase \in {"open", "run"}, Goto(p, phase)
        PROVE  Alone(p) /\ work'[p].phase = phase
    BY <2>2, GotoAlone
  <2>3. CASE End(p, "unopenable")
    BY <2>1, <2>3, EndAlone
  <2>4. QED
    BY <2>1, <2>2, <2>3
<1>2. CASE Stage(p)
  <2>1. climb' = climb /\ raced' = raced
    BY Zenon, <1>2 DEF Stage, journals
  <2>2. PICK stage, heads : work' = [work EXCEPT ![p].phase = "write", ![p].todo = stage.writes,
                                 ![p].next = stage.next, ![p].task = stage.task,
                                 ![p].seen = heads]
    BY Zenon, <1>2 DEF Stage
  <2>3. QED
    BY <2>1, <2>2, IdleFields DEF Placed, Alone
<1>3. CASE AppendOperational(p)
  <2>1. climb' = climb /\ \E verdict, grown : Appended(p, verdict, grown)
    BY <1>3 DEF AppendOperational
  <2>2. QED
    BY <2>1, AppendedAlone
<1>4. CASE AppendQualification(p)
  <2>1. climb' = climb /\ \E verdict, grown : Appended(p, verdict, grown)
    BY <1>4 DEF AppendQualification
  <2>2. QED
    BY <2>1, AppendedAlone
<1>5. CASE CommitDraft(p)
  <2>1. climb' = climb /\ \E verdict, grown : Appended(p, verdict, grown)
    BY Zenon, <1>5 DEF CommitDraft
  <2>2. QED
    BY <2>1, AppendedAlone
<1>6. CASE Index(p)
  <2>1. climb' = climb /\ raced' = raced
    BY <1>6 DEF Index, journals
  <2>2. Goto(p, "project") \/ work' = [work EXCEPT ![p].phase = "write", ![p].todo = Tail(@)]
    BY <1>6 DEF Index
  <2>3. ASSUME Goto(p, "project") PROVE Alone(p) /\ work'[p].phase = "project"
    BY <2>3, GotoAlone
  <2>4. CASE ~Goto(p, "project")
    BY <2>1, <2>2, <2>4, IdleFields DEF Placed, Alone
  <2>5. QED
    BY <2>1, <2>3, <2>4
<1>7. CASE Project(p)
  <2>1. climb' = climb /\ raced' = raced
    BY <1>7 DEF Project, journals
  <2>2. End(p, "refused") \/ work' = [work EXCEPT ![p].phase = "write", ![p].todo = Tail(@)]
    BY <1>7 DEF Project
  <2>3. QED
    BY <2>1, <2>2, EndAlone, IdleFields DEF Placed, Alone
<1>8. CASE Settle(p)
  <2>1. climb' = climb /\ raced' = raced
    BY <1>8 DEF Settle, journals
  <2>2. \/ work' = [work EXCEPT ![p].phase = "run", ![p].stage = @ + 1]
        \/ Goto(p, "verify") \/ End(p, work[p].next)
    BY <1>8 DEF Settle
  <2>3. ASSUME Goto(p, "verify") PROVE Alone(p) /\ work'[p].phase = "verify"
    BY <2>3, GotoAlone
  <2>4. CASE End(p, work[p].next)
    BY <2>1, <2>4, EndAlone
  <2>5. CASE work' = [work EXCEPT ![p].phase = "run", ![p].stage = @ + 1]
    BY <2>1, <2>5, IdleFields DEF Placed, Alone
  <2>6. QED
    BY <2>1, <2>2, <2>3, <2>4, <2>5
<1>9. CASE Verify(p)
  <2>1. climb' = climb /\ raced' = raced /\ \E outcome : End(p, outcome)
    BY <1>9 DEF Verify, journals
  <2>2. QED
    BY <2>1, EndAlone
<1>10. CASE Crash(p)
  <2>1. climb' = climb /\ raced' = raced
    BY <1>10 DEF Crash, journals
  <2>2. PICK n : work' = [work EXCEPT ![p] = [Idle EXCEPT !.added = n, !.interrupted = TRUE]]
    BY Zenon, <1>10 DEF Crash
  <2>3. /\ DOMAIN [Idle EXCEPT !.added = n, !.interrupted = TRUE] = DOMAIN Idle
        /\ [Idle EXCEPT !.added = n, !.interrupted = TRUE].phase = "closed"
    BY IdleFields DEF Idle
  <2>4. QED
    BY <2>1, <2>2, <2>3 DEF Placed, Alone
<1>11. QED
  BY <1>1, <1>2, <1>3, <1>4, <1>5, <1>6, <1>7, <1>8, <1>9, <1>10

-----------------------------------------------------------------------------
(* The ledger names nothing that is not in it *)

\* Where a process stands between the validation of a record and its append: the
\* record was closed with what the ledger was then, or its key was there.
Checked(log, w) ==
    /\ w.seen.climb \in 0..Len(log)
    /\ \/ HasKey(log, Head(w.todo).key)
       \/ Closed(Append(Records(SubSeq(log, 1, w.seen.climb)), Head(w.todo).record))

LedgerInv ==
    /\ Placed
    /\ IsLog(climb)
    /\ \A p \in Operators : work[p].phase = "append" => Checked(climb, work[p])
    /\ LedgerClosed

LEMMA CheckedLater ==
    ASSUME NEW log, NEW later, Grows(later, log), NEW w, Checked(log, w)
    PROVE  Checked(later, w)
<1>1. \A key : HasKey(log, key) => HasKey(later, key)
  BY GrowsKeeps
<1>2. \A n \in 0..Len(log) : n \in 0..Len(later) /\ SubSeq(later, 1, n) = SubSeq(log, 1, n)
  BY GrowsKeeps
<1>3. QED
  BY Zenon, <1>1, <1>2 DEF Checked

LEMMA LedgerInit == Init => LedgerInv
<1> SUFFICES ASSUME Init PROVE LedgerInv
  OBVIOUS
<1>1. Placed /\ \A p \in Operators : work[p].phase = "closed"
  BY IdleFields DEF Init, Placed, Idle
<1>2. climb = << >> /\ IsLog(<< >>)
  BY EmptySeq DEF Init, IsLog
<1>3. Records(<< >>) = << >>
  BY DEF Records
<1>4. Closed(Records(climb)) /\ ClosedForGood(Records(climb))
  BY <1>2, <1>3, EmptyIsClosed, ClosedIsForGood
<1>5. QED
  BY <1>1, <1>2, <1>4 DEF LedgerInv, LedgerClosed

LEMMA ChecksRecord ==
    ASSUME LedgerInv, NEW p \in Operators, CheckRecord(p)
    PROVE  LedgerInv'
<1>1. climb' = climb /\ raced' = raced
  BY DEF CheckRecord, journals
<1>2. Placed /\ IsLog(climb) /\ LedgerClosed
  BY DEF LedgerInv
<1>3. LedgerClosed'
  BY <1>1, <1>2 DEF LedgerClosed
<1>4. CASE End(p, "refused")
  <2>1. Alone(p) /\ work'[p].phase # "append"
    BY <1>2, <1>4, EndAlone
  <2>2. QED
    BY <1>1, <1>2, <1>3, <2>1 DEF LedgerInv, Alone, Placed
<1>5. CASE ~End(p, "refused")
  <2>1. /\ HasKey(climb, Head(work[p].todo).key)
             \/ Closed(Append(Records(climb), Head(work[p].todo).record))
        /\ work' = [work EXCEPT ![p].phase = "append", ![p].seen = Heads]
    BY <1>5 DEF CheckRecord
  <2>2. Alone(p) /\ work'[p].todo = work[p].todo /\ work'[p].seen = Heads
    BY <1>2, <2>1, IdleFields DEF Placed, Alone
  <2>3. work'[p].seen.climb = Len(climb)
    BY <2>2 DEF Heads
  <2>4. Len(climb) \in Nat /\ SubSeq(climb, 1, Len(climb)) = climb
    BY <1>2, LogFacts, WholeLog
  <2> DEFINE w == work'[p]
  <2>9. /\ w.seen.climb = Len(climb) /\ Head(w.todo) = Head(work[p].todo)
    BY <2>2, <2>3
  <2> HIDE DEF w
  <2>10. /\ Len(climb) \in 0..Len(climb)
    BY <2>4
  <2>11. Checked(climb, w)
    BY Zenon, <2>1, <2>4, <2>9, <2>10 DEF Checked
  <2>5. Checked(climb, work'[p])
    BY <2>11 DEF w
  <2>6. \A q \in Operators : work'[q].phase = "append" => Checked(climb, work'[q])
    BY <2>2, <2>5 DEF LedgerInv, Alone
  <2>7. Placed'
    BY <1>2, <2>2 DEF Alone, Placed
  <2>8. QED
    BY <1>1, <1>2, <1>3, <2>6, <2>7 DEF LedgerInv
<1>6. QED
  BY <1>4, <1>5

LEMMA AppendsRecord ==
    ASSUME LedgerInv, NEW p \in Operators, AppendRecord(p)
    PROVE  LedgerInv'
<1> DEFINE write == Head(work[p].todo)
           n == work[p].seen.climb
           prefix == SubSeq(climb, 1, n)
           verdict == Verdict(climb, write, Unset)
<1>1. /\ Placed /\ IsLog(climb) /\ LedgerClosed /\ Checked(climb, work[p])
  BY DEF LedgerInv, AppendRecord, Writing
<1>2. Appended(p, verdict, Len(climb) # n)
  BY DEF AppendRecord
<1>3. Alone(p) /\ work'[p].phase # "append" /\ (raced => raced')
  BY <1>1, <1>2, AppendedAlone
<1>4. /\ Grows(climb', climb) /\ LedgerClosed'
  <2>1. CASE verdict # "append"
    <3>1. climb' = climb
      BY <2>1 DEF AppendRecord
    <3>2. QED
      BY <1>1, <1>3, <3>1, SameGrows DEF LedgerClosed
  <2>2. CASE verdict = "append"
    <3>1. climb' = Append(climb, write) /\ ~HasKey(climb, write.key)
      BY <2>2 DEF AppendRecord, Verdict
    <3>2. n \in 0..Len(climb) /\ Closed(Append(Records(prefix), write.record))
      BY <1>1, <3>1 DEF Checked
    <3>3. IsLog(prefix) /\ Len(prefix) = n /\ \A i \in 1..n : prefix[i] = climb[i]
      BY <1>1, <3>2, PrefixLog
    <3>4. Len(climb) \in Nat /\ DOMAIN climb = 1..Len(climb) /\ DOMAIN prefix = 1..n
      BY Zenon, <1>1, <3>3, LogFacts
    <3> HIDE DEF write, n, prefix, verdict
    <3>5. Range(prefix) \subseteq Range(climb)
      BY <3>2, <3>3, <3>4 DEF Range
    <3>6. /\ IsLog(Records(climb)) /\ Range(Records(climb)) = {e.record : e \in Range(climb)}
      BY <1>1, RecordsAre
    <3>7. /\ IsLog(Records(prefix)) /\ Range(Records(prefix)) = {e.record : e \in Range(prefix)}
      BY <3>3, RecordsAre
    <3>8. Records(climb') = Append(Records(climb), write.record)
      BY <1>1, <3>1, RecordsAppend
    <3>9. Range(Append(Records(climb), write.record)) = Range(Records(climb)) \cup {write.record}
      BY <3>6, RangeAppend
    <3>10. Range(Append(Records(prefix), write.record)) = Range(Records(prefix)) \cup {write.record}
      BY <3>7, RangeAppend
    <3>11. Joins(Records(climb'), Records(climb), Append(Records(prefix), write.record))
      BY <3>5, <3>6, <3>7, <3>8, <3>9, <3>10 DEF Joins
    <3>12. ClosedForGood(Records(climb)) /\ ClosedForGood(Append(Records(prefix), write.record))
      BY <1>1, <3>2, ClosedIsForGood DEF LedgerClosed
    <3>13. ClosedForGood(Records(climb'))
      BY <3>11, <3>12, ClosedJoins
    <3>14. ~raced' => Closed(Records(climb'))
      <4>1. ~raced' => Len(climb) = n
        BY Zenon, <1>2, <2>2 DEF Appended
      <4>2. Len(climb) = n => prefix = climb
        BY <1>1, WholeLog DEF prefix
      <4>3. QED
        BY <3>2, <3>8, <4>1, <4>2
    <3>15. Grows(climb', climb)
      BY <1>1, <3>1, AppendGrows
    <3>16. QED
      BY <3>13, <3>14, <3>15 DEF LedgerClosed
  <2>3. QED
    BY <2>1, <2>2
<1>5. \A w : Checked(climb, w) => Checked(climb', w)
  BY <1>4, CheckedLater
<1>6. \A q \in Operators : work'[q].phase = "append" => Checked(climb', work'[q])
  BY <1>3, <1>5 DEF LedgerInv, Alone
<1>7. IsLog(climb')
  BY <1>4 DEF Grows
<1>8. QED
  BY <1>3, <1>4, <1>6, <1>7, <1>1 DEF LedgerInv, Alone, Placed

LEMMA LedgerNext == LedgerInv /\ [Next]_vars => LedgerInv'
<1> SUFFICES ASSUME LedgerInv, [Next]_vars PROVE LedgerInv'
  OBVIOUS
<1>1. CASE UNCHANGED vars
  BY <1>1 DEF LedgerInv, Placed, LedgerClosed, vars
<1>2. CASE Next
  <2>1. PICK p \in Operators :
           \/ Open(p) \/ OpenActive(p) \/ Stage(p)
           \/ CheckRecord(p) \/ AppendRecord(p)
           \/ AppendOperational(p) \/ AppendQualification(p) \/ CommitDraft(p)
           \/ Index(p) \/ Project(p) \/ Settle(p) \/ Verify(p)
           \/ Crash(p)
    BY <1>2 DEF Next
  <2>2. CASE CheckRecord(p)
    BY <2>2, ChecksRecord
  <2>3. CASE AppendRecord(p)
    BY <2>3, AppendsRecord
  <2>4. CASE ~CheckRecord(p) /\ ~AppendRecord(p)
    <3>1. Placed
      BY DEF LedgerInv
    <3>2. Alone(p) /\ work'[p].phase # "append" /\ climb' = climb /\ (raced => raced')
      BY <2>1, <2>4, <3>1, QuietSteps
    <3>3. \A q \in Operators : work'[q].phase = "append" => Checked(climb, work'[q])
      BY <3>2 DEF LedgerInv, Alone
    <3>4. QED
      BY <3>1, <3>2, <3>3 DEF LedgerInv, LedgerClosed, Alone, Placed
  <2>5. QED
    BY <2>2, <2>3, <2>4
<1>3. QED
  BY <1>1, <1>2

\* The climb ledger names nothing that is not in it, whatever operators do at once;
\* and while no record has come between a validation and its append, all of
\* validate_climb_bundle holds of it.
THEOREM LedgerAlwaysClosed == Spec => []LedgerClosed
<1>1. LedgerInv => LedgerClosed
  BY DEF LedgerInv
<1>2. QED
  BY <1>1, LedgerInit, LedgerNext, PTL DEF Spec

-----------------------------------------------------------------------------
(* What a stage registers *)

\* A write that registers no record of these kinds, moves no branch and records no
\* efficiency event.
Avoid(write, kinds) ==
    /\ "child" \notin DOMAIN write
    /\ "record" \in DOMAIN write => write.record.record \notin kinds
    /\ "record" \notin DOMAIN write => write.type \notin EfficiencyTypes
Avoids(writes, kinds) == IsLog(writes) /\ \A i \in DOMAIN writes : Avoid(writes[i], kinds)

\* The records that decide where the branch moves, and the one that founds it.
Steering == {"proposal", "human_review", "agent_review", "transition", "experiment_plan"}

LEMMA EntryHas ==
    ASSUME NEW key, NEW record
    PROVE  /\ DOMAIN Entry(key, record) = {"key", "record"}
           /\ Entry(key, record).key = key /\ Entry(key, record).record = record
BY DEF Entry

LEMMA EntryAvoids ==
    ASSUME NEW key, NEW record, NEW kinds, record.record \notin kinds
    PROVE  Avoid(Entry(key, record), kinds)
BY EntryHas DEF Avoid

LEMMA NoWrites == ASSUME NEW kinds PROVE IsLog(<< >>) /\ Avoids(<< >>, kinds)
<1>1. << >> \in Seq({})
  OBVIOUS
<1>2. IsLog(<< >>)
  BY Zenon, <1>1, SeqIsLog
<1>3. DOMAIN << >> = {}
  OBVIOUS
<1>4. QED
  BY <1>2, <1>3 DEF Avoids

LEMMA OneWrite ==
    ASSUME NEW write
    PROVE  /\ IsLog(<<write>>)
           /\ \A kinds : Avoid(write, kinds) => Avoids(<<write>>, kinds)
<1>1. <<write>> \in Seq({write})
  OBVIOUS
<1>2. IsLog(<<write>>)
  BY Zenon, <1>1, SeqIsLog
<1>3. DOMAIN <<write>> = {1} /\ <<write>>[1] = write
  OBVIOUS
<1>4. QED
  BY <1>2, <1>3 DEF Avoids

LEMMA EachWrite ==
    ASSUME NEW n \in Nat, NEW writes, writes = [i \in 1..n |-> writes[i]]
    PROVE  /\ IsLog(writes) /\ Len(writes) = n /\ DOMAIN writes = 1..n
           /\ \A kinds : (\A i \in 1..n : Avoid(writes[i], kinds)) => Avoids(writes, kinds)
<1> DEFINE S == {writes[i] : i \in 1..n}
<1>1. [i \in 1..n |-> writes[i]] \in [1..n -> S]
  OBVIOUS
<1>2. writes \in [1..n -> S]
  BY <1>1, Zenon
<1> HIDE DEF S
<1>3. writes \in Seq(S)
  BY <1>2, SeqDef
<1>4. IsLog(writes)
  BY <1>3, SeqIsLog
<1>5. DOMAIN writes = 1..n
  BY <1>2
<1>6. Len(writes) = n
  BY <1>3, <1>5, LenProperties
<1>7. QED
  BY <1>4, <1>5, <1>6 DEF Avoids

LEMMA JoinedWrites ==
    ASSUME NEW one, NEW two, IsLog(one), IsLog(two)
    PROVE  /\ IsLog(one \o two)
           /\ Len(one \o two) = Len(one) + Len(two)
           /\ \A i \in 1..Len(one) : (one \o two)[i] = one[i]
           /\ \A i \in 1..Len(two) : (one \o two)[Len(one) + i] = two[i]
           /\ \A i \in DOMAIN (one \o two) :
                 \/ \E j \in DOMAIN one : (one \o two)[i] = one[j]
                 \/ \E j \in DOMAIN two : (one \o two)[i] = two[j]
           /\ \A kinds : Avoids(one, kinds) /\ Avoids(two, kinds) => Avoids(one \o two, kinds)
<1> DEFINE S == Range(one) \cup Range(two)
<1>1. one \in Seq(S) /\ two \in Seq(S)
  <2>1. one \in Seq(Range(one)) /\ two \in Seq(Range(two))
    BY DEF IsLog
  <2>2. QED
    BY <2>1, SeqMonotonic
<1> HIDE DEF S
<1>2. /\ one \o two \in Seq(S) /\ Len(one \o two) = Len(one) + Len(two)
      /\ \A i \in 1..(Len(one) + Len(two)) :
            (one \o two)[i] = IF i <= Len(one) THEN one[i] ELSE two[i - Len(one)]
  BY <1>1, ConcatProperties
<1>3. Len(one) \in Nat /\ Len(two) \in Nat /\ DOMAIN one = 1..Len(one) /\ DOMAIN two = 1..Len(two)
  BY LogFacts
<1>4. IsLog(one \o two)
  BY Zenon, <1>2, SeqIsLog
<1>5. DOMAIN (one \o two) = 1..(Len(one) + Len(two))
  BY <1>2, LenProperties
<1> DEFINE joined == one \o two
<1>6. /\ Len(joined) = Len(one) + Len(two) /\ DOMAIN joined = 1..(Len(one) + Len(two))
      /\ IsLog(joined)
      /\ \A i \in 1..(Len(one) + Len(two)) :
            joined[i] = IF i <= Len(one) THEN one[i] ELSE two[i - Len(one)]
  BY <1>2, <1>4, <1>5
<1> HIDE DEF joined
<1>7. /\ \A i \in 1..Len(one) : joined[i] = one[i]
      /\ \A i \in 1..Len(two) : joined[Len(one) + i] = two[i]
  BY <1>3, <1>6
<1>8. \A i \in DOMAIN joined :
         \/ \E j \in DOMAIN one : joined[i] = one[j]
         \/ \E j \in DOMAIN two : joined[i] = two[j]
  <2> SUFFICES ASSUME NEW i \in 1..(Len(one) + Len(two))
               PROVE  \/ \E j \in 1..Len(one) : joined[i] = one[j]
                      \/ \E j \in 1..Len(two) : joined[i] = two[j]
    BY Zenon, <1>3, <1>6
  <2>1. CASE i <= Len(one)
    BY <1>3, <1>6, <2>1
  <2>2. CASE ~(i <= Len(one))
    <3>1. i - Len(one) \in 1..Len(two) /\ joined[i] = two[i - Len(one)]
      BY <1>3, <1>6, <2>2
    <3>2. QED
      BY <3>1
  <2>3. QED
    BY <2>1, <2>2
<1>9. \A kinds : Avoids(one, kinds) /\ Avoids(two, kinds) => Avoids(joined, kinds)
  <2> SUFFICES ASSUME NEW kinds, Avoids(one, kinds), Avoids(two, kinds) PROVE Avoids(joined, kinds)
    OBVIOUS
  <2>1. ASSUME NEW i \in DOMAIN joined PROVE Avoid(joined[i], kinds)
    <3>1. CASE \E j \in DOMAIN one : joined[i] = one[j]
      BY <3>1 DEF Avoids
    <3>2. CASE \E j \in DOMAIN two : joined[i] = two[j]
      BY <3>2 DEF Avoids
    <3>3. QED
      BY <1>8, <3>1, <3>2
  <2>2. QED
    BY <1>6, <2>1 DEF Avoids
<1>10. QED
  BY <1>6, <1>7, <1>8, <1>9 DEF joined

LEMMA FirstWrites ==
    ASSUME NEW writes, NEW kinds, Avoids(writes, kinds), NEW n \in 0..Len(writes)
    PROVE  Avoids(SubSeq(writes, 1, n), kinds)
<1>1. IsLog(writes) /\ Len(writes) \in Nat /\ DOMAIN writes = 1..Len(writes)
  BY LogFacts DEF Avoids
<1>2. /\ IsLog(SubSeq(writes, 1, n)) /\ DOMAIN SubSeq(writes, 1, n) = 1..n
      /\ \A i \in 1..n : SubSeq(writes, 1, n)[i] = writes[i]
  BY <1>1, PrefixLog
<1>3. \A i \in 1..n : i \in DOMAIN writes
  BY <1>1
<1>4. QED
  BY <1>2, <1>3 DEF Avoids

LEMMA StageHas ==
    ASSUME NEW writes, NEW task
    PROVE  /\ Goes(writes, task).writes = writes /\ Goes(writes, task).next = "stage"
           /\ Goes(writes, task).task = task
           /\ Returns(writes).writes = writes /\ Returns(writes).next = "done"
           /\ Raises(writes).writes = writes /\ Raises(writes).next = "refused"
BY DEF Goes, Returns, Raises

\* A list that a caller gives has a length.
LEMMA ListHas ==
    ASSUME NEW list, IsList(list)
    PROVE  IsLog(list) /\ Len(list) \in Nat /\ DOMAIN list = 1..Len(list)
BY LogFacts DEF IsList, IsLog

LEMMA PlacesCount ==
    ASSUME NEW n \in Nat, NEW places \in SUBSET (1..n)
    PROVE  Cardinality(places) \in Nat /\ DOMAIN InOrder(places) = 1..Cardinality(places)
<1>1. IsFiniteSet(places)
  <2>1. 1 \in Int /\ n \in Int
    OBVIOUS
  <2>2. IsFiniteSet(1..n)
    BY <2>1, FS_Interval
  <2>3. QED
    BY Zenon, <2>2, FS_Subset
<1>2. Cardinality(places) \in Nat
  BY <1>1, FS_CardinalityType
<1>3. QED
  BY <1>2 DEF InOrder

-----------------------------------------------------------------------------
(* What each call registers *)

\* Also the records that name judges and builders.
Named == Steering \cup {"task"}

LEMMA FewerKinds ==
    ASSUME NEW writes, NEW kinds, NEW fewer \in SUBSET kinds, Avoids(writes, kinds)
    PROVE  Avoids(writes, fewer)
BY DEF Avoids, Avoid

LEMMA OneRecord ==
    ASSUME NEW key, NEW record, NEW kinds, record.record \notin kinds
    PROVE  Avoids(<<Entry(key, record)>>, kinds)
<1>1. Avoid(Entry(key, record), kinds)
  BY EntryAvoids
<1>2. QED
  BY <1>1, OneWrite

LEMMA RaisesNothing == ASSUME NEW kinds PROVE Avoids(Raises(<< >>).writes, kinds)
BY StageHas, NoWrites

LEMMA ReturnsOne ==
    ASSUME NEW key, NEW record, NEW kinds, record.record \notin kinds
    PROVE  Avoids(Returns(<<Entry(key, record)>>).writes, kinds)
BY StageHas, OneRecord

LEMMA BindAvoids ==
    ASSUME NEW bundle, NEW call, call.binding.record = "trial_binding"
    PROVE  Avoids(Bind(bundle, call).writes, Named)
<1>1. call.binding.record \notin Named
  BY DEF Named, Steering
<1>2. Avoids(Returns(<<Entry(<<"binding", call.key>>, call.binding)>>).writes, Named)
  BY <1>1, ReturnsOne
<1>3. QED
  BY <1>2, RaisesNothing DEF Bind

LEMMA SelectAvoids ==
    ASSUME NEW bundle, NEW call
    PROVE  Avoids(Select(bundle, call).writes, Named)
<1> DEFINE baseline == The(EvaluationsOf(bundle, call.baseline))
           child == The(EvaluationsOf(bundle, call.child))
           decision == DecideSelection(InstrumentOf(bundle), baseline, child)
<1>1. decision.record \notin Named
  BY DEF Named, Steering, DecideSelection, SelectionDecision
<1> HIDE DEF decision
<1>2. Avoids(Returns(<<Entry(<<"selection", baseline, child>>, decision)>>).writes, Named)
  BY <1>1, ReturnsOne
<1>3. QED
  BY <1>2, RaisesNothing DEF Select, decision

LEMMA AttestAvoids ==
    ASSUME NEW bundle, NEW call
    PROVE  Avoids(Attest(bundle, call).writes, Named)
<1>1. \A a, b, c, d, e, f, g : StandingAttestation(a, b, c, d, e, f, g).record \notin Named
  BY DEF Named, Steering, StandingAttestation
<1>2. \A key, a, b, c, d, e, f, g :
         Avoids(Returns(<<Entry(key, StandingAttestation(a, b, c, d, e, f, g))>>).writes, Named)
  BY <1>1, ReturnsOne
<1>3. QED
  BY <1>2, RaisesNothing DEF Attest, MachineStanding

LEMMA FreezeAvoids ==
    ASSUME NEW bundle, NEW call
    PROVE  Avoids(FreezeProtocol(bundle, call).writes, Named)
<1> DEFINE protocol == PlaytestProtocol(call.binding, InstrumentOf(bundle), call.terms)
<1>1. protocol.record \notin Named
  BY DEF Named, Steering, PlaytestProtocol
<1> HIDE DEF protocol
<1>2. Avoids(Returns(<<Entry(<<"playtest-protocol", protocol>>, protocol)>>).writes, Named)
  BY <1>1, ReturnsOne
<1>3. QED
  BY <1>2, RaisesNothing DEF FreezeProtocol, protocol

LEMMA ComparisonAvoids ==
    ASSUME NEW bundle, NEW call
    PROVE  ComparisonOf(bundle, call).record \notin Named
BY DEF ComparisonOf, Comparing, EvidenceComparison, Named, Steering

LEMMA ComparedAvoids ==
    ASSUME NEW bundle, NEW call
    PROVE  Avoids(Compared(bundle, call).writes, Named)
<1>1. ComparisonOf(bundle, call).record \notin Named
  BY ComparisonAvoids
<1>2. Avoids(Returns(<<ComparisonEntry(ComparisonOf(bundle, call))>>).writes, Named)
  BY <1>1, ReturnsOne DEF ComparisonEntry
<1>3. QED
  BY <1>2, RaisesNothing DEF Compared

LEMMA StandingAvoids ==
    ASSUME NEW bundle, NEW call, NEW comparison, NEW recorded,
           call.reviewer.record = "authority", recorded \/ comparison.record \notin Named
    PROVE  Avoids(StandingOn(bundle, call, comparison, recorded).writes, Named)
<1> DEFINE accepted == AcceptedStanding(comparison, call.reviewer)
           reviewer == IF IsRegistered(bundle, call.reviewer.id) THEN << >>
                       ELSE <<Entry(<<"standing-reviewer", call.reviewer.id>>, call.reviewer)>>
           middle == IF recorded THEN << >> ELSE <<ComparisonEntry(comparison)>>
           last == <<Entry(<<"accepted-standing", accepted>>, accepted)>>
<1>1. Avoids(<< >>, Named)
  BY NoWrites
<1>2. Avoids(reviewer, Named)
  <2>1. call.reviewer.record \notin Named
    BY DEF Named, Steering
  <2>2. Avoids(<<Entry(<<"standing-reviewer", call.reviewer.id>>, call.reviewer)>>, Named)
    BY <2>1, OneRecord
  <2>3. QED
    BY <1>1, <2>2
<1>3. Avoids(middle, Named)
  <2>1. CASE recorded
    BY <1>1, <2>1
  <2>2. CASE ~recorded
    <3>1. Avoids(<<ComparisonEntry(comparison)>>, Named)
      BY <2>2, OneRecord DEF ComparisonEntry
    <3>2. QED
      BY <2>2, <3>1
  <2>3. QED
    BY <2>1, <2>2
<1>4. Avoids(last, Named)
  <2>1. accepted.record \notin Named
    BY DEF AcceptedStanding, StandingAttestation, Named, Steering
  <2> HIDE DEF accepted
  <2>2. QED
    BY <2>1, OneRecord
<1>5. StandingOn(bundle, call, comparison, recorded)
        \in {Raises(<< >>), Returns(reviewer \o middle \o last)}
  BY DEF StandingOn
<1> HIDE DEF reviewer, middle, last
<1>6. IsLog(reviewer) /\ IsLog(middle) /\ IsLog(last)
  BY <1>2, <1>3, <1>4 DEF Avoids
<1>7. Avoids(reviewer \o middle, Named) /\ IsLog(reviewer \o middle)
  BY <1>2, <1>3, <1>6, JoinedWrites
<1>8. Avoids((reviewer \o middle) \o last, Named)
  BY <1>4, <1>6, <1>7, JoinedWrites
<1>9. Avoids(Returns(reviewer \o middle \o last).writes, Named)
  BY <1>8, StageHas
<1>10. QED
  BY <1>5, <1>9, RaisesNothing

LEMMA IssueAvoids ==
    ASSUME NEW bundle, NEW call, call.reviewer.record = "authority"
    PROVE  Avoids(IssueStanding(bundle, call).writes, Named)
<1>1. \A comparison : Avoids(StandingOn(bundle, call, comparison, TRUE).writes, Named)
  BY Zenon, StandingAvoids
<1>2. QED
  BY Zenon, <1>1, RaisesNothing DEF IssueStanding

LEMMA FinalizeAvoids ==
    ASSUME NEW bundle, NEW call, call.reviewer.record = "authority"
    PROVE  Avoids(FinalizeStanding(bundle, call).writes, Named)
<1>1. ComparisonOf(bundle, call).record \notin Named
  BY ComparisonAvoids
<1>2. Avoids(StandingOn(bundle, call, ComparisonOf(bundle, call), FALSE).writes, Named)
  BY Zenon, <1>1, StandingAvoids
<1>3. QED
  BY Zenon, <1>2, RaisesNothing DEF FinalizeStanding

LEMMA TranslateWritesAvoid ==
    ASSUME NEW bundle, NEW call, NEW findings, NEW prefix, IsList(call.briefs)
    PROVE  Avoids(TranslateWrites(bundle, call, findings, prefix), Named)
<1> DEFINE places == {i \in DOMAIN Translated(call, findings) :
                        RequirementOf(call, i, findings) \notin Collection(bundle, "requirement")}
           new == InOrder(places)
           r(n) == RequirementOf(call, new[n], findings)
           writes == [n \in DOMAIN new |-> Entry(<<prefix, r(n)>>, r(n))]
<1>1. PICK n \in Nat : DOMAIN Translated(call, findings) = 1..n
  <2>1. CASE findings = << >>
    <3>1. DOMAIN Translated(call, findings) = {} /\ 1..0 = {}
      BY <2>1 DEF Translated
    <3>2. QED
      BY <3>1
  <2>2. CASE findings # << >>
    <3>1. DOMAIN Translated(call, findings) = DOMAIN call.briefs
      BY <2>2 DEF Translated
    <3>2. QED
      BY <3>1, ListHas
  <2>3. QED
    BY <2>1, <2>2
<1>2. places \in SUBSET (1..n)
  BY <1>1
<1>3. TranslateWrites(bundle, call, findings, prefix) = writes
  BY DEF TranslateWrites
<1>4. \A i : r(i).record \notin Named
  BY DEF RequirementOf, Requirement, Named, Steering
<1> HIDE DEF places
<1>5. PICK m \in Nat : DOMAIN new = 1..m
  BY Zenon, <1>2, PlacesCount
<1> HIDE DEF new, r
<1>6. /\ \A i \in 1..m : writes[i] = Entry(<<prefix, r(i)>>, r(i))
      /\ writes = [i \in 1..m |-> writes[i]]
  BY <1>5
<1> HIDE DEF writes
<1>7. \A i \in 1..m : Avoid(writes[i], Named)
  <2>1. \A i : Avoid(Entry(<<prefix, r(i)>>, r(i)), Named)
    BY <1>4, EntryAvoids
  <2>2. QED
    BY Zenon, <1>6, <2>1
<1>8. Avoids(writes, Named)
  BY <1>5, <1>6, <1>7, EachWrite
<1>9. QED
  BY <1>3, <1>8

LEMMA TranslateAvoids ==
    ASSUME NEW bundle, NEW call, IsList(call.briefs)
    PROVE  /\ Avoids(Translate(bundle, call).writes, Named)
           /\ Avoids(TranslateRun(bundle, call).writes, Named)
<1>1. \A findings, prefix : Avoids(TranslateWrites(bundle, call, findings, prefix), Named)
  BY TranslateWritesAvoid
<1>2. \A findings, prefix :
         Avoids(Returns(TranslateWrites(bundle, call, findings, prefix)).writes, Named)
  BY <1>1, StageHas
<1>3. QED
  BY <1>2, RaisesNothing DEF Translate, TranslateRun

LEMMA FindingsAvoid ==
    ASSUME NEW bundle, NEW task, NEW id, NEW findings, IsList(findings)
    PROVE  Avoids(FindingEntries(bundle, task, id, findings), Named)
<1> DEFINE places == {n \in DOMAIN findings :
                        /\ findings[n] \notin Collection(bundle, "finding") \cup {None}
                        /\ \A k \in 1..(n - 1) : findings[k] # findings[n]}
           new == NewIn(findings, bundle)
           writes == [n \in DOMAIN new |->
                        Entry(<<"finding", task, id, new[n]>>, FindingOf(findings[new[n]]))]
<1>1. Len(findings) \in Nat /\ places \in SUBSET (1..Len(findings)) /\ new = InOrder(places)
  BY ListHas DEF NewIn
<1>2. FindingEntries(bundle, task, id, findings) = writes
  BY DEF FindingEntries
<1>3. \A found : FindingOf(found).record \notin Named
  BY DEF FindingOf, Finding, Named, Steering
<1> HIDE DEF places, new
<1>4. PICK m \in Nat : DOMAIN new = 1..m
  BY <1>1, PlacesCount
<1>5. /\ \A i \in 1..m :
            writes[i] = Entry(<<"finding", task, id, new[i]>>, FindingOf(findings[new[i]]))
      /\ writes = [i \in 1..m |-> writes[i]]
  BY <1>4
<1> HIDE DEF writes
<1>6. \A i \in 1..m : Avoid(writes[i], Named)
  <2>1. \A key, found : Avoid(Entry(key, FindingOf(found)), Named)
    BY <1>3, EntryAvoids
  <2>2. TAKE i \in 1..m
  <2>3. writes[i] = Entry(<<"finding", task, id, new[i]>>, FindingOf(findings[new[i]]))
    BY <1>5
  <2>4. Avoid(Entry(<<"finding", task, id, new[i]>>, FindingOf(findings[new[i]])), Named)
    BY <2>1
  <2>5. QED
    BY <2>3, <2>4
<1>7. Avoids(writes, Named)
  BY <1>4, <1>5, <1>6, EachWrite
<1>8. QED
  BY <1>2, <1>7

LEMMA RunAvoids ==
    ASSUME NEW log, NEW call, NEW n, IsList(People(call)), IsList(call.observations),
           \A i \in DOMAIN People(call) : IsAuthority(People(call)[i])
    PROVE  Avoids(RunStage(log, call, n).writes, Named)
<1> DEFINE bundle == Records(log)
           people == [i \in DOMAIN People(call) |->
                        Entry(<<"playtest-authority", People(call)[i].id>>, People(call)[i])]
           found == [i \in DOMAIN call.observations |-> call.observations[i].finding]
           places == {i \in DOMAIN found :
                        /\ found[i] \notin Collection(bundle, "finding") \cup {None}
                        /\ \A k \in 1..(i - 1) : found[k] # found[i]}
           new == NewIn(found, bundle)
           findings == [k \in DOMAIN new |->
                          LET f == found[new[k]]
                          IN Entry(<<"playtest-finding", call.id, LastPlace(call, f)>>, FindingOf(f))]
           run == RunOf(call, The(Protocols(bundle, call)))
           last == <<Entry(<<"run", call.id>>, run)>>
<1>1. RunStage(log, call, n) \in {Goes(people, None), Raises(<< >>), Returns(findings \o last)}
  BY DEF RunStage
<1>2. Avoids(people, Named)
  <2>1. Len(People(call)) \in Nat /\ DOMAIN People(call) = 1..Len(People(call))
    BY ListHas
  <2>2. \A i \in 1..Len(People(call)) : People(call)[i].record \notin Named
    BY <2>1 DEF IsAuthority, Named, Steering
  <2>3. /\ \A i \in 1..Len(People(call)) :
              people[i] = Entry(<<"playtest-authority", People(call)[i].id>>, People(call)[i])
        /\ people = [i \in 1..Len(People(call)) |-> people[i]]
    BY <2>1
  <2> HIDE DEF people
  <2>4. \A i \in 1..Len(People(call)) : Avoid(people[i], Named)
    <3>1. \A key, record : record.record \notin Named => Avoid(Entry(key, record), Named)
      BY EntryAvoids
    <3>2. TAKE i \in 1..Len(People(call))
    <3>3. people[i] = Entry(<<"playtest-authority", People(call)[i].id>>, People(call)[i])
      BY <2>3
    <3>4. Avoid(Entry(<<"playtest-authority", People(call)[i].id>>, People(call)[i]), Named)
      BY <2>2, <3>1
    <3>5. QED
      BY <3>3, <3>4
  <2>5. QED
    BY <2>1, <2>3, <2>4, EachWrite
<1>3. Avoids(findings, Named)
  <2>1. Len(call.observations) \in Nat /\ places \in SUBSET (1..Len(call.observations))
        /\ new = InOrder(places)
    BY ListHas DEF NewIn
  <2>2. \A f : FindingOf(f).record \notin Named
    BY DEF FindingOf, Finding, Named, Steering
  <2> HIDE DEF places, new, found
  <2>3. PICK m \in Nat : DOMAIN new = 1..m
    BY <2>1, PlacesCount
  <2>4. /\ \A i \in 1..m :
              findings[i] = Entry(<<"playtest-finding", call.id, LastPlace(call, found[new[i]])>>,
                                  FindingOf(found[new[i]]))
        /\ findings = [i \in 1..m |-> findings[i]]
    BY <2>3
  <2> HIDE DEF findings
  <2>5. \A i \in 1..m : Avoid(findings[i], Named)
    <3>1. \A key, f : Avoid(Entry(key, FindingOf(f)), Named)
      BY <2>2, EntryAvoids
    <3>2. QED
      BY Zenon, <2>4, <3>1
  <2>6. QED
    BY Zenon, <2>3, <2>4, <2>5, EachWrite
<1>4. Avoids(last, Named)
  <2>1. run.record \notin Named
    BY DEF RunOf, PlaytestRun, Named, Steering
  <2> HIDE DEF run
  <2>2. QED
    BY <2>1, OneRecord
<1> HIDE DEF people, findings, last
<1>5. Avoids(findings \o last, Named)
  <2>1. IsLog(findings) /\ IsLog(last)
    BY <1>3, <1>4 DEF Avoids
  <2>2. QED
    BY <1>3, <1>4, <2>1, JoinedWrites
<1>6. Avoids(Goes(people, None).writes, Named) /\ Avoids(Returns(findings \o last).writes, Named)
  BY <1>2, <1>5, StageHas
<1>7. QED
  BY <1>1, <1>6, RaisesNothing

\* The qualification calls write to a journal of their own.
LEMMA EventsAvoid ==
    ASSUME NEW call
    PROVE  /\ Avoids(Returns(<<AnchorEvent(call.candidate)>>).writes, Named)
           /\ DOMAIN call.rung \cap {"record", "child"} = {}
              /\ call.rung.type = "selected_rung_recorded"
                => Avoids(RecordSelectedRung(call).writes, Named)
<1>1. ASSUME NEW write, Avoid(write, Named) PROVE Avoids(Returns(<<write>>).writes, Named)
  <2>1. Avoids(<<write>>, Named)
    BY <1>1, OneWrite
  <2>2. QED
    BY <2>1, StageHas
<1>2. \A candidate : Avoid(AnchorEvent(candidate), Named)
  BY DEF AnchorEvent, Avoid, EfficiencyTypes
<1>3. DOMAIN call.rung \cap {"record", "child"} = {} /\ call.rung.type = "selected_rung_recorded"
        => Avoid(call.rung, Named)
  BY DEF Avoid, EfficiencyTypes
<1>4. QED
  BY <1>1, <1>2, <1>3, RaisesNothing DEF RecordSelectedRung

-----------------------------------------------------------------------------
(* What the efficiency calls record *)

EfficiencyOps == {"plan", "authorize", "observe", "measure"}

\* A plan is recorded once, and so is its formal measurement, for this is what their
\* keys are made of.
EventKeyed(e) ==
    /\ e.type \in EfficiencyTypes
    /\ e.type = "plan_recorded" =>
         e.key = <<"efficiency-plan", e.plan>> /\ InitialState(e.plan) # Refused
    /\ e.type = "formal_measurement_recorded" => e.key = <<"efficiency-formal", e.plan>>

\* What the events in the journal have to allow for another to be recorded.
Allowed(log, e) ==
    /\ EventKeyed(e)
    /\ e.type = "boundary_authorized" => MayAuthorize(log, e.plan, e.boundary)
    /\ e.type = "observation_recorded" =>
         /\ MayObserve(log, e.plan)
         /\ e.state = StateAfter(log, e.plan, e.observation) /\ e.state # Refused
    /\ e.type = "formal_measurement_recorded" =>
         MayMeasure(log, e.plan, e.plan.candidate, e.plan.instrument, e.judges)

IsEvent(write) == {"record", "child"} \cap DOMAIN write = {} /\ write.type \in EfficiencyTypes

\* An efficiency call records one event, which the journal allows, or nothing.
LEMMA EfficiencyStage ==
    ASSUME NEW call, IsCall(call), call.op \in EfficiencyOps, NEW n, NEW task, NEW given
    PROVE  \/ StageOf(call, n, task, given).writes = << >>
           \/ \E e : /\ StageOf(call, n, task, given).writes = <<e>>
                    /\ IsEvent(e) /\ Allowed(operational, e)
<1> DEFINE stage == StageOf(call, n, task, given)
<1>1. ASSUME call.op = "plan"
      PROVE  \/ stage = Raises(<< >>)
             \/ \E e : stage = Returns(<<e>>) /\ IsEvent(e) /\ Allowed(operational, e)
  <2>1. stage = RecordPlan(call) /\ InitialState(call.plan) # Refused
    BY <1>1 DEF StageOf, IsCall
  <2> DEFINE e == PlanEvent(call.plan)
  <2>2. /\ DOMAIN e = {"key", "type", "plan"} /\ e.type = "plan_recorded"
        /\ e.plan = call.plan /\ e.key = <<"efficiency-plan", call.plan>>
    BY DEF PlanEvent
  <2>3. stage = Raises(<< >>) \/ stage = Returns(<<e>>)
    BY <2>1 DEF RecordPlan
  <2> HIDE DEF e, stage
  <2>4. IsEvent(e) /\ Allowed(operational, e)
    BY <2>1, <2>2 DEF IsEvent, Allowed, EventKeyed, EfficiencyTypes
  <2>5. QED
    BY <2>3, <2>4
<1>2. ASSUME call.op = "authorize"
      PROVE  \/ stage = Raises(<< >>)
             \/ \E e : stage = Returns(<<e>>) /\ IsEvent(e) /\ Allowed(operational, e)
  <2>1. stage = AuthorizeBoundary(call)
    BY <1>2 DEF StageOf
  <2> DEFINE e == BoundaryEvent(call.plan, call.boundary)
  <2>2. /\ DOMAIN e = {"key", "type", "plan", "boundary"} /\ e.type = "boundary_authorized"
        /\ e.plan = call.plan /\ e.boundary = call.boundary
    BY DEF BoundaryEvent
  <2>3. \/ stage = Raises(<< >>)
        \/ stage = Returns(<<e>>) /\ MayAuthorize(operational, call.plan, call.boundary)
    BY <2>1 DEF AuthorizeBoundary
  <2> HIDE DEF e, stage
  <2>4. MayAuthorize(operational, call.plan, call.boundary) => IsEvent(e) /\ Allowed(operational, e)
    BY <2>2 DEF IsEvent, Allowed, EventKeyed, EfficiencyTypes
  <2>5. QED
    BY <2>3, <2>4
<1>3. ASSUME call.op = "observe"
      PROVE  \/ stage = Raises(<< >>)
             \/ \E e : stage = Returns(<<e>>) /\ IsEvent(e) /\ Allowed(operational, e)
  <2>1. stage = RecordObservation(call)
    BY <1>3 DEF StageOf
  <2> DEFINE state == StateAfter(operational, call.plan, call.observation)
             e == ObservationEvent(call.plan, call.observation, state)
  <2>2. /\ DOMAIN e = {"key", "type", "plan", "observation", "state"}
        /\ e.type = "observation_recorded" /\ e.plan = call.plan
        /\ e.observation = call.observation /\ e.state = state
    BY DEF ObservationEvent
  <2>3. \/ stage = Raises(<< >>)
        \/ stage = Returns(<<e>>) /\ MayObserve(operational, call.plan) /\ state # Refused
    BY <2>1 DEF RecordObservation
  <2> HIDE DEF e, stage
  <2>4. MayObserve(operational, call.plan) /\ state # Refused => IsEvent(e) /\ Allowed(operational, e)
    BY <2>2 DEF IsEvent, Allowed, EventKeyed, EfficiencyTypes
  <2>5. QED
    BY <2>3, <2>4
<1>4. ASSUME call.op = "measure"
      PROVE  \/ stage = Raises(<< >>)
             \/ \E e : stage = Returns(<<e>>) /\ IsEvent(e) /\ Allowed(operational, e)
  <2>1. stage = RecordFormalMeasurement(call)
    BY <1>4 DEF StageOf
  <2> DEFINE e == FormalEvent(call.plan, call.judges)
  <2>2. /\ DOMAIN e = {"key", "type", "plan", "judges"} /\ e.type = "formal_measurement_recorded"
        /\ e.plan = call.plan /\ e.judges = call.judges /\ e.key = <<"efficiency-formal", call.plan>>
    BY DEF FormalEvent
  <2>3. \/ stage = Raises(<< >>)
        \/ stage = Returns(<<e>>) /\ MayMeasure(operational, call.plan, call.candidate, call.instrument, call.judges)
    BY <2>1 DEF RecordFormalMeasurement
  <2> HIDE DEF e, stage
  <2>4. MayMeasure(operational, call.plan, call.candidate, call.instrument, call.judges)
          => MayMeasure(operational, e.plan, e.plan.candidate, e.plan.instrument, e.judges)
    BY <2>2 DEF MayMeasure
  <2>5. MayMeasure(operational, call.plan, call.candidate, call.instrument, call.judges)
          => IsEvent(e) /\ Allowed(operational, e)
    BY <2>2, <2>4 DEF IsEvent, Allowed, EventKeyed, EfficiencyTypes
  <2>6. QED
    BY <2>3, <2>5
<1> HIDE DEF stage
<1>5. \/ stage = Raises(<< >>)
      \/ \E e : stage = Returns(<<e>>) /\ IsEvent(e) /\ Allowed(operational, e)
  BY Zenon, <1>1, <1>2, <1>3, <1>4 DEF EfficiencyOps
<1>6. \/ stage.writes = << >>
      \/ \E e : stage.writes = <<e>> /\ IsEvent(e) /\ Allowed(operational, e)
  <2>1. CASE stage = Raises(<< >>)
    BY <2>1, StageHas
  <2>2. ASSUME NEW e, stage = Returns(<<e>>), IsEvent(e), Allowed(operational, e)
        PROVE  stage.writes = <<e>> /\ IsEvent(e) /\ Allowed(operational, e)
    BY <2>2, StageHas
  <2>3. QED
    BY Zenon, <1>5, <2>1, <2>2
<1>7. QED
  BY <1>6 DEF stage

\* That is nothing for the ledger or the lineage.
LEMMA EventWrites ==
    ASSUME NEW writes, writes = << >> \/ \E e : writes = <<e>> /\ IsEvent(e)
    PROVE  /\ IsLog(writes)
           /\ \A i \in DOMAIN writes : "record" \notin DOMAIN writes[i] /\ "child" \notin DOMAIN writes[i]
<1>1. CASE writes = << >>
  BY <1>1, NoWrites
<1>2. CASE \E e : writes = <<e>> /\ IsEvent(e)
  <2>1. PICK e : writes = <<e>> /\ IsEvent(e)
    BY <1>2
  <2>2. IsLog(<<e>>) /\ DOMAIN <<e>> = {1} /\ <<e>>[1] = e
    BY OneWrite
  <2>3. QED
    BY <2>1, <2>2 DEF IsEvent
<1>3. QED
  BY <1>1, <1>2

-----------------------------------------------------------------------------
(* Panels *)

\* Each member of a panel registers one record, which is not one of these kinds.
LEMMA MembersAvoid ==
    ASSUME NEW members, IsList(members), NEW writes, writes = [i \in DOMAIN members |-> writes[i]],
           NEW kinds, \A i \in DOMAIN members : Avoid(writes[i], kinds)
    PROVE  Avoids(writes, kinds) /\ Len(writes) = Len(members)
<1>1. PICK n \in Nat : DOMAIN members = 1..n /\ Len(members) = n
  BY ListHas
<1>2. writes = [i \in 1..n |-> writes[i]] /\ \A i \in 1..n : Avoid(writes[i], kinds)
  BY <1>1
<1>3. QED
  BY <1>1, <1>2, EachWrite

LEMMA PrepareAvoids ==
    ASSUME NEW bundle, NEW call, IsList(call.members)
    PROVE  /\ Avoids(PreparePanel(bundle, call).writes, Steering)
           /\ \A i \in DOMAIN PreparePanel(bundle, call).writes :
                 \/ Avoid(PreparePanel(bundle, call).writes[i], Named)
                 \/ /\ TasksNamed(bundle, call.key) = {}
                    /\ PreparePanel(bundle, call).writes[i].record = PanelTask(bundle, call)
<1> DEFINE existing == TasksNamed(bundle, call.key)
           panel == PanelTask(bundle, call)
           task == IF existing = {} THEN panel ELSE The(existing)
           judges == [i \in DOMAIN call.members |->
                        Entry(<<"authority", call.members[i].id>>, JudgeOf(call, i))]
           taken == {i \in DOMAIN call.members :
                       \E a \in Authorities(bundle) :
                          a.id = call.members[i].id /\ a # JudgeOf(call, i)}
           exposures == [i \in DOMAIN call.members |->
                           Entry(<<"exposure", call.key, call.members[i].id>>,
                                 Exposure(call.members[i].id, call.binding.trial,
                                          "trial-tree", task))]
           tasks == IF existing = {} THEN <<Entry(<<"task", call.key>>, task)>> ELSE << >>
<1>1. PreparePanel(bundle, call)
        = IF taken # {} THEN Raises(SubSeq(judges, 1, Min(taken) - 1))
          ELSE Goes((judges \o tasks) \o exposures, task)
  BY DEF PreparePanel
<1>2. Avoids(judges, Named) /\ Len(judges) = Len(call.members)
  <2>1. \A i : JudgeOf(call, i).record \notin Named
    BY DEF JudgeOf, Authority, Named, Steering
  <2>2. \A i, key : Avoid(Entry(key, JudgeOf(call, i)), Named)
    BY <2>1, EntryAvoids
  <2>3. /\ \A i \in DOMAIN call.members :
              judges[i] = Entry(<<"authority", call.members[i].id>>, JudgeOf(call, i))
        /\ judges = [i \in DOMAIN call.members |-> judges[i]]
    OBVIOUS
  <2> HIDE DEF judges
  <2>4. \A i \in DOMAIN call.members : Avoid(judges[i], Named)
    BY Zenon, <2>2, <2>3
  <2>5. QED
    BY Zenon, <2>3, <2>4, MembersAvoid
<1>3. Avoids(exposures, Named)
  <2> HIDE DEF task
  <2> DEFINE exposure(i) == Exposure(call.members[i].id, call.binding.trial, "trial-tree", task)
  <2>1. \A i : exposure(i).record \notin Named
    BY DEF Exposure, Named, Steering
  <2> HIDE DEF exposure
  <2>2. \A i, key : Avoid(Entry(key, exposure(i)), Named)
    BY <2>1, EntryAvoids
  <2>3. /\ \A i \in DOMAIN call.members :
              exposures[i] = Entry(<<"exposure", call.key, call.members[i].id>>, exposure(i))
        /\ exposures = [i \in DOMAIN call.members |-> exposures[i]]
    BY DEF exposure
  <2> HIDE DEF exposures
  <2>4. \A i \in DOMAIN call.members : Avoid(exposures[i], Named)
    BY Zenon, <2>2, <2>3
  <2>5. QED
    BY <2>3, <2>4, MembersAvoid
<1>4. Avoids(tasks, Steering) /\ \A i \in DOMAIN tasks : existing = {} /\ tasks[i].record = panel
  <2>1. CASE existing = {}
    <3> DEFINE entry == Entry(<<"task", call.key>>, task)
    <3>1. task.record \notin Steering /\ task = panel
      BY <2>1 DEF PanelTask, Task, Steering
    <3> HIDE DEF task
    <3>2. entry.record = panel /\ Avoid(entry, Steering)
      BY <3>1, EntryHas, EntryAvoids
    <3> HIDE DEF entry
    <3>3. IsLog(<<entry>>) /\ DOMAIN <<entry>> = {1} /\ <<entry>>[1] = entry /\ Avoids(<<entry>>, Steering)
      BY <3>2, OneWrite
    <3>4. tasks = <<entry>>
      BY <2>1 DEF entry, task
    <3> HIDE DEF tasks, existing, panel
    <3>5. QED
      BY <2>1, <3>2, <3>3, <3>4
  <2>2. CASE existing # {}
    <3>1. tasks = << >>
      BY <2>2
    <3>2. Avoids(<< >>, Steering) /\ DOMAIN << >> = {}
      BY NoWrites
    <3>3. QED
      BY <3>1, <3>2
  <2>3. QED
    BY <2>1, <2>2
<1>5. taken # {} => Min(taken) - 1 \in 0..Len(judges)
  <2> SUFFICES ASSUME taken # {} PROVE Min(taken) - 1 \in 0..Len(judges)
    OBVIOUS
  <2>1. Len(call.members) \in Nat /\ DOMAIN call.members = 1..Len(call.members)
    BY ListHas
  <2>2. taken \in SUBSET (1..Len(call.members))
    BY <2>1
  <2> HIDE DEF taken, judges
  <2>3. Min(taken) \in 1..Len(call.members)
    BY Zenon, <2>1, <2>2, SmallestIndex
  <2>4. QED
    BY <1>2, <2>1, <2>3
<1>6. \A writes : Avoids(writes, Named) => Avoids(writes, Steering)
  <2>1. Steering \in SUBSET Named
    BY DEF Named
  <2>2. QED
    BY <2>1, FewerKinds
<1> DEFINE Fits(writes) ==
             /\ Avoids(writes, Steering)
             /\ \A i \in DOMAIN writes : \/ Avoid(writes[i], Named)
                                         \/ existing = {} /\ writes[i].record = panel
<1> HIDE DEF judges, tasks, exposures, taken, task, existing, panel
<1>7. CASE taken # {}
  <2> DEFINE first == SubSeq(judges, 1, Min(taken) - 1)
  <2>1. Avoids(first, Named)
    BY <1>2, <1>5, <1>7, FirstWrites
  <2>2. PreparePanel(bundle, call) = Raises(first)
    BY <1>1, <1>7
  <2> HIDE DEF first
  <2>3. Fits(first)
    BY <1>6, <2>1 DEF Avoids
  <2>4. QED
    BY <2>2, <2>3, StageHas DEF existing, panel
<1>8. CASE taken = {}
  <2> DEFINE some == judges \o tasks
             all == some \o exposures
  <2>1. IsLog(judges) /\ IsLog(tasks) /\ IsLog(exposures)
    BY <1>2, <1>3, <1>4 DEF Avoids
  <2>2. /\ IsLog(some) /\ Avoids(some, Steering)
        /\ \A i \in DOMAIN some : \/ \E j \in DOMAIN judges : some[i] = judges[j]
                                  \/ \E j \in DOMAIN tasks : some[i] = tasks[j]
    BY <1>2, <1>4, <1>6, <2>1, JoinedWrites
  <2> HIDE DEF some
  <2>3. /\ Avoids(all, Steering)
        /\ \A i \in DOMAIN all : \/ \E j \in DOMAIN some : all[i] = some[j]
                                 \/ \E j \in DOMAIN exposures : all[i] = exposures[j]
    BY <1>3, <1>6, <2>1, <2>2, JoinedWrites
  <2>4. PreparePanel(bundle, call) = Goes(all, task)
    BY <1>1, <1>8 DEF some
  <2> HIDE DEF all
  <2>5. \A i \in DOMAIN all : \/ \E j \in DOMAIN judges : all[i] = judges[j]
                              \/ \E j \in DOMAIN tasks : all[i] = tasks[j]
                              \/ \E j \in DOMAIN exposures : all[i] = exposures[j]
    BY <2>2, <2>3
  <2>6. Fits(all)
    BY <1>2, <1>3, <1>4, <2>3, <2>5 DEF Avoids
  <2>7. QED
    BY <2>4, <2>6, StageHas DEF existing, panel
<1>9. QED
  BY <1>7, <1>8

LEMMA InvokeAvoids ==
    ASSUME NEW log, NEW call, IsList(call.members), NEW task, NEW given
    PROVE  Avoids(InvokePanel(log, call, task, given).writes, Named)
<1> DEFINE key(i) == ReceiptKey(task, call.members[i].id)
           pending == {i \in DOMAIN call.members : ~HasKey(log, key(i))}
           returned == {i \in pending : given[i] # None}
           order == InOrder(returned)
           receipt(i) == Invoked(key(i), call.members[i].id, "judge",
                                 PanelInput(call, task, i), given[i])
           writes == [n \in DOMAIN order |-> receipt(order[n])]
<1>1. InvokePanel(log, call, task, given) \in {Raises(<< >>), Raises(writes), Goes(writes, task)}
  BY DEF InvokePanel
<1>2. \A i : Avoid(receipt(i), Named)
  <2>1. \A a, b, c, d, e : ModelReceipt(a, b, c, d, e).record \notin Named
    BY DEF ModelReceipt, Named, Steering
  <2>2. \A k, a, b, c, d : Avoid(Invoked(k, a, b, c, d), Named)
    BY <2>1, EntryAvoids DEF Invoked
  <2>3. QED
    BY <2>2
<1>3. PICK m \in Nat : DOMAIN order = 1..m
  <2>1. Len(call.members) \in Nat /\ DOMAIN call.members = 1..Len(call.members)
    BY ListHas
  <2>2. returned \in SUBSET (1..Len(call.members))
    BY <2>1
  <2> HIDE DEF returned
  <2>3. QED
    BY <2>1, <2>2, PlacesCount
<1> HIDE DEF receipt, order
<1>4. writes = [i \in 1..m |-> writes[i]] /\ \A i \in 1..m : writes[i] = receipt(order[i])
  BY <1>3
<1> HIDE DEF writes
<1>5. \A i \in 1..m : Avoid(writes[i], Named)
  BY <1>2, <1>4
<1>6. Avoids(writes, Named)
  BY <1>4, <1>5, EachWrite
<1>7. QED
  BY <1>1, <1>6, StageHas, RaisesNothing

LEMMA JudgeAvoids ==
    ASSUME NEW log, NEW call, NEW task, NEW i
    PROVE  Avoids(JudgeMember(log, call, task, i).writes, Named)
<1> DEFINE bundle == Records(log)
           id == call.members[i].id
           output == IF call.kind = "agent" THEN ModelOutput(log, call, task, i)
                     ELSE call.members[i].output
           receipt == IF call.kind = "agent" THEN << >>
                      ELSE <<Answered(task, id, output)>>
           findings == FindingEntries(bundle, task, id, output.findings)
<1>1. CASE ObservationValid(bundle, call, output)
  <2>1. JudgeMember(log, call, task, i) \in {Raises(<< >>), Goes(receipt \o findings, task)}
    BY DEF JudgeMember
  <2>2. Avoids(findings, Named)
    <3>1. IsList(output.findings)
      BY <1>1 DEF ObservationValid, IsList
    <3> HIDE DEF output, bundle, id
    <3>2. QED
      BY <3>1, FindingsAvoid
  <2>3. Avoids(receipt, Named)
    <3>1. \A a, b, c, d : HumanReceipt(a, b, c, d).record \notin Named
      BY DEF HumanReceipt, Named, Steering
    <3>2. Avoids(<<Answered(task, id, output)>>, Named)
      BY <3>1, OneRecord DEF Answered
    <3>3. QED
      BY <3>2, NoWrites
  <2> HIDE DEF findings, receipt
  <2>4. Avoids(receipt \o findings, Named)
    <3>1. IsLog(receipt) /\ IsLog(findings)
      BY <2>2, <2>3 DEF Avoids
    <3>2. QED
      BY <2>2, <2>3, <3>1, JoinedWrites
  <2>5. QED
    BY <2>1, <2>4, StageHas, RaisesNothing
<1>2. CASE ~ObservationValid(bundle, call, output)
  <2>1. JudgeMember(log, call, task, i) = Raises(<< >>)
    BY <1>2 DEF JudgeMember
  <2>2. QED
    BY <2>1, RaisesNothing
<1>3. QED
  BY <1>1, <1>2

LEMMA FinalizePanelAvoids ==
    ASSUME NEW log, NEW call, NEW task
    PROVE  Avoids(FinalizePanel(log, call, task).writes, Named)
<1>1. \A a, b, c, d, e, f, g, h, k : Evaluation(a, b, c, d, e, f, g, h, k).record \notin Named
  BY DEF Evaluation, Named, Steering
<1>2. \A key, a, b, c, d, e, f, g, h, k :
         Avoids(Returns(<<Entry(key, Evaluation(a, b, c, d, e, f, g, h, k))>>).writes, Named)
  BY <1>1, ReturnsOne
<1>3. QED
  BY Zenon, <1>2 DEF FinalizePanel

\* Only the first stage of a panel names who judges.
LEMMA PanelAvoids ==
    ASSUME NEW log, NEW call, IsList(call.members), call.kind \in {"agent", "human"}, NEW n \in Nat \ {0},
           NEW task, NEW given
    PROVE  /\ Avoids(PanelStage(log, call, n, task, given).writes, Steering)
           /\ n # 1 => Avoids(PanelStage(log, call, n, task, given).writes, Named)
<1>1. CASE n = 1
  <2>1. PanelStage(log, call, n, task, given) = StartPanel(Records(log), call)
    BY <1>1 DEF PanelStage
  <2>2. StartPanel(Records(log), call)
          \in {Raises(<< >>), Returns(<< >>), PreparePanel(Records(log), call)}
    BY DEF StartPanel
  <2>3. Avoids(PreparePanel(Records(log), call).writes, Steering)
    BY PrepareAvoids
  <2>4. Avoids(Returns(<< >>).writes, Steering) /\ Avoids(Raises(<< >>).writes, Steering)
    BY NoWrites, StageHas
  <2>5. QED
    BY <1>1, <2>1, <2>2, <2>3, <2>4
<1>2. CASE n # 1
  <2> DEFINE first == IF call.kind = "agent" THEN 3 ELSE 2
             judging == n \in first..(first + Len(call.members) - 1)
  <2>1. \/ PanelStage(log, call, n, task, given) = InvokePanel(log, call, task, given)
        \/ \E i : PanelStage(log, call, n, task, given) = JudgeMember(log, call, task, i)
        \/ PanelStage(log, call, n, task, given) = FinalizePanel(log, call, task)
    <3>1. CASE n = 2 /\ call.kind = "agent"
      BY <1>2, <3>1 DEF PanelStage
    <3>2. CASE ~(n = 2 /\ call.kind = "agent") /\ judging
      <4>1. PanelStage(log, call, n, task, given) = JudgeMember(log, call, task, n - first + 1)
        BY Zenon, <1>2, <3>2 DEF PanelStage
      <4>2. QED
        BY <4>1
    <3>3. CASE ~(n = 2 /\ call.kind = "agent") /\ ~judging
      BY Zenon, <1>2, <3>3 DEF PanelStage
    <3>4. QED
      BY Zenon, <3>1, <3>2, <3>3
  <2>2. Avoids(PanelStage(log, call, n, task, given).writes, Named)
    BY <2>1, InvokeAvoids, JudgeAvoids, FinalizePanelAvoids
  <2>3. Steering \subseteq Named
    BY DEF Named
  <2>4. QED
    BY <2>2, <2>3, FewerKinds
<1>3. QED
  BY <1>1, <1>2

-----------------------------------------------------------------------------
(* What a stage of any call registers *)

LEMMA PlainStage ==
    ASSUME NEW call, IsCall(call), call.op \notin {"create", "propose", "review", "apply"},
           call.op \notin EfficiencyOps, call.op \in Operations, NEW n \in Nat \ {0}, NEW task, NEW given
    PROVE  /\ Avoids(StageOf(call, n, task, given).writes, Steering)
           /\ call.op # "panel" \/ n # 1 => Avoids(StageOf(call, n, task, given).writes, Named)
<1> DEFINE stage == StageOf(call, n, task, given)
<1>1. CASE call.op = "panel"
  <2>1. stage = PanelStage(climb, call, n, task, given)
    BY <1>1 DEF StageOf
  <2>2. IsList(call.members) /\ call.kind \in {"agent", "human"}
    BY <1>1 DEF IsCall
  <2> HIDE DEF stage
  <2>3. /\ Avoids(PanelStage(climb, call, n, task, given).writes, Steering)
        /\ n # 1 => Avoids(PanelStage(climb, call, n, task, given).writes, Named)
    BY <2>2, PanelAvoids
  <2>4. Avoids(stage.writes, Steering) /\ (n # 1 => Avoids(stage.writes, Named))
    BY <2>1, <2>3
  <2>5. QED
    BY <1>1, <2>4 DEF stage
<1>2. CASE call.op # "panel"
  <2>1. ASSUME call.op = "bind" PROVE Avoids(stage.writes, Named)
    <3>1. stage = Bind(Records(climb), call) /\ call.binding.record = "trial_binding"
      BY <2>1 DEF StageOf, IsCall
    <3>2. Avoids(stage.writes, Named)
      BY <3>1, BindAvoids
    <3>3. QED
      BY <3>2
  <2>2. ASSUME call.op = "translate" PROVE Avoids(stage.writes, Named)
    <3>1. stage = Translate(Records(climb), call) /\ IsList(call.briefs)
      BY <2>2 DEF StageOf, IsCall
    <3>2. QED
      BY <3>1, TranslateAvoids
  <2>3. ASSUME call.op = "translate_run" PROVE Avoids(stage.writes, Named)
    <3>1. stage = TranslateRun(Records(climb), call) /\ IsList(call.briefs)
      BY <2>3 DEF StageOf, IsCall
    <3>2. QED
      BY <3>1, TranslateAvoids
  <2>4. ASSUME call.op = "select" PROVE Avoids(stage.writes, Named)
    <3>1. stage = Select(Records(climb), call)
      BY <2>4 DEF StageOf
    <3>2. QED
      BY <3>1, SelectAvoids
  <2>5. ASSUME call.op = "attest" PROVE Avoids(stage.writes, Named)
    <3>1. stage = Attest(Records(climb), call)
      BY <2>5 DEF StageOf
    <3>2. QED
      BY <3>1, AttestAvoids
  <2>6. ASSUME call.op = "register" PROVE Avoids(stage.writes, Named)
    <3>1. stage = Returns(<<Entry(call.key, call.record)>>)
          /\ call.record.record \in {"authority", "model_receipt"}
      BY <2>6 DEF StageOf, IsCall
    <3>2. call.record.record \notin Named
      BY <3>1 DEF Named, Steering
    <3>3. QED
      BY <3>1, <3>2, ReturnsOne
  <2>7. ASSUME call.op = "freeze" PROVE Avoids(stage.writes, Named)
    <3>1. stage = FreezeProtocol(Records(climb), call)
      BY <2>7 DEF StageOf
    <3>2. QED
      BY <3>1, FreezeAvoids
  <2>8. ASSUME call.op = "run" PROVE Avoids(stage.writes, Named)
    <3>1. /\ stage = RunStage(climb, call, n)
          /\ IsList(People(call)) /\ IsList(call.observations)
          /\ \A i \in DOMAIN People(call) : IsAuthority(People(call)[i])
      BY <2>8 DEF StageOf, IsCall
    <3>2. QED
      BY <3>1, RunAvoids
  <2>9. ASSUME call.op = "compare" PROVE Avoids(stage.writes, Named)
    <3>1. stage = Compared(Records(climb), call)
      BY <2>9 DEF StageOf
    <3>2. QED
      BY <3>1, ComparedAvoids
  <2>10. ASSUME call.op = "issue" PROVE Avoids(stage.writes, Named)
    <3>1. stage = IssueStanding(Records(climb), call) /\ call.reviewer.record = "authority"
      BY <2>10 DEF StageOf, IsCall, IsAuthority
    <3>2. QED
      BY <3>1, IssueAvoids
  <2>11. ASSUME call.op = "finalize" PROVE Avoids(stage.writes, Named)
    <3>1. stage = FinalizeStanding(Records(climb), call) /\ call.reviewer.record = "authority"
      BY <2>11 DEF StageOf, IsCall, IsAuthority
    <3>2. QED
      BY <3>1, FinalizeAvoids
  <2>12. ASSUME call.op = "anchor" PROVE Avoids(stage.writes, Named)
    <3>1. stage = Returns(<<AnchorEvent(call.candidate)>>)
      BY <2>12 DEF StageOf
    <3>2. QED
      BY <3>1, EventsAvoid
  <2>13. ASSUME call.op = "rung" PROVE Avoids(stage.writes, Named)
    <3>1. stage = RecordSelectedRung(call) /\ DOMAIN call.rung \cap {"record", "child"} = {}
          /\ call.rung.type = "selected_rung_recorded"
      BY <2>13 DEF StageOf, IsCall
    <3>2. QED
      BY Zenon, <3>1, EventsAvoid
  <2> HIDE DEF stage
  <2>14. Avoids(stage.writes, Named)
    BY <1>2, <2>1, <2>2, <2>3, <2>4, <2>5, <2>6, <2>7, <2>8, <2>9, <2>10, <2>11, <2>12, <2>13
    DEF Operations, EfficiencyOps
  <2>15. Steering \in SUBSET Named
    BY DEF Named
  <2>16. Avoids(stage.writes, Steering)
    BY <2>14, <2>15, FewerKinds
  <2>17. QED
    BY <2>14, <2>16 DEF stage
<1>3. QED
  BY <1>1, <1>2

-----------------------------------------------------------------------------
(* The inductive invariant of the branch: the two journals *)

\* The Experiment is there: its Workspace and its first Draft are committed.
Made(moves) == Len(moves) >= 2

Committed(moves, draft) == \E d \in Range(moves) : d.child = draft
ApprovedBy(log, draft) ==
    \E review \in Reviews(Records(log)) :
       /\ review.decision = "approved"
       /\ draft = Draft(review.proposal.baseline, review.proposal.data)

\* There is one Proposal of a Task and one Review of a Proposal, for this is what
\* their keys are made of.
Keyed(entry) ==
    /\ entry.record.record = "proposal" => entry.key = <<"proposal", entry.record.task.key>>
    /\ entry.record.record \in {"human_review", "agent_review"}
         => entry.key = <<entry.record.record, entry.record.proposal>>
    /\ entry.record.record = "experiment_plan" => entry.key = <<"experiment-plan">>

RecordHolds(entry, moves) ==
    /\ Keyed(entry)
    /\ entry.record.record = "transition" => Committed(moves, entry.record.child)
WriteHolds(write, log, moves) ==
    /\ "record" \in DOMAIN write => RecordHolds(write, moves)
    /\ "child" \in DOMAIN write => ApprovedBy(log, write.child)

GlobalOf(log, moves) ==
    /\ IsLog(log) /\ KeysUnique(log)
    /\ IsLog(moves) /\ KeysUnique(moves)
    /\ log # << >> => Made(moves)
    /\ \A i \in DOMAIN log : RecordHolds(log[i], moves)
    /\ Len(moves) >= 1 => moves[1].key = <<"workspace-created">>
    /\ Len(moves) >= 2 => moves[2].key = <<"experiment-create">>
    /\ \A i \in DOMAIN moves : i > 2 => ApprovedBy(log, moves[i].child)

-----------------------------------------------------------------------------
(* Where a process is in the call it makes *)

Working(w) == w.phase \in {"write", "append", "index", "project", "verify"}
Landed(w) == w.phase \in {"index", "project"}

\* What Experiment.create registers; of a working process todo is what is left of it.
Opening(call) ==
    <<Commit(<<"workspace-created">>, None),
      Commit(<<"experiment-create">>, Draft(None, call.data)),
      Entry(<<"instrument", call.plan.instrument>>, call.plan.instrument),
      Entry(<<"authority", call.reviewer.id>>, call.reviewer),
      Entry(<<"experiment-plan">>, call.plan)>>
Creating(w, call, moves) ==
    /\ w.next \in {"done", "refused"}
    /\ w.next = "refused" => w.todo = << >>
    /\ w.next = "done" =>
         /\ Len(w.todo) <= 5
         /\ \A i \in 1..Len(w.todo) : w.todo[i] = Opening(call)[i + 5 - Len(w.todo)]
         /\ Len(w.todo) <= 4 \/ Landed(w) => Len(moves) >= 1
         /\ Len(w.todo) <= 3 \/ (Len(w.todo) <= 4 /\ Landed(w)) => Made(moves)

\* The Draft that an approved Review is about.
Target(log, call) ==
    LET proposal == The(ReviewsOf(Records(log), call)).proposal
    IN Draft(proposal.baseline, proposal.data)

\* It is committed before the Transition is registered.
Applying(w, call, log, moves) ==
    /\ w.phase = "run" /\ w.stage # 1 =>
         ReviewsOf(Records(log), call) # {} /\ Committed(moves, Target(log, call))
    /\ Working(w) /\ w.next = "stage" =>
         /\ ReviewsOf(Records(log), call) # {}
         /\ \A i \in DOMAIN w.todo : /\ JournalOf(w.todo[i]) = "lineage"
                                     /\ w.todo[i].child = Target(log, call)
         /\ Committed(moves, Target(log, call)) \/ (w.phase = "write" /\ w.todo # << >>)

\* The Task a builder works on is the one its call has prepared.
Proposing(w, call) ==
    /\ w.phase = "run" /\ w.stage >= 4 => w.task.key = call.key
    /\ Working(w) /\ w.stage >= 3 /\ w.next = "stage" => w.task.key = call.key

LocalOf(w, call, log, moves) ==
    /\ w.phase \in {"closed", "ready", "open", "run"} \/ Working(w)
    /\ w.stage \in Nat \ {0}
    /\ w.phase \in {"closed", "ready", "open"} => w.stage = 1
    /\ w.phase = "open" => call.op # "create"
    /\ w.phase \in {"ready", "run"} => Made(moves)
    /\ Working(w) => IsLog(w.todo)
    /\ Landed(w) => w.todo # << >>
    /\ w.phase = "verify" => w.todo = << >> /\ w.next = "done"
    /\ Working(w) /\ call.op = "create" => Creating(w, call, moves)
    /\ Working(w) /\ call.op # "create" =>
         Made(moves) /\ \A i \in DOMAIN w.todo : WriteHolds(w.todo[i], log, moves)
    /\ call.op = "apply" => Applying(w, call, log, moves)
    /\ call.op = "propose" => Proposing(w, call)

Settled == Placed /\ DOMAIN results = Operators /\ \A p \in Operators : IsLog(results[p])
MovesInv ==
    /\ Settled /\ scenario \in Scenarios
    /\ GlobalOf(climb, drafts)
    /\ \A p \in Operators : Busy(p) => Remaining(p)
    /\ \A p \in Operators : Remaining(p) => LocalOf(work[p], CallOf(p), climb, drafts)

-----------------------------------------------------------------------------
(* What stays true as the journals grow *)

LEMMA RecordPlace ==
    ASSUME NEW log, IsLog(log), NEW kind, NEW record \in Collection(Records(log), kind)
    PROVE  record.record = kind /\ \E i \in DOMAIN log : log[i].record = record
<1>1. record \in Range(Records(log)) /\ record.record = kind
  <2>1. Collection(Records(log), kind) = {r \in Range(Records(log)) : r.record = kind}
    BY CollectionIs
  <2>2. QED
    BY <2>1
<1>2. Range(Records(log)) = {e.record : e \in Range(log)}
  BY RecordsAre
<1>3. PICK e \in Range(log) : e.record = record
  BY <1>1, <1>2
<1>4. \E i \in DOMAIN log : log[i] = e
  BY <1>3 DEF Range
<1>5. QED
  BY <1>1, <1>3, <1>4

\* There is at most one Review of the kind that a call applies.
LEMMA OneReview ==
    ASSUME NEW log, NEW moves, GlobalOf(log, moves), NEW call,
           NEW r \in ReviewsOf(Records(log), call), NEW s \in ReviewsOf(Records(log), call)
    PROVE  r = s
<1>1. IsLog(log) /\ KeysUnique(log) /\ \A i \in DOMAIN log : Keyed(log[i])
  BY DEF GlobalOf, RecordHolds
<1>2. /\ r \in Reviews(Records(log)) /\ s \in Reviews(Records(log)) /\ r.record = s.record
      /\ r.proposal \in Collection(Records(log), "proposal") /\ r.proposal.task.key = call.of
      /\ s.proposal \in Collection(Records(log), "proposal") /\ s.proposal.task.key = call.of
  BY Zenon DEF ReviewsOf, ProposalsOf
<1>3. r.proposal = s.proposal
  <2>1. PICK i \in DOMAIN log : log[i].record = r.proposal
    BY <1>1, <1>2, RecordPlace
  <2>2. PICK j \in DOMAIN log : log[j].record = s.proposal
    BY <1>1, <1>2, RecordPlace
  <2>3. r.proposal.record = "proposal" /\ s.proposal.record = "proposal"
    BY <1>1, <1>2, RecordPlace
  <2>4. log[i].key = <<"proposal", call.of>> /\ log[j].key = <<"proposal", call.of>>
    BY <1>1, <1>2, <2>1, <2>2, <2>3 DEF Keyed
  <2>5. i = j
    BY <1>1, <2>4 DEF KeysUnique
  <2>6. QED
    BY <2>1, <2>2, <2>5
<1>4. ASSUME NEW x \in Reviews(Records(log))
      PROVE  \E i \in DOMAIN log : log[i].record = x /\ log[i].key = <<x.record, x.proposal>>
  <2>1. /\ x.record \in {"human_review", "agent_review"}
        /\ \E i \in DOMAIN log : log[i].record = x
    <3>1. x \in Collection(Records(log), "human_review") \/ x \in Collection(Records(log), "agent_review")
      BY DEF Reviews
    <3>2. QED
      BY <1>1, <3>1, RecordPlace
  <2>2. PICK i \in DOMAIN log : log[i].record = x
    BY <2>1
  <2>3. log[i].key = <<x.record, x.proposal>>
    BY <1>1, <2>1, <2>2 DEF Keyed
  <2>4. QED
    BY <2>2, <2>3
<1>5. PICK i \in DOMAIN log : log[i].record = r /\ log[i].key = <<r.record, r.proposal>>
  BY Zenon, <1>2, <1>4
<1>6. PICK j \in DOMAIN log : log[j].record = s /\ log[j].key = <<s.record, s.proposal>>
  BY Zenon, <1>2, <1>4
<1>7. i = j
  BY <1>1, <1>2, <1>3, <1>5, <1>6 DEF KeysUnique
<1>8. QED
  BY <1>5, <1>6, <1>7

LEMMA TheIn == ASSUME NEW set, set # {} PROVE The(set) \in set
BY DEF The

\* So what a call applies does not change.
LEMMA TargetLater ==
    ASSUME NEW log, NEW later, Grows(later, log), NEW moves, GlobalOf(later, moves), NEW call,
           ReviewsOf(Records(log), call) # {}
    PROVE  /\ ReviewsOf(Records(later), call) # {}
           /\ Target(later, call) = Target(log, call)
<1>1. ReviewsOf(Records(log), call) \subseteq ReviewsOf(Records(later), call)
  <2>1. /\ Reviews(Records(log)) \subseteq Reviews(Records(later))
        /\ Collection(Records(log), "proposal") \subseteq Collection(Records(later), "proposal")
    BY GrowsKeeps
  <2>2. QED
    BY <2>1 DEF ReviewsOf, ProposalsOf
<1>2. ReviewsOf(Records(later), call) # {}
  BY <1>1
<1>3. /\ The(ReviewsOf(Records(log), call)) \in ReviewsOf(Records(later), call)
      /\ The(ReviewsOf(Records(later), call)) \in ReviewsOf(Records(later), call)
  BY <1>1, <1>2, TheIn
<1>4. The(ReviewsOf(Records(log), call)) = The(ReviewsOf(Records(later), call))
  BY <1>3, OneReview
<1>5. QED
  BY <1>2, <1>4 DEF Target

LEMMA MadeLater == ASSUME NEW log, NEW later, Grows(later, log), Made(log) PROVE Made(later)
BY LogFacts DEF Grows, Made

LEMMA CommittedLater ==
    ASSUME NEW log, NEW later, Grows(later, log), NEW draft, Committed(log, draft)
    PROVE  Committed(later, draft)
<1>1. Range(log) \subseteq Range(later)
  BY GrowsKeeps
<1>2. QED
  BY <1>1 DEF Committed

LEMMA ApprovedLater ==
    ASSUME NEW log, NEW later, Grows(later, log), NEW draft, ApprovedBy(log, draft)
    PROVE  ApprovedBy(later, draft)
<1>1. Reviews(Records(log)) \subseteq Reviews(Records(later))
  BY GrowsKeeps
<1>2. QED
  BY <1>1 DEF ApprovedBy

LEMMA RecordLater ==
    ASSUME NEW moves, NEW longer, Grows(longer, moves), NEW entry, RecordHolds(entry, moves)
    PROVE  RecordHolds(entry, longer)
BY CommittedLater DEF RecordHolds

LEMMA WriteLater ==
    ASSUME NEW log, NEW later, Grows(later, log), NEW moves, NEW longer, Grows(longer, moves),
           NEW write, WriteHolds(write, log, moves)
    PROVE  WriteHolds(write, later, longer)
<1>1. "record" \in DOMAIN write => RecordHolds(write, longer)
  BY RecordLater DEF WriteHolds
<1>2. "child" \in DOMAIN write => ApprovedBy(later, write.child)
  BY ApprovedLater DEF WriteHolds
<1>3. QED
  BY <1>1, <1>2 DEF WriteHolds

LEMMA ApplyingLater ==
    ASSUME NEW log, NEW later, Grows(later, log), NEW moves, NEW longer, Grows(longer, moves),
           GlobalOf(later, longer), NEW w, NEW call, Applying(w, call, log, moves)
    PROVE  Applying(w, call, later, longer)
<1>1. ReviewsOf(Records(log), call) # {} =>
        ReviewsOf(Records(later), call) # {} /\ Target(later, call) = Target(log, call)
  BY TargetLater
<1>2. Committed(moves, Target(log, call)) => Committed(longer, Target(log, call))
  BY CommittedLater
<1>3. QED
  BY <1>1, <1>2 DEF Applying

LEMMA CreatingLater ==
    ASSUME NEW moves, NEW longer, Grows(longer, moves), NEW w, NEW call, Creating(w, call, moves)
    PROVE  Creating(w, call, longer)
<1>1. Made(moves) => Made(longer)
  BY MadeLater
<1>2. Len(moves) >= 1 => Len(longer) >= 1
  BY LogFacts DEF Grows
<1>3. QED
  BY Zenon, <1>1, <1>2 DEF Creating

LEMMA LocalLater ==
    ASSUME NEW log, NEW later, Grows(later, log), NEW moves, NEW longer, Grows(longer, moves),
           GlobalOf(later, longer), NEW w, NEW call, LocalOf(w, call, log, moves)
    PROVE  LocalOf(w, call, later, longer)
<1>1. Made(moves) => Made(longer)
  BY MadeLater
<1>2. \A write : WriteHolds(write, log, moves) => WriteHolds(write, later, longer)
  BY WriteLater
<1>3. Applying(w, call, log, moves) => Applying(w, call, later, longer)
  BY ApplyingLater
<1>4. Creating(w, call, moves) => Creating(w, call, longer)
  BY CreatingLater
<1>5. QED
  BY <1>1, <1>2, <1>3, <1>4 DEF LocalOf

-----------------------------------------------------------------------------
(* What a stage leaves to be registered *)

Eventless(writes) == \A i \in DOMAIN writes : ~IsEvent(writes[i])
StageHolds(stage, call, n, log, moves) ==
    /\ IsLog(stage.writes)
    /\ call.op = "create" =>
         \/ stage.next = "done" /\ stage.writes = Opening(call)
         \/ stage.next = "refused" /\ stage.writes = << >>
    /\ call.op # "create" => \A i \in DOMAIN stage.writes : WriteHolds(stage.writes[i], log, moves)
    /\ call.op = "propose" /\ n >= 3 /\ stage.next = "stage" => stage.task.key = call.key
    /\ call.op = "apply" /\ stage.next = "stage" =>
         /\ ReviewsOf(Records(log), call) # {}
         /\ stage.writes = <<Commit(TransitionKey(call), Target(log, call))>>
    /\ call.op \notin EfficiencyOps => Eventless(stage.writes)

LEMMA AvoidHolds ==
    ASSUME NEW writes, Avoids(writes, Steering), NEW log, NEW moves
    PROVE  /\ IsLog(writes) /\ \A i \in DOMAIN writes : WriteHolds(writes[i], log, moves)
           /\ Eventless(writes)
BY DEF Avoids, Avoid, Steering, WriteHolds, RecordHolds, Keyed, Eventless, IsEvent

\* One record under its key.
LEMMA OneHolds ==
    ASSUME NEW key, NEW record, NEW log, NEW moves, RecordHolds(Entry(key, record), moves)
    PROVE  /\ IsLog(<<Entry(key, record)>>)
           /\ \A i \in DOMAIN <<Entry(key, record)>> :
                 WriteHolds(<<Entry(key, record)>>[i], log, moves)
           /\ Eventless(<<Entry(key, record)>>)
<1> DEFINE entry == Entry(key, record)
<1>1. "child" \notin DOMAIN entry /\ ~IsEvent(entry)
  BY EntryHas DEF IsEvent
<1>2. WriteHolds(entry, log, moves)
  BY <1>1 DEF WriteHolds
<1> HIDE DEF entry
<1>3. IsLog(<<entry>>) /\ DOMAIN <<entry>> = {1} /\ <<entry>>[1] = entry
  BY OneWrite
<1>4. \A i \in DOMAIN <<entry>> : WriteHolds(<<entry>>[i], log, moves) /\ ~IsEvent(<<entry>>[i])
  BY <1>1, <1>2, <1>3
<1>5. Eventless(<<entry>>)
  BY <1>4 DEF Eventless
<1>6. QED
  BY <1>3, <1>4, <1>5 DEF entry

LEMMA OpeningHas ==
    ASSUME NEW call
    PROVE  /\ IsLog(Opening(call)) /\ Len(Opening(call)) = 5
           /\ Opening(call)[1] = Commit(<<"workspace-created">>, None)
           /\ Opening(call)[2] = Commit(<<"experiment-create">>, Draft(None, call.data))
           /\ Opening(call)[3] = Entry(<<"instrument", call.plan.instrument>>, call.plan.instrument)
           /\ Opening(call)[4] = Entry(<<"authority", call.reviewer.id>>, call.reviewer)
           /\ Opening(call)[5] = Entry(<<"experiment-plan">>, call.plan)
<1>1. \A a, b, c, d, e : <<a, b, c, d, e>> \in Seq({a, b, c, d, e}) /\ Len(<<a, b, c, d, e>>) = 5
  OBVIOUS
<1>2. \A a, b, c, d, e : IsLog(<<a, b, c, d, e>>)
  BY Zenon, <1>1, SeqIsLog
<1>3. QED
  BY <1>1, <1>2 DEF Opening

LEMMA OpeningEventless == ASSUME NEW call PROVE Eventless(Opening(call))
<1>1. \A key, record : ~IsEvent(Entry(key, record))
  BY EntryHas DEF IsEvent
<1>2. \A key, child : ~IsEvent(Commit(key, child))
  BY DEF IsEvent, Commit
<1>3. ASSUME NEW k \in 1..5 PROVE ~IsEvent(Opening(call)[k])
  <2>1. k = 1 \/ k = 2 \/ k = 3 \/ k = 4 \/ k = 5
    OBVIOUS
  <2>2. QED
    BY Zenon, <1>1, <1>2, <2>1, OpeningHas
<1>4. DOMAIN Opening(call) = 1..5
  BY Zenon, OpeningHas, LogFacts
<1>5. QED
  BY <1>3, <1>4 DEF Eventless

LEMMA CreateStage ==
    ASSUME NEW call, call.op = "create", NEW n, NEW task, NEW given
    PROVE  StageHolds(StageOf(call, n, task, given), call, n, climb, drafts)
<1> DEFINE stage == StageOf(call, n, task, given)
<1>1. stage = Create(call)
  BY DEF StageOf
<1>2. Create(call) \in {Raises(<< >>), Returns(Opening(call))}
  BY DEF Create, Opening
<1> HIDE DEF stage
<1>3. \/ stage.next = "done" /\ stage.writes = Opening(call)
      \/ stage.next = "refused" /\ stage.writes = << >>
  BY <1>1, <1>2, StageHas
<1>4. IsLog(stage.writes) /\ Eventless(stage.writes)
  <2>1. CASE stage.writes = << >>
    BY <2>1, NoWrites DEF Eventless
  <2>2. CASE stage.writes = Opening(call)
    BY Zenon, <2>2, OpeningHas, OpeningEventless
  <2>3. QED
    BY <1>3, <2>1, <2>2
<1>5. StageHolds(stage, call, n, climb, drafts)
  BY <1>3, <1>4 DEF StageHolds
<1>6. QED
  BY <1>5 DEF stage

LEMMA ReviewStage ==
    ASSUME NEW call, call.op = "review", NEW n, NEW task, NEW given
    PROVE  StageHolds(StageOf(call, n, task, given), call, n, climb, drafts)
<1> DEFINE stage == StageOf(call, n, task, given)
           review == ReviewOf(Records(climb), call)
           key == <<review.record, review.proposal>>
<1>1. stage \in {Raises(<< >>), Returns(<<Entry(key, review)>>)}
  BY DEF StageOf, Review
<1>2. review.record \in {"human_review", "agent_review"}
  BY DEF ReviewOf, HumanReview, AgentReview
<1> HIDE DEF review, stage
<1>3. RecordHolds(Entry(key, review), drafts)
  BY <1>2, EntryHas DEF RecordHolds, Keyed
<1>4. /\ IsLog(stage.writes) /\ \A i \in DOMAIN stage.writes : WriteHolds(stage.writes[i], climb, drafts)
      /\ Eventless(stage.writes)
  <2>1. CASE stage = Raises(<< >>)
    <3>1. Avoids(stage.writes, Steering)
      BY <2>1, RaisesNothing
    <3>2. QED
      BY <3>1, AvoidHolds
  <2>2. CASE stage = Returns(<<Entry(key, review)>>)
    <3>1. stage.writes = <<Entry(key, review)>>
      BY <2>2, StageHas
    <3>2. QED
      BY <1>3, <3>1, OneHolds
  <2>3. QED
    BY <1>1, <2>1, <2>2
<1>5. StageHolds(stage, call, n, climb, drafts)
  BY <1>4 DEF StageHolds
<1>6. QED
  BY <1>5 DEF stage

LEMMA ApplyingStage ==
    ASSUME NEW call, call.op = "apply", NEW n \in Nat \ {0}, NEW task, NEW given,
           n # 1 /\ ReviewsOf(Records(climb), call) # {} => Committed(drafts, Target(climb, call))
    PROVE  StageHolds(StageOf(call, n, task, given), call, n, climb, drafts)
<1> DEFINE stage == StageOf(call, n, task, given)
           bundle == Records(climb)
           reviews == ReviewsOf(bundle, call)
           review == The(reviews)
           proposal == review.proposal
           child == Draft(proposal.baseline, proposal.data)
           first == <<Commit(TransitionKey(call), child)>>
           transition == Transition(proposal, review, review.reviewer, proposal.baseline,
                                    proposal.data, child)
           key == <<"transition", call.key>>
           allowed == reviews # {} /\ MayApply(bundle, review)
<1>1. stage = IF ~allowed THEN Raises(<< >>)
              ELSE IF n = 1 THEN Goes(first, None) ELSE Returns(<<Entry(key, transition)>>)
  BY DEF StageOf, ApplyStage
<1>2. child = Target(climb, call)
  BY DEF Target
<1>3. allowed => reviews # {} /\ ApprovedBy(climb, child)
  <2>1. reviews # {} => review \in reviews
    BY TheIn
  <2>2. reviews # {} => review \in Reviews(bundle)
    BY <2>1 DEF ReviewsOf
  <2>3. allowed => review.decision = "approved"
    BY DEF MayApply
  <2>4. QED
    BY <2>2, <2>3 DEF ApprovedBy
<1>4. transition.record = "transition" /\ transition.child = child
  BY DEF Transition
<1> HIDE DEF stage, child, transition, reviews, allowed
<1>5. CASE ~allowed
  <2>1. stage.writes = << >> /\ stage.next = "refused"
    BY <1>1, <1>5, StageHas
  <2>2. IsLog(<< >>) /\ DOMAIN << >> = {} /\ Eventless(<< >>)
    BY NoWrites DEF Eventless
  <2>3. QED
    BY <2>1, <2>2 DEF StageHolds, stage
<1>6. CASE allowed /\ n = 1
  <2>1. stage.writes = first /\ stage.next = "stage"
    BY <1>1, <1>6, StageHas
  <2>2. IsLog(first) /\ DOMAIN first = {1} /\ first[1] = Commit(TransitionKey(call), child)
    BY OneWrite
  <2>3. WriteHolds(Commit(TransitionKey(call), child), climb, drafts)
    BY <1>3, <1>6 DEF WriteHolds, Commit
  <2>4. \A i \in DOMAIN first : WriteHolds(first[i], climb, drafts) /\ ~IsEvent(first[i])
    <3>1. ~IsEvent(Commit(TransitionKey(call), child))
      BY DEF IsEvent, Commit
    <3>2. QED
      BY <2>2, <2>3, <3>1
  <2>5. first = <<Commit(TransitionKey(call), Target(climb, call))>>
        /\ ReviewsOf(Records(climb), call) # {}
    BY <1>2, <1>3, <1>6 DEF reviews
  <2> HIDE DEF first
  <2>6. QED
    BY <2>1, <2>2, <2>4, <2>5 DEF StageHolds, stage, Eventless
<1>7. CASE allowed /\ n # 1
  <2>1. stage.writes = <<Entry(key, transition)>> /\ stage.next = "done"
    BY <1>1, <1>7, StageHas
  <2>2. Committed(drafts, child)
    BY <1>2, <1>3, <1>7 DEF reviews
  <2>3. RecordHolds(Entry(key, transition), drafts)
    BY <1>4, <2>2, EntryHas DEF RecordHolds, Keyed
  <2>4. /\ IsLog(stage.writes) /\ \A i \in DOMAIN stage.writes : WriteHolds(stage.writes[i], climb, drafts)
        /\ Eventless(stage.writes)
    BY <2>1, <2>3, OneHolds
  <2>5. QED
    BY <2>1, <2>4 DEF StageHolds, stage
<1>8. QED
  BY <1>5, <1>6, <1>7

LEMMA FixAvoids ==
    ASSUME NEW bundle, NEW call, NEW head
    PROVE  /\ Avoids(PrepareFix(bundle, call, head).writes, Steering)
           /\ PrepareFix(bundle, call, head).task.key = call.key
           /\ PrepareFix(bundle, call, head).task.kind = "fix"
           /\ \A i \in DOMAIN PrepareFix(bundle, call, head).writes :
                 LET record == PrepareFix(bundle, call, head).writes[i].record
                 IN record.record = "task" => record.kind = "fix"
<1> DEFINE task == FixTask(bundle, call, head)
           one == Entry(<<"task", call.key>>, task)
           exposure(label, object) ==
              Entry(<<"exposure", call.key, label>>, Exposure(call.builder.id, object, label, task))
           two == exposure("answer_safe_requirements", task.inputs.requirements)
           three == exposure("authoring_package", task.inputs.package)
<1>1. PrepareFix(bundle, call, head) = Goes(<<one, two, three>>, task)
  BY DEF PrepareFix
<1>2. task.record = "task" /\ task.key = call.key /\ task.kind = "fix"
  BY DEF FixTask, Task
<1>3. \A label, object : /\ Avoid(exposure(label, object), Named)
                         /\ exposure(label, object).record.record = "exposure"
  BY EntryHas DEF Avoid, Exposure, Named, Steering
<1>4. Avoid(one, Steering) /\ one.record = task
  BY <1>2, EntryHas DEF Avoid, Steering
<1>5. Avoid(two, Steering) /\ Avoid(three, Steering)
      /\ two.record.record = "exposure" /\ three.record.record = "exposure"
  BY <1>3 DEF Avoid, Named
<1> HIDE DEF one, two, three, task
<1>6. <<one, two, three>> \in Seq({one, two, three}) /\ DOMAIN <<one, two, three>> = {1, 2, 3}
      /\ <<one, two, three>>[1] = one /\ <<one, two, three>>[2] = two
      /\ <<one, two, three>>[3] = three
  OBVIOUS
<1>7. IsLog(<<one, two, three>>)
  BY Zenon, <1>6, SeqIsLog
<1>8. Avoids(<<one, two, three>>, Steering)
  BY <1>4, <1>5, <1>6, <1>7 DEF Avoids
<1>9. /\ PrepareFix(bundle, call, head).writes = <<one, two, three>>
      /\ PrepareFix(bundle, call, head).task = task
  BY <1>1, StageHas
<1>10. QED
  BY <1>2, <1>4, <1>5, <1>6, <1>8, <1>9

LEMMA BuilderAvoids ==
    ASSUME NEW log, NEW call, NEW task, NEW given
    PROVE  /\ Avoids(InvokeBuilder(log, call, task, given).writes, Named)
           /\ InvokeBuilder(log, call, task, given).next = "stage"
                => InvokeBuilder(log, call, task, given).task = task
<1> DEFINE receipt == Invoked(BuilderKey(task), call.builder.id, "builder", [task |-> task], given)
<1>1. InvokeBuilder(log, call, task, given)
        \in {Raises(<< >>), Goes(<< >>, task), Goes(<<receipt>>, task)}
  BY DEF InvokeBuilder
<1>2. Avoids(<<receipt>>, Named)
  <2>1. \A a, b, c, d, e : ModelReceipt(a, b, c, d, e).record \notin Named
    BY DEF ModelReceipt, Named, Steering
  <2>2. \A k, a, b, c, d, e : Avoids(<<Entry(k, ModelReceipt(a, b, c, d, e))>>, Named)
    BY <2>1, OneRecord
  <2>3. QED
    BY <2>2 DEF Invoked
<1> HIDE DEF receipt
<1>3. Avoids(<< >>, Named)
  BY NoWrites
<1>4. QED
  BY <1>1, <1>2, <1>3, StageHas

LEMMA ProposingStage ==
    ASSUME NEW call, IsCall(call), call.op = "propose", NEW n \in Nat \ {0}, NEW task, NEW given,
           n >= 4 => task.key = call.key
    PROVE  StageHolds(StageOf(call, n, task, given), call, n, climb, drafts)
<1> DEFINE stage == StageOf(call, n, task, given)
           bundle == Records(climb)
           head == CurrentDraft
<1>1. stage = ProposeStage(climb, call, n, task, given, head)
      /\ IsList(call.briefs) /\ IsAuthority(call.builder)
  BY DEF StageOf, IsCall
<1> HIDE DEF stage
<1>2. CASE n <= 4
  <2>1. /\ Avoids(stage.writes, Steering)
        /\ n >= 3 /\ stage.next = "stage" => stage.task.key = call.key
    <3>1. CASE n = 1
      <4>1. stage \in {[Translate(bundle, call) EXCEPT !.next = "stage"], Goes(<< >>, None),
                       Raises(<< >>)}
        BY <1>1, <3>1 DEF ProposeStage
      <4>2. Avoids(Translate(bundle, call).writes, Named)
        BY <1>1, TranslateAvoids
      <4>3. [Translate(bundle, call) EXCEPT !.next = "stage"].writes = Translate(bundle, call).writes
        <5>1. \/ \E w : Translate(bundle, call) = Returns(w)
              \/ Translate(bundle, call) = Raises(<< >>)
          BY DEF Translate
        <5>2. QED
          BY <5>1 DEF Returns, Raises
      <4>4. Avoids(stage.writes, Named)
        <5>1. CASE stage = [Translate(bundle, call) EXCEPT !.next = "stage"]
          BY <4>2, <4>3, <5>1
        <5>2. CASE stage \in {Goes(<< >>, None), Raises(<< >>)}
          BY <5>2, NoWrites, StageHas
        <5>3. QED
          BY <4>1, <5>1, <5>2
      <4>5. Steering \in SUBSET Named
        BY DEF Named
      <4>6. Avoids(stage.writes, Steering)
        BY <4>4, <4>5, FewerKinds
      <4>7. QED
        BY <3>1, <4>6
    <3>2. CASE n = 2
      <4>1. stage = Goes(<<Entry(<<"authority", call.builder.id>>, call.builder)>>, None)
        BY <1>1, <3>2 DEF ProposeStage
      <4>2. call.builder.record \notin Steering
        BY <1>1 DEF IsAuthority, Steering
      <4>3. Avoids(<<Entry(<<"authority", call.builder.id>>, call.builder)>>, Steering)
        BY <4>2, OneRecord
      <4>4. QED
        BY <3>2, <4>1, <4>3, StageHas
    <3>3. CASE n = 3
      <4>1. stage = PrepareFix(bundle, call, head)
        BY <1>1, <3>3 DEF ProposeStage
      <4>2. QED
        BY <4>1, FixAvoids
    <3>4. CASE n = 4
      <4>1. stage = InvokeBuilder(climb, call, task, given)
        BY <1>1, <3>4 DEF ProposeStage
      <4>2. Avoids(stage.writes, Named) /\ (stage.next = "stage" => stage.task = task)
        BY <4>1, BuilderAvoids
      <4>3. Steering \in SUBSET Named
        BY DEF Named
      <4>4. Avoids(stage.writes, Steering)
        BY <4>2, <4>3, FewerKinds
      <4>5. QED
        BY <3>4, <4>2, <4>4
    <3>5. QED
      BY <1>2, <3>1, <3>2, <3>3, <3>4
  <2>2. /\ IsLog(stage.writes) /\ \A i \in DOMAIN stage.writes : WriteHolds(stage.writes[i], climb, drafts)
        /\ Eventless(stage.writes)
    BY <2>1, AvoidHolds
  <2>3. QED
    BY <2>1, <2>2 DEF StageHolds, stage
<1>3. CASE ~(n <= 4)
  <2> DEFINE receipt == EventForKey(climb, BuilderKey(task)).record
             proposal == Proposal(task, head, receipt.output.data, task.inputs.requirements,
                                  call.builder.id, receipt)
             key == <<"proposal", call.key>>
  <2>1. stage = Propose(climb, call, task, head)
    <3>1. n # 1 /\ n # 2 /\ n # 3 /\ n # 4
      BY <1>3
    <3>2. QED
      BY <1>1, <3>1 DEF ProposeStage
  <2>2. Propose(climb, call, task, head) \in {Raises(<< >>), Returns(<<Entry(key, proposal)>>)}
    BY DEF Propose
  <2>3. proposal.record = "proposal" /\ proposal.task = task
    BY DEF Proposal
  <2>4. task.key = call.key
    BY <1>3
  <2> HIDE DEF proposal
  <2>5. RecordHolds(Entry(key, proposal), drafts)
    BY <2>3, <2>4, EntryHas DEF RecordHolds, Keyed
  <2>6. /\ IsLog(stage.writes) /\ stage.next # "stage" /\ Eventless(stage.writes)
        /\ \A i \in DOMAIN stage.writes : WriteHolds(stage.writes[i], climb, drafts)
    <3>1. CASE stage = Raises(<< >>)
      <4>1. Avoids(stage.writes, Steering) /\ stage.next = "refused"
        BY <3>1, RaisesNothing, StageHas
      <4>2. QED
        BY <4>1, AvoidHolds
    <3>2. CASE stage = Returns(<<Entry(key, proposal)>>)
      <4>1. stage.writes = <<Entry(key, proposal)>> /\ stage.next = "done"
        BY <3>2, StageHas
      <4>2. QED
        BY <2>5, <4>1, OneHolds
    <3>3. QED
      BY <2>1, <2>2, <3>1, <3>2
  <2>7. QED
    BY <2>6 DEF StageHolds, stage
<1>4. QED
  BY <1>2, <1>3

\* Whatever call it is of.
LEMMA AnyStage ==
    ASSUME NEW call, IsCall(call), NEW n \in Nat \ {0}, NEW task, NEW given,
           call.op = "propose" /\ n >= 4 => task.key = call.key,
           call.op = "apply" /\ n # 1 /\ ReviewsOf(Records(climb), call) # {}
             => Committed(drafts, Target(climb, call))
    PROVE  StageHolds(StageOf(call, n, task, given), call, n, climb, drafts)
<1>1. CASE call.op = "create"
  BY <1>1, CreateStage
<1>2. CASE call.op = "review"
  BY <1>2, ReviewStage
<1>3. CASE call.op = "apply"
  BY <1>3, ApplyingStage
<1>4. CASE call.op = "propose"
  BY <1>4, ProposingStage
<1>5. CASE call.op \in EfficiencyOps
  <2> DEFINE stage == StageOf(call, n, task, given)
  <2>1. stage.writes = << >> \/ \E e : stage.writes = <<e>> /\ IsEvent(e)
    BY <1>5, EfficiencyStage
  <2> HIDE DEF stage
  <2>2. IsLog(stage.writes) /\ \A i \in DOMAIN stage.writes : WriteHolds(stage.writes[i], climb, drafts)
    BY Zenon, <2>1, EventWrites DEF WriteHolds
  <2>3. StageHolds(stage, call, n, climb, drafts)
    BY <1>5, <2>2 DEF StageHolds, EfficiencyOps
  <2>4. QED
    BY <2>3 DEF stage
<1>6. CASE call.op \notin {"create", "propose", "review", "apply"} /\ call.op \notin EfficiencyOps
  <2> DEFINE stage == StageOf(call, n, task, given)
  <2>1. call.op \in Operations
    BY DEF IsCall
  <2>2. Avoids(stage.writes, Steering)
    BY <1>6, <2>1, PlainStage
  <2> HIDE DEF stage
  <2>3. /\ IsLog(stage.writes) /\ \A i \in DOMAIN stage.writes : WriteHolds(stage.writes[i], climb, drafts)
        /\ Eventless(stage.writes)
    BY <2>2, AvoidHolds
  <2>4. StageHolds(stage, call, n, climb, drafts)
    BY <1>6, <2>3 DEF StageHolds
  <2>5. QED
    BY <2>4 DEF stage
<1>7. QED
  BY <1>1, <1>2, <1>3, <1>4, <1>5, <1>6

-----------------------------------------------------------------------------
(* Where a process is, from one step to the next *)

LEMMA TailLog ==
    ASSUME NEW s, IsLog(s), s # << >>
    PROVE  /\ IsLog(Tail(s)) /\ Len(Tail(s)) = Len(s) - 1 /\ Len(s) >= 1
           /\ DOMAIN Tail(s) = 1..(Len(s) - 1)
           /\ \A i \in 1..(Len(s) - 1) : Tail(s)[i] = s[i + 1]
           /\ Head(s) = s[1] /\ 1 \in DOMAIN s
<1>1. s \in Seq(Range(s)) /\ Len(s) \in Nat /\ DOMAIN s = 1..Len(s) /\ Len(s) >= 1
  BY LogFacts DEF IsLog
<1>2. /\ Tail(s) \in Seq(Range(s)) /\ Len(Tail(s)) = Len(s) - 1
      /\ \A i \in 1..Len(Tail(s)) : Tail(s)[i] = s[i + 1]
  BY <1>1, HeadTailProperties
<1>3. IsLog(Tail(s)) /\ DOMAIN Tail(s) = 1..Len(Tail(s))
  BY Zenon, <1>2, SeqIsLog, LenProperties
<1>4. Head(s) = s[1]
  BY <1>1
<1>5. QED
  BY <1>1, <1>2, <1>3, <1>4

LEMMA IdleLocal ==
    ASSUME NEW w, w.phase \in {"closed", "ready"}, w.stage = 1, NEW call, NEW log, NEW moves,
           w.phase = "ready" => Made(moves)
    PROVE  LocalOf(w, call, log, moves)
BY DEF LocalOf, Working, Landed, Applying, Proposing

\* A process goes on with the same writes.
LEMMA SamePlace ==
    ASSUME NEW w, NEW call, NEW log, NEW moves, LocalOf(w, call, log, moves), Working(w),
           NEW v, v.phase \in {"append", "index", "project", "verify"},
           v.stage = w.stage, v.todo = w.todo, v.next = w.next, v.task = w.task,
           Landed(v) => w.todo # << >>,
           v.phase = "verify" => w.todo = << >> /\ w.next = "done",
           call.op = "create" => Creating(v, call, moves),
           call.op = "apply" /\ w.next = "stage" => Committed(moves, Target(log, call))
    PROVE  LocalOf(v, call, log, moves)
<1>1. Working(v)
  BY DEF Working
<1>2. call.op = "apply" => Applying(v, call, log, moves)
  BY <1>1 DEF LocalOf, Applying, Working
<1>3. call.op = "propose" => Proposing(v, call)
  BY <1>1 DEF LocalOf, Proposing, Working
<1>4. QED
  BY <1>1, <1>2, <1>3 DEF LocalOf

\* A process turns to the next of its writes.
LEMMA NextWrite ==
    ASSUME NEW w, NEW call, NEW log, NEW moves, LocalOf(w, call, log, moves), Landed(w),
           NEW v, v.phase = "write",
           v.stage = w.stage, v.todo = Tail(w.todo), v.next = w.next, v.task = w.task
    PROVE  LocalOf(v, call, log, moves)
<1>1. Working(v) /\ Working(w) /\ ~Landed(v) /\ w.todo # << >> /\ IsLog(w.todo)
  BY DEF LocalOf, Working, Landed
<1>2. /\ IsLog(v.todo) /\ Len(v.todo) = Len(w.todo) - 1 /\ Len(w.todo) >= 1 /\ Len(w.todo) \in Nat
      /\ DOMAIN v.todo = 1..(Len(w.todo) - 1) /\ DOMAIN w.todo = 1..Len(w.todo)
      /\ \A i \in 1..(Len(w.todo) - 1) : v.todo[i] = w.todo[i + 1]
  BY <1>1, TailLog, LogFacts
<1>3. \A i \in DOMAIN v.todo : i + 1 \in DOMAIN w.todo /\ v.todo[i] = w.todo[i + 1]
  BY <1>2
<1>4. call.op = "create" => Creating(v, call, moves)
  <2> SUFFICES ASSUME call.op = "create" PROVE Creating(v, call, moves)
    OBVIOUS
  <2>1. Creating(w, call, moves)
    BY <1>1 DEF LocalOf
  <2>2. w.next = "done"
    BY <1>1, <2>1 DEF Creating
  <2>3. /\ Len(w.todo) <= 5
        /\ \A i \in 1..Len(w.todo) : w.todo[i] = Opening(call)[i + 5 - Len(w.todo)]
        /\ Len(moves) >= 1
        /\ Len(w.todo) <= 4 => Made(moves)
    BY Zenon, <2>1, <2>2 DEF Creating
  <2>4. \A i \in 1..Len(v.todo) : v.todo[i] = Opening(call)[i + 5 - Len(v.todo)]
    <3> SUFFICES ASSUME NEW i \in 1..Len(v.todo)
                 PROVE  v.todo[i] = Opening(call)[i + 5 - Len(v.todo)]
      BY Zenon
    <3>1. i + 1 \in 1..Len(w.todo) /\ v.todo[i] = w.todo[i + 1]
      BY <1>2
    <3>2. (i + 1) + 5 - Len(w.todo) = i + 5 - Len(v.todo)
      <4>1. \A a, b \in Int : (a + 1) + 5 - b = a + 5 - (b - 1)
        OBVIOUS
      <4>2. i \in Int /\ Len(w.todo) \in Int /\ Len(v.todo) = Len(w.todo) - 1
        BY <1>2
      <4>3. QED
        BY Zenon, <4>1, <4>2
    <3>3. w.todo[i + 1] = Opening(call)[(i + 1) + 5 - Len(w.todo)]
      BY Zenon, <2>3, <3>1
    <3>4. QED
      BY Zenon, <3>1, <3>2, <3>3
  <2>5. Len(v.todo) <= 5 /\ (Len(v.todo) <= 3 => Len(w.todo) <= 4)
    BY <1>2, <2>3
  <2>6. QED
    BY Zenon, <1>1, <2>2, <2>3, <2>4, <2>5 DEF Creating
<1>5. call.op = "apply" => Applying(v, call, log, moves)
  <2> SUFFICES ASSUME call.op = "apply", v.next = "stage" PROVE Applying(v, call, log, moves)
    BY DEF Applying, Working
  <2>1. /\ ReviewsOf(Records(log), call) # {}
        /\ \A i \in DOMAIN w.todo : JournalOf(w.todo[i]) = "lineage" /\ w.todo[i].child = Target(log, call)
        /\ Committed(moves, Target(log, call))
    BY <1>1 DEF LocalOf, Applying, Landed
  <2>2. \A i \in DOMAIN v.todo : JournalOf(v.todo[i]) = "lineage" /\ v.todo[i].child = Target(log, call)
    BY <1>3, <2>1
  <2>3. QED
    BY <2>1, <2>2 DEF Applying
<1>6. call.op = "propose" => Proposing(v, call)
  BY <1>1 DEF LocalOf, Proposing, Working
<1>7. call.op # "create" =>
        Made(moves) /\ \A i \in DOMAIN v.todo : WriteHolds(v.todo[i], log, moves)
  BY <1>1, <1>3 DEF LocalOf
<1>8. v.stage \in Nat \ {0}
  BY DEF LocalOf
<1>9. QED
  BY <1>1, <1>2, <1>4, <1>5, <1>6, <1>7, <1>8 DEF LocalOf

\* What a process has still to register of Experiment.create.
LEMMA CreatesNext ==
    ASSUME NEW w, NEW call, call.op = "create", NEW log, NEW moves, LocalOf(w, call, log, moves),
           Working(w), w.todo # << >>
    PROVE  /\ w.next = "done" /\ Len(w.todo) \in 1..5
           /\ Head(w.todo) = Opening(call)[6 - Len(w.todo)]
           /\ Creating(w, call, moves)
<1>1. Creating(w, call, moves) /\ IsLog(w.todo)
  BY DEF LocalOf
<1>2. w.next = "done"
  BY <1>1 DEF Creating
<1>3. /\ Len(w.todo) <= 5
      /\ \A i \in 1..Len(w.todo) : w.todo[i] = Opening(call)[i + 5 - Len(w.todo)]
  BY Zenon, <1>1, <1>2 DEF Creating
<1>4. Len(w.todo) >= 1 /\ Len(w.todo) \in Nat /\ Head(w.todo) = w.todo[1]
  BY <1>1, TailLog, LogFacts
<1>5. 1 \in 1..Len(w.todo) /\ 1 + 5 - Len(w.todo) = 6 - Len(w.todo)
  BY <1>4
<1>6. w.todo[1] = Opening(call)[1 + 5 - Len(w.todo)]
  BY Zenon, <1>3, <1>5
<1>7. Len(w.todo) \in 1..5
  <2>1. \A n \in Nat : n >= 1 /\ n <= 5 => n \in 1..5
    OBVIOUS
  <2>2. QED
    BY Zenon, <1>3, <1>4, <2>1
<1>8. QED
  BY <1>1, <1>2, <1>4, <1>5, <1>6, <1>7

LEMMA OpeningJournals ==
    ASSUME NEW call, call.op = "create", IsCall(call), NEW k \in 1..5
    PROVE  /\ k \in {1, 2} => JournalOf(Opening(call)[k]) = "lineage"
           /\ k \in {3, 4, 5} => /\ JournalOf(Opening(call)[k]) = "climb"
                                 /\ Opening(call)[k].record.record
                                      \in {"instrument", "authority", "experiment_plan"}
           /\ k \in {3, 4} => Opening(call)[k].record.record # "experiment_plan"
           /\ Opening(call)[5].key = <<"experiment-plan">>
           /\ Opening(call)[5].record.record = "experiment_plan"
<1>1. /\ call.plan.record = "experiment_plan" /\ call.plan.instrument.record = "instrument"
      /\ call.reviewer.record = "authority"
  BY DEF IsCall, IsAuthority
<1>2. ASSUME NEW key, NEW child PROVE JournalOf(Commit(key, child)) = "lineage"
  <2>1. DOMAIN Commit(key, child) = {"key", "child"}
    BY DEF Commit
  <2>2. QED
    BY <2>1 DEF JournalOf
<1>3. ASSUME NEW key, NEW record
      PROVE  JournalOf(Entry(key, record)) = "climb" /\ Entry(key, record).record = record
  <2>1. DOMAIN Entry(key, record) = {"key", "record"} /\ Entry(key, record).record = record
    BY EntryHas
  <2>2. QED
    BY <2>1 DEF JournalOf
<1>4. k \in {1, 2} => JournalOf(Opening(call)[k]) = "lineage"
  BY Zenon, <1>2, OpeningHas
<1>5. k \in {3, 4, 5} =>
        /\ JournalOf(Opening(call)[k]) = "climb"
        /\ Opening(call)[k].record \in {call.plan.instrument, call.reviewer, call.plan}
  <2>1. CASE k = 3
    <3>1. Opening(call)[k] = Entry(<<"instrument", call.plan.instrument>>, call.plan.instrument)
      BY Zenon, <2>1, OpeningHas
    <3>2. \A key : /\ JournalOf(Entry(key, call.plan.instrument)) = "climb"
                   /\ Entry(key, call.plan.instrument).record = call.plan.instrument
      BY <1>3
    <3>3. JournalOf(Opening(call)[k]) = "climb" /\ Opening(call)[k].record = call.plan.instrument
      BY <3>1, <3>2
    <3>4. QED
      BY <3>3
  <2>2. CASE k = 4
    <3>1. Opening(call)[k] = Entry(<<"authority", call.reviewer.id>>, call.reviewer)
      BY Zenon, <2>2, OpeningHas
    <3>2. \A key : /\ JournalOf(Entry(key, call.reviewer)) = "climb"
                   /\ Entry(key, call.reviewer).record = call.reviewer
      BY <1>3
    <3>3. JournalOf(Opening(call)[k]) = "climb" /\ Opening(call)[k].record = call.reviewer
      BY <3>1, <3>2
    <3>4. QED
      BY <3>3
  <2>3. CASE k = 5
    <3>1. Opening(call)[k] = Entry(<<"experiment-plan">>, call.plan)
      BY Zenon, <2>3, OpeningHas
    <3>2. \A key : /\ JournalOf(Entry(key, call.plan)) = "climb"
                   /\ Entry(key, call.plan).record = call.plan
      BY <1>3
    <3>3. JournalOf(Opening(call)[k]) = "climb" /\ Opening(call)[k].record = call.plan
      BY <3>1, <3>2
    <3>4. QED
      BY <3>3
  <2>4. QED
    BY <2>1, <2>2, <2>3
<1>6. k \in {3, 4} => Opening(call)[k].record \in {call.plan.instrument, call.reviewer}
  <2>1. /\ Opening(call)[3] = Entry(<<"instrument", call.plan.instrument>>, call.plan.instrument)
        /\ Opening(call)[4] = Entry(<<"authority", call.reviewer.id>>, call.reviewer)
    BY OpeningHas
  <2>2. \A key, record : Entry(key, record).record = record
    BY EntryHas
  <2>3. /\ Opening(call)[3].record = call.plan.instrument
        /\ Opening(call)[4].record = call.reviewer
    BY <2>1, <2>2
  <2>4. QED
    BY <2>3
<1>7. Opening(call)[5].key = <<"experiment-plan">> /\ Opening(call)[5].record = call.plan
  <2>1. Opening(call)[5] = Entry(<<"experiment-plan">>, call.plan)
    BY Zenon, OpeningHas
  <2>2. \A key, record : Entry(key, record).key = key /\ Entry(key, record).record = record
    BY EntryHas
  <2>3. QED
    BY <2>1, <2>2
<1>8. QED
  BY <1>1, <1>4, <1>5, <1>6, <1>7

\* What a call applies is written to the lineage and nowhere else.
LEMMA AppliesLineage ==
    ASSUME NEW w, NEW call, call.op = "apply", NEW log, NEW moves, LocalOf(w, call, log, moves),
           Working(w), w.todo # << >>, w.next = "stage"
    PROVE  /\ JournalOf(Head(w.todo)) = "lineage"
           /\ Head(w.todo).child = Target(log, call)
<1>1. IsLog(w.todo) /\ Applying(w, call, log, moves)
  BY DEF LocalOf
<1>2. Head(w.todo) = w.todo[1] /\ 1 \in DOMAIN w.todo
  BY <1>1, TailLog
<1>3. QED
  BY <1>1, <1>2 DEF Applying

-----------------------------------------------------------------------------
(* What a step keeps *)

\* The invariant is kept when the journals grow as they may, the process that takes
\* the step is then where it may be, and the others have not moved.
Stepped(p) ==
    /\ scenario' = scenario /\ Alone(p)
    /\ DOMAIN results' = Operators /\ IsLog(results'[p])
    /\ \A q \in Operators \ {p} : results'[q] = results[q]
    /\ Grows(climb', climb) /\ Grows(drafts', drafts)
    /\ GlobalOf(climb', drafts')
    /\ Busy(p)' => Remaining(p)'
    /\ Remaining(p)' => LocalOf(work'[p], CallOf(p)', climb', drafts')

LEMMA SteppedKeeps ==
    ASSUME MovesInv, NEW p \in Operators, Stepped(p)
    PROVE  MovesInv'
<1>1. Placed'
  BY DEF Stepped, Alone, MovesInv, Settled, Placed
<1>2. DOMAIN results' = Operators /\ \A q \in Operators : IsLog(results'[q])
  BY DEF Stepped, MovesInv, Settled
<1>3. scenario' \in Scenarios /\ GlobalOf(climb', drafts')
  BY DEF Stepped, MovesInv
<1>4. ASSUME NEW q \in Operators PROVE (Busy(q) => Remaining(q))'
  <2>1. CASE q = p
    BY <2>1 DEF Stepped
  <2>2. CASE q # p
    BY <2>2 DEF Stepped, Alone, MovesInv, Busy, Remaining
  <2>3. QED
    BY <2>1, <2>2
<1>5. ASSUME NEW q \in Operators PROVE (Remaining(q) => LocalOf(work[q], CallOf(q), climb, drafts))'
  <2>1. CASE q = p
    BY <2>1 DEF Stepped
  <2>2. CASE q # p
    <3>1. work'[q] = work[q] /\ CallOf(q)' = CallOf(q) /\ (Remaining(q)' => Remaining(q))
      BY <2>2 DEF Stepped, Alone, CallOf, Remaining
    <3>2. Remaining(q)' => LocalOf(work[q], CallOf(q), climb, drafts)
      BY <3>1 DEF MovesInv
    <3>3. Grows(climb', climb) /\ Grows(drafts', drafts) /\ GlobalOf(climb', drafts')
      BY DEF Stepped
    <3>4. Remaining(q)' => LocalOf(work[q], CallOf(q), climb', drafts')
      BY <3>2, <3>3, LocalLater
    <3>5. QED
      BY <3>1, <3>4
  <2>3. QED
    BY <2>1, <2>2
<1>6. QED
  BY <1>1, <1>2, <1>3, <1>4, <1>5 DEF MovesInv, Settled

\* What the invariant says of a process in a call.
LEMMA InCall ==
    ASSUME MovesInv, NEW p \in Operators, Remaining(p)
    PROVE  /\ LocalOf(work[p], CallOf(p), climb, drafts) /\ IsCall(CallOf(p))
           /\ IsLog(results[p]) /\ GlobalOf(climb, drafts) /\ Placed
           /\ IsLog(climb) /\ IsLog(drafts) /\ KeysUnique(climb) /\ KeysUnique(drafts)
<1>1. LocalOf(work[p], CallOf(p), climb, drafts)
  BY DEF MovesInv
<1>2. scenario \in Scenarios /\ IsLog(results[p]) /\ Placed
  BY DEF MovesInv, Settled
<1>3. IsList(Script[scenario][p]) /\ \A i \in DOMAIN Script[scenario][p] : IsCall(Script[scenario][p][i])
  BY <1>2, ScriptAssumption
<1>4. /\ Len(Script[scenario][p]) \in Nat
      /\ DOMAIN Script[scenario][p] = 1..Len(Script[scenario][p])
  BY <1>3, ListHas
<1>5. Len(results[p]) \in Nat /\ Len(results[p]) < Len(Script[scenario][p])
  BY <1>2, LogFacts DEF Remaining
<1>6. Len(results[p]) + 1 \in DOMAIN Script[scenario][p]
  BY <1>4, <1>5
<1>7. IsCall(CallOf(p))
  BY <1>3, <1>6 DEF CallOf
<1>8. GlobalOf(climb, drafts)
  BY DEF MovesInv
<1>9. IsLog(climb) /\ IsLog(drafts) /\ KeysUnique(climb) /\ KeysUnique(drafts)
  BY <1>8 DEF GlobalOf
<1>10. QED
  BY <1>1, <1>2, <1>7, <1>8, <1>9

\* A step of a process that stays in its call.
LEMMA GoesOn ==
    ASSUME MovesInv, NEW p \in Operators, Remaining(p), Alone(p),
           scenario' = scenario, results' = results,
           Grows(climb', climb), Grows(drafts', drafts), GlobalOf(climb', drafts'),
           LocalOf(work'[p], CallOf(p), climb', drafts')
    PROVE  Stepped(p)
<1>1. CallOf(p)' = CallOf(p) /\ Remaining(p)'
  BY DEF CallOf, Remaining
<1>2. DOMAIN results' = Operators /\ \A q \in Operators : IsLog(results'[q]) /\ results'[q] = results[q]
  BY DEF MovesInv, Settled
<1>3. LocalOf(work'[p], CallOf(p)', climb', drafts')
  BY <1>1
<1>4. QED
  BY <1>1, <1>2, <1>3 DEF Stepped

\* A step with which its call ends.
LEMMA CallEnds ==
    ASSUME MovesInv, NEW p \in Operators, NEW outcome, End(p, outcome), scenario' = scenario,
           Grows(climb', climb), Grows(drafts', drafts), GlobalOf(climb', drafts'),
           outcome # "unopenable" /\ (CallOf(p).op = "create" => outcome = "done") => Made(drafts')
    PROVE  Stepped(p)
<1>1. Placed /\ DOMAIN results = Operators /\ \A q \in Operators : IsLog(results[q])
  BY DEF MovesInv, Settled
<1>2. Alone(p) /\ work'[p].phase \in {"closed", "ready"}
  BY <1>1, EndAlone
<1>3. /\ DOMAIN results' = Operators /\ IsLog(results'[p])
      /\ \A q \in Operators \ {p} : results'[q] = results[q]
  <2>1. PICK r : results' = [results EXCEPT ![p] = Append(@, r)]
    BY Zenon DEF End
  <2>2. results'[p] = Append(results[p], r)
    BY <1>1, <2>1
  <2>3. IsLog(results'[p])
    BY <1>1, <2>2, LongerLog
  <2>4. QED
    BY <1>1, <2>1, <2>3
<1>4. work'[p].stage = 1 /\ (work'[p].phase = "ready" => Made(drafts'))
  <2> DEFINE closes == \/ outcome = "unopenable" \/ CallOf(p).command
                       \/ CallOf(p).op = "create" /\ outcome # "done"
  <2>1. work' = [work EXCEPT ![p] = [Idle EXCEPT !.phase = IF closes THEN "closed" ELSE "ready"]]
    BY DEF End
  <2>2. ~closes => Made(drafts')
    OBVIOUS
  <2> HIDE DEF closes
  <2>3. work'[p] = [Idle EXCEPT !.phase = IF closes THEN "closed" ELSE "ready"]
    BY <1>1, <2>1 DEF Placed
  <2>4. \A phase : [Idle EXCEPT !.phase = phase].stage = 1 /\ [Idle EXCEPT !.phase = phase].phase = phase
    BY DEF Idle
  <2>5. work'[p].stage = 1 /\ work'[p].phase = IF closes THEN "closed" ELSE "ready"
    BY <2>3, <2>4
  <2>6. QED
    BY <2>2, <2>5
<1>5. LocalOf(work'[p], CallOf(p)', climb', drafts')
  BY <1>2, <1>4, IdleLocal
<1>6. ~Busy(p)'
  BY <1>2 DEF Busy
<1>7. QED
  BY <1>2, <1>3, <1>5, <1>6 DEF Stepped

\* The journals the branch depends on are not written.
LEMMA Unwritten ==
    ASSUME MovesInv, climb' = climb, drafts' = drafts
    PROVE  Grows(climb', climb) /\ Grows(drafts', drafts) /\ GlobalOf(climb', drafts')
<1>1. GlobalOf(climb, drafts)
  BY DEF MovesInv
<1>2. IsLog(climb) /\ IsLog(drafts)
  BY <1>1 DEF GlobalOf
<1>3. Grows(climb, climb) /\ Grows(drafts, drafts)
  BY <1>2, SameGrows
<1>4. QED
  BY <1>1, <1>3

\* Where a call may be refused, Experiment.create leaves nothing open.
LEMMA Refusable ==
    ASSUME NEW w, NEW call, NEW log, NEW moves, LocalOf(w, call, log, moves), Working(w)
    PROVE  call.op # "create" => Made(moves)
BY DEF LocalOf

-----------------------------------------------------------------------------
(* The steps, one by one *)

LEMMA OpensOn ==
    ASSUME MovesInv, NEW p \in Operators, Open(p) PROVE MovesInv'
<1>1. /\ Remaining(p) /\ work[p].stage = 1 /\ CallOf(p).op # "create"
      /\ climb' = climb /\ drafts' = drafts /\ scenario' = scenario
      /\ (Goto(p, "open") /\ results' = results) \/ End(p, "unopenable")
  BY DEF Open, journals
<1>2. Grows(climb', climb) /\ Grows(drafts', drafts) /\ GlobalOf(climb', drafts') /\ Placed
  BY <1>1, Unwritten DEF MovesInv, Settled
<1>3. ASSUME Goto(p, "open"), results' = results PROVE Stepped(p)
  <2>1. Alone(p) /\ work'[p].phase = "open"
    BY <1>2, <1>3, GotoAlone
  <2>2. work'[p].stage = 1
    BY <1>1, <1>2, <1>3, IdleFields DEF Goto, Placed
  <2>3. LocalOf(work'[p], CallOf(p), climb', drafts')
    BY <1>1, <2>1, <2>2 DEF LocalOf, Working, Landed, Applying, Proposing
  <2>4. QED
    BY <1>1, <1>2, <1>3, <2>1, <2>3, GoesOn
<1>4. ASSUME End(p, "unopenable") PROVE Stepped(p)
  BY <1>1, <1>2, <1>4, CallEnds
<1>5. QED
  BY <1>1, <1>3, <1>4, SteppedKeeps

LEMMA OpensActiveOn ==
    ASSUME MovesInv, NEW p \in Operators, OpenActive(p) PROVE MovesInv'
<1>1. /\ work[p].phase = "open"
      /\ climb' = climb /\ drafts' = drafts /\ scenario' = scenario
      /\ (CanOpen /\ Goto(p, "run") /\ results' = results) \/ End(p, "unopenable")
  BY DEF OpenActive, journals
<1>2. Grows(climb', climb) /\ Grows(drafts', drafts) /\ GlobalOf(climb', drafts') /\ Placed
  BY <1>1, Unwritten DEF MovesInv, Settled
<1>3. Remaining(p)
  BY <1>1 DEF MovesInv, Busy
<1>4. work[p].stage = 1
  BY <1>1, <1>3, InCall DEF LocalOf
<1>5. ASSUME CanOpen, Goto(p, "run"), results' = results PROVE Stepped(p)
  <2>1. Alone(p) /\ work'[p].phase = "run"
    BY <1>2, <1>5, GotoAlone
  <2>2. work'[p].stage = 1
    BY <1>2, <1>4, <1>5, IdleFields DEF Goto, Placed
  <2>3. Made(drafts)
    <3>1. climb # << >>
      <4>1. SUFFICES ASSUME climb = << >> PROVE FALSE
        OBVIOUS
      <4>2. Records(climb) = << >>
        BY <4>1 DEF Records
      <4>3. Collection(Records(climb), "experiment_plan") = {r \in Range(<< >>) : r.record = "experiment_plan"}
        BY <4>2, CollectionIs
      <4>4. Collection(Records(climb), "experiment_plan") = {}
        BY <4>3 DEF Range
      <4>5. Cardinality(Collection(Records(climb), "experiment_plan")) = 0
        BY <4>4, FS_EmptySet
      <4>6. QED
        BY <1>5, <4>5 DEF CanOpen
    <3>2. QED
      BY <3>1 DEF MovesInv, GlobalOf
  <2>4. LocalOf(work'[p], CallOf(p), climb', drafts')
    BY <1>1, <2>1, <2>2, <2>3 DEF LocalOf, Working, Landed, Applying, Proposing
  <2>5. QED
    BY <1>1, <1>2, <1>3, <1>5, <2>1, <2>4, GoesOn
<1>6. ASSUME End(p, "unopenable") PROVE Stepped(p)
  BY <1>1, <1>2, <1>6, CallEnds
<1>7. QED
  BY <1>1, <1>5, <1>6, SteppedKeeps

LEMMA StagesOn ==
    ASSUME MovesInv, NEW p \in Operators, Stage(p) PROVE MovesInv'
<1> DEFINE call == CallOf(p)
           w == work[p]
<1>1. /\ Remaining(p) /\ results' = results
      /\ climb' = climb /\ drafts' = drafts /\ scenario' = scenario
      /\ \/ w.phase = "run"
         \/ w.phase = "ready"
         \/ w.phase = "closed" /\ call.op = "create"
  BY DEF Stage, journals
<1>2. Grows(climb', climb) /\ Grows(drafts', drafts) /\ GlobalOf(climb', drafts') /\ Placed
  BY <1>1, Unwritten DEF MovesInv, Settled
<1>3. LocalOf(w, call, climb, drafts) /\ IsCall(call)
  BY <1>1, InCall
<1>4. PICK given, heads :
        LET stage == StageOf(call, w.stage, w.task, given)
        IN work' = [work EXCEPT ![p].phase = "write", ![p].todo = stage.writes,
                                ![p].next = stage.next, ![p].task = stage.task,
                                ![p].seen = heads]
  BY Zenon DEF Stage
<1> DEFINE stage == StageOf(call, w.stage, w.task, given)
           v == work'[p]
<1>5. StageHolds(stage, call, w.stage, climb, drafts)
  <2>1. w.stage \in Nat \ {0}
    BY <1>3 DEF LocalOf
  <2>2. call.op = "propose" /\ w.stage >= 4 => w.task.key = call.key
    BY <1>1, <1>3 DEF LocalOf, Proposing
  <2>3. call.op = "apply" /\ w.stage # 1 /\ ReviewsOf(Records(climb), call) # {}
          => Committed(drafts, Target(climb, call))
    BY <1>1, <1>3 DEF LocalOf, Applying
  <2> HIDE DEF call, w
  <2>4. QED
    BY <1>3, <2>1, <2>2, <2>3, AnyStage
<1> HIDE DEF stage
<1>6. /\ Alone(p) /\ v.phase = "write" /\ v.todo = stage.writes
      /\ v.next = stage.next /\ v.task = stage.task /\ v.stage = w.stage
  <2>1. work' = [work EXCEPT ![p].phase = "write", ![p].todo = stage.writes,
                             ![p].next = stage.next, ![p].task = stage.task,
                             ![p].seen = heads]
    BY <1>4 DEF stage
  <2>2. QED
    BY <1>2, <2>1, IdleFields DEF Placed, Alone
<1> HIDE DEF v
<1>7. Working(v) /\ ~Landed(v)
  BY <1>6 DEF Working, Landed
<1>8. call.op = "create" => Creating(v, call, drafts)
  <2> SUFFICES ASSUME call.op = "create" PROVE Creating(v, call, drafts)
    OBVIOUS
  <2>1. CASE stage.next = "refused" /\ stage.writes = << >>
    BY <1>6, <2>1 DEF Creating
  <2>2. CASE stage.next = "done" /\ stage.writes = Opening(call)
    <3>1. v.todo = Opening(call) /\ Len(v.todo) = 5 /\ v.next = "done"
      BY Zenon, <1>6, <2>2, OpeningHas
    <3>2. \A i \in 1..Len(v.todo) : i + 5 - Len(v.todo) = i
      BY <3>1
    <3>3. QED
      BY <1>7, <3>1, <3>2 DEF Creating
  <2>3. QED
    BY <1>5, <2>1, <2>2 DEF StageHolds
<1>9. call.op # "create" => Made(drafts) /\ \A i \in DOMAIN v.todo : WriteHolds(v.todo[i], climb, drafts)
  BY <1>1, <1>3, <1>5, <1>6 DEF LocalOf, StageHolds
<1>10. call.op = "apply" => Applying(v, call, climb, drafts)
  <2> SUFFICES ASSUME call.op = "apply", v.next = "stage" PROVE Applying(v, call, climb, drafts)
    BY <1>6 DEF Applying
  <2>1. /\ ReviewsOf(Records(climb), call) # {}
        /\ v.todo = <<Commit(TransitionKey(call), Target(climb, call))>>
    BY <1>5, <1>6 DEF StageHolds
  <2> DEFINE write == Commit(TransitionKey(call), Target(climb, call))
  <2>2. JournalOf(write) = "lineage" /\ write.child = Target(climb, call)
    <3>1. DOMAIN write = {"key", "child"} /\ write.child = Target(climb, call)
      BY DEF Commit
    <3>2. QED
      BY <3>1 DEF JournalOf
  <2> HIDE DEF write
  <2>3. DOMAIN <<write>> = {1} /\ <<write>>[1] = write /\ <<write>> # << >>
    OBVIOUS
  <2>4. v.todo = <<write>>
    BY <2>1 DEF write
  <2>5. QED
    BY <1>6, <2>1, <2>2, <2>3, <2>4 DEF Applying
<1>11. call.op = "propose" => Proposing(v, call)
  BY <1>5, <1>6 DEF Proposing, StageHolds
<1>12. LocalOf(v, call, climb, drafts)
  <2>1. IsLog(v.todo) /\ v.stage \in Nat \ {0}
    BY <1>3, <1>5, <1>6 DEF StageHolds, LocalOf
  <2>2. QED
    BY <1>6, <1>7, <1>8, <1>9, <1>10, <1>11, <2>1 DEF LocalOf
<1>13. Stepped(p)
  BY <1>1, <1>2, <1>6, <1>12, GoesOn DEF v
<1>14. QED
  BY <1>13, SteppedKeeps

LEMMA CrashesOn ==
    ASSUME MovesInv, NEW p \in Operators, Crash(p) PROVE MovesInv'
<1>1. /\ Busy(p) /\ results' = results /\ climb' = climb /\ drafts' = drafts /\ scenario' = scenario
  BY DEF Crash, journals
<1>2. Grows(climb', climb) /\ Grows(drafts', drafts) /\ GlobalOf(climb', drafts') /\ Placed
  BY <1>1, Unwritten DEF MovesInv, Settled
<1>3. Remaining(p)
  BY <1>1 DEF MovesInv
<1>4. Alone(p)
  BY <1>2, QuietSteps
<1>5. work'[p].phase = "closed" /\ work'[p].stage = 1
  <2>1. PICK n : work'[p] = [Idle EXCEPT !.added = n, !.interrupted = TRUE]
    BY Zenon, <1>2 DEF Crash, Placed
  <2>2. QED
    BY <2>1 DEF Idle
<1>6. LocalOf(work'[p], CallOf(p), climb', drafts')
  BY <1>5, IdleLocal
<1>7. QED
  BY <1>1, <1>2, <1>3, <1>4, <1>6, GoesOn, SteppedKeeps

LEMMA VerifiesOn ==
    ASSUME MovesInv, NEW p \in Operators, Verify(p) PROVE MovesInv'
<1>1. /\ work[p].phase = "verify" /\ climb' = climb /\ drafts' = drafts /\ scenario' = scenario
      /\ \E outcome : End(p, outcome)
  BY DEF Verify, journals
<1>2. Grows(climb', climb) /\ Grows(drafts', drafts) /\ GlobalOf(climb', drafts')
  BY <1>1, Unwritten
<1>3. Remaining(p)
  BY <1>1 DEF MovesInv, Busy
<1>4. LocalOf(work[p], CallOf(p), climb, drafts)
  BY <1>3, InCall
<1>5. Made(drafts)
  <2>1. Working(work[p]) /\ work[p].todo = << >> /\ work[p].next = "done"
    BY <1>1, <1>4 DEF Working, LocalOf
  <2>2. CallOf(p).op = "create" => Creating(work[p], CallOf(p), drafts)
    BY <1>4, <2>1 DEF LocalOf
  <2>3. Len(work[p].todo) = 0
    BY <2>1
  <2>4. CallOf(p).op = "create" => Made(drafts)
    BY <2>1, <2>2, <2>3 DEF Creating
  <2>5. QED
    BY <1>4, <2>1, <2>4, Refusable
<1>6. QED
  BY <1>1, <1>2, <1>5, CallEnds, SteppedKeeps

LEMMA SettlesOn ==
    ASSUME MovesInv, NEW p \in Operators, Settle(p) PROVE MovesInv'
<1> DEFINE call == CallOf(p)
           w == work[p]
           v == work'[p]
<1>1. /\ w.phase = "write" /\ w.todo = << >>
      /\ climb' = climb /\ drafts' = drafts /\ scenario' = scenario
  BY DEF Settle, journals
<1>2. Grows(climb', climb) /\ Grows(drafts', drafts) /\ GlobalOf(climb', drafts') /\ Placed
  BY <1>1, Unwritten DEF MovesInv, Settled
<1>3. Remaining(p)
  BY <1>1 DEF MovesInv, Busy
<1>4. LocalOf(w, call, climb, drafts) /\ Working(w)
  BY <1>1, <1>3, InCall DEF Working
<1>5. call.op = "create" => /\ Creating(w, call, drafts)
                            /\ w.next # "stage" /\ (w.next = "done" => Made(drafts))
  <2> SUFFICES ASSUME call.op = "create"
               PROVE  Creating(w, call, drafts) /\ w.next # "stage" /\ (w.next = "done" => Made(drafts))
    OBVIOUS
  <2>1. Creating(w, call, drafts)
    BY <1>4 DEF LocalOf
  <2>2. Len(w.todo) = 0
    BY <1>1
  <2>3. QED
    BY <2>1, <2>2 DEF Creating
<1>6. call.op # "create" => Made(drafts)
  BY <1>4, Refusable
<1>7. ASSUME w.next = "stage" PROVE Stepped(p)
  <2>1. results' = results /\ work' = [work EXCEPT ![p].phase = "run", ![p].stage = @ + 1]
    BY <1>7 DEF Settle
  <2>2. Alone(p) /\ v.phase = "run" /\ v.stage = w.stage + 1 /\ v.task = w.task
    BY <1>2, <2>1, IdleFields DEF Placed, Alone
  <2> HIDE DEF v, w, call
  <2>3. Made(drafts)
    BY <1>5, <1>6, <1>7
  <2>4. w.stage \in Nat \ {0}
    BY <1>4 DEF LocalOf
  <2>5. ~Working(v) /\ ~Landed(v) /\ v.stage \in Nat \ {0}
    BY <2>2, <2>4 DEF Working, Landed
  <2>6. call.op = "apply" => Applying(v, call, climb, drafts)
    BY <1>1, <1>4, <1>7, <2>5 DEF LocalOf, Applying
  <2>7. call.op = "propose" => Proposing(v, call)
    <3>1. v.stage >= 4 => w.stage >= 3
      BY <2>2, <2>4
    <3>2. call.op = "propose" => Proposing(w, call)
      BY <1>4 DEF LocalOf
    <3>3. QED
      BY <1>4, <1>7, <2>2, <2>5, <3>1, <3>2 DEF Proposing
  <2>8. LocalOf(v, call, climb, drafts)
    BY <2>2, <2>3, <2>5, <2>6, <2>7 DEF LocalOf
  <2>9. QED
    BY Zenon, <1>1, <1>2, <1>3, <2>1, <2>2, <2>8, GoesOn DEF v, call
<1>8. ASSUME w.next = "done", call.command PROVE Stepped(p)
  <2>1. results' = results /\ Goto(p, "verify")
    BY <1>8 DEF Settle
  <2>2. Alone(p) /\ v.phase = "verify"
    BY <1>2, <2>1, GotoAlone
  <2>3. v.stage = w.stage /\ v.todo = w.todo /\ v.next = w.next /\ v.task = w.task
    BY <1>2, <2>1, IdleFields DEF Goto, Placed
  <2> HIDE DEF v, w, call
  <2>4. call.op = "create" => Creating(v, call, drafts)
    <3>1. ~Landed(v) /\ ~Landed(w)
      BY <1>1, <2>2 DEF Landed
    <3>2. QED
      BY Zenon, <1>5, <2>3, <3>1 DEF Creating
  <2>5. LocalOf(v, call, climb, drafts)
    BY <1>1, <1>4, <1>8, <2>2, <2>3, <2>4, SamePlace DEF Landed
  <2>6. QED
    BY <1>1, <1>2, <1>3, <2>1, <2>2, <2>5, GoesOn DEF v, call
<1>9. ASSUME ~(w.next = "stage"), ~(w.next = "done" /\ call.command) PROVE Stepped(p)
  <2>1. End(p, w.next)
    BY <1>9 DEF Settle
  <2>2. call.op = "create" => (w.next = "done" => Made(drafts))
    BY <1>5
  <2> HIDE DEF w
  <2>3. QED
    BY <1>1, <1>2, <1>6, <2>1, <2>2, CallEnds
<1>10. QED
  BY <1>7, <1>8, <1>9, SteppedKeeps

LEMMA IndexesOn ==
    ASSUME MovesInv, NEW p \in Operators, Index(p) PROVE MovesInv'
<1> DEFINE call == CallOf(p)
           w == work[p]
           v == work'[p]
<1>1. /\ w.phase = "index" /\ results' = results
      /\ climb' = climb /\ drafts' = drafts /\ scenario' = scenario
  BY DEF Index, journals
<1>2. Grows(climb', climb) /\ Grows(drafts', drafts) /\ GlobalOf(climb', drafts') /\ Placed
  BY <1>1, Unwritten DEF MovesInv, Settled
<1>3. Remaining(p)
  BY <1>1 DEF MovesInv, Busy
<1>4. LocalOf(w, call, climb, drafts) /\ Working(w) /\ Landed(w)
  BY <1>1, <1>3, InCall DEF Working, Landed
<1>5. ASSUME Goto(p, "project") PROVE Stepped(p)
  <2>1. Alone(p) /\ v.phase = "project"
    BY <1>2, <1>5, GotoAlone
  <2>2. v.stage = w.stage /\ v.todo = w.todo /\ v.next = w.next /\ v.task = w.task
    BY <1>2, <1>5, IdleFields DEF Goto, Placed
  <2> HIDE DEF v, w, call
  <2>3. call.op = "create" => Creating(v, call, drafts)
    <3>1. Landed(v)
      BY <2>1 DEF Landed
    <3>2. call.op = "create" => Creating(w, call, drafts)
      BY <1>4 DEF LocalOf
    <3>3. QED
      BY Zenon, <1>4, <2>2, <3>1, <3>2 DEF Creating
  <2>4. call.op = "apply" /\ w.next = "stage" => Committed(drafts, Target(climb, call))
    BY <1>1, <1>4 DEF LocalOf, Applying
  <2>5. w.todo # << >>
    BY <1>4 DEF LocalOf
  <2>6. LocalOf(v, call, climb, drafts)
    BY <1>4, <2>1, <2>2, <2>3, <2>4, <2>5, SamePlace
  <2>7. QED
    BY <1>1, <1>2, <1>3, <2>1, <2>6, GoesOn DEF v, call
<1>6. ASSUME ~Goto(p, "project") PROVE Stepped(p)
  <2>1. work' = [work EXCEPT ![p].phase = "write", ![p].todo = Tail(@)]
    BY <1>6 DEF Index
  <2>2. /\ Alone(p) /\ v.phase = "write" /\ v.todo = Tail(w.todo)
        /\ v.stage = w.stage /\ v.next = w.next /\ v.task = w.task
    BY <1>2, <2>1, IdleFields DEF Placed, Alone
  <2> HIDE DEF v, w, call
  <2>3. LocalOf(v, call, climb, drafts)
    BY <1>4, <2>2, NextWrite
  <2>4. QED
    BY <1>1, <1>2, <1>3, <2>2, <2>3, GoesOn DEF v, call
<1>7. QED
  BY <1>5, <1>6, SteppedKeeps

LEMMA ProjectsOn ==
    ASSUME MovesInv, NEW p \in Operators, Project(p) PROVE MovesInv'
<1> DEFINE call == CallOf(p)
           w == work[p]
           v == work'[p]
<1>1. /\ w.phase = "project" /\ climb' = climb /\ drafts' = drafts /\ scenario' = scenario
      /\ \/ End(p, "refused")
         \/ /\ results' = results
            /\ work' = [work EXCEPT ![p].phase = "write", ![p].todo = Tail(@)]
  BY DEF Project, journals
<1>2. Grows(climb', climb) /\ Grows(drafts', drafts) /\ GlobalOf(climb', drafts') /\ Placed
  BY <1>1, Unwritten DEF MovesInv, Settled
<1>3. Remaining(p)
  BY <1>1 DEF MovesInv, Busy
<1>4. LocalOf(w, call, climb, drafts) /\ Working(w) /\ Landed(w)
  BY <1>1, <1>3, InCall DEF Working, Landed
<1>5. ASSUME End(p, "refused") PROVE Stepped(p)
  <2>1. call.op # "create" => Made(drafts)
    BY <1>4, Refusable
  <2>2. QED
    BY <1>1, <1>2, <1>5, <2>1, CallEnds
<1>6. ASSUME ~End(p, "refused") PROVE Stepped(p)
  <2>1. results' = results /\ work' = [work EXCEPT ![p].phase = "write", ![p].todo = Tail(@)]
    BY <1>1, <1>6
  <2>2. /\ Alone(p) /\ v.phase = "write" /\ v.todo = Tail(w.todo)
        /\ v.stage = w.stage /\ v.next = w.next /\ v.task = w.task
    BY <1>2, <2>1, IdleFields DEF Placed, Alone
  <2> HIDE DEF v, w, call
  <2>3. LocalOf(v, call, climb, drafts)
    BY <1>4, <2>2, NextWrite
  <2>4. QED
    BY Zenon, <1>1, <1>2, <1>3, <2>1, <2>2, <2>3, GoesOn DEF v, call
<1>7. QED
  BY <1>5, <1>6, SteppedKeeps

LEMMA ChecksOn ==
    ASSUME MovesInv, NEW p \in Operators, CheckRecord(p) PROVE MovesInv'
<1> DEFINE call == CallOf(p)
           w == work[p]
           v == work'[p]
<1>1. /\ w.phase = "write" /\ w.todo # << >> /\ JournalOf(Head(w.todo)) = "climb"
      /\ climb' = climb /\ drafts' = drafts /\ scenario' = scenario
      /\ \/ End(p, "refused")
         \/ results' = results /\ \E heads : work' = [work EXCEPT ![p].phase = "append", ![p].seen = heads]
  BY DEF CheckRecord, Writing, journals
<1>2. Grows(climb', climb) /\ Grows(drafts', drafts) /\ GlobalOf(climb', drafts') /\ Placed
  BY <1>1, Unwritten DEF MovesInv, Settled
<1>3. Remaining(p)
  BY <1>1 DEF MovesInv, Busy
<1>4. LocalOf(w, call, climb, drafts) /\ Working(w)
  BY <1>1, <1>3, InCall DEF Working
<1>5. ASSUME End(p, "refused") PROVE Stepped(p)
  <2>1. call.op # "create" => Made(drafts)
    BY <1>4, Refusable
  <2>2. QED
    BY <1>1, <1>2, <1>5, <2>1, CallEnds
<1>6. ASSUME ~End(p, "refused") PROVE Stepped(p)
  <2>1. PICK heads : work' = [work EXCEPT ![p].phase = "append", ![p].seen = heads]
    BY <1>1, <1>6
  <2>2. /\ Alone(p) /\ v.phase = "append" /\ v.todo = w.todo
        /\ v.stage = w.stage /\ v.next = w.next /\ v.task = w.task
    BY <1>2, <2>1, IdleFields DEF Placed, Alone
  <2>3. results' = results
    BY <1>1, <1>6
  <2> HIDE DEF v, w, call
  <2>4. call.op = "create" => Creating(v, call, drafts)
    <3>1. ~Landed(v) /\ ~Landed(w)
      BY <1>1, <2>2 DEF Landed
    <3>2. call.op = "create" => Creating(w, call, drafts)
      BY <1>4 DEF LocalOf
    <3>3. QED
      BY Zenon, <2>2, <3>1, <3>2 DEF Creating
  <2>5. ~(call.op = "apply" /\ w.next = "stage")
    <3>1. call.op = "apply" /\ w.next = "stage" => JournalOf(Head(w.todo)) = "lineage"
      BY <1>1, <1>4, AppliesLineage
    <3>2. QED
      BY <1>1, <3>1
  <2>6. LocalOf(v, call, climb, drafts)
    BY <1>1, <1>4, <2>2, <2>4, <2>5, SamePlace
  <2>7. QED
    BY <1>1, <1>2, <1>3, <2>2, <2>3, <2>6, GoesOn DEF v, call
<1>7. QED
  BY <1>5, <1>6, SteppedKeeps

\* What an append does to the process, when the journals have grown as they may.
LEMMA AppendedOn ==
    ASSUME MovesInv, NEW p \in Operators, Remaining(p), Working(work[p]), work[p].todo # << >>,
           NEW verdict, NEW grown, Appended(p, verdict, grown), scenario' = scenario,
           Grows(climb', climb), Grows(drafts', drafts), GlobalOf(climb', drafts'),
           CallOf(p).op = "create" /\ verdict \in {"append", "existing"} =>
              \A v : v.phase = "index" /\ v.next = work[p].next /\ v.todo = work[p].todo
                       => Creating(v, CallOf(p), drafts'),
           CallOf(p).op = "apply" /\ work[p].next = "stage" /\ verdict \in {"append", "existing"}
              => Committed(drafts', Target(climb', CallOf(p)))
    PROVE  MovesInv'
<1> DEFINE call == CallOf(p)
           w == work[p]
           v == work'[p]
<1>1. LocalOf(w, call, climb, drafts) /\ Placed
  BY InCall
<1>2. LocalOf(w, call, climb', drafts')
  <2> HIDE DEF w, call
  <2>1. QED
    BY <1>1, LocalLater
<1>3. ASSUME verdict \in {"append", "existing"} PROVE Stepped(p)
  <2>1. PICK n : /\ results' = results
                 /\ work' = [work EXCEPT ![p].phase = "index", ![p].added = @ + n]
    BY <1>3 DEF Appended
  <2>2. /\ Alone(p) /\ v.phase = "index" /\ v.todo = w.todo
        /\ v.stage = w.stage /\ v.next = w.next /\ v.task = w.task
    BY <1>1, <2>1, IdleFields DEF Placed, Alone
  <2>3. call.op = "create" => Creating(v, call, drafts')
    BY <1>3, <2>2
  <2>4. call.op = "apply" /\ w.next = "stage" => Committed(drafts', Target(climb', call))
    BY <1>3
  <2>5. w.todo # << >> /\ Working(w)
    OBVIOUS
  <2>6. LocalOf(v, call, climb', drafts')
    <3> HIDE DEF v, w, call
    <3>1. QED
      BY <1>2, <2>2, <2>3, <2>4, <2>5, SamePlace
  <2>7. QED
    BY Zenon, <2>1, <2>2, <2>6, GoesOn
<1>4. ASSUME verdict \notin {"append", "existing"} PROVE Stepped(p)
  <2>1. End(p, "refused")
    BY <1>4 DEF Appended
  <2>2. call.op # "create" => Made(drafts')
    BY <1>2, Refusable
  <2>3. QED
    BY <2>1, <2>2, CallEnds
<1>5. QED
  BY <1>3, <1>4, SteppedKeeps

\* The journals of the qualification have no part in this.
LEMMA OthersAppendOn ==
    ASSUME MovesInv, NEW p \in Operators, AppendOperational(p) \/ AppendQualification(p)
    PROVE  MovesInv'
<1> DEFINE call == CallOf(p)
           w == work[p]
<1>1. /\ w.phase = "write" /\ w.todo # << >>
      /\ JournalOf(Head(w.todo)) \in {"operational", "qualification"}
      /\ climb' = climb /\ drafts' = drafts /\ scenario' = scenario
      /\ \E verdict, grown : Appended(p, verdict, grown)
  BY DEF AppendOperational, AppendQualification, Writing
<1>2. Grows(climb', climb) /\ Grows(drafts', drafts) /\ GlobalOf(climb', drafts')
  BY <1>1, Unwritten
<1>3. Remaining(p) /\ Working(w)
  BY <1>1 DEF MovesInv, Busy, Working
<1>4. LocalOf(w, call, climb, drafts) /\ IsCall(call)
  BY <1>3, InCall
<1>5. call.op # "create"
  <2> HIDE DEF w, call
  <2>1. SUFFICES ASSUME call.op = "create" PROVE FALSE
    OBVIOUS
  <2>2. Len(w.todo) \in 1..5 /\ Head(w.todo) = Opening(call)[6 - Len(w.todo)]
    BY Zenon, <1>1, <1>3, <1>4, <2>1, CreatesNext
  <2>3. 6 - Len(w.todo) \in 1..5
    <3>1. \A n \in 1..5 : 6 - n \in 1..5
      OBVIOUS
    <3>2. QED
      BY Zenon, <2>2, <3>1
  <2>4. JournalOf(Opening(call)[6 - Len(w.todo)]) \in {"lineage", "climb"}
    <3>1. \A k \in 1..5 : k \in {1, 2} \/ k \in {3, 4, 5}
      OBVIOUS
    <3>2. \A k \in 1..5 : JournalOf(Opening(call)[k]) \in {"lineage", "climb"}
      BY <1>4, <2>1, <3>1, OpeningJournals
    <3>3. QED
      BY Zenon, <2>3, <3>2
  <2>5. QED
    BY <1>1, <2>2, <2>4
<1>6. ~(call.op = "apply" /\ w.next = "stage")
  <2> HIDE DEF w, call
  <2>1. call.op = "apply" /\ w.next = "stage" => JournalOf(Head(w.todo)) = "lineage"
    BY <1>1, <1>3, <1>4, AppliesLineage
  <2>2. QED
    BY <1>1, <2>1
<1>7. PICK verdict, grown : Appended(p, verdict, grown)
  BY <1>1
<1>8. QED
  BY <1>1, <1>2, <1>3, <1>5, <1>6, <1>7, AppendedOn

LEMMA AppendsOn ==
    ASSUME MovesInv, NEW p \in Operators, AppendRecord(p) PROVE MovesInv'
<1> DEFINE call == CallOf(p)
           w == work[p]
           write == Head(w.todo)
           verdict == Verdict(climb, write, Unset)
<1>1. /\ w.phase = "append" /\ w.todo # << >> /\ JournalOf(write) = "climb"
      /\ drafts' = drafts /\ scenario' = scenario
      /\ climb' = IF verdict = "append" THEN Append(climb, write) ELSE climb
      /\ Appended(p, verdict, Len(climb) # w.seen.climb)
  BY DEF AppendRecord, Writing
<1>2. Remaining(p) /\ Working(w)
  BY <1>1 DEF MovesInv, Busy, Working
<1>3. /\ LocalOf(w, call, climb, drafts) /\ IsCall(call) /\ GlobalOf(climb, drafts)
      /\ IsLog(climb) /\ IsLog(drafts) /\ KeysUnique(climb) /\ IsLog(w.todo)
  <2>1. IsLog(w.todo)
    BY <1>2, InCall DEF LocalOf
  <2>2. QED
    BY <1>2, <2>1, InCall
<1>4. Made(drafts) /\ RecordHolds(write, drafts)
  <2>1. ASSUME call.op = "create" PROVE Made(drafts) /\ RecordHolds(write, drafts)
    <3> HIDE DEF w, call
    <3>1. /\ Len(w.todo) \in 1..5 /\ write = Opening(call)[6 - Len(w.todo)]
          /\ w.next = "done" /\ Creating(w, call, drafts)
      BY Zenon, <1>1, <1>2, <1>3, <2>1, CreatesNext
    <3> HIDE DEF write
    <3>2. 6 - Len(w.todo) \in 1..5 /\ (6 - Len(w.todo) \in {3, 4, 5} => Len(w.todo) <= 3)
          /\ (6 - Len(w.todo) \notin {1, 2} => 6 - Len(w.todo) \in {3, 4, 5})
      <4>1. \A n \in 1..5 : /\ 6 - n \in 1..5 /\ (6 - n \in {3, 4, 5} => n <= 3)
                            /\ (6 - n \notin {1, 2} => 6 - n \in {3, 4, 5})
        OBVIOUS
      <4>2. QED
        BY Zenon, <3>1, <4>1
    <3>3. 6 - Len(w.todo) \notin {1, 2}
      <4>1. 6 - Len(w.todo) \in {1, 2} => JournalOf(write) = "lineage"
        BY Zenon, <1>3, <2>1, <3>1, <3>2, OpeningJournals
      <4>2. QED
        BY <1>1, <4>1
    <3>4. Made(drafts)
      BY <3>1, <3>2, <3>3 DEF Creating
    <3>5. write.record.record \in {"instrument", "authority", "experiment_plan"}
      BY Zenon, <1>3, <2>1, <3>1, <3>2, <3>3, OpeningJournals
    <3>6. RecordHolds(write, drafts)
      <4>1. 6 - Len(w.todo) \in {3, 4} \/ 6 - Len(w.todo) = 5
        BY <3>2, <3>3
      <4>2. write.record.record = "experiment_plan" => write.key = <<"experiment-plan">>
        BY Zenon, <1>3, <2>1, <3>1, <3>2, <4>1, OpeningJournals
      <4>3. QED
        BY <3>5, <4>2 DEF RecordHolds, Keyed
    <3>7. QED
      BY <3>4, <3>6
  <2>2. ASSUME call.op # "create" PROVE Made(drafts) /\ RecordHolds(write, drafts)
    <3>1. Made(drafts) /\ \A i \in DOMAIN w.todo : WriteHolds(w.todo[i], climb, drafts)
      BY <1>2, <1>3, <2>2 DEF LocalOf
    <3>2. write = w.todo[1] /\ 1 \in DOMAIN w.todo
      BY <1>1, <1>3, TailLog
    <3>3. WriteHolds(write, climb, drafts)
      BY <3>1, <3>2
    <3>4. "record" \in DOMAIN write
      BY <1>1 DEF JournalOf
    <3>5. QED
      BY <3>1, <3>3, <3>4 DEF WriteHolds
  <2>3. QED
    BY <2>1, <2>2
<1>5. Grows(climb', climb) /\ Grows(drafts', drafts) /\ GlobalOf(climb', drafts')
  <2> HIDE DEF write
  <2>1. Grows(drafts', drafts)
    BY <1>1, <1>3, SameGrows
  <2>2. CASE verdict # "append"
    BY <1>1, <1>3, <2>1, <2>2, SameGrows
  <2>3. CASE verdict = "append"
    <3>1. climb' = Append(climb, write) /\ ~HasKey(climb, write.key)
      BY <1>1, <1>3, <2>3, VerdictMeans
    <3>2. KeysUnique(climb') /\ Grows(climb', climb)
      BY <1>3, <3>1, KeysStayUnique, AppendGrows
    <3>3. /\ IsLog(climb') /\ DOMAIN climb' = 1..(Len(climb) + 1) /\ Len(climb) \in Nat
          /\ \A i \in 1..Len(climb) : climb'[i] = climb[i]
          /\ climb'[Len(climb) + 1] = write /\ DOMAIN climb = 1..Len(climb)
      BY <1>3, <3>1, LongerLog, LogFacts
    <3>4. \A i \in DOMAIN climb' : RecordHolds(climb'[i], drafts)
      <4> SUFFICES ASSUME NEW i \in 1..(Len(climb) + 1) PROVE RecordHolds(climb'[i], drafts)
        BY <3>3
      <4>1. i \in 1..Len(climb) \/ i = Len(climb) + 1
        BY <3>3
      <4>2. \A j \in 1..Len(climb) : RecordHolds(climb[j], drafts)
        BY <1>3, <3>3 DEF GlobalOf
      <4>3. QED
        BY <1>4, <3>3, <4>1, <4>2
    <3>5. \A draft : ApprovedBy(climb, draft) => ApprovedBy(climb', draft)
      BY <3>2, ApprovedLater
    <3>6. GlobalOf(climb', drafts)
      BY <1>3, <1>4, <3>2, <3>3, <3>4, <3>5 DEF GlobalOf
    <3>7. QED
      BY <1>1, <2>1, <3>2, <3>6
  <2>4. QED
    BY <2>2, <2>3
<1>6. ASSUME call.op = "create", NEW v, v.phase = "index", v.next = w.next, v.todo = w.todo
      PROVE  Creating(v, call, drafts')
  <2> HIDE DEF w, call
  <2>1. Creating(w, call, drafts)
    BY <1>2, <1>3, <1>6 DEF LocalOf
  <2>2. Made(drafts) /\ Len(drafts) >= 1
    <3>1. Len(drafts) \in Nat
      BY <1>3, LogFacts
    <3>2. QED
      BY <1>4, <3>1 DEF Made
  <2>3. QED
    BY Zenon, <1>1, <1>6, <2>1, <2>2 DEF Creating
<1>7. ~(call.op = "apply" /\ w.next = "stage")
  <2>1. call.op = "apply" /\ w.next = "stage" => JournalOf(write) = "lineage"
    <3> HIDE DEF w, call
    <3>1. QED
      BY <1>1, <1>2, <1>3, AppliesLineage
  <2>2. QED
    BY <1>1, <2>1
<1> HIDE DEF verdict
<1>8. \A v : v.phase = "index" /\ v.next = w.next /\ v.todo = w.todo /\ call.op = "create"
         => Creating(v, call, drafts')
  BY <1>6
<1>9. QED
  BY <1>1, <1>2, <1>5, <1>7, <1>8, AppendedOn

LEMMA MovesInit == Init => MovesInv
<1> SUFFICES ASSUME Init PROVE MovesInv
  OBVIOUS
<1>1. /\ climb = << >> /\ drafts = << >> /\ scenario \in Scenarios
      /\ work = [p \in Operators |-> Idle] /\ results = [p \in Operators |-> << >>]
  BY DEF Init
<1>2. IsLog(<< >>) /\ DOMAIN << >> = {} /\ Len(<< >>) = 0
  BY NoWrites
<1>3. Settled
  BY <1>1, <1>2 DEF Settled, Placed
<1>4. KeysUnique(<< >>)
  BY <1>2 DEF KeysUnique
<1>5. GlobalOf(climb, drafts)
  BY <1>1, <1>2, <1>4 DEF GlobalOf
<1>6. \A p \in Operators : work[p].phase = "closed" /\ work[p].stage = 1
  BY <1>1 DEF Idle
<1>7. \A p \in Operators : ~Busy(p)
  BY <1>6 DEF Busy
<1>8. \A p \in Operators : LocalOf(work[p], CallOf(p), climb, drafts)
  BY <1>6, IdleLocal
<1>9. QED
  BY <1>1, <1>3, <1>5, <1>7, <1>8 DEF MovesInv

\* One of the two commits of Experiment.create is there.
LEMMA CreatingLands ==
    ASSUME NEW w, NEW call, NEW moves, Creating(w, call, moves), w.next = "done",
           NEW v, v.next = w.next, v.todo = w.todo, Len(w.todo) \in {4, 5},
           NEW longer, Len(longer) >= 1, Len(w.todo) = 4 => Made(longer)
    PROVE  Creating(v, call, longer)
<1>1. \A n \in {4, 5} : n <= 5 /\ ~(n <= 3) /\ (n <= 4 => n = 4)
  OBVIOUS
<1>2. \A i \in 1..Len(w.todo) : w.todo[i] = Opening(call)[i + 5 - Len(w.todo)]
  BY Zenon DEF Creating
<1>3. QED
  BY Zenon, <1>1, <1>2 DEF Creating

\* The branch moves when it is created, and to what has been approved.
LEMMA CommitsOn ==
    ASSUME MovesInv, NEW p \in Operators, CommitDraft(p) PROVE MovesInv'
<1> DEFINE call == CallOf(p)
           w == work[p]
           write == Head(w.todo)
           verdict == Verdict(drafts, write, Unset)
<1>1. /\ w.phase = "write" /\ w.todo # << >> /\ JournalOf(write) = "lineage"
      /\ climb' = climb /\ scenario' = scenario
      /\ \/ /\ verdict = "append" /\ drafts' = Append(drafts, write)
            /\ Appended(p, "append", FALSE)
         \/ /\ drafts' = drafts
            /\ Appended(p, IF verdict = "append" THEN "head_conflict" ELSE verdict, FALSE)
  BY Zenon DEF CommitDraft, Writing
<1>2. Remaining(p) /\ Working(w)
  BY <1>1 DEF MovesInv, Busy, Working
<1>3. /\ LocalOf(w, call, climb, drafts) /\ IsCall(call) /\ GlobalOf(climb, drafts)
      /\ IsLog(climb) /\ IsLog(drafts) /\ KeysUnique(drafts)
  BY <1>2, InCall
<1>4. IsLog(w.todo) /\ Len(drafts) \in Nat /\ DOMAIN drafts = 1..Len(drafts)
      /\ write = w.todo[1] /\ 1 \in DOMAIN w.todo
  <2>1. IsLog(w.todo)
    BY <1>2, <1>3 DEF LocalOf
  <2>2. QED
    BY <1>1, <1>3, <2>1, LogFacts, TailLog
<1>5. "child" \in DOMAIN write
  <2>1. "lineage" # "climb" /\ "lineage" # "operational" /\ "lineage" # "qualification"
    OBVIOUS
  <2>2. QED
    BY <1>1, <2>1 DEF JournalOf
<1>6. Grows(climb', climb) /\ Grows(drafts, drafts) /\ GlobalOf(climb', drafts)
  BY <1>1, <1>3, SameGrows
\* What is left of Experiment.create.
<1>7. ASSUME call.op = "create"
      PROVE  /\ w.next = "done" /\ Creating(w, call, drafts)
             /\ \/ Len(w.todo) = 5 /\ write.key = <<"workspace-created">>
                \/ Len(w.todo) = 4 /\ write.key = <<"experiment-create">> /\ Len(drafts) >= 1
  <2> HIDE DEF w, call
  <2>1. /\ Len(w.todo) \in 1..5 /\ write = Opening(call)[6 - Len(w.todo)]
        /\ w.next = "done" /\ Creating(w, call, drafts)
    BY Zenon, <1>1, <1>2, <1>3, <1>7, CreatesNext
  <2> HIDE DEF write
  <2>2. \A n \in 1..5 : 6 - n \in 1..5 /\ (6 - n \notin {3, 4, 5} => (n = 5 /\ 6 - n = 1) \/ (n = 4 /\ 6 - n = 2))
    OBVIOUS
  <2>3. \A k \in {3, 4, 5} : JournalOf(Opening(call)[k]) = "climb"
    BY <1>3, <1>7, OpeningJournals
  <2>4. 6 - Len(w.todo) \notin {3, 4, 5}
    BY <1>1, <2>1, <2>3
  <2>5. \/ Len(w.todo) = 5 /\ write = Opening(call)[1]
        \/ Len(w.todo) = 4 /\ write = Opening(call)[2]
    BY Zenon, <2>1, <2>2, <2>4
  <2>6. /\ Opening(call)[1].key = <<"workspace-created">>
        /\ Opening(call)[2].key = <<"experiment-create">>
    <3>1. ASSUME NEW key, NEW child PROVE Commit(key, child).key = key
      BY DEF Commit
    <3> DEFINE start == <<"workspace-created">>
               goal == <<"experiment-create">>
    <3>2. Commit(start, None).key = start /\ Commit(goal, Draft(None, call.data)).key = goal
      BY <3>1
    <3>3. Opening(call)[1] = Commit(start, None) /\ Opening(call)[2] = Commit(goal, Draft(None, call.data))
      BY Zenon, OpeningHas
    <3> HIDE DEF start, goal
    <3>4. Opening(call)[1].key = start /\ Opening(call)[2].key = goal
      BY <3>2, <3>3
    <3>5. QED
      BY <3>4 DEF start, goal
  <2>7. Len(w.todo) = 4 => Len(drafts) >= 1
    BY <2>1 DEF Creating
  <2>8. QED
    BY <2>1, <2>5, <2>6, <2>7
<1>8. call.op # "create" => Made(drafts) /\ ApprovedBy(climb, write.child)
  <2> HIDE DEF w, call
  <2>1. call.op # "create" => Made(drafts) /\ WriteHolds(w.todo[1], climb, drafts)
    BY <1>2, <1>3, <1>4 DEF LocalOf
  <2>2. QED
    BY <1>4, <1>5, <2>1 DEF WriteHolds
<1>9. call.op = "apply" /\ w.next = "stage" => write.child = Target(climb, call)
  <2>1. QED
    <3> HIDE DEF w, call
    <3>1. QED
      BY <1>1, <1>2, <1>3, AppliesLineage
\* The first two events have the keys they are looked for by.
<1>10. /\ Len(drafts) >= 1 => HasKey(drafts, <<"workspace-created">>)
       /\ Len(drafts) >= 2 => HasKey(drafts, <<"experiment-create">>)
  <2>1. /\ Len(drafts) >= 1 => 1 \in DOMAIN drafts /\ drafts[1].key = <<"workspace-created">>
        /\ Len(drafts) >= 2 => 2 \in DOMAIN drafts /\ drafts[2].key = <<"experiment-create">>
    BY <1>3, <1>4 DEF GlobalOf
  <2>2. QED
    BY <2>1 DEF HasKey
<1> HIDE DEF write
<1>11. ASSUME verdict = "append", drafts' = Append(drafts, write), Appended(p, "append", FALSE)
       PROVE  MovesInv'
  <2>1. ~HasKey(drafts, write.key)
    BY <1>3, <1>11, VerdictMeans
  <2>2. KeysUnique(drafts') /\ Grows(drafts', drafts)
    BY <1>3, <1>11, <2>1, KeysStayUnique, AppendGrows
  <2>3. /\ IsLog(drafts') /\ Len(drafts') = Len(drafts) + 1 /\ DOMAIN drafts' = 1..(Len(drafts) + 1)
        /\ \A i \in 1..Len(drafts) : drafts'[i] = drafts[i]
        /\ drafts'[Len(drafts) + 1] = write
    BY <1>3, <1>11, LongerLog
  <2>4. call.op = "create" =>
          \/ Len(w.todo) = 5 /\ Len(drafts) = 0 /\ write.key = <<"workspace-created">>
          \/ Len(w.todo) = 4 /\ Len(drafts) = 1 /\ write.key = <<"experiment-create">>
    <3>1. \A n \in Nat : (~(n >= 1) => n = 0) /\ (n >= 1 /\ ~(n >= 2) => n = 1)
      OBVIOUS
    <3>2. QED
      BY <1>4, <1>7, <1>10, <2>1, <3>1
  <2>5. ASSUME NEW i \in 1..(Len(drafts) + 1)
        PROVE  /\ i = 1 => drafts'[i].key = <<"workspace-created">>
               /\ i = 2 => drafts'[i].key = <<"experiment-create">>
               /\ i > 2 => ApprovedBy(climb, drafts'[i].child)
    <3>1. CASE i \in 1..Len(drafts)
      <4>1. drafts'[i] = drafts[i] /\ i <= Len(drafts)
        BY <1>4, <2>3, <3>1
      <4>2. /\ i = 1 => Len(drafts) >= 1
            /\ i = 2 => Len(drafts) >= 2
        BY <1>4, <3>1
      <4>3. QED
        BY <1>3, <1>4, <3>1, <4>1, <4>2 DEF GlobalOf
    <3>2. CASE i = Len(drafts) + 1
      <4>1. drafts'[i] = write
        BY <2>3, <3>2
      <4>2. CASE call.op = "create"
        <5>1. /\ Len(drafts) = 0 => i = 1
              /\ Len(drafts) = 1 => i = 2
          <6>1. 0 + 1 = 1 /\ 1 + 1 = 2
            OBVIOUS
          <6>2. QED
            BY Zenon, <3>2, <6>1
        <5>2. 1 # 2 /\ ~(1 > 2) /\ ~(2 > 2)
          OBVIOUS
        <5>3. QED
          BY <2>4, <4>1, <4>2, <5>1, <5>2
      <4>3. CASE call.op # "create"
        <5>1. i # 1 /\ i # 2
          BY <1>4, <1>8, <3>2, <4>3 DEF Made
        <5>2. QED
          BY <1>8, <4>1, <4>3, <5>1
      <4>4. QED
        BY <4>2, <4>3
    <3>3. i \in 1..Len(drafts) \/ i = Len(drafts) + 1
      BY <1>4
    <3>4. QED
      BY <3>1, <3>2, <3>3
  <2>6. GlobalOf(climb, drafts')
    <3>1. climb # << >> => Made(drafts')
      BY <1>3, <2>2, MadeLater DEF GlobalOf
    <3>2. \A i \in DOMAIN climb : RecordHolds(climb[i], drafts')
      BY <1>3, <2>2, RecordLater DEF GlobalOf
    <3>3. /\ Len(drafts') >= 1 => drafts'[1].key = <<"workspace-created">>
          /\ Len(drafts') >= 2 => drafts'[2].key = <<"experiment-create">>
      <4>1. /\ Len(drafts') >= 1 => 1 \in 1..(Len(drafts) + 1)
            /\ Len(drafts') >= 2 => 2 \in 1..(Len(drafts) + 1)
        BY <1>4, <2>3
      <4>2. QED
        BY <2>5, <4>1
    <3>4. \A i \in DOMAIN drafts' : i > 2 => ApprovedBy(climb, drafts'[i].child)
      BY <2>3, <2>5
    <3>5. IsLog(climb) /\ KeysUnique(climb)
      BY <1>3 DEF GlobalOf
    <3>6. QED
      BY <2>2, <2>3, <3>1, <3>2, <3>3, <3>4, <3>5 DEF GlobalOf
  <2>7. ASSUME call.op = "create", NEW v, v.phase = "index", v.next = w.next, v.todo = w.todo
        PROVE  Creating(v, call, drafts')
    <3>1. w.next = "done" /\ Creating(w, call, drafts)
      BY <1>7, <2>7
    <3>2. Len(drafts') \in Nat /\ Len(drafts') >= 1
      BY <1>4, <2>3
    <3>3. Len(w.todo) = 4 => Len(drafts') = 2
      <4>1. 4 # 5 /\ 1 + 1 = 2
        OBVIOUS
      <4>2. Len(w.todo) = 4 => Len(drafts) = 1
        BY <2>4, <2>7, <4>1
      <4>3. QED
        BY Zenon, <2>3, <4>1, <4>2
    <3>4. Len(w.todo) \in {4, 5} /\ (Len(w.todo) = 4 => Made(drafts'))
      <4>1. Len(w.todo) = 5 \/ Len(w.todo) = 4
        BY <1>7, <2>7
      <4>2. Len(drafts') = 2 => Made(drafts')
        BY DEF Made
      <4> HIDE DEF w, call
      <4>3. QED
        BY <3>3, <4>1, <4>2
    <3> HIDE DEF w, call
    <3>5. QED
      BY <2>7, <3>1, <3>2, <3>4, CreatingLands
  <2>8. call.op = "apply" /\ w.next = "stage" => Committed(drafts', Target(climb, call))
    <3>1. write \in Range(drafts')
      <4>1. Len(drafts) + 1 \in DOMAIN drafts'
        BY <1>4, <2>3
      <4>2. QED
        BY <2>3, <4>1 DEF Range
    <3>2. QED
      BY <1>9, <3>1 DEF Committed
  <2>9. \A v : v.phase = "index" /\ v.next = w.next /\ v.todo = w.todo /\ call.op = "create"
          => Creating(v, call, drafts')
    BY <2>7
  <2>10. QED
    BY Zenon, <1>1, <1>2, <1>6, <1>11, <2>2, <2>6, <2>8, <2>9, AppendedOn
<1> DEFINE outcome == IF verdict = "append" THEN "head_conflict" ELSE verdict
<1>12. ASSUME drafts' = drafts, Appended(p, outcome, FALSE)
       PROVE  MovesInv'
  <2>1. outcome \in {"append", "existing"} => write \in Range(drafts)
    BY <1>3, VerdictMeans
  <2> HIDE DEF outcome, verdict
  <2>2. outcome \in {"append", "existing"} => \E i \in 1..Len(drafts) : drafts[i] = write
    BY <1>4, <2>1 DEF Range
  <2>3. ASSUME call.op = "create", outcome \in {"append", "existing"},
               NEW v, v.phase = "index", v.next = w.next, v.todo = w.todo
        PROVE  Creating(v, call, drafts)
    <3>1. PICK i \in 1..Len(drafts) : drafts[i] = write
      BY <2>2, <2>3
    <3>2. /\ w.next = "done" /\ Creating(w, call, drafts) /\ Len(w.todo) \in {4, 5}
          /\ Len(w.todo) = 4 => write.key = <<"experiment-create">>
      <4>1. /\ w.next = "done" /\ Creating(w, call, drafts)
            /\ \/ Len(w.todo) = 5
               \/ Len(w.todo) = 4 /\ write.key = <<"experiment-create">>
        BY <1>7, <2>3
      <4>2. 4 # 5
        OBVIOUS
      <4>3. QED
        BY Zenon, <4>1, <4>2
    <3>3. Len(drafts) >= 1 /\ (~(Len(drafts) >= 2) => i = 1)
      <4>1. \A n \in Nat : \A k \in 1..n : n >= 1 /\ (~(n >= 2) => k = 1)
        OBVIOUS
      <4>2. QED
        BY <1>4, <3>1, <4>1
    <3>4. Len(w.todo) = 4 => Len(drafts) >= 2
      <4>1. SUFFICES ASSUME Len(w.todo) = 4, ~(Len(drafts) >= 2) PROVE FALSE
        OBVIOUS
      <4>2. write.key = <<"workspace-created">>
        BY <1>3, <3>1, <3>3, <4>1 DEF GlobalOf
      <4>3. <<"workspace-created">> # <<"experiment-create">>
        OBVIOUS
      <4>4. QED
        BY <3>2, <4>1, <4>2, <4>3
    <3>5. Len(w.todo) \in {4, 5} /\ (Len(w.todo) = 4 => Made(drafts))
      BY <3>2, <3>4 DEF Made
    <3> HIDE DEF w, call
    <3>6. QED
      BY <2>3, <3>2, <3>3, <3>5, CreatingLands
  <2>4. call.op = "apply" /\ w.next = "stage" /\ outcome \in {"append", "existing"}
          => Committed(drafts, Target(climb, call))
    BY <1>9, <2>1 DEF Committed
  <2>5. \A v : /\ call.op = "create" /\ outcome \in {"append", "existing"}
               /\ v.phase = "index" /\ v.next = w.next /\ v.todo = w.todo
               => Creating(v, call, drafts)
    BY <2>3
  <2>6. QED
    BY Zenon, <1>1, <1>2, <1>6, <1>12, <2>4, <2>5, AppendedOn
<1>13. QED
  BY Zenon, <1>1, <1>11, <1>12

LEMMA MovesNext == MovesInv /\ [Next]_vars => MovesInv'
<1> SUFFICES ASSUME MovesInv, [Next]_vars PROVE MovesInv'
  OBVIOUS
<1>1. CASE UNCHANGED vars
  BY <1>1 DEF MovesInv, Settled, Placed, Busy, Remaining, CallOf, vars
<1>2. CASE Next
  <2>1. PICK p \in Operators :
           \/ Open(p) \/ OpenActive(p) \/ Stage(p)
           \/ CheckRecord(p) \/ AppendRecord(p)
           \/ AppendOperational(p) \/ AppendQualification(p) \/ CommitDraft(p)
           \/ Index(p) \/ Project(p) \/ Settle(p) \/ Verify(p)
           \/ Crash(p)
    BY <1>2 DEF Next
  <2>2. CASE Open(p) \/ OpenActive(p) \/ Stage(p) \/ Crash(p) \/ Verify(p)
    BY <2>2, OpensOn, OpensActiveOn, StagesOn, CrashesOn, VerifiesOn
  <2>3. CASE Settle(p) \/ Index(p) \/ Project(p) \/ CheckRecord(p)
    BY <2>3, SettlesOn, IndexesOn, ProjectsOn, ChecksOn
  <2>4. CASE AppendRecord(p) \/ AppendOperational(p) \/ AppendQualification(p) \/ CommitDraft(p)
    BY <2>4, AppendsOn, OthersAppendOn, CommitsOn
  <2>5. QED
    BY <2>1, <2>2, <2>3, <2>4
<1>3. QED
  BY <1>1, <1>2

\* The branch only ever moves to what an approved Review is about, and no Transition is
\* in the ledger that the lineage has not made: between the two journals there is no
\* transaction, and any process may die or be overtaken between its writes to them.
THEOREM MovesAlwaysApproved == Spec => []MovesAreApproved
<1>1. MovesInv => MovesAreApproved
  <2> SUFFICES ASSUME MovesInv PROVE MovesAreApproved
    OBVIOUS
  <2>1. GlobalOf(climb, drafts) /\ IsLog(climb)
    BY DEF MovesInv, GlobalOf
  <2>2. ASSUME NEW i \in DOMAIN drafts, i > 2 PROVE IsApproved(drafts[i].child)
    <3>1. ApprovedBy(climb, drafts[i].child)
      BY <2>1, <2>2 DEF GlobalOf
    <3>2. QED
      BY <3>1 DEF ApprovedBy, IsApproved
  <2>3. ASSUME NEW transition \in Collection(Records(climb), "transition")
        PROVE  \E d \in ToSet(drafts) : d.child = transition.child
    <3>1. transition.record = "transition" /\ \E i \in DOMAIN climb : climb[i].record = transition
      BY <2>1, RecordPlace
    <3>2. PICK i \in DOMAIN climb : climb[i].record = transition
      BY <3>1
    <3>3. RecordHolds(climb[i], drafts)
      BY <2>1 DEF GlobalOf
    <3>4. Committed(drafts, transition.child)
      BY <3>1, <3>2, <3>3 DEF RecordHolds
    <3>5. QED
      BY <3>4 DEF Committed, Range, ToSet
  <2>4. QED
    BY <2>2, <2>3 DEF MovesAreApproved
<1>2. QED
  BY <1>1, MovesInit, MovesNext, PTL DEF Spec

-----------------------------------------------------------------------------
(* The inductive invariant of the blind panels *)

NamesJudges(record) == record.record = "task" /\ record.kind = "blind-measure"
BlindIn(log) == {t \in Collection(Records(log), "task") : t.kind = "blind-measure"}
BlindTodo(todo) ==
    {w.record : w \in {x \in Range(todo) : "record" \in DOMAIN x /\ NamesJudges(x.record)}}

Apart(t, u) == ToSet(t.occupants) \cap ToSet(u.occupants) = {}
Separate(log) == \A t, u \in BlindIn(log) : t # u => Apart(t, u)

\* A process is about to register one panel, and all others have other judges.
FreshTodo(todo, log) ==
    \A t \in BlindTodo(todo) :
       /\ \A s \in BlindTodo(todo) : s = t
       /\ \A u \in BlindIn(log) : t # u => Apart(t, u)

\* As long as calls are not mixed, one process registers records.
FreshInv ==
    ~mixed =>
      /\ Separate(climb)
      /\ \A p \in Operators : Working(work[p]) =>
            /\ FreshTodo(work[p].todo, climb)
            /\ \A q \in Operators \ {p} : ~Working(work[q])

-----------------------------------------------------------------------------
(* The panel that a stage registers *)

\* All it registers of a panel is one Task, and its judges are on no panel before.
LEMMA OnePanelFresh ==
    ASSUME NEW writes, NEW log, NEW t,
           \A i \in DOMAIN writes : "record" \in DOMAIN writes[i] /\ NamesJudges(writes[i].record)
              => /\ writes[i].record = t
                 /\ \A u \in BlindIn(log) : Apart(t, u)
    PROVE  FreshTodo(writes, log)
BY DEF FreshTodo, BlindTodo, Range

LEMMA NoPanelFresh ==
    ASSUME NEW writes, Avoids(writes, {"task"}), NEW log
    PROVE  FreshTodo(writes, log)
<1>1. \A i \in DOMAIN writes : "record" \in DOMAIN writes[i] => ~NamesJudges(writes[i].record)
  BY DEF Avoids, Avoid, NamesJudges
<1>2. QED
  BY <1>1 DEF FreshTodo, BlindTodo, Range

LEMMA NamedTasks == ASSUME NEW writes, Avoids(writes, Named) PROVE Avoids(writes, {"task"})
<1>1. {"task"} \in SUBSET Named
  BY DEF Named
<1>2. QED
  BY <1>1, FewerKinds

LEMMA PreparedFresh ==
    ASSUME NEW log, NEW call, IsList(call.members), MayPrepare(Records(log), call)
    PROVE  FreshTodo(PreparePanel(Records(log), call).writes, log)
<1> DEFINE bundle == Records(log)
           existing == TasksNamed(bundle, call.key)
           panel == PanelTask(bundle, call)
           writes == PreparePanel(bundle, call).writes
<1>1. \A i \in DOMAIN writes : \/ Avoid(writes[i], Named)
                               \/ existing = {} /\ writes[i].record = panel
  BY PrepareAvoids
<1>2. existing = {} => \A u \in BlindIn(log) : Apart(panel, u)
  <2> SUFFICES ASSUME existing = {}, NEW u \in BlindIn(log) PROVE Apart(panel, u)
    OBVIOUS
  <2>1. UsedAuthorities(bundle) \cap ToSet(MemberIds(call)) = {}
    BY DEF MayPrepare
  <2>2. panel.occupants = MemberIds(call)
    BY DEF PanelTask, Task
  <2>3. u \in Collection(bundle, "task")
    BY DEF BlindIn
  <2>4. ToSet(u.occupants) \subseteq UsedAuthorities(bundle)
    BY <2>3 DEF UsedAuthorities
  <2> HIDE DEF panel
  <2>5. QED
    BY <2>1, <2>2, <2>4 DEF Apart
<1>3. \A write : Avoid(write, Named) /\ "record" \in DOMAIN write => ~NamesJudges(write.record)
  BY DEF Avoid, Named, NamesJudges
<1> HIDE DEF writes, existing, panel
<1>4. FreshTodo(writes, log)
  BY <1>1, <1>2, <1>3, OnePanelFresh
<1>5. QED
  BY <1>4 DEF writes

LEMMA PanelFresh ==
    ASSUME NEW log, NEW call, IsList(call.members), call.kind \in {"agent", "human"}, NEW n \in Nat \ {0},
           NEW task, NEW given
    PROVE  FreshTodo(PanelStage(log, call, n, task, given).writes, log)
<1>1. CASE n = 1
  <2>1. PanelStage(log, call, n, task, given) = StartPanel(Records(log), call)
    BY <1>1 DEF PanelStage
  <2>2. \/ StartPanel(Records(log), call) \in {Raises(<< >>), Returns(<< >>)}
        \/ /\ StartPanel(Records(log), call) = PreparePanel(Records(log), call)
           /\ MayPrepare(Records(log), call)
    BY DEF StartPanel
  <2>3. CASE StartPanel(Records(log), call) \in {Raises(<< >>), Returns(<< >>)}
    <3>1. StartPanel(Records(log), call).writes = << >>
      BY <2>3, StageHas
    <3>2. Avoids(<< >>, {"task"})
      BY NoWrites
    <3>3. FreshTodo(<< >>, log)
      BY <3>2, NoPanelFresh
    <3>4. QED
      BY <2>1, <3>1, <3>3
  <2>4. CASE /\ StartPanel(Records(log), call) = PreparePanel(Records(log), call)
             /\ MayPrepare(Records(log), call)
    <3>1. FreshTodo(PreparePanel(Records(log), call).writes, log)
      BY <2>4, PreparedFresh
    <3>2. QED
      BY <2>1, <2>4, <3>1
  <2>5. QED
    BY <2>2, <2>3, <2>4
<1>2. CASE n # 1
  <2>1. Avoids(PanelStage(log, call, n, task, given).writes, Named)
    BY <1>2, PanelAvoids
  <2>2. QED
    BY <2>1, NamedTasks, NoPanelFresh
<1>3. QED
  BY <1>1, <1>2

\* A Task to fix is nobody's panel.
LEMMA ProposeFresh ==
    ASSUME NEW log, NEW call, IsList(call.briefs), IsAuthority(call.builder), NEW n \in Nat \ {0},
           NEW task, NEW given, NEW head
    PROVE  FreshTodo(ProposeStage(log, call, n, task, given, head).writes, log)
<1> DEFINE bundle == Records(log)
           stage == ProposeStage(log, call, n, task, given, head)
<1>1. CASE n = 1
  <2>1. stage \in {[Translate(bundle, call) EXCEPT !.next = "stage"], Goes(<< >>, None), Raises(<< >>)}
    BY <1>1 DEF ProposeStage
  <2>2. Avoids(Translate(bundle, call).writes, Named)
    BY TranslateAvoids
  <2>3. [Translate(bundle, call) EXCEPT !.next = "stage"].writes = Translate(bundle, call).writes
    <3>1. \/ \E w : Translate(bundle, call) = Returns(w)
          \/ Translate(bundle, call) = Raises(<< >>)
      BY DEF Translate
    <3>2. QED
      BY <3>1 DEF Returns, Raises
  <2> HIDE DEF stage
  <2>4. Avoids(stage.writes, Named)
    <3>1. CASE stage = [Translate(bundle, call) EXCEPT !.next = "stage"]
      BY <2>2, <2>3, <3>1
    <3>2. CASE stage \in {Goes(<< >>, None), Raises(<< >>)}
      BY <3>2, NoWrites, StageHas
    <3>3. QED
      BY <2>1, <3>1, <3>2
  <2>5. FreshTodo(stage.writes, log)
    BY <2>4, NamedTasks, NoPanelFresh
  <2>6. QED
    BY <2>5 DEF stage
<1>2. CASE n = 2
  <2>1. stage = Goes(<<Entry(<<"authority", call.builder.id>>, call.builder)>>, None)
    BY <1>2 DEF ProposeStage
  <2>2. call.builder.record \notin {"task"}
    BY DEF IsAuthority
  <2>3. Avoids(<<Entry(<<"authority", call.builder.id>>, call.builder)>>, {"task"})
    BY <2>2, OneRecord
  <2> HIDE DEF stage
  <2>4. FreshTodo(stage.writes, log)
    BY <2>1, <2>3, NoPanelFresh, StageHas
  <2>5. QED
    BY <2>4 DEF stage
<1>3. CASE n = 3
  <2>1. stage = PrepareFix(bundle, call, head)
    BY <1>3 DEF ProposeStage
  <2>2. \A i \in DOMAIN PrepareFix(bundle, call, head).writes :
           ~NamesJudges(PrepareFix(bundle, call, head).writes[i].record)
    BY FixAvoids DEF NamesJudges
  <2>3. FreshTodo(PrepareFix(bundle, call, head).writes, log)
    BY <2>2 DEF FreshTodo, BlindTodo, Range
  <2>4. QED
    BY <2>1, <2>3
<1>4. CASE n = 4
  <2>1. stage = InvokeBuilder(log, call, task, given)
    BY <1>4 DEF ProposeStage
  <2>2. Avoids(stage.writes, Named)
    BY <2>1, BuilderAvoids
  <2>3. QED
    BY <2>2, NamedTasks, NoPanelFresh
<1>5. CASE n \notin {1, 2, 3, 4}
  <2>1. stage = Propose(log, call, task, head)
    BY <1>5 DEF ProposeStage
  <2>2. \A a, b, c, d, e, f : Proposal(a, b, c, d, e, f).record \notin {"task"}
    BY DEF Proposal
  <2>3. \A key, a, b, c, d, e, f : Avoids(Returns(<<Entry(key, Proposal(a, b, c, d, e, f))>>).writes, {"task"})
    BY <2>2, ReturnsOne
  <2>4. Avoids(Raises(<< >>).writes, {"task"})
    BY RaisesNothing
  <2>5. Avoids(Propose(log, call, task, head).writes, {"task"})
    BY <2>3, <2>4 DEF Propose
  <2>6. QED
    BY <2>1, <2>5, NoPanelFresh
<1>6. QED
  BY <1>1, <1>2, <1>3, <1>4, <1>5

LEMMA OpeningFresh ==
    ASSUME NEW call, IsCall(call), call.op = "create", NEW log
    PROVE  FreshTodo(Opening(call), log)
<1>1. DOMAIN Opening(call) = 1..5
  BY Zenon, OpeningHas, LogFacts
<1>2. \A k \in {3, 4, 5} : Opening(call)[k].record.record # "task"
  BY OpeningJournals
<1>3. \A key, child : "record" \notin DOMAIN Commit(key, child)
  BY DEF Commit
<1>4. "record" \notin DOMAIN Opening(call)[1] /\ "record" \notin DOMAIN Opening(call)[2]
  <2>1. /\ \E key, child : Opening(call)[1] = Commit(key, child)
        /\ \E key, child : Opening(call)[2] = Commit(key, child)
    BY Zenon, OpeningHas
  <2>2. QED
    BY <1>3, <2>1
<1>5. \A k \in 1..5 : k = 1 \/ k = 2 \/ k \in {3, 4, 5}
  OBVIOUS
<1>6. \A k \in 1..5 : ~("record" \in DOMAIN Opening(call)[k] /\ NamesJudges(Opening(call)[k].record))
  BY <1>2, <1>4, <1>5 DEF NamesJudges
<1>7. QED
  BY <1>1, <1>6 DEF FreshTodo, BlindTodo, Range

\* Whatever call it is of: the only stage that names judges is the first of a panel.
LEMMA StageFresh ==
    ASSUME NEW call, IsCall(call), NEW n \in Nat \ {0}, NEW task, NEW given
    PROVE  FreshTodo(StageOf(call, n, task, given).writes, climb)
<1> DEFINE stage == StageOf(call, n, task, given)
           bundle == Records(climb)
<1>1. CASE call.op = "create"
  <2>1. StageHolds(stage, call, n, climb, drafts)
    BY <1>1, CreateStage
  <2> HIDE DEF stage
  <2>2. stage.writes \in {Opening(call), << >>}
    BY <1>1, <2>1 DEF StageHolds
  <2>3. FreshTodo(Opening(call), climb)
    BY <1>1, OpeningFresh
  <2>4. FreshTodo(<< >>, climb)
    BY NoWrites, NoPanelFresh
  <2>5. FreshTodo(stage.writes, climb)
    BY <2>2, <2>3, <2>4
  <2>6. QED
    BY <2>5 DEF stage
<1>2. CASE call.op = "panel"
  <2>1. stage = PanelStage(climb, call, n, task, given)
    BY <1>2 DEF StageOf
  <2>2. IsList(call.members) /\ call.kind \in {"agent", "human"}
    BY <1>2 DEF IsCall
  <2> HIDE DEF stage
  <2>3. FreshTodo(stage.writes, climb)
    BY <2>1, <2>2, PanelFresh
  <2>4. QED
    BY <2>3 DEF stage
<1>3. CASE call.op = "propose"
  <2>1. stage = ProposeStage(climb, call, n, task, given, CurrentDraft)
    BY <1>3 DEF StageOf
  <2>2. IsList(call.briefs) /\ IsAuthority(call.builder)
    BY <1>3 DEF IsCall
  <2> HIDE DEF stage
  <2>3. FreshTodo(stage.writes, climb)
    BY <2>1, <2>2, ProposeFresh
  <2>4. QED
    BY <2>3 DEF stage
<1>4. CASE call.op = "review"
  <2> DEFINE review == ReviewOf(bundle, call)
             key == <<review.record, review.proposal>>
  <2>1. stage \in {Raises(<< >>), Returns(<<Entry(key, review)>>)}
    BY <1>4 DEF StageOf, Review
  <2>2. review.record \notin {"task"}
    BY DEF ReviewOf, HumanReview, AgentReview
  <2> HIDE DEF review, stage
  <2>3. Avoids(stage.writes, {"task"})
    BY Zenon, <2>1, <2>2, ReturnsOne, RaisesNothing
  <2>4. FreshTodo(stage.writes, climb)
    BY <2>3, NoPanelFresh
  <2>5. QED
    BY <2>4 DEF stage
<1>5. CASE call.op = "apply"
  <2> DEFINE review == The(ReviewsOf(bundle, call))
             proposal == review.proposal
             child == Draft(proposal.baseline, proposal.data)
             move == Commit(TransitionKey(call), child)
             transition == Transition(proposal, review, review.reviewer, proposal.baseline,
                                      proposal.data, child)
  <2>1. stage \in {Raises(<< >>), Goes(<<move>>, None),
                   Returns(<<Entry(<<"transition", call.key>>, transition)>>)}
    BY <1>5 DEF StageOf, ApplyStage
  <2>2. transition.record \notin {"task"}
    BY DEF Transition
  <2>3. "record" \notin DOMAIN move
    BY DEF Commit
  <2> HIDE DEF transition, stage, move
  <2>4. FreshTodo(<<move>>, climb)
    <3>1. DOMAIN <<move>> = {1} /\ <<move>>[1] = move
      OBVIOUS
    <3>2. QED
      BY <2>3, <3>1 DEF FreshTodo, BlindTodo, Range
  <2>5. /\ Avoids(Returns(<<Entry(<<"transition", call.key>>, transition)>>).writes, {"task"})
        /\ Avoids(Raises(<< >>).writes, {"task"})
    BY <2>2, ReturnsOne, RaisesNothing
  <2>6. FreshTodo(stage.writes, climb)
    BY <2>1, <2>4, <2>5, NoPanelFresh, StageHas
  <2>7. QED
    BY <2>6 DEF stage
<1>6. CASE call.op \in EfficiencyOps
  <2>1. stage.writes = << >> \/ \E e : stage.writes = <<e>> /\ IsEvent(e)
    BY <1>6, EfficiencyStage
  <2> HIDE DEF stage
  <2>2. \A i \in DOMAIN stage.writes : "record" \notin DOMAIN stage.writes[i]
    BY Zenon, <2>1, EventWrites
  <2>3. FreshTodo(stage.writes, climb)
    BY <2>2 DEF FreshTodo, BlindTodo, Range
  <2>4. QED
    BY <2>3 DEF stage
<1>7. CASE /\ call.op \notin {"create", "panel", "propose", "review", "apply"}
           /\ call.op \notin EfficiencyOps
  <2>1. call.op \in Operations
    BY DEF IsCall
  <2>2. Avoids(stage.writes, Named)
    BY <1>7, <2>1, PlainStage
  <2>3. QED
    BY <2>2, NamedTasks, NoPanelFresh
<1>8. QED
  BY <1>1, <1>2, <1>3, <1>4, <1>5, <1>6, <1>7

-----------------------------------------------------------------------------
(* No identity judges twice *)

LEMMA FewerFresh ==
    ASSUME NEW todo, NEW less, Range(less) \subseteq Range(todo), NEW log, FreshTodo(todo, log)
    PROVE  FreshTodo(less, log)
BY DEF FreshTodo, BlindTodo

LEMMA BlindAppend ==
    ASSUME NEW log, IsLog(log), NEW write
    PROVE  BlindIn(Append(log, write))
             = BlindIn(log) \cup (IF NamesJudges(write.record) THEN {write.record} ELSE {})
<1>1. Collection(Records(Append(log, write)), "task")
        = Collection(Records(log), "task")
            \cup (IF write.record.record = "task" THEN {write.record} ELSE {})
  BY CollectionAppend
<1>2. QED
  BY <1>1 DEF BlindIn, NamesJudges

\* What the process then has still to register, and what it may have registered.
Continues(p) ==
    /\ Alone(p) /\ (mixed => mixed')
    /\ Working(work'[p]) => Working(work[p]) /\ Range(work'[p].todo) \subseteq Range(work[p].todo)
    /\ \/ climb' = climb
       \/ /\ Working(work[p])
          /\ \E write \in Range(work[p].todo) :
                "record" \in DOMAIN write /\ climb' = Append(climb, write)

LEMMA ContinuesFresh ==
    ASSUME FreshInv, IsLog(climb), NEW p \in Operators, Continues(p)
    PROVE  FreshInv'
<1> SUFFICES ASSUME ~mixed'
             PROVE  /\ Separate(climb')
                    /\ \A q \in Operators : Working(work'[q]) =>
                          /\ FreshTodo(work'[q].todo, climb')
                          /\ \A r \in Operators \ {q} : ~Working(work'[r])
  BY DEF FreshInv
<1>1. /\ Separate(climb)
      /\ \A q \in Operators : Working(work[q]) =>
            /\ FreshTodo(work[q].todo, climb)
            /\ \A r \in Operators \ {q} : ~Working(work[r])
  BY DEF FreshInv, Continues
<1>2. /\ \A q \in Operators \ {p} : work'[q] = work[q]
      /\ Working(work'[p]) => Working(work[p]) /\ Range(work'[p].todo) \subseteq Range(work[p].todo)
  BY DEF Continues, Alone
<1>3. \A q \in Operators : Working(work'[q]) =>
         Working(work[q]) /\ \A r \in Operators \ {q} : ~Working(work'[r])
  BY <1>1, <1>2
<1>4. \A q \in Operators : Working(work'[q]) => FreshTodo(work'[q].todo, climb)
  <2> SUFFICES ASSUME NEW q \in Operators, Working(work'[q]) PROVE FreshTodo(work'[q].todo, climb)
    OBVIOUS
  <2>1. CASE q = p
    <3>1. Range(work'[q].todo) \subseteq Range(work[q].todo) /\ FreshTodo(work[q].todo, climb)
      BY <1>1, <1>2, <2>1
    <3>2. QED
      BY <3>1, FewerFresh
  <2>2. CASE q # p
    BY <1>1, <1>2, <2>2
  <2>3. QED
    BY <2>1, <2>2
<1>5. CASE climb' = climb
  BY <1>1, <1>3, <1>4, <1>5
<1>6. CASE climb' # climb
  <2>1. /\ Working(work[p])
        /\ \E write \in Range(work[p].todo) :
              "record" \in DOMAIN write /\ climb' = Append(climb, write)
    BY <1>6 DEF Continues
  <2>2. PICK write \in Range(work[p].todo) :
           "record" \in DOMAIN write /\ climb' = Append(climb, write)
    BY <2>1
  <2>3. BlindIn(climb') = BlindIn(climb) \cup (IF NamesJudges(write.record) THEN {write.record} ELSE {})
    BY <2>2, BlindAppend
  <2>4. FreshTodo(work[p].todo, climb)
    BY <1>1, <2>1
  <2>5. NamesJudges(write.record) =>
          /\ write.record \in BlindTodo(work[p].todo)
          /\ \A u \in BlindIn(climb) : write.record # u => Apart(write.record, u)
          /\ \A s \in BlindTodo(work[p].todo) : s = write.record
    BY <2>2, <2>4 DEF FreshTodo, BlindTodo
  <2>6. \A t, u : Apart(t, u) => Apart(u, t)
    BY DEF Apart
  <2>7. Separate(climb')
    BY <1>1, <2>3, <2>5, <2>6 DEF Separate
  <2>8. \A q \in Operators : Working(work'[q]) => q = p
    BY <1>1, <1>3, <2>1
  <2>9. Working(work'[p]) => FreshTodo(work'[p].todo, climb')
    <3> SUFFICES ASSUME Working(work'[p]) PROVE FreshTodo(work'[p].todo, climb')
      OBVIOUS
    <3>1. FreshTodo(work[p].todo, climb')
      BY <2>3, <2>4, <2>5 DEF FreshTodo
    <3>2. Range(work'[p].todo) \subseteq Range(work[p].todo)
      BY <1>2
    <3>3. QED
      BY <3>1, <3>2, FewerFresh
  <2>10. QED
    BY <1>3, <2>7, <2>8, <2>9
<1>7. QED
  BY <1>5, <1>6

LEMMA AppendedContinues ==
    ASSUME Placed, NEW p \in Operators, NEW verdict, NEW grown, Appended(p, verdict, grown)
    PROVE  Alone(p) /\ (Working(work'[p]) => work'[p].todo = work[p].todo)
<1>1. Alone(p)
  BY AppendedAlone
<1>2. CASE verdict \in {"append", "existing"}
  <2>1. PICK n : work' = [work EXCEPT ![p].phase = "index", ![p].added = @ + n]
    BY <1>2 DEF Appended
  <2>2. work'[p].todo = work[p].todo
    BY <2>1, IdleFields DEF Placed
  <2>3. QED
    BY <1>1, <2>2
<1>3. CASE verdict \notin {"append", "existing"}
  <2>1. End(p, "refused")
    BY <1>3 DEF Appended
  <2>2. ~Working(work'[p])
    BY <2>1, EndAlone DEF Working
  <2>3. QED
    BY <1>1, <2>2
<1>4. QED
  BY <1>2, <1>3

\* Every step but Stage goes on with what its process has to register.
LEMMA StepContinues ==
    ASSUME MovesInv, NEW p \in Operators,
           \/ Open(p) \/ OpenActive(p) \/ CheckRecord(p) \/ AppendRecord(p)
           \/ AppendOperational(p) \/ AppendQualification(p) \/ CommitDraft(p)
           \/ Index(p) \/ Project(p) \/ Settle(p) \/ Verify(p) \/ Crash(p)
    PROVE  Continues(p)
<1>1. Placed /\ IsLog(climb)
  BY DEF MovesInv, Settled, GlobalOf
<1> USE DEF journals
<1>2. ASSUME Open(p) \/ OpenActive(p) PROVE Continues(p)
  <2>1. /\ climb' = climb /\ (mixed => mixed')
        /\ Goto(p, "open") \/ Goto(p, "run") \/ End(p, "unopenable")
    <3>1. ASSUME Open(p) PROVE climb' = climb /\ (mixed => mixed')
      BY Zenon, <3>1 DEF Open, Mixes
    <3>2. ASSUME OpenActive(p) PROVE climb' = climb /\ (mixed => mixed')
      BY Zenon, <3>2 DEF OpenActive
    <3>3. Goto(p, "open") \/ Goto(p, "run") \/ End(p, "unopenable")
      BY Zenon, <1>2 DEF Open, OpenActive
    <3>4. QED
      BY <1>2, <3>1, <3>2, <3>3
  <2>2. Alone(p) /\ ~Working(work'[p])
    <3>1. ASSUME NEW phase \in {"open", "run"}, Goto(p, phase) PROVE Alone(p) /\ ~Working(work'[p])
      BY <1>1, <3>1, GotoAlone DEF Working
    <3>2. ASSUME End(p, "unopenable") PROVE Alone(p) /\ ~Working(work'[p])
      BY <1>1, <3>2, EndAlone DEF Working
    <3>3. QED
      BY <2>1, <3>1, <3>2
  <2>3. QED
    BY <2>1, <2>2 DEF Continues
<1>3. ASSUME CheckRecord(p) PROVE Continues(p)
  <2>1. climb' = climb /\ mixed' = mixed /\ Working(work[p])
    BY <1>3 DEF CheckRecord, Writing, Working
  <2>2. ASSUME End(p, "refused") PROVE Alone(p) /\ ~Working(work'[p])
    BY <1>1, <2>2, EndAlone DEF Working
  <2>3. ASSUME ~End(p, "refused") PROVE Alone(p) /\ work'[p].todo = work[p].todo
    <3>1. PICK heads : work' = [work EXCEPT ![p].phase = "append", ![p].seen = heads]
      BY <1>3, <2>3 DEF CheckRecord
    <3>2. QED
      BY <1>1, <3>1, IdleFields DEF Placed, Alone
  <2>4. QED
    BY <2>1, <2>2, <2>3 DEF Continues
<1>4. ASSUME AppendRecord(p) PROVE Continues(p)
  <2> DEFINE write == Head(work[p].todo)
  <2>1. /\ mixed' = mixed /\ Working(work[p]) /\ Busy(p) /\ work[p].todo # << >>
        /\ JournalOf(write) = "climb"
        /\ climb' \in {climb, Append(climb, write)}
        /\ \E verdict, grown : Appended(p, verdict, grown)
    BY <1>4 DEF AppendRecord, Writing, Working, Busy
  <2>2. Alone(p) /\ (Working(work'[p]) => work'[p].todo = work[p].todo)
    BY <1>1, <2>1, AppendedContinues
  <2>3. IsLog(work[p].todo)
    <3>1. Remaining(p)
      BY <2>1 DEF MovesInv
    <3>2. QED
      BY <2>1, <3>1 DEF MovesInv, LocalOf
  <2>4. write \in Range(work[p].todo)
    BY <2>1, <2>3, TailLog DEF Range
  <2>5. "record" \in DOMAIN write
    BY <2>1 DEF JournalOf
  <2>6. climb' = climb \/ climb' = Append(climb, write)
    BY <2>1
  <2> HIDE DEF write
  <2>7. climb' = climb \/ \E e \in Range(work[p].todo) : "record" \in DOMAIN e /\ climb' = Append(climb, e)
    BY <2>4, <2>5, <2>6
  <2>8. Working(work'[p]) => Range(work'[p].todo) \subseteq Range(work[p].todo)
    BY <2>2
  <2>9. QED
    BY <2>1, <2>2, <2>7, <2>8 DEF Continues
<1>5. ASSUME AppendOperational(p) \/ AppendQualification(p) \/ CommitDraft(p) PROVE Continues(p)
  <2>1. /\ climb' = climb /\ mixed' = mixed /\ Working(work[p])
        /\ \E verdict, grown : Appended(p, verdict, grown)
    BY Zenon, <1>5 DEF AppendOperational, AppendQualification, CommitDraft, Writing, Working
  <2>2. Alone(p) /\ (Working(work'[p]) => work'[p].todo = work[p].todo)
    BY <1>1, <2>1, AppendedContinues
  <2>3. QED
    BY <2>1, <2>2 DEF Continues
<1>6. ASSUME Index(p) \/ Project(p) PROVE Continues(p)
  <2>1. /\ climb' = climb /\ mixed' = mixed /\ Landed(work[p]) /\ Busy(p)
        /\ \/ Goto(p, "project")
           \/ End(p, "refused")
           \/ work' = [work EXCEPT ![p].phase = "write", ![p].todo = Tail(@)]
    BY <1>6 DEF Index, Project, Landed, Busy
  <2>2. Working(work[p])
    BY <2>1 DEF Landed, Working
  <2>3. ASSUME Goto(p, "project") PROVE Continues(p)
    <3>1. Alone(p)
      BY <1>1, <2>3, GotoAlone
    <3>2. work'[p].todo = work[p].todo
      BY <1>1, <2>3, IdleFields DEF Goto, Placed
    <3>3. QED
      BY <2>1, <2>2, <3>1, <3>2 DEF Continues
  <2>4. ASSUME End(p, "refused") PROVE Continues(p)
    <3>1. Alone(p) /\ ~Working(work'[p])
      BY <1>1, <2>4, EndAlone DEF Working
    <3>2. QED
      BY <2>1, <3>1 DEF Continues
  <2>5. ASSUME work' = [work EXCEPT ![p].phase = "write", ![p].todo = Tail(@)] PROVE Continues(p)
    <3>1. Alone(p) /\ work'[p].todo = Tail(work[p].todo)
      BY <1>1, <2>5, IdleFields DEF Placed, Alone
    <3>2. IsLog(work[p].todo) /\ work[p].todo # << >>
      <4>1. Remaining(p)
        BY <2>1 DEF MovesInv
      <4>2. QED
        BY <2>1, <2>2, <4>1 DEF MovesInv, LocalOf
    <3> DEFINE todo == work[p].todo
    <3>3. /\ DOMAIN Tail(todo) = 1..(Len(todo) - 1) /\ Len(todo) \in Nat /\ DOMAIN todo = 1..Len(todo)
          /\ \A i \in 1..(Len(todo) - 1) : Tail(todo)[i] = todo[i + 1]
      BY <3>2, TailLog, LogFacts
    <3> HIDE DEF todo
    <3>4. \A i \in 1..(Len(todo) - 1) : i + 1 \in 1..Len(todo)
      BY <3>3
    <3>5. Range(Tail(todo)) \subseteq Range(todo)
      BY <3>3, <3>4 DEF Range
    <3>6. QED
      BY <2>1, <2>2, <3>1, <3>5 DEF Continues, todo
  <2>6. QED
    BY <2>1, <2>3, <2>4, <2>5
<1>7. ASSUME Settle(p) PROVE Continues(p)
  <2>1. /\ climb' = climb /\ mixed' = mixed /\ Working(work[p])
        /\ \/ work' = [work EXCEPT ![p].phase = "run", ![p].stage = @ + 1]
           \/ Goto(p, "verify") \/ End(p, work[p].next)
    BY <1>7 DEF Settle, Working
  <2>2. ASSUME Goto(p, "verify") PROVE Continues(p)
    <3>1. Alone(p)
      BY <1>1, <2>2, GotoAlone
    <3>2. work'[p].todo = work[p].todo
      BY <1>1, <2>2, IdleFields DEF Goto, Placed
    <3>3. QED
      BY <2>1, <3>1, <3>2 DEF Continues
  <2>3. ASSUME End(p, work[p].next) PROVE Continues(p)
    <3>1. Alone(p) /\ ~Working(work'[p])
      BY <1>1, <2>3, EndAlone DEF Working
    <3>2. QED
      BY <2>1, <3>1 DEF Continues
  <2>4. ASSUME work' = [work EXCEPT ![p].phase = "run", ![p].stage = @ + 1] PROVE Continues(p)
    <3>1. Alone(p) /\ work'[p].phase = "run"
      BY <1>1, <2>4, IdleFields DEF Placed, Alone
    <3>2. ~Working(work'[p])
      BY <3>1 DEF Working
    <3>3. QED
      BY <2>1, <3>1, <3>2 DEF Continues
  <2>5. QED
    BY <2>1, <2>2, <2>3, <2>4
<1>8. ASSUME Verify(p) PROVE Continues(p)
  <2>1. climb' = climb /\ mixed' = mixed /\ \E outcome : End(p, outcome)
    BY <1>8 DEF Verify
  <2>2. Alone(p) /\ ~Working(work'[p])
    BY <1>1, <2>1, EndAlone DEF Working
  <2>3. QED
    BY <2>1, <2>2 DEF Continues
<1>9. ASSUME Crash(p) PROVE Continues(p)
  <2>1. climb' = climb /\ mixed' = mixed
    BY <1>9 DEF Crash
  <2>2. Alone(p)
    BY <1>1, <1>9, QuietSteps
  <2>3. PICK n : work'[p] = [Idle EXCEPT !.added = n, !.interrupted = TRUE]
    BY Zenon, <1>1, <1>9 DEF Crash, Placed
  <2>4. ~Working(work'[p])
    BY <2>3 DEF Idle, Working
  <2>5. QED
    BY <2>1, <2>2, <2>4 DEF Continues
<1>10. QED
  BY <1>2, <1>3, <1>4, <1>5, <1>6, <1>7, <1>8, <1>9

\* A stage is computed when no other process is in a call, or calls are mixed.
LEMMA StagesFresh ==
    ASSUME MovesInv, FreshInv, NEW p \in Operators, Stage(p)
    PROVE  FreshInv'
<1> SUFFICES ASSUME ~mixed' PROVE FreshInv'
  BY DEF FreshInv
<1>1. /\ ~mixed /\ climb' = climb /\ Remaining(p)
      /\ \A q \in Operators \ {p} : ~Busy(q)
  BY Zenon DEF Stage, Mixes, journals
<1>2. Placed /\ Separate(climb)
  BY <1>1 DEF MovesInv, Settled, FreshInv
<1>3. LocalOf(work[p], CallOf(p), climb, drafts) /\ IsCall(CallOf(p))
  BY <1>1, InCall
<1>4. work[p].stage \in Nat \ {0}
  BY <1>3 DEF LocalOf
<1>5. PICK given, heads :
        LET stage == StageOf(CallOf(p), work[p].stage, work[p].task, given)
        IN work' = [work EXCEPT ![p].phase = "write", ![p].todo = stage.writes,
                                ![p].next = stage.next, ![p].task = stage.task,
                                ![p].seen = heads]
  BY Zenon DEF Stage
<1> DEFINE stage == StageOf(CallOf(p), work[p].stage, work[p].task, given)
<1>6. FreshTodo(stage.writes, climb)
  BY <1>3, <1>4, StageFresh
<1> HIDE DEF stage
<1>7. Alone(p) /\ work'[p].todo = stage.writes
  <2>1. work' = [work EXCEPT ![p].phase = "write", ![p].todo = stage.writes,
                             ![p].next = stage.next, ![p].task = stage.task,
                             ![p].seen = heads]
    BY <1>5 DEF stage
  <2>2. QED
    BY <1>2, <2>1, IdleFields DEF Placed, Alone
<1>8. \A q \in Operators \ {p} : ~Working(work'[q])
  BY <1>1, <1>7 DEF Alone, Busy, Working
<1>9. /\ Separate(climb')
      /\ \A q \in Operators : Working(work'[q]) =>
            /\ FreshTodo(work'[q].todo, climb')
            /\ \A r \in Operators \ {q} : ~Working(work'[r])
  BY <1>1, <1>2, <1>6, <1>7, <1>8
<1>10. QED
  BY <1>9 DEF FreshInv

LEMMA FreshNext == MovesInv /\ FreshInv /\ [Next]_vars => FreshInv'
<1> SUFFICES ASSUME MovesInv, FreshInv, [Next]_vars PROVE FreshInv'
  OBVIOUS
<1>1. CASE UNCHANGED vars
  BY <1>1 DEF FreshInv, vars
<1>2. CASE Next
  <2>1. PICK p \in Operators :
           \/ Open(p) \/ OpenActive(p) \/ Stage(p)
           \/ CheckRecord(p) \/ AppendRecord(p)
           \/ AppendOperational(p) \/ AppendQualification(p) \/ CommitDraft(p)
           \/ Index(p) \/ Project(p) \/ Settle(p) \/ Verify(p)
           \/ Crash(p)
    BY <1>2 DEF Next
  <2>2. IsLog(climb)
    BY DEF MovesInv, GlobalOf
  <2>3. ASSUME Stage(p) PROVE FreshInv'
    BY <2>3, StagesFresh
  <2>4. ASSUME ~Stage(p) PROVE FreshInv'
    <3>1. Continues(p)
      BY <2>1, <2>4, StepContinues
    <3>2. QED
      BY <2>2, <3>1, ContinuesFresh
  <2>5. QED
    BY <2>3, <2>4
<1>3. QED
  BY <1>1, <1>2

LEMMA FreshInit == Init => FreshInv
<1> SUFFICES ASSUME Init PROVE FreshInv
  OBVIOUS
<1>1. climb = << >> /\ \A p \in Operators : work[p].phase = "closed"
  BY DEF Init, Idle
<1>2. \A p \in Operators : ~Working(work[p])
  BY <1>1 DEF Working
<1>3. BlindIn(climb) = {}
  <2>1. Records(climb) = << >>
    BY <1>1 DEF Records
  <2>2. Collection(Records(climb), "task") = {r \in Range(<< >>) : r.record = "task"}
    BY <2>1, CollectionIs
  <2>3. QED
    BY <2>2 DEF BlindIn, Range
<1>4. QED
  BY <1>2, <1>3 DEF FreshInv, Separate

\* No identity sits on two blind panels of an Experiment, whoever prepared them, whichever
\* were interrupted or refused before they answered, as long as no two calls have been in
\* flight at once: the identities are looked up and the Task is registered without a lock.
THEOREM JudgesAlwaysFresh == Spec => []JudgesAreFresh
<1>1. FreshInv => JudgesAreFresh
  BY DEF FreshInv, Separate, BlindIn, Apart, JudgesAreFresh
<1>2. QED
  BY <1>1, MovesInit, MovesNext, FreshInit, FreshNext, PTL DEF Spec

-----------------------------------------------------------------------------
(* What a fold computes, one event more *)

\* A function that says what StateOf is of a log and of every set of its indices.
Folds(plan, log, n, f) ==
    f = [s \in SUBSET (1..n) |->
           IF s = {} THEN InitialState(plan)
           ELSE Advanced(plan, f[s \ {Max(s)}], log[Max(s)])]

LEMMA StateIs ==
    ASSUME NEW plan, NEW log, IsLog(log)
    PROVE  StateOf(log, plan) = (CHOOSE f : Folds(plan, log, Len(log), f))[1..Len(log)]
<1>1. DOMAIN log = 1..Len(log)
  BY LogFacts
<1>2. QED
  BY <1>1 DEF StateOf, FoldLeft, MapThenFoldSet, Folds

LEMMA LargestWith ==
    ASSUME NEW n \in Nat, NEW s \in SUBSET (1..(n + 1))
    PROVE  /\ n + 1 \in s => Max(s) = n + 1
           /\ s \ {n + 1} \in SUBSET (1..n)
           /\ n + 1 \notin s => s \in SUBSET (1..n)
           /\ s # {} => Max(s) \in s
<1>0. n + 1 \in Nat /\ \A k \in 1..(n + 1) : k # n + 1 => k \in 1..n
  OBVIOUS
<1>1. s # {} => Max(s) \in s /\ \A y \in s : y <= Max(s)
  BY Zenon, <1>0, LargestIndex
<1>2. n + 1 \in s => Max(s) = n + 1
  <2> SUFFICES ASSUME n + 1 \in s PROVE Max(s) = n + 1
    OBVIOUS
  <2>1. Max(s) \in 1..(n + 1) /\ n + 1 <= Max(s)
    BY Zenon, <1>1
  <2> DEFINE k == Max(s)
  <2>2. k \in 1..(n + 1) /\ n + 1 <= k
    BY <2>1
  <2> HIDE DEF k
  <2>3. k = n + 1
    BY <2>2
  <2>4. QED
    BY <2>3 DEF k
<1>3. QED
  BY <1>0, <1>1, <1>2

\* It exists for every length.
LEMMA FoldsExist ==
    ASSUME NEW plan, NEW log, NEW n \in Nat
    PROVE  \E f : Folds(plan, log, n, f)
<1> DEFINE Fails == {m \in Nat : ~ \E f : Folds(plan, log, m, f)}
<1> SUFFICES ASSUME Fails # {} PROVE FALSE
  OBVIOUS
<1>1. PICK m \in Fails : \A k \in Fails : ~ (<<k, m>> \in OpToRel(<, Nat))
  <2>1. Fails \subseteq Nat
    OBVIOUS
  <2> HIDE DEF Fails
  <2>2. QED
    BY Zenon, <2>1, NatLessThanWellFounded, WFMin
<1>2. m \in Nat /\ ~ \E f : Folds(plan, log, m, f)
  OBVIOUS
<1>3. CASE m = 0
  <2> DEFINE f == [s \in SUBSET (1..0) |-> InitialState(plan)]
  <2>1. \A s \in SUBSET (1..0) : s = {}
    OBVIOUS
  <2>2. f = [s \in SUBSET (1..0) |->
               IF s = {} THEN InitialState(plan)
               ELSE Advanced(plan, f[s \ {Max(s)}], log[Max(s)])]
    BY <2>1
  <2> HIDE DEF f
  <2>3. Folds(plan, log, 0, f)
    BY <2>2 DEF Folds
  <2>4. QED
    BY <1>2, <1>3, <2>3
<1>4. CASE m # 0
  <2> DEFINE k == m - 1
  <2>1. k \in Nat /\ k + 1 = m /\ k < m
    BY <1>2, <1>4
  <2>2. k \notin Fails
    BY Zenon, <1>1, <1>2, <2>1 DEF OpToRel
  <2>3. PICK f : Folds(plan, log, k, f)
    BY <2>1, <2>2
  <2> HIDE DEF Fails, k
  <2> DEFINE g == [s \in SUBSET (1..(k + 1)) |->
                     IF k + 1 \in s THEN Advanced(plan, f[s \ {k + 1}], log[k + 1]) ELSE f[s]]
  <2>4. ASSUME NEW s \in SUBSET (1..(k + 1))
        PROVE  g[s] = IF s = {} THEN InitialState(plan)
                      ELSE Advanced(plan, g[s \ {Max(s)}], log[Max(s)])
    <3>1. /\ k + 1 \in s => Max(s) = k + 1
          /\ s \ {k + 1} \in SUBSET (1..k)
          /\ k + 1 \notin s => s \in SUBSET (1..k)
          /\ s # {} => Max(s) \in s
      BY <2>1, LargestWith
    <3>2. \A t \in SUBSET (1..k) : g[t] = f[t]
      <4>1. k + 1 \notin 1..k /\ SUBSET (1..k) \subseteq SUBSET (1..(k + 1))
        BY <2>1
      <4>2. QED
        BY Zenon, <4>1
    <3>3. \A t \in SUBSET (1..k) : f[t] = IF t = {} THEN InitialState(plan)
                                   ELSE Advanced(plan, f[t \ {Max(t)}], log[Max(t)])
      BY Zenon, <2>3 DEF Folds
    <3>4. g[s] = IF k + 1 \in s THEN Advanced(plan, f[s \ {k + 1}], log[k + 1]) ELSE f[s]
      OBVIOUS
    <3> HIDE DEF g
    <3>5. CASE k + 1 \in s
      <4>1. s # {} /\ Max(s) = k + 1 /\ g[s \ {k + 1}] = f[s \ {k + 1}]
        BY <3>1, <3>2, <3>5
      <4>2. QED
        BY Zenon, <3>4, <3>5, <4>1
    <3>6. CASE k + 1 \notin s
      <4>1. s \in SUBSET (1..k) /\ g[s] = f[s]
        BY <3>1, <3>4, <3>6
      <4>2. s \ {Max(s)} \in SUBSET (1..k)
        BY Zenon, <4>1
      <4>3. g[s \ {Max(s)}] = f[s \ {Max(s)}]
        BY <3>2, <4>2
      <4>4. QED
        BY <3>3, <4>1, <4>3
    <3>7. QED
      BY <3>5, <3>6
  <2>5. g = [s \in SUBSET (1..(k + 1)) |-> g[s]]
    OBVIOUS
  <2> HIDE DEF g
  <2>6. Folds(plan, log, k + 1, g)
    BY Zenon, <2>4, <2>5 DEF Folds
  <2>7. QED
    BY <1>2, <2>1, <2>6
<1>5. QED
  BY <1>3, <1>4

\* Logs that begin alike lead to the same state where they do.
LEMMA FoldsAgree ==
    ASSUME NEW plan, NEW log, NEW longer, NEW n \in Nat, NEW k \in Nat, n <= k,
           \A i \in 1..n : longer[i] = log[i],
           NEW f, Folds(plan, log, n, f), NEW g, Folds(plan, longer, k, g)
    PROVE  f[1..n] = g[1..n]
<1> DEFINE Differ == {m \in Nat : m <= n /\ f[1..m] # g[1..m]}
<1> SUFFICES ASSUME Differ # {} PROVE FALSE
  OBVIOUS
<1>1. PICK m \in Differ : \A j \in Differ : ~ (<<j, m>> \in OpToRel(<, Nat))
  <2>1. Differ \subseteq Nat
    OBVIOUS
  <2> HIDE DEF Differ
  <2>2. QED
    BY Zenon, <2>1, NatLessThanWellFounded, WFMin
<1>2. m \in Nat /\ m <= n /\ f[1..m] # g[1..m]
  OBVIOUS
<1>3. 1..m \in SUBSET (1..n) /\ 1..m \in SUBSET (1..k)
  BY <1>2
<1>4. /\ f[1..m] = IF 1..m = {} THEN InitialState(plan)
                   ELSE Advanced(plan, f[(1..m) \ {Max(1..m)}], log[Max(1..m)])
      /\ g[1..m] = IF 1..m = {} THEN InitialState(plan)
                   ELSE Advanced(plan, g[(1..m) \ {Max(1..m)}], longer[Max(1..m)])
  BY Zenon, <1>3 DEF Folds
<1>5. CASE m = 0
  <2>1. 1..m = {}
    BY <1>5
  <2>2. QED
    BY <1>2, <1>4, <2>1
<1>6. CASE m # 0
  <2> DEFINE j == m - 1
  <2>1. j \in Nat /\ j + 1 = m /\ j < m /\ j <= n /\ m \in 1..m /\ m \in 1..n /\ (1..m) \ {m} = 1..j
    BY <1>2, <1>6
  <2>2. Max(1..m) = m
    <3>1. j + 1 \in 1..(j + 1) /\ 1..(j + 1) \in SUBSET (1..(j + 1))
      BY <2>1
    <3>2. Max(1..(j + 1)) = j + 1
      BY Zenon, <2>1, <3>1, LargestWith
    <3>3. QED
      BY <2>1, <3>2
  <2>3. j \notin Differ
    BY Zenon, <1>1, <1>2, <2>1 DEF OpToRel
  <2>4. f[1..j] = g[1..j]
    BY <2>1, <2>3
  <2> HIDE DEF j, Differ
  <2>5. longer[m] = log[m] /\ 1..m # {}
    BY <2>1
  <2>6. f[1..m] = Advanced(plan, f[1..j], log[m]) /\ g[1..m] = Advanced(plan, g[1..j], log[m])
    BY Zenon, <1>4, <2>1, <2>2, <2>5
  <2>7. QED
    BY <1>2, <2>4, <2>6
<1>7. QED
  BY <1>5, <1>6

\* Every further event advances the state that the events before it have led to.
LEMMA StateAdvances ==
    ASSUME NEW plan, NEW log, IsLog(log), NEW e
    PROVE  StateOf(Append(log, e), plan) = Advanced(plan, StateOf(log, plan), e)
<1> DEFINE n == Len(log)
           longer == Append(log, e)
           f == CHOOSE x : Folds(plan, log, n, x)
           g == CHOOSE x : Folds(plan, longer, n + 1, x)
<1>1. /\ n \in Nat /\ IsLog(longer) /\ Len(longer) = n + 1
      /\ \A i \in 1..n : longer[i] = log[i]
      /\ longer[n + 1] = e
  BY LogFacts, LongerLog
<1>2. StateOf(log, plan) = f[1..n] /\ StateOf(longer, plan) = g[1..(n + 1)]
  <2>1. StateOf(log, plan) = f[1..n]
    BY StateIs
  <2>2. StateOf(longer, plan) = (CHOOSE x : Folds(plan, longer, Len(longer), x))[1..Len(longer)]
    <3> HIDE DEF longer
    <3>1. QED
      BY <1>1, StateIs
  <2>3. Len(longer) = n + 1
    BY <1>1
  <2>4. QED
    BY <2>1, <2>2, <2>3
<1> HIDE DEF n, longer
<1>3. Folds(plan, log, n, f)
  BY <1>1, FoldsExist
<1>4. Folds(plan, longer, n + 1, g)
  <2>1. n + 1 \in Nat
    BY <1>1
  <2>2. QED
    BY <2>1, FoldsExist
<1> HIDE DEF f, g
<1>5. f[1..n] = g[1..n]
  <2>1. n <= n + 1 /\ n + 1 \in Nat
    BY <1>1
  <2>2. QED
    BY <1>1, <1>3, <1>4, <2>1, FoldsAgree
<1>6. /\ 1..(n + 1) \in SUBSET (1..(n + 1)) /\ n + 1 \in 1..(n + 1)
      /\ (1..(n + 1)) \ {n + 1} = 1..n
  BY <1>1
<1>7. Max(1..(n + 1)) = n + 1
  BY <1>1, <1>6, LargestWith
<1>8. g[1..(n + 1)] = Advanced(plan, g[1..n], longer[n + 1])
  BY Zenon, <1>4, <1>6, <1>7 DEF Folds
<1>9. QED
  BY <1>1, <1>2, <1>5, <1>8 DEF longer

LEMMA StateBegins ==
    ASSUME NEW plan
    PROVE  StateOf(<< >>, plan) = InitialState(plan)
<1> DEFINE f == CHOOSE x : Folds(plan, << >>, 0, x)
<1>1. IsLog(<< >>) /\ Len(<< >>) = 0
  BY EmptySeq DEF IsLog
<1>2. StateOf(<< >>, plan) = f[1..0]
  BY Zenon, <1>1, StateIs
<1>3. Folds(plan, << >>, 0, f)
  BY FoldsExist
<1> HIDE DEF f
<1>4. 1..0 = {} /\ 1..0 \in SUBSET (1..0)
  OBVIOUS
<1>5. QED
  BY <1>2, <1>3, <1>4 DEF Folds

-----------------------------------------------------------------------------
(* A journal of efficiency events that replays *)

JournalReplays(log) ==
    /\ IsLog(log) /\ KeysUnique(log)
    /\ \A i \in DOMAIN log : EventKeyed(log[i])
    /\ EfficiencyEventsVerify(log)
    /\ \A plan : InitialState(plan) # Refused => StateOf(log, plan) # Refused

LEMMA EventPlace ==
    ASSUME NEW log, NEW type, NEW e \in EventsOf(log, type)
    PROVE  e.type = type /\ \E i \in DOMAIN log : log[i] = e
BY DEF EventsOf, ToSet

\* A new key means a new plan, or its first measurement.
LEMMA FirstOfItsPlan ==
    ASSUME NEW log, JournalReplays(log), NEW e, EventKeyed(e), ~HasKey(log, e.key)
    PROVE  /\ e.type = "plan_recorded" => ~IsPlanned(log, e.plan)
           /\ e.type = "formal_measurement_recorded" => ~IsMeasured(log, e.plan)
<1>1. \A i \in DOMAIN log : EventKeyed(log[i]) /\ log[i].key # e.key
  BY DEF JournalReplays, HasKey
<1>2. ASSUME e.type = "plan_recorded", IsPlanned(log, e.plan) PROVE FALSE
  <2>1. PICK x \in EventsOf(log, "plan_recorded") : x.plan = e.plan
    BY <1>2 DEF IsPlanned
  <2>2. PICK i \in DOMAIN log : log[i] = x
    BY EventPlace
  <2>3. x.type = "plan_recorded" /\ EventKeyed(x) /\ x.key # e.key
    BY <1>1, <2>2, EventPlace
  <2>4. QED
    BY <1>2, <2>1, <2>3 DEF EventKeyed
<1>3. ASSUME e.type = "formal_measurement_recorded", IsMeasured(log, e.plan) PROVE FALSE
  <2>1. PICK x \in EventsOf(log, "formal_measurement_recorded") : x.plan = e.plan
    BY <1>3 DEF IsMeasured
  <2>2. PICK i \in DOMAIN log : log[i] = x
    BY EventPlace
  <2>3. x.type = "formal_measurement_recorded" /\ EventKeyed(x) /\ x.key # e.key
    BY <1>1, <2>2, EventPlace
  <2>4. QED
    BY <1>3, <2>1, <2>3 DEF EventKeyed
<1>4. QED
  BY <1>2, <1>3

\* Whatever plan it is of, an allowed observation leads to a state.
LEMMA StateStands ==
    ASSUME NEW log, JournalReplays(log), NEW e, Allowed(log, e), NEW plan, InitialState(plan) # Refused
    PROVE  StateOf(Append(log, e), plan) # Refused
<1>1. StateOf(log, plan) # Refused /\ IsLog(log)
  BY DEF JournalReplays
<1>2. StateOf(Append(log, e), plan) = Advanced(plan, StateOf(log, plan), e)
  BY <1>1, StateAdvances
<1>3. CASE e.type = "observation_recorded" /\ e.plan = plan
  <2>1. e.state = StateAfter(log, plan, e.observation) /\ e.state # Refused
    BY <1>3 DEF Allowed
  <2>2. e.state = AdvancePreflight(plan, StateOf(log, plan), e.observation)
    BY <1>1, <2>1 DEF StateAfter
  <2>3. Advanced(plan, StateOf(log, plan), e) = AdvancePreflight(plan, StateOf(log, plan), e.observation)
    BY <1>1, <1>3 DEF Advanced
  <2>4. QED
    BY <1>2, <2>1, <2>2, <2>3
<1>4. CASE ~(e.type = "observation_recorded" /\ e.plan = plan)
  BY <1>1, <1>2, <1>4 DEF Advanced
<1>5. QED
  BY <1>3, <1>4

\* The journal still replays when an event that it allows is appended.
LEMMA ReplaysOn ==
    ASSUME NEW log, JournalReplays(log), NEW e, Allowed(log, e), ~HasKey(log, e.key)
    PROVE  JournalReplays(Append(log, e))
<1> DEFINE longer == Append(log, e)
<1>1. IsLog(log) /\ KeysUnique(log) /\ EventKeyed(e) /\ \A i \in DOMAIN log : EventKeyed(log[i])
  BY DEF JournalReplays, Allowed
<1>2. /\ DOMAIN log = 1..Len(log) /\ Len(log) \in Nat
      /\ IsLog(longer) /\ DOMAIN longer = 1..(Len(log) + 1)
      /\ \A i \in 1..Len(log) : longer[i] = log[i]
      /\ longer[Len(log) + 1] = e
  BY <1>1, LongerLog, LogFacts
<1>3. KeysUnique(longer)
  BY <1>1, KeysStayUnique
<1>4. SubSeq(longer, 1, Len(log)) = log
  <2>1. Len(log) \in 0..Len(log)
    BY <1>2
  <2>2. SubSeq(longer, 1, Len(log)) = SubSeq(log, 1, Len(log))
    BY <1>1, <2>1, PrefixOfLonger
  <2>3. QED
    BY <1>1, <2>2, WholeLog
<1>5. \A plan : InitialState(plan) # Refused => StateOf(longer, plan) # Refused
  BY StateStands
<1>6. ASSUME NEW i \in 1..Len(log) PROVE EfficiencyEventVerifies(longer, i)
  <2>1. i - 1 \in 0..Len(log)
    BY <1>2
  <2>2. SubSeq(longer, 1, i - 1) = SubSeq(log, 1, i - 1) /\ longer[i] = log[i]
    BY <1>1, <1>2, <2>1, PrefixOfLonger
  <2>3. EfficiencyEventVerifies(log, i)
    BY <1>2 DEF JournalReplays, EfficiencyEventsVerify
  <2> HIDE DEF longer
  <2>4. QED
    BY Zenon, <2>2, <2>3 DEF EfficiencyEventVerifies
<1>7. /\ e.type = "plan_recorded" => ~IsPlanned(log, e.plan)
      /\ e.type = "formal_measurement_recorded" => ~IsMeasured(log, e.plan)
  BY <1>1, FirstOfItsPlan
<1> HIDE DEF longer
<1>8. EfficiencyEventVerifies(longer, Len(log) + 1)
  <2> DEFINE n == Len(log) + 1
  <2>1. n - 1 = Len(log)
    BY <1>2
  <2>2. SubSeq(longer, 1, n - 1) = log /\ longer[n] = e
    BY <1>2, <1>4, <2>1
  <2> HIDE DEF n
  <2>3. e.type \in EfficiencyTypes
    BY <1>1 DEF EventKeyed
  <2>4. ASSUME e.type = "plan_recorded" PROVE EfficiencyEventVerifies(longer, n)
    BY Zenon, <1>7, <2>2, <2>4 DEF EfficiencyEventVerifies
  <2>5. ASSUME e.type = "boundary_authorized" PROVE EfficiencyEventVerifies(longer, n)
    BY Zenon, <2>2, <2>5 DEF EfficiencyEventVerifies, Allowed
  <2>6. ASSUME e.type = "observation_recorded" PROVE EfficiencyEventVerifies(longer, n)
    BY Zenon, <2>2, <2>6 DEF EfficiencyEventVerifies, Allowed
  <2>7. ASSUME e.type = "formal_measurement_recorded" PROVE EfficiencyEventVerifies(longer, n)
    BY Zenon, <1>7, <2>2, <2>7 DEF EfficiencyEventVerifies, Allowed
  <2>8. EfficiencyEventVerifies(longer, n)
    BY <2>3, <2>4, <2>5, <2>6, <2>7 DEF EfficiencyTypes
  <2>9. QED
    BY <2>8 DEF n
<1>9. \A i \in DOMAIN longer : EventKeyed(longer[i]) /\ EfficiencyEventVerifies(longer, i)
  <2> SUFFICES ASSUME NEW i \in 1..(Len(log) + 1)
               PROVE  EventKeyed(longer[i]) /\ EfficiencyEventVerifies(longer, i)
    BY <1>2
  <2>1. i \in 1..Len(log) \/ i = Len(log) + 1
    BY <1>2
  <2>2. CASE i \in 1..Len(log)
    BY <1>1, <1>2, <1>6, <2>2
  <2>3. CASE i = Len(log) + 1
    BY <1>1, <1>2, <1>8, <2>3
  <2>4. QED
    BY <2>1, <2>2, <2>3
<1>10. JournalReplays(longer)
  BY <1>2, <1>3, <1>5, <1>9 DEF JournalReplays, EfficiencyEventsVerify
<1>11. QED
  BY <1>10 DEF longer

LEMMA EmptyReplays == JournalReplays(<< >>)
<1>1. IsLog(<< >>) /\ DOMAIN << >> = {}
  BY NoWrites
<1>2. QED
  BY <1>1, StateBegins DEF JournalReplays, KeysUnique, EfficiencyEventsVerify

\* What such a journal says can always be projected.
LEMMA ReplayDerives ==
    ASSUME NEW log, JournalReplays(log)
    PROVE  Derivable(log)
<1> DEFINE places == {i \in DOMAIN log : log[i].type = "plan_recorded"}
           last == Latest(log, "plan_recorded")
<1> SUFFICES ASSUME EventsOf(log, "plan_recorded") # {} PROVE StateOf(log, last.plan) # Refused
  BY DEF Derivable
<1>1. IsLog(log) /\ \A i \in DOMAIN log : EventKeyed(log[i])
  BY DEF JournalReplays
<1>2. Len(log) \in Nat /\ DOMAIN log = 1..Len(log)
  BY <1>1, LogFacts
<1>3. places \in SUBSET (1..Len(log)) /\ places # {}
  BY <1>2 DEF EventsOf, ToSet
<1>4. Max(places) \in places
  BY Zenon, <1>2, <1>3, LargestIndex
<1>5. last = log[Max(places)] /\ last.type = "plan_recorded"
  BY <1>4 DEF Latest
<1>6. EventKeyed(last)
  BY <1>1, <1>4, <1>5
<1> HIDE DEF last
<1>7. InitialState(last.plan) # Refused
  BY <1>5, <1>6 DEF EventKeyed
<1>8. QED
  BY <1>7 DEF JournalReplays

-----------------------------------------------------------------------------
(* An Experiment has one plan, from when its creation has registered it *)

Founded(log) == \E e \in Range(log) : e.record.record = "experiment_plan"

\* Experiment.create registers the plan last.
Opened(w) == w.next = "done" /\ (w.todo = << >> \/ (Len(w.todo) = 1 /\ Landed(w)))
FoundedAt(w, call, log) ==
    /\ w.phase \in {"ready", "run"} => Founded(log)
    /\ Working(w) /\ (call.op # "create" \/ Opened(w)) => Founded(log)
FoundedInv == \A p \in Operators : FoundedAt(work[p], CallOf(p), climb)

Steps(p) ==
    \/ Open(p) \/ OpenActive(p) \/ Stage(p)
    \/ CheckRecord(p) \/ AppendRecord(p)
    \/ AppendOperational(p) \/ AppendQualification(p) \/ CommitDraft(p)
    \/ Index(p) \/ Project(p) \/ Settle(p) \/ Verify(p)
    \/ Crash(p)

\* A step of one process leaves the calls of the others alone.
LEMMA CallsStay ==
    ASSUME MovesInv, NEW p \in Operators, Steps(p)
    PROVE  /\ scenario' = scenario
           /\ \A q \in Operators \ {p} : results'[q] = results[q]
           /\ results' = results \/ \E outcome : End(p, outcome)
<1>1. scenario' = scenario /\ (results' = results \/ \E outcome : End(p, outcome))
  <2>1. ASSUME Open(p) \/ OpenActive(p) \/ Stage(p) \/ CheckRecord(p) \/ Index(p) \/ Project(p)
               \/ Settle(p) \/ Verify(p) \/ Crash(p)
        PROVE  scenario' = scenario /\ (results' = results \/ \E outcome : End(p, outcome))
    BY Zenon, <2>1 DEF Open, OpenActive, Stage, CheckRecord, Index, Project, Settle, Verify, Crash
  <2>2. ASSUME AppendRecord(p) \/ AppendOperational(p) \/ AppendQualification(p) \/ CommitDraft(p)
        PROVE  scenario' = scenario /\ (results' = results \/ \E outcome : End(p, outcome))
    <3>1. scenario' = scenario /\ \E verdict, grown : Appended(p, verdict, grown)
      BY Zenon, <2>2 DEF AppendRecord, AppendOperational, AppendQualification, CommitDraft
    <3>2. QED
      BY <3>1 DEF Appended
  <2>3. QED
    BY <2>1, <2>2 DEF Steps
<1>2. DOMAIN results = Operators
  BY DEF MovesInv, Settled
<1>3. ASSUME NEW outcome, End(p, outcome) PROVE \A q \in Operators \ {p} : results'[q] = results[q]
  <2>1. PICK r : results' = [results EXCEPT ![p] = Append(@, r)]
    BY Zenon, <1>3 DEF End
  <2>2. QED
    BY <1>2, <2>1
<1>4. QED
  BY <1>1, <1>3

\* Nor does it take anything from the ledger.
LEMMA LedgerGrows ==
    ASSUME MovesInv, NEW p \in Operators, Steps(p)
    PROVE  Alone(p) /\ Grows(climb', climb) /\ IsLog(climb) /\ (Stage(p) => climb' = climb)
<1>1. IsLog(climb) /\ Placed
  BY DEF MovesInv, GlobalOf, Settled
<1>2. ASSUME Stage(p) PROVE Alone(p) /\ climb' = climb
  BY <1>1, <1>2, QuietSteps
<1>3. ASSUME ~Stage(p) PROVE Alone(p) /\ (climb' = climb \/ \E e : climb' = Append(climb, e))
  <2>1. Continues(p)
    BY <1>3, StepContinues DEF Steps
  <2>2. QED
    BY <2>1 DEF Continues
<1>4. Grows(climb', climb)
  BY Zenon, <1>1, <1>2, <1>3, SameGrows, AppendGrows
<1>5. QED
  BY <1>1, <1>2, <1>3, <1>4

LEMMA FoundedLater ==
    ASSUME NEW log, NEW later, Grows(later, log), Founded(log)
    PROVE  Founded(later)
<1>1. Range(log) \subseteq Range(later)
  BY GrowsKeeps
<1>2. QED
  BY <1>1 DEF Founded

LEMMA FoundedOn ==
    ASSUME MovesInv, FoundedInv, NEW p \in Operators, Steps(p),
           FoundedAt(work'[p], CallOf(p)', climb')
    PROVE  FoundedInv'
<1>1. Alone(p) /\ Grows(climb', climb)
  BY LedgerGrows
<1>2. scenario' = scenario /\ \A q \in Operators \ {p} : results'[q] = results[q]
  BY CallsStay
<1>3. ASSUME NEW q \in Operators, q # p PROVE FoundedAt(work'[q], CallOf(q)', climb')
  <2>1. work'[q] = work[q] /\ CallOf(q)' = CallOf(q)
    BY <1>1, <1>2, <1>3 DEF Alone, CallOf
  <2>2. FoundedAt(work[q], CallOf(q), climb)
    BY DEF FoundedInv
  <2>3. Founded(climb) => Founded(climb')
    BY <1>1, FoundedLater
  <2>4. FoundedAt(work[q], CallOf(q), climb')
    BY <2>2, <2>3 DEF FoundedAt
  <2>5. QED
    BY <2>1, <2>4
<1>4. QED
  BY <1>3 DEF FoundedInv

\* Where there is a plan, everything is allowed.
LEMMA FoundedSomewhere == ASSUME NEW w, NEW call, NEW log, Founded(log) PROVE FoundedAt(w, call, log)
BY DEF FoundedAt

LEMMA FoundedEnd ==
    ASSUME MovesInv, FoundedInv, NEW p \in Operators, Steps(p), NEW outcome, End(p, outcome),
           outcome # "unopenable" => Working(work[p]),
           CallOf(p).op = "create" /\ outcome = "done" => Opened(work[p])
    PROVE  FoundedAt(work'[p], CallOf(p)', climb')
<1>1. Placed /\ Grows(climb', climb)
  BY LedgerGrows DEF MovesInv, Settled
<1>2. ASSUME work'[p].phase = "ready" PROVE Founded(climb)
  <2> DEFINE closes == \/ outcome = "unopenable" \/ CallOf(p).command
                       \/ CallOf(p).op = "create" /\ outcome # "done"
  <2>1. work' = [work EXCEPT ![p] = [Idle EXCEPT !.phase = IF closes THEN "closed" ELSE "ready"]]
    BY DEF End
  <2>2. ~closes => outcome # "unopenable" /\ (CallOf(p).op = "create" => outcome = "done")
    OBVIOUS
  <2> HIDE DEF closes
  <2>3. work'[p] = [Idle EXCEPT !.phase = IF closes THEN "closed" ELSE "ready"]
    BY <1>1, <2>1 DEF Placed
  <2>4. ~closes
    BY <1>2, <2>3 DEF Idle
  <2>5. Working(work[p]) /\ (CallOf(p).op # "create" \/ Opened(work[p]))
    BY <2>2, <2>4
  <2>6. FoundedAt(work[p], CallOf(p), climb)
    BY DEF FoundedInv
  <2>7. QED
    BY <2>5, <2>6 DEF FoundedAt
<1>3. work'[p].phase \in {"closed", "ready"}
  BY <1>1, EndAlone
<1>4. Founded(climb) => Founded(climb')
  BY <1>1, FoundedLater
<1>5. QED
  BY <1>2, <1>3, <1>4 DEF FoundedAt, Working

LEMMA PlanOpens ==
    ASSUME CanOpen, IsLog(climb)
    PROVE  Founded(climb)
<1>1. Collection(Records(climb), "experiment_plan") # {}
  BY FS_EmptySet DEF CanOpen
<1>2. PICK record \in Collection(Records(climb), "experiment_plan") : TRUE
  BY <1>1
<1>3. record.record = "experiment_plan" /\ \E i \in DOMAIN climb : climb[i].record = record
  BY <1>2, RecordPlace
<1>4. QED
  BY <1>3 DEF Founded, Range

LEMMA FoundedOpen ==
    ASSUME MovesInv, FoundedInv, NEW p \in Operators, Open(p)
    PROVE  FoundedAt(work'[p], CallOf(p)', climb')
<1>1. Placed /\ CallOf(p).op # "create" /\ (Goto(p, "open") \/ End(p, "unopenable"))
  BY DEF MovesInv, Settled, Open
<1>2. CASE Goto(p, "open")
  <2>1. work'[p].phase = "open"
    BY <1>1, <1>2, GotoAlone
  <2>2. QED
    BY <2>1 DEF FoundedAt, Working
<1>3. CASE End(p, "unopenable")
  BY <1>1, <1>3, FoundedEnd DEF Steps
<1>4. QED
  BY <1>1, <1>2, <1>3

LEMMA FoundedOpenActive ==
    ASSUME MovesInv, FoundedInv, NEW p \in Operators, OpenActive(p)
    PROVE  FoundedAt(work'[p], CallOf(p)', climb')
<1>1. Placed /\ IsLog(climb) /\ climb' = climb
  BY DEF MovesInv, Settled, GlobalOf, OpenActive, journals
<1>2. CASE CanOpen
  BY <1>1, <1>2, PlanOpens, FoundedSomewhere
<1>3. CASE ~CanOpen
  <2>1. End(p, "unopenable")
    BY <1>3 DEF OpenActive
  <2>2. QED
    BY <2>1, FoundedEnd DEF Steps
<1>4. QED
  BY <1>2, <1>3

LEMMA FoundedStage ==
    ASSUME MovesInv, FoundedInv, NEW p \in Operators, Stage(p)
    PROVE  FoundedAt(work'[p], CallOf(p)', climb')
<1>1. /\ Placed /\ climb' = climb /\ Remaining(p) /\ CallOf(p)' = CallOf(p)
      /\ \/ work[p].phase \in {"run", "ready"}
         \/ work[p].phase = "closed" /\ CallOf(p).op = "create"
  BY Zenon DEF MovesInv, Settled, Stage, journals, CallOf
<1>2. CASE work[p].phase \in {"run", "ready"}
  <2>1. Founded(climb)
    BY <1>2 DEF FoundedInv, FoundedAt
  <2>2. QED
    BY <1>1, <2>1, FoundedSomewhere
<1>3. CASE work[p].phase = "closed" /\ CallOf(p).op = "create"
  <2>1. PICK given, heads :
          LET stage == StageOf(CallOf(p), work[p].stage, work[p].task, given)
          IN work' = [work EXCEPT ![p].phase = "write", ![p].todo = stage.writes,
                                  ![p].next = stage.next, ![p].task = stage.task,
                                  ![p].seen = heads]
    BY Zenon DEF Stage
  <2> DEFINE stage == StageOf(CallOf(p), work[p].stage, work[p].task, given)
  <2>2. StageHolds(stage, CallOf(p), work[p].stage, climb, drafts)
    BY <1>3, CreateStage
  <2> HIDE DEF stage
  <2>3. work'[p].phase = "write" /\ work'[p].todo = stage.writes /\ work'[p].next = stage.next
    <3>1. work' = [work EXCEPT ![p].phase = "write", ![p].todo = stage.writes,
                               ![p].next = stage.next, ![p].task = stage.task,
                               ![p].seen = heads]
      BY <2>1 DEF stage
    <3>2. QED
      BY <1>1, <3>1, IdleFields DEF Placed
  <2>4. ~Opened(work'[p])
    <3>1. work'[p].next = "done" => Len(work'[p].todo) = 5
      BY Zenon, <1>3, <2>2, <2>3, OpeningHas DEF StageHolds
    <3>2. Len(<< >>) = 0
      OBVIOUS
    <3>3. QED
      BY <3>1, <3>2 DEF Opened
  <2>5. QED
    BY <1>1, <1>3, <2>3, <2>4 DEF FoundedAt
<1>4. QED
  BY <1>1, <1>2, <1>3

\* The last step of a creation.
LEMMA PlanComesLast ==
    ASSUME NEW p \in Operators, MovesInv, Remaining(p), CallOf(p).op = "create",
           Working(work[p]), Len(work[p].todo) = 1
    PROVE  LET write == Head(work[p].todo)
           IN JournalOf(write) = "climb" /\ write.record.record = "experiment_plan"
<1> DEFINE w == work[p]
           call == CallOf(p)
<1>1. LocalOf(w, call, climb, drafts) /\ IsCall(call)
  BY InCall
<1> HIDE DEF w, call
<1>2. w.todo # << >>
  BY DEF w
<1>3. Head(w.todo) = Opening(call)[6 - Len(w.todo)]
  BY Zenon, <1>1, <1>2, CreatesNext DEF w, call
<1>4. 6 - Len(w.todo) = 5
  BY DEF w
<1>5. Head(w.todo) = Opening(call)[5]
  BY <1>3, <1>4
<1>6. JournalOf(Opening(call)[5]) = "climb" /\ Opening(call)[5].record.record = "experiment_plan"
  BY <1>1, OpeningJournals DEF call
<1>7. QED
  BY <1>5, <1>6 DEF w

LEMMA FoundedAppended ==
    ASSUME MovesInv, FoundedInv, NEW p \in Operators, Steps(p), Remaining(p), Working(work[p]),
           work[p].todo # << >>, ~Landed(work[p]), NEW verdict, NEW grown, Appended(p, verdict, grown),
           CallOf(p).op = "create" /\ Len(work[p].todo) = 1 /\ verdict \in {"append", "existing"}
             => Founded(climb')
    PROVE  FoundedAt(work'[p], CallOf(p)', climb')
<1>1. Placed /\ Grows(climb', climb) /\ FoundedAt(work[p], CallOf(p), climb)
  BY LedgerGrows DEF MovesInv, Settled, FoundedInv
<1>2. CASE verdict \in {"append", "existing"}
  <2>1. /\ results' = results
        /\ \E n : work' = [work EXCEPT ![p].phase = "index", ![p].added = @ + n]
    BY <1>2 DEF Appended
  <2>2. work'[p].todo = work[p].todo /\ work'[p].next = work[p].next /\ work'[p].phase = "index"
    BY <1>1, <2>1, IdleFields DEF Placed
  <2>3. CallOf(p)' = CallOf(p)
    BY <2>1, CallsStay DEF CallOf
  <2>4. CallOf(p).op # "create" => Founded(climb)
    BY <1>1 DEF FoundedAt
  <2>5. Founded(climb) => Founded(climb')
    BY <1>1, FoundedLater
  <2>6. CallOf(p).op # "create" \/ Opened(work'[p]) => Founded(climb')
    BY <1>2, <2>2, <2>4, <2>5 DEF Opened
  <2>7. QED
    BY <2>2, <2>3, <2>6 DEF FoundedAt
<1>3. CASE verdict \notin {"append", "existing"}
  <2>1. End(p, "refused")
    BY <1>3 DEF Appended
  <2>2. QED
    BY <2>1, FoundedEnd
<1>4. QED
  BY <1>2, <1>3

LEMMA FoundedAppends ==
    ASSUME MovesInv, FoundedInv, NEW p \in Operators,
           AppendRecord(p) \/ AppendOperational(p) \/ AppendQualification(p) \/ CommitDraft(p)
    PROVE  FoundedAt(work'[p], CallOf(p)', climb')
<1> DEFINE write == Head(work[p].todo)
<1>1. /\ work[p].phase \in {"write", "append"} /\ work[p].todo # << >>
      /\ AppendRecord(p) \/ JournalOf(write) # "climb"
      /\ \E verdict, grown : Appended(p, verdict, grown)
  BY Zenon DEF AppendRecord, AppendOperational, AppendQualification, CommitDraft, Writing
<1>2. Working(work[p]) /\ ~Landed(work[p]) /\ Remaining(p) /\ Steps(p)
  BY <1>1 DEF MovesInv, Working, Landed, Busy, Steps
<1>3. CASE AppendRecord(p)
  <2> DEFINE verdict == Verdict(climb, write, Unset)
  <2>1. climb' = IF verdict = "append" THEN Append(climb, write) ELSE climb
    BY <1>3 DEF AppendRecord
  <2>2. IsLog(climb) /\ KeysUnique(climb)
    BY <1>2, InCall
  <2>3. ASSUME verdict \in {"append", "existing"} PROVE write \in Range(climb')
    <3>1. verdict = "existing" => write \in Range(climb)
      BY <2>2, VerdictMeans
    <3>2. Range(Append(climb, write)) = Range(climb) \cup {write}
      BY <2>2, RangeAppend
    <3>3. QED
      BY <2>1, <2>3, <3>1, <3>2
  <2>4. ASSUME CallOf(p).op = "create", Len(work[p].todo) = 1, verdict \in {"append", "existing"}
        PROVE  Founded(climb')
    <3>1. write.record.record = "experiment_plan"
      BY <1>2, <2>4, PlanComesLast
    <3>2. QED
      BY <2>3, <2>4, <3>1 DEF Founded
  <2>5. \E grown : Appended(p, verdict, grown)
    BY <1>3 DEF AppendRecord
  <2> HIDE DEF verdict
  <2>6. QED
    BY <1>1, <1>2, <2>4, <2>5, FoundedAppended
<1>4. CASE ~AppendRecord(p)
  <2>1. ~(CallOf(p).op = "create" /\ Len(work[p].todo) = 1)
    BY <1>1, <1>2, <1>4, PlanComesLast
  <2>2. QED
    BY <1>1, <1>2, <2>1, FoundedAppended
<1>5. QED
  BY <1>3, <1>4

LEMMA FoundedChecks ==
    ASSUME MovesInv, FoundedInv, NEW p \in Operators, CheckRecord(p)
    PROVE  FoundedAt(work'[p], CallOf(p)', climb')
<1>1. /\ work[p].phase = "write" /\ work[p].todo # << >> /\ climb' = climb /\ Steps(p)
      /\ Placed /\ FoundedAt(work[p], CallOf(p), climb)
  BY DEF CheckRecord, Writing, journals, Steps, MovesInv, Settled, FoundedInv
<1>2. Working(work[p])
  BY <1>1 DEF Working
<1>3. CASE End(p, "refused")
  BY <1>1, <1>2, <1>3, FoundedEnd
<1>4. CASE ~End(p, "refused")
  <2>1. /\ results' = results
        /\ \E heads : work' = [work EXCEPT ![p].phase = "append", ![p].seen = heads]
    BY <1>4 DEF CheckRecord
  <2>2. work'[p].todo = work[p].todo /\ work'[p].phase = "append"
    BY <1>1, <2>1, IdleFields DEF Placed
  <2>3. CallOf(p)' = CallOf(p)
    BY <1>1, <2>1, CallsStay DEF CallOf
  <2>4. ~Opened(work'[p])
    BY <1>1, <2>2 DEF Opened, Landed
  <2>5. CallOf(p).op # "create" => Founded(climb')
    BY <1>1, <1>2 DEF FoundedAt
  <2>6. QED
    BY <2>2, <2>3, <2>4, <2>5 DEF FoundedAt
<1>5. QED
  BY <1>3, <1>4

LEMMA FoundedMoves ==
    ASSUME MovesInv, FoundedInv, NEW p \in Operators, Index(p) \/ Project(p)
    PROVE  FoundedAt(work'[p], CallOf(p)', climb')
<1>1. /\ Landed(work[p]) /\ climb' = climb /\ Steps(p)
      /\ Placed /\ FoundedAt(work[p], CallOf(p), climb)
      /\ \/ Goto(p, "project") /\ results' = results
         \/ End(p, "refused")
         \/ /\ work' = [work EXCEPT ![p].phase = "write", ![p].todo = Tail(@)]
            /\ results' = results
  BY DEF Index, Project, Landed, journals, Steps, MovesInv, Settled, FoundedInv
<1>2. Working(work[p]) /\ Busy(p)
  BY <1>1 DEF Working, Landed, Busy
<1>3. Remaining(p)
  BY <1>2 DEF MovesInv
<1>4. IsLog(work[p].todo) /\ work[p].todo # << >>
  BY <1>1, <1>2, <1>3, InCall DEF LocalOf
<1>5. CASE End(p, "refused")
  BY <1>1, <1>2, <1>5, FoundedEnd
<1>6. CASE Goto(p, "project") /\ results' = results
  <2>1. work'[p].todo = work[p].todo /\ work'[p].phase = "project" /\ work'[p].next = work[p].next
    BY <1>1, <1>6, IdleFields DEF Goto, Placed
  <2>2. CallOf(p)' = CallOf(p)
    BY <1>1, <1>6, CallsStay DEF CallOf
  <2>3. Opened(work'[p]) => Opened(work[p])
    BY <1>1, <2>1 DEF Opened
  <2>4. QED
    BY <1>1, <1>2, <2>1, <2>2, <2>3 DEF FoundedAt
<1>7. CASE work' = [work EXCEPT ![p].phase = "write", ![p].todo = Tail(@)] /\ results' = results
  <2>1. work'[p].todo = Tail(work[p].todo) /\ work'[p].phase = "write" /\ work'[p].next = work[p].next
    BY <1>1, <1>7, IdleFields DEF Placed
  <2>2. CallOf(p)' = CallOf(p)
    BY <1>1, <1>7, CallsStay DEF CallOf
  <2>3. Tail(work[p].todo) = << >> => Len(work[p].todo) = 1
    <3>1. Len(Tail(work[p].todo)) = Len(work[p].todo) - 1 /\ Len(work[p].todo) \in Nat
      BY <1>4, TailLog, LogFacts
    <3>2. Len(<< >>) = 0 /\ \A n \in Nat : n - 1 = 0 => n = 1
      OBVIOUS
    <3>3. QED
      BY Zenon, <3>1, <3>2
  <2>4. Opened(work'[p]) => Opened(work[p])
    BY <1>1, <2>1, <2>3 DEF Opened, Landed
  <2>5. QED
    BY <1>1, <1>2, <2>1, <2>2, <2>4 DEF FoundedAt
<1>8. QED
  BY <1>1, <1>5, <1>6, <1>7

LEMMA FoundedSettles ==
    ASSUME MovesInv, FoundedInv, NEW p \in Operators, Settle(p)
    PROVE  FoundedAt(work'[p], CallOf(p)', climb')
<1>1. /\ work[p].phase = "write" /\ work[p].todo = << >> /\ climb' = climb /\ Steps(p)
      /\ Placed /\ FoundedAt(work[p], CallOf(p), climb)
  BY DEF Settle, journals, Steps, MovesInv, Settled, FoundedInv
<1>2. Working(work[p]) /\ Busy(p)
  BY <1>1 DEF Working, Busy
<1>3. Remaining(p)
  BY <1>2 DEF MovesInv
<1>4. CallOf(p).op = "create" => work[p].next \in {"done", "refused"}
  BY Zenon, <1>2, <1>3, InCall DEF LocalOf, Creating
<1>5. work[p].next # "refused" => Founded(climb')
  BY <1>1, <1>2, <1>4 DEF FoundedAt, Opened
<1>6. CASE work[p].next = "refused"
  <2>1. End(p, "refused")
    BY <1>6 DEF Settle
  <2>2. QED
    BY <1>1, <1>2, <2>1, FoundedEnd
<1>7. QED
  BY <1>5, <1>6, FoundedSomewhere

LEMMA FoundedEnds ==
    ASSUME MovesInv, FoundedInv, NEW p \in Operators, Verify(p) \/ Crash(p)
    PROVE  FoundedAt(work'[p], CallOf(p)', climb')
<1>1. climb' = climb /\ Steps(p) /\ Placed /\ Busy(p) /\ FoundedAt(work[p], CallOf(p), climb)
  BY DEF Verify, Crash, journals, Steps, MovesInv, Settled, FoundedInv, Busy
<1>2. CASE Verify(p)
  <2>1. work[p].phase = "verify" /\ Working(work[p])
    BY <1>2 DEF Verify, Working
  <2>2. Remaining(p)
    BY <1>1 DEF MovesInv
  <2>3. work[p].todo = << >> /\ work[p].next = "done"
    BY <2>1, <2>2, InCall DEF LocalOf
  <2>4. Founded(climb')
    BY <1>1, <2>1, <2>3 DEF FoundedAt, Opened
  <2>5. QED
    BY <2>4, FoundedSomewhere
<1>3. CASE Crash(p)
  <2>1. PICK n : work'[p] = [Idle EXCEPT !.added = n, !.interrupted = TRUE]
    BY Zenon, <1>1, <1>3 DEF Crash, Placed
  <2>2. work'[p].phase = "closed"
    BY <2>1 DEF Idle
  <2>3. QED
    BY <2>2 DEF FoundedAt, Working
<1>4. QED
  BY <1>2, <1>3

LEMMA FoundedInit == Init => FoundedInv
<1> SUFFICES ASSUME Init PROVE FoundedInv
  OBVIOUS
<1>1. \A p \in Operators : work[p].phase = "closed"
  BY DEF Init, Idle
<1>2. QED
  BY <1>1 DEF FoundedInv, FoundedAt, Working

LEMMA FoundedNext == MovesInv /\ FoundedInv /\ [Next]_vars => FoundedInv'
<1> SUFFICES ASSUME MovesInv, FoundedInv, [Next]_vars PROVE FoundedInv'
  OBVIOUS
<1>1. CASE UNCHANGED vars
  BY <1>1 DEF FoundedInv, CallOf, vars
<1>2. CASE Next
  <2>1. PICK p \in Operators : Steps(p)
    BY <1>2 DEF Next, Steps
  <2>2. FoundedAt(work'[p], CallOf(p)', climb')
    BY <2>1, FoundedOpen, FoundedOpenActive, FoundedStage, FoundedChecks, FoundedAppends,
       FoundedMoves, FoundedSettles, FoundedEnds DEF Steps
  <2>3. QED
    BY <2>1, <2>2, FoundedOn
<1>3. QED
  BY <1>1, <1>2

-----------------------------------------------------------------------------
(* The operational journal and active-experiment.json *)

Planned(log) == EventsOf(log, "plan_recorded") # {}
Current == active = ActiveProjection(operational, Heads)

\* The event is in the journal, and the projection is still to be written: by the process
\* that has appended it, or by the one that repeats its call and writes it when it has opened.
Posting(w) == Landed(w) /\ \E e \in Range(w.todo) : IsEvent(e)
Again(p) ==
    /\ work[p].phase \in {"closed", "open"} /\ work[p].interrupted
    /\ Remaining(p) /\ CallOf(p).op # "create"
Behind == \E p \in Operators : Posting(work[p]) \/ Again(p)

\* An efficiency call registers one event, which the journal it has read allows; what
\* writes a projection has read all of the journal.
RecordingAt(w, call, heads, log) ==
    /\ w.phase = "open" => heads.operational = Len(log)
    /\ Working(w) =>
         \A e \in Range(w.todo) : IsEvent(e) =>
            /\ w.todo = <<e>> /\ call.op # "create"
            /\ w.phase = "write" => Allowed(log, e)
            /\ w.phase = "project" => heads.operational = Len(log)
Recording(p) == RecordingAt(work[p], CallOf(p), view[p], operational)

\* As long as calls are not mixed, one process is in a call.
Sole == \A p, q \in Operators : Busy(p) /\ Busy(q) => p = q

EfficiencyInv ==
    /\ DOMAIN view = Operators
    /\ ~mixed =>
         /\ JournalReplays(operational) /\ Sole
         /\ \A p \in Operators : Recording(p)
         /\ Planned(operational) => Founded(climb) /\ (Behind \/ Current)

LEMMA EventJournal == ASSUME NEW e PROVE IsEvent(e) <=> JournalOf(e) = "operational"
BY DEF IsEvent, JournalOf

\* A projection says how long the operational journal is, and nothing of the others.
LEMMA SameProjection ==
    ASSUME NEW log, NEW one, NEW other, one.operational = other.operational
    PROVE  ActiveProjection(log, one) = ActiveProjection(log, other)
BY DEF ActiveProjection

LEMMA HeadsSay == Heads.operational = Len(operational) /\ Heads'.operational = Len(operational')
BY DEF Heads

LEMMA ViewsStay ==
    ASSUME NEW p \in Operators, Steps(p), DOMAIN view = Operators
    PROVE  /\ DOMAIN view' = Operators
           /\ \A q \in Operators \ {p} : view'[q] = view[q]
           /\ mixed => mixed'
           /\ operational' = operational \/ AppendOperational(p)
           /\ active' = active \/ OpenActive(p) \/ Project(p)
<1>1. view' = view \/ view' = [view EXCEPT ![p] = Heads]
  BY Zenon DEF Steps, Open, OpenActive, Stage, CheckRecord, AppendRecord, AppendOperational,
     AppendQualification, CommitDraft, Index, Project, Settle, Verify, Crash
<1>2. mixed => mixed'
  BY Zenon DEF Steps, Open, OpenActive, Mixes, Stage, CheckRecord, AppendRecord, AppendOperational,
     AppendQualification, CommitDraft, Index, Project, Settle, Verify, Crash
<1>3. operational' = operational \/ AppendOperational(p)
  BY Zenon DEF Steps, Open, OpenActive, Stage, CheckRecord, AppendRecord, AppendQualification,
     CommitDraft, Index, Project, Settle, Verify, Crash, journals
<1>4. active' = active \/ OpenActive(p) \/ Project(p)
  BY Zenon DEF Steps, Open, Stage, CheckRecord, AppendRecord, AppendOperational, AppendQualification,
     CommitDraft, Index, Settle, Verify, Crash, projections
<1>5. QED
  BY <1>1, <1>2, <1>3, <1>4

\* A process begins a call only where no other is in one, or calls are mixed.
LEMMA SoleStays ==
    ASSUME Placed, NEW p \in Operators, Steps(p), Alone(p), ~mixed => Sole, ~mixed'
    PROVE  Sole'
<1>1. CASE Open(p) \/ Stage(p)
  <2>1. \A q \in Operators \ {p} : ~Busy(q)
    BY Zenon, <1>1 DEF Open, Stage, Mixes
  <2>2. \A q \in Operators \ {p} : ~Busy(q)'
    BY <2>1 DEF Alone, Busy
  <2>3. QED
    BY <2>2 DEF Sole
<1>2. CASE ~(Open(p) \/ Stage(p))
  <2>1. Busy(p) /\ mixed' = mixed
    BY Zenon, <1>2 DEF Steps, OpenActive, CheckRecord, AppendRecord, AppendOperational,
       AppendQualification, CommitDraft, Index, Project, Settle, Verify, Crash, Writing, Busy
  <2>2. \A q \in Operators \ {p} : ~Busy(q)
    BY <2>1 DEF Sole
  <2>3. \A q \in Operators \ {p} : ~Busy(q)'
    BY <2>2 DEF Alone, Busy
  <2>4. QED
    BY <2>3 DEF Sole
<1>3. QED
  BY <1>1, <1>2

\* What a step must do that appends nothing to the journal.
Keeps(p) ==
    /\ RecordingAt(work'[p], CallOf(p)', view'[p], operational)
    /\ Planned(operational) =>
         \/ Current' \/ Posting(work'[p]) \/ Again(p)'
         \/ active' = active /\ ~Posting(work[p]) /\ ~Again(p)

LEMMA EfficiencyOn ==
    ASSUME MovesInv, EfficiencyInv, NEW p \in Operators, Steps(p), operational' = operational,
           ~mixed' => Keeps(p)
    PROVE  EfficiencyInv'
<1>1. /\ Alone(p) /\ Grows(climb', climb)
      /\ scenario' = scenario /\ \A q \in Operators \ {p} : results'[q] = results[q]
  BY LedgerGrows, CallsStay
<1>2. /\ DOMAIN view' = Operators /\ (mixed => mixed')
      /\ \A q \in Operators \ {p} : view'[q] = view[q]
  BY ViewsStay DEF EfficiencyInv
<1>3. ASSUME NEW q \in Operators, q # p
      PROVE  /\ work'[q] = work[q] /\ CallOf(q)' = CallOf(q) /\ view'[q] = view[q]
             /\ Posting(work[q]) => Posting(work'[q])
             /\ Again(q) => Again(q)'
  <2>1. work'[q] = work[q] /\ results'[q] = results[q] /\ view'[q] = view[q]
    BY <1>1, <1>2, <1>3 DEF Alone
  <2>2. CallOf(q)' = CallOf(q) /\ (Remaining(q) => Remaining(q)')
    BY <1>1, <2>1 DEF CallOf, Remaining
  <2>3. QED
    BY <2>1, <2>2 DEF Again
<1> SUFFICES ASSUME ~mixed'
             PROVE  /\ JournalReplays(operational')
                    /\ \A q \in Operators : Recording(q)'
                    /\ Planned(operational') => Founded(climb') /\ (Behind' \/ Current')
  <2>1. ~mixed' => Sole'
    BY <1>1, SoleStays DEF MovesInv, Settled, EfficiencyInv
  <2>2. QED
    BY <1>2, <2>1 DEF EfficiencyInv
<1>4. /\ JournalReplays(operational) /\ \A q \in Operators : Recording(q)
      /\ Planned(operational) => Founded(climb) /\ (Behind \/ Current)
  BY <1>2 DEF EfficiencyInv
<1>5. ASSUME NEW q \in Operators PROVE Recording(q)'
  <2>1. CASE q = p
    BY <2>1 DEF Keeps, Recording
  <2>2. CASE q # p
    <3>1. RecordingAt(work[q], CallOf(q), view[q], operational)
      BY <1>4 DEF Recording
    <3>2. RecordingAt(work'[q], CallOf(q)', view'[q], operational')
      BY <1>3, <2>2, <3>1
    <3>3. QED
      BY <3>2 DEF Recording
  <2>3. QED
    BY <2>1, <2>2
<1>6. ASSUME Planned(operational) PROVE Founded(climb') /\ (Behind' \/ Current')
  <2>1. Founded(climb') /\ (Behind \/ Current)
    BY <1>1, <1>4, <1>6, FoundedLater
  <2>2. Current' \/ Behind' \/ (active' = active /\ ~Posting(work[p]) /\ ~Again(p))
    BY <1>6 DEF Keeps, Behind
  <2>3. CASE active' = active /\ ~Posting(work[p]) /\ ~Again(p)
    <3>1. Behind => Behind'
      BY <1>3, <2>3 DEF Behind
    <3>2. Current => Current'
      <4>1. ActiveProjection(operational, Heads') = ActiveProjection(operational, Heads)
        BY HeadsSay, SameProjection
      <4>2. QED
        BY <2>3, <4>1 DEF Current
    <3>3. QED
      BY <2>1, <3>1, <3>2
  <2>4. QED
    BY <2>1, <2>2, <2>3
<1>7. QED
  BY <1>4, <1>5, <1>6

\* Nothing an event of the process is in is left behind.
LEMMA KeepsStill ==
    ASSUME NEW p \in Operators, active' = active, ~Posting(work[p]), ~Again(p),
           RecordingAt(work'[p], CallOf(p)', view'[p], operational)
    PROVE  Keeps(p)
BY DEF Keeps

LEMMA RecordsNothing ==
    ASSUME NEW w, NEW call, NEW heads, NEW log, w.phase # "open",
           ~Working(w) \/ \A e \in Range(w.todo) : ~IsEvent(e)
    PROVE  RecordingAt(w, call, heads, log)
BY DEF RecordingAt

\* A call that ends leaves nothing to be registered.
LEMMA RecordsNoMore ==
    ASSUME Placed, NEW p \in Operators, NEW outcome, End(p, outcome)
    PROVE  RecordingAt(work'[p], CallOf(p)', view'[p], operational)
<1>1. work'[p].phase \in {"closed", "ready"}
  BY EndAlone
<1>2. QED
  BY <1>1 DEF RecordingAt, Working

\* A ledger that has a plan has one, and the Experiment of it opens as long as its
\* operational journal replays.
LEMMA FoundedOpens ==
    MovesInv /\ Founded(climb) /\ JournalReplays(operational) => CanOpen
<1> SUFFICES ASSUME MovesInv, Founded(climb), JournalReplays(operational) PROVE CanOpen
  OBVIOUS
<1>1. GlobalOf(climb, drafts)
  BY DEF MovesInv
<1>2. /\ IsLog(climb) /\ KeysUnique(climb) /\ \A i \in DOMAIN climb : Keyed(climb[i])
      /\ (climb # << >> => Made(drafts)) /\ IsLog(drafts)
  BY <1>1 DEF GlobalOf, RecordHolds
<1>3. PICK i \in DOMAIN climb : climb[i].record.record = "experiment_plan"
  BY DEF Founded, Range
<1>4. Collection(Records(climb), "experiment_plan") = {climb[i].record}
  <2>1. ASSUME NEW record \in Collection(Records(climb), "experiment_plan")
        PROVE  record = climb[i].record
    <3>1. PICK j \in DOMAIN climb : climb[j].record = record
      BY <1>2, <2>1, RecordPlace
    <3>2. record.record = "experiment_plan"
      BY <1>2, <2>1, RecordPlace
    <3>3. climb[i].key = <<"experiment-plan">> /\ climb[j].key = <<"experiment-plan">>
      BY <1>2, <1>3, <3>1, <3>2 DEF Keyed
    <3>4. i = j
      BY <1>2, <3>3 DEF KeysUnique
    <3>5. QED
      BY <3>1, <3>4
  <2>2. climb[i].record \in Collection(Records(climb), "experiment_plan")
    <3>1. Range(Records(climb)) = {e.record : e \in Range(climb)}
      BY <1>2, RecordsAre
    <3>2. climb[i] \in Range(climb)
      BY DEF Range
    <3>3. Collection(Records(climb), "experiment_plan")
            = {r \in Range(Records(climb)) : r.record = "experiment_plan"}
      BY CollectionIs
    <3>4. QED
      BY <1>3, <3>1, <3>2, <3>3
  <2>3. QED
    BY <2>1, <2>2
<1>5. Cardinality(Collection(Records(climb), "experiment_plan")) = 1
  BY Zenon, <1>4, FS_Singleton
<1>6. drafts # << >>
  <2>1. climb # << >>
    BY <1>3
  <2>2. Len(drafts) >= 2
    BY <1>2, <2>1 DEF Made
  <2>3. Len(<< >>) = 0
    OBVIOUS
  <2>4. QED
    BY <2>2, <2>3
<1>7. QED
  BY <1>5, <1>6, ReplayDerives DEF CanOpen

LEMMA PlannedOpens ==
    ASSUME MovesInv, EfficiencyInv, ~mixed, Planned(operational)
    PROVE  CanOpen
BY FoundedOpens DEF EfficiencyInv

LEMMA OpensBack ==
    ASSUME MovesInv, EfficiencyInv, NEW p \in Operators, Open(p), ~mixed
    PROVE  Keeps(p)
<1>1. /\ Placed /\ DOMAIN view = Operators
      /\ work[p].phase \in {"closed", "ready"} /\ Remaining(p) /\ CallOf(p).op # "create"
      /\ active' = active /\ operational' = operational /\ scenario' = scenario
  BY DEF Open, journals, MovesInv, Settled, EfficiencyInv
<1>2. ~Posting(work[p])
  BY <1>1 DEF Posting, Landed
<1>3. CASE drafts # << >> /\ (HasRung(qualification) => Derivable(operational))
  <2>1. view' = [view EXCEPT ![p] = Heads] /\ Goto(p, "open") /\ results' = results
    BY <1>3 DEF Open
  <2>2. work'[p].phase = "open" /\ work'[p].interrupted = work[p].interrupted
    BY <1>1, <2>1, IdleFields DEF Goto, Placed
  <2>3. view'[p].operational = Len(operational)
    BY <1>1, <2>1, HeadsSay
  <2>4. RecordingAt(work'[p], CallOf(p)', view'[p], operational)
    BY <2>2, <2>3 DEF RecordingAt, Working
  <2>5. Again(p) => Again(p)'
    BY <1>1, <2>1, <2>2 DEF Again, Remaining, CallOf
  <2>6. QED
    BY <1>1, <1>2, <2>4, <2>5 DEF Keeps
<1>4. CASE ~(drafts # << >> /\ (HasRung(qualification) => Derivable(operational)))
  <2>1. End(p, "unopenable")
    BY <1>4 DEF Open
  <2>2. RecordingAt(work'[p], CallOf(p)', view'[p], operational)
    BY <1>1, <2>1, RecordsNoMore
  <2>3. ~Planned(operational)
    BY <1>4, PlannedOpens DEF CanOpen
  <2>4. QED
    BY <2>2, <2>3 DEF Keeps
<1>5. QED
  BY <1>3, <1>4

LEMMA OpensActiveBack ==
    ASSUME MovesInv, EfficiencyInv, NEW p \in Operators, OpenActive(p), ~mixed
    PROVE  Keeps(p)
<1>1. /\ Placed /\ RecordingAt(work[p], CallOf(p), view[p], operational)
      /\ work[p].phase = "open" /\ operational' = operational
  BY DEF OpenActive, journals, MovesInv, Settled, EfficiencyInv, Recording
<1>2. RecordingAt(work'[p], CallOf(p)', view'[p], operational)
  <2>1. Goto(p, "run") \/ End(p, "unopenable")
    BY DEF OpenActive
  <2>2. work'[p].phase \in {"run", "closed", "ready"}
    BY <1>1, <2>1, GotoAlone, EndAlone
  <2>3. QED
    BY <2>2 DEF RecordingAt, Working
<1>3. ASSUME Planned(operational) PROVE Current'
  <2>1. Derivable(operational)
    BY <1>3, PlannedOpens DEF CanOpen
  <2>2. active' = ActiveProjection(operational, view[p])
    BY <1>3, <2>1 DEF OpenActive, ActiveNow, Planned
  <2>3. view[p].operational = Len(operational)
    BY <1>1 DEF RecordingAt
  <2>4. ActiveProjection(operational, view[p]) = ActiveProjection(operational, Heads')
    BY <1>1, <2>3, HeadsSay, SameProjection
  <2>5. QED
    BY <1>1, <2>2, <2>4 DEF Current
<1>4. QED
  BY <1>2, <1>3 DEF Keeps

LEMMA StagesBack ==
    ASSUME MovesInv, EfficiencyInv, NEW p \in Operators, Stage(p), ~mixed
    PROVE  Keeps(p)
<1>1. /\ Placed /\ Remaining(p) /\ active' = active /\ CallOf(p)' = CallOf(p)
      /\ \/ work[p].phase \in {"run", "ready"}
         \/ work[p].phase = "closed" /\ CallOf(p).op = "create"
  BY Zenon DEF MovesInv, Settled, Stage, projections, CallOf
<1>2. ~Posting(work[p]) /\ ~Again(p)
  BY <1>1 DEF Posting, Landed, Again
<1>3. LocalOf(work[p], CallOf(p), climb, drafts) /\ IsCall(CallOf(p))
  BY <1>1, InCall
<1>4. PICK given, heads :
        LET stage == StageOf(CallOf(p), work[p].stage, work[p].task, given)
        IN work' = [work EXCEPT ![p].phase = "write", ![p].todo = stage.writes,
                                ![p].next = stage.next, ![p].task = stage.task,
                                ![p].seen = heads]
  BY Zenon DEF Stage
<1> DEFINE stage == StageOf(CallOf(p), work[p].stage, work[p].task, given)
           call == CallOf(p)
<1>5. work'[p].phase = "write" /\ work'[p].todo = stage.writes
  <2> HIDE DEF stage
  <2>1. work' = [work EXCEPT ![p].phase = "write", ![p].todo = stage.writes,
                             ![p].next = stage.next, ![p].task = stage.task,
                             ![p].seen = heads]
    BY <1>4 DEF stage
  <2>2. QED
    BY <1>1, <2>1, IdleFields DEF Placed
<1>6. ASSUME NEW e \in Range(stage.writes), IsEvent(e)
      PROVE  stage.writes = <<e>> /\ call.op # "create" /\ Allowed(operational, e)
  <2>1. CASE call.op \in EfficiencyOps
    <3>1. \/ stage.writes = << >>
          \/ \E x : stage.writes = <<x>> /\ IsEvent(x) /\ Allowed(operational, x)
      BY <1>3, <2>1, EfficiencyStage
    <3> HIDE DEF stage, call
    <3>2. Range(<< >>) = {} /\ \A x : Range(<<x>>) = {x}
      BY DEF Range
    <3>3. PICK x : stage.writes = <<x>> /\ IsEvent(x) /\ Allowed(operational, x)
      BY <1>6, <3>1, <3>2
    <3>4. e = x
      BY <1>6, <3>2, <3>3
    <3>5. QED
      BY <2>1, <3>3, <3>4 DEF EfficiencyOps
  <2>2. CASE call.op \notin EfficiencyOps
    <3>1. StageHolds(stage, call, work[p].stage, climb, drafts)
      <4>1. work[p].stage \in Nat \ {0}
        BY <1>3 DEF LocalOf
      <4>2. call.op = "propose" /\ work[p].stage >= 4 => work[p].task.key = call.key
        BY <1>1, <1>3 DEF LocalOf, Proposing
      <4>3. call.op = "apply" /\ work[p].stage # 1 /\ ReviewsOf(Records(climb), call) # {}
              => Committed(drafts, Target(climb, call))
        BY <1>1, <1>3 DEF LocalOf, Applying
      <4> HIDE DEF call
      <4>4. QED
        BY <1>3, <4>1, <4>2, <4>3, AnyStage DEF call
    <3> HIDE DEF stage, call
    <3>2. Eventless(stage.writes)
      BY <2>2, <3>1 DEF StageHolds
    <3>3. QED
      BY <1>6, <3>2 DEF Eventless, Range
  <2>3. QED
    BY <2>1, <2>2
<1> HIDE DEF stage
<1>7. RecordingAt(work'[p], CallOf(p)', view'[p], operational)
  BY <1>1, <1>5, <1>6 DEF RecordingAt
<1>8. QED
  BY <1>1, <1>2, <1>7, KeepsStill

\* Steps that neither touch the operational journal nor take an event out of the hands
\* of the process.
LEMMA Carries ==
    ASSUME MovesInv, EfficiencyInv, NEW p \in Operators, ~mixed,
           Working(work[p]), ~Landed(work[p]), active' = active, results' = results,
           scenario' = scenario, work'[p].todo = work[p].todo,
           work'[p].phase \notin {"write", "project", "open"}
    PROVE  Keeps(p)
<1>1. Recording(p)
  BY DEF EfficiencyInv
<1>2. CallOf(p)' = CallOf(p)
  BY DEF CallOf
<1>3. RecordingAt(work'[p], CallOf(p)', view'[p], operational)
  BY <1>1, <1>2 DEF Recording, RecordingAt
<1>4. ~Posting(work[p]) /\ ~Again(p)
  BY DEF Posting, Again, Working
<1>5. QED
  BY <1>3, <1>4, KeepsStill

\* Nor when the call ends before anything of it is to be projected.
LEMMA Ceases ==
    ASSUME MovesInv, NEW p \in Operators, Working(work[p]), ~Landed(work[p]), active' = active,
           NEW outcome, End(p, outcome)
    PROVE  Keeps(p)
<1>1. RecordingAt(work'[p], CallOf(p)', view'[p], operational)
  BY RecordsNoMore DEF MovesInv, Settled
<1>2. ~Posting(work[p]) /\ ~Again(p)
  BY DEF Posting, Again, Working
<1>3. QED
  BY <1>1, <1>2, KeepsStill

LEMMA AppendedCarries ==
    ASSUME MovesInv, EfficiencyInv, NEW p \in Operators, ~mixed, Working(work[p]), ~Landed(work[p]),
           active' = active, scenario' = scenario, NEW verdict, NEW grown, Appended(p, verdict, grown)
    PROVE  Keeps(p)
<1>1. CASE verdict \in {"append", "existing"}
  <2>1. /\ results' = results
        /\ \E n : work' = [work EXCEPT ![p].phase = "index", ![p].added = @ + n]
    BY <1>1 DEF Appended
  <2>2. work'[p].todo = work[p].todo /\ work'[p].phase = "index"
    BY <2>1, IdleFields DEF MovesInv, Settled, Placed
  <2>3. QED
    BY Zenon, <2>1, <2>2, Carries
<1>2. CASE verdict \notin {"append", "existing"}
  <2>1. End(p, "refused")
    BY <1>2 DEF Appended
  <2>2. QED
    BY <2>1, Ceases
<1>3. QED
  BY <1>1, <1>2

LEMMA ChecksBack ==
    ASSUME MovesInv, EfficiencyInv, NEW p \in Operators, CheckRecord(p), ~mixed
    PROVE  Keeps(p)
<1>1. /\ Working(work[p]) /\ ~Landed(work[p]) /\ active' = active /\ scenario' = scenario
  BY DEF CheckRecord, Writing, Working, Landed, projections
<1>2. CASE End(p, "refused")
  BY <1>1, <1>2, Ceases
<1>3. CASE ~End(p, "refused")
  <2>1. /\ results' = results
        /\ \E heads : work' = [work EXCEPT ![p].phase = "append", ![p].seen = heads]
    BY <1>3 DEF CheckRecord
  <2>2. work'[p].todo = work[p].todo /\ work'[p].phase = "append"
    BY <2>1, IdleFields DEF MovesInv, Settled, Placed
  <2>3. QED
    BY Zenon, <1>1, <2>1, <2>2, Carries
<1>4. QED
  BY <1>2, <1>3

LEMMA AppendsBack ==
    ASSUME MovesInv, EfficiencyInv, NEW p \in Operators, ~mixed,
           AppendRecord(p) \/ AppendQualification(p) \/ CommitDraft(p)
    PROVE  Keeps(p)
<1>1. /\ Working(work[p]) /\ ~Landed(work[p]) /\ active' = active /\ scenario' = scenario
      /\ \E verdict, grown : Appended(p, verdict, grown)
  BY Zenon DEF AppendRecord, AppendQualification, CommitDraft, Writing, Working, Landed, projections
<1>2. QED
  BY <1>1, AppendedCarries

\* What is left of one event is nothing.
LEMMA TailRecordsNothing ==
    ASSUME NEW w, NEW call, NEW heads, NEW log, RecordingAt(w, call, heads, log), Working(w),
           IsLog(w.todo), w.todo # << >>, NEW v, v.todo = Tail(w.todo), v.phase = "write",
           NEW later, NEW heads2, NEW call2
    PROVE  RecordingAt(v, call2, heads2, later)
<1> SUFFICES ASSUME NEW e \in Range(v.todo), IsEvent(e) PROVE FALSE
  BY DEF RecordingAt
<1> DEFINE todo == w.todo
<1>1. /\ DOMAIN Tail(todo) = 1..(Len(todo) - 1) /\ Len(todo) \in Nat /\ DOMAIN todo = 1..Len(todo)
      /\ \A i \in 1..(Len(todo) - 1) : Tail(todo)[i] = todo[i + 1]
  BY TailLog, LogFacts
<1> HIDE DEF todo
<1>2. \A i \in 1..(Len(todo) - 1) : i + 1 \in 1..Len(todo)
  BY <1>1
<1>3. PICK i \in 1..(Len(todo) - 1) : Tail(todo)[i] = e
  BY <1>1 DEF Range, todo
<1>4. e \in Range(w.todo)
  BY <1>1, <1>2, <1>3 DEF Range, todo
<1>5. todo = <<e>>
  BY <1>4 DEF RecordingAt, todo
<1>6. Len(todo) = 1
  BY <1>5
<1>7. QED
  BY <1>3, <1>6

\* What the process holds when its first write is not an event.
LEMMA HeadIsEvent ==
    ASSUME NEW w, NEW call, NEW heads, NEW log, RecordingAt(w, call, heads, log), Working(w),
           IsLog(w.todo), w.todo # << >>
    PROVE  /\ Head(w.todo) \in Range(w.todo)
           /\ Posting(w) => JournalOf(Head(w.todo)) = "operational"
<1>1. Head(w.todo) \in Range(w.todo)
  BY TailLog DEF Range
<1>2. ASSUME Posting(w) PROVE JournalOf(Head(w.todo)) = "operational"
  <2>1. PICK e \in Range(w.todo) : IsEvent(e)
    BY <1>2 DEF Posting
  <2>2. w.todo = <<e>>
    BY <2>1 DEF RecordingAt
  <2>3. Head(w.todo) = e
    BY <2>2
  <2>4. QED
    BY <2>1, <2>3, EventJournal
<1>3. QED
  BY <1>1, <1>2

LEMMA IndexesBack ==
    ASSUME MovesInv, EfficiencyInv, NEW p \in Operators, Index(p), ~mixed
    PROVE  Keeps(p)
<1> DEFINE head == Head(work[p].todo)
<1>1. /\ work[p].phase = "index" /\ Landed(work[p]) /\ Working(work[p]) /\ Busy(p)
      /\ active' = active /\ results' = results /\ scenario' = scenario
      /\ view' = [view EXCEPT ![p] = Heads] /\ operational' = operational /\ Placed
      /\ CallOf(p)' = CallOf(p)
  BY DEF Index, Landed, Working, Busy, projections, journals, MovesInv, Settled, CallOf
<1>2. Remaining(p)
  BY <1>1 DEF MovesInv
<1>3. IsLog(work[p].todo) /\ work[p].todo # << >>
  BY <1>1, <1>2, InCall DEF LocalOf
<1>4. RecordingAt(work[p], CallOf(p), view[p], operational) /\ DOMAIN view = Operators
  BY DEF EfficiencyInv, Recording
<1>5. CASE Projects(head)
  <2>1. Goto(p, "project")
    BY <1>5 DEF Index
  <2>2. work'[p].todo = work[p].todo /\ work'[p].phase = "project"
    BY <1>1, <2>1, IdleFields DEF Goto, Placed
  <2>3. view'[p].operational = Len(operational)
    BY <1>1, <1>4, HeadsSay
  <2>4. RecordingAt(work'[p], CallOf(p)', view'[p], operational)
    BY <1>1, <1>4, <2>2, <2>3 DEF RecordingAt
  <2>5. Posting(work[p]) => Posting(work'[p])
    BY <2>2 DEF Posting, Landed
  <2>6. ~Again(p)
    BY <1>1 DEF Again
  <2>7. QED
    BY <1>1, <2>4, <2>5, <2>6 DEF Keeps
<1>6. CASE ~Projects(head)
  <2>1. work' = [work EXCEPT ![p].phase = "write", ![p].todo = Tail(@)]
    BY <1>6 DEF Index
  <2>2. work'[p].todo = Tail(work[p].todo) /\ work'[p].phase = "write"
    BY <1>1, <2>1, IdleFields DEF Placed
  <2>3. RecordingAt(work'[p], CallOf(p)', view'[p], operational)
    BY <1>1, <1>3, <1>4, <2>2, TailRecordsNothing
  <2>4. ~Posting(work[p])
    BY <1>1, <1>3, <1>4, <1>6, HeadIsEvent DEF Projects
  <2>5. ~Again(p)
    BY <1>1 DEF Again
  <2>6. QED
    BY <1>1, <2>3, <2>4, <2>5, KeepsStill
<1>7. QED
  BY <1>5, <1>6

LEMMA ProjectsBack ==
    ASSUME MovesInv, EfficiencyInv, NEW p \in Operators, Project(p), ~mixed
    PROVE  Keeps(p)
<1> DEFINE head == Head(work[p].todo)
<1>1. /\ work[p].phase = "project" /\ Landed(work[p]) /\ Working(work[p]) /\ Busy(p)
      /\ operational' = operational /\ Placed
  BY DEF Project, Landed, Working, Busy, journals, MovesInv, Settled
<1>2. Remaining(p)
  BY <1>1 DEF MovesInv
<1>3. IsLog(work[p].todo) /\ work[p].todo # << >>
  BY <1>1, <1>2, InCall DEF LocalOf
<1>4. RecordingAt(work[p], CallOf(p), view[p], operational) /\ Derivable(operational)
  BY ReplayDerives DEF EfficiencyInv, Recording
<1>5. /\ active' = IF JournalOf(head) = "operational" THEN ActiveProjection(operational, view[p])
                   ELSE active
      /\ work' = [work EXCEPT ![p].phase = "write", ![p].todo = Tail(@)]
  BY <1>4 DEF Project
<1>6. work'[p].todo = Tail(work[p].todo) /\ work'[p].phase = "write"
  BY <1>1, <1>5, IdleFields DEF Placed
<1>7. RecordingAt(work'[p], CallOf(p)', view'[p], operational)
  BY <1>1, <1>3, <1>4, <1>6, TailRecordsNothing
<1>8. head \in Range(work[p].todo) /\ (Posting(work[p]) => JournalOf(head) = "operational")
  BY <1>1, <1>3, <1>4, HeadIsEvent
<1> HIDE DEF head
<1>9. CASE JournalOf(head) = "operational"
  <2>1. view[p].operational = Len(operational)
    BY <1>1, <1>4, <1>8, <1>9, EventJournal DEF RecordingAt
  <2>2. ActiveProjection(operational, view[p]) = ActiveProjection(operational, Heads')
    BY <1>1, <2>1, HeadsSay, SameProjection
  <2>3. Current'
    BY <1>1, <1>5, <1>9, <2>2 DEF Current
  <2>4. QED
    BY <1>7, <2>3 DEF Keeps
<1>10. CASE JournalOf(head) # "operational"
  <2>1. active' = active /\ ~Posting(work[p]) /\ ~Again(p)
    BY <1>1, <1>5, <1>8, <1>10 DEF Again
  <2>2. QED
    BY <1>7, <2>1, KeepsStill
<1>11. QED
  BY <1>9, <1>10

LEMMA SettlesBack ==
    ASSUME MovesInv, EfficiencyInv, NEW p \in Operators, Settle(p), ~mixed
    PROVE  Keeps(p)
<1>1. /\ Working(work[p]) /\ ~Landed(work[p]) /\ active' = active /\ scenario' = scenario
      /\ work[p].todo = << >> /\ Placed
      /\ \/ work' = [work EXCEPT ![p].phase = "run", ![p].stage = @ + 1]
         \/ Goto(p, "verify") \/ End(p, work[p].next)
  BY DEF Settle, Working, Landed, projections, MovesInv, Settled
<1>2. CASE End(p, work[p].next)
  BY <1>1, <1>2, Ceases
<1>3. CASE ~End(p, work[p].next)
  <2>1. work'[p].todo = << >> /\ work'[p].phase \in {"run", "verify"}
    BY <1>1, <1>3, IdleFields DEF Goto, Placed
  <2>2. Range(<< >>) = {}
    BY DEF Range
  <2>3. RecordingAt(work'[p], CallOf(p)', view'[p], operational)
    BY <2>1, <2>2, RecordsNothing
  <2>4. ~Posting(work[p]) /\ ~Again(p)
    BY <1>1 DEF Posting, Again, Working
  <2>5. QED
    BY <1>1, <2>3, <2>4, KeepsStill
<1>4. QED
  BY <1>2, <1>3

LEMMA VerifiesBack ==
    ASSUME MovesInv, EfficiencyInv, NEW p \in Operators, Verify(p), ~mixed
    PROVE  Keeps(p)
<1>1. /\ Working(work[p]) /\ ~Landed(work[p]) /\ active' = active
      /\ \E outcome : End(p, outcome)
  BY DEF Verify, Working, Landed, projections
<1>2. QED
  BY <1>1, Ceases

LEMMA CrashesBack ==
    ASSUME MovesInv, EfficiencyInv, NEW p \in Operators, Crash(p), ~mixed
    PROVE  Keeps(p)
<1>1. /\ Busy(p) /\ active' = active /\ results' = results /\ scenario' = scenario /\ Placed
      /\ CallOf(p)' = CallOf(p)
  BY DEF Crash, projections, MovesInv, Settled, CallOf
<1>2. Remaining(p) /\ Remaining(p)'
  BY <1>1 DEF MovesInv, Remaining
<1>3. work'[p].phase = "closed" /\ work'[p].interrupted
  <2>1. PICK n : work'[p] = [Idle EXCEPT !.added = n, !.interrupted = TRUE]
    BY Zenon, <1>1 DEF Crash, Placed
  <2>2. QED
    BY <2>1 DEF Idle
<1>4. RecordingAt(work'[p], CallOf(p)', view'[p], operational)
  BY <1>3 DEF RecordingAt, Working
<1>5. Again(p) => Again(p)'
  BY <1>1, <1>2, <1>3 DEF Again
<1>6. Posting(work[p]) => Again(p)'
  <2>1. ASSUME Posting(work[p]) PROVE CallOf(p).op # "create"
    <3>1. PICK e \in Range(work[p].todo) : IsEvent(e)
      BY <2>1 DEF Posting
    <3>2. Working(work[p]) /\ Recording(p)
      BY <2>1 DEF Posting, Landed, Working, EfficiencyInv
    <3>3. QED
      BY <3>1, <3>2 DEF Recording, RecordingAt
  <2>2. QED
    BY <1>1, <1>2, <1>3, <2>1 DEF Again
<1>7. QED
  BY <1>1, <1>4, <1>5, <1>6 DEF Keeps

\* The event is appended that the journal allowed when it was read; no other process has
\* been in a call since.
LEMMA OperationalBack ==
    ASSUME MovesInv, FreshInv, FoundedInv, EfficiencyInv, NEW p \in Operators, AppendOperational(p)
    PROVE  EfficiencyInv'
<1> DEFINE write == Head(work[p].todo)
           verdict == Verdict(operational, write, Unset)
<1>1. /\ work[p].phase = "write" /\ work[p].todo # << >> /\ JournalOf(write) = "operational"
      /\ operational' = IF verdict = "append" THEN Append(operational, write) ELSE operational
      /\ \E grown : Appended(p, verdict, grown)
      /\ active' = active /\ scenario' = scenario /\ climb' = climb
  BY DEF AppendOperational, Writing, projections
<1>2. Working(work[p]) /\ ~Landed(work[p]) /\ Busy(p) /\ Steps(p) /\ Placed
  BY <1>1 DEF Working, Landed, Busy, Steps, MovesInv, Settled
<1>3. Remaining(p)
  BY <1>2 DEF MovesInv
<1>4. IsLog(work[p].todo)
  BY <1>2, <1>3, InCall DEF LocalOf
<1>5. DOMAIN view' = Operators /\ (mixed => mixed') /\ DOMAIN view = Operators
  BY <1>2, ViewsStay DEF EfficiencyInv
<1>6. CASE verdict # "append"
  <2>1. ~mixed' => Keeps(p)
    BY <1>1, <1>2, <1>5, AppendedCarries
  <2>2. QED
    BY <1>1, <1>2, <1>6, <2>1, EfficiencyOn
<1>7. CASE verdict = "append"
  <2> SUFFICES ASSUME ~mixed'
               PROVE  /\ JournalReplays(operational')
                      /\ \A q \in Operators : Recording(q)'
                      /\ Founded(climb') /\ Behind'
    <3>1. ~mixed' => Sole'
      BY <1>2, LedgerGrows, SoleStays DEF EfficiencyInv
    <3>2. QED
      BY <1>5, <3>1 DEF EfficiencyInv
  <2>1. /\ ~mixed /\ JournalReplays(operational) /\ Sole
        /\ RecordingAt(work[p], CallOf(p), view[p], operational)
    BY <1>5 DEF EfficiencyInv, Recording
  <2>2. write \in Range(work[p].todo) /\ IsEvent(write)
    BY <1>1, <1>2, <1>4, <2>1, HeadIsEvent, EventJournal
  <2>3. work[p].todo = <<write>> /\ CallOf(p).op # "create" /\ Allowed(operational, write)
    BY <1>1, <1>2, <2>1, <2>2 DEF RecordingAt
  <2>4. JournalReplays(operational')
    <3>1. IsLog(operational) /\ KeysUnique(operational)
      BY <2>1 DEF JournalReplays
    <3> HIDE DEF write
    <3>2. ~HasKey(operational, write.key)
      BY <1>7, <3>1, VerdictMeans
    <3>3. QED
      BY <1>1, <1>7, <2>1, <2>3, <3>2, ReplaysOn
  <2>5. /\ results' = results
        /\ \E n : work' = [work EXCEPT ![p].phase = "index", ![p].added = @ + n]
    BY <1>1, <1>7 DEF Appended
  <2>6. work'[p].todo = work[p].todo /\ work'[p].phase = "index"
    BY <1>2, <2>5, IdleFields DEF Placed
  <2>7. CallOf(p)' = CallOf(p) /\ Founded(climb')
    <3>1. Founded(climb)
      BY <1>2, <2>3 DEF FoundedInv, FoundedAt
    <3>2. QED
      BY <1>1, <2>5, <3>1 DEF CallOf
  <2>8. Behind'
    BY <2>2, <2>6 DEF Behind, Posting, Landed
  <2>9. ASSUME NEW q \in Operators PROVE Recording(q)'
    <3>1. CASE q = p
      <4>1. \A e \in Range(work[p].todo) : IsEvent(e) => work[p].todo = <<e>> /\ CallOf(p).op # "create"
        BY <1>2, <2>1 DEF RecordingAt
      <4>2. QED
        BY <2>6, <2>7, <3>1, <4>1 DEF Recording, RecordingAt
    <3>2. CASE q # p
      <4>1. ~Working(work[q]) /\ work[q].phase # "open"
        BY <1>2, <2>1, <3>2 DEF Sole, Busy, Working
      <4>2. work'[q] = work[q]
        BY <1>2, <3>2, LedgerGrows DEF Alone
      <4>3. QED
        BY <4>1, <4>2 DEF Recording, RecordingAt
    <3>3. QED
      BY <3>1, <3>2
  <2>10. QED
    BY <2>4, <2>7, <2>8, <2>9
<1>8. QED
  BY <1>6, <1>7

LEMMA EfficiencyInit == Init => EfficiencyInv
<1> SUFFICES ASSUME Init PROVE EfficiencyInv
  OBVIOUS
<1>1. /\ operational = << >> /\ DOMAIN view = Operators
      /\ \A p \in Operators : work[p].phase = "closed" /\ ~Busy(p)
  BY DEF Init, Idle, Busy
<1>2. JournalReplays(operational) /\ Sole
  BY <1>1, EmptyReplays DEF Sole
<1>3. \A p \in Operators : Recording(p)
  BY <1>1 DEF Recording, RecordingAt, Working
<1>4. ~Planned(operational)
  BY <1>1 DEF Planned, EventsOf, ToSet
<1>5. QED
  BY <1>1, <1>2, <1>3, <1>4 DEF EfficiencyInv

LEMMA EfficiencyNext ==
    MovesInv /\ FreshInv /\ FoundedInv /\ EfficiencyInv /\ [Next]_vars => EfficiencyInv'
<1> SUFFICES ASSUME MovesInv, FreshInv, FoundedInv, EfficiencyInv, [Next]_vars PROVE EfficiencyInv'
  OBVIOUS
<1>1. CASE UNCHANGED vars
  <2>1. /\ climb' = climb /\ operational' = operational /\ qualification' = qualification
        /\ drafts' = drafts /\ active' = active /\ view' = view /\ work' = work
        /\ scenario' = scenario /\ results' = results /\ mixed' = mixed
    BY <1>1 DEF vars
  <2>2. Heads' = Heads
    BY <2>1 DEF Heads
  <2>3. \A p \in Operators : CallOf(p)' = CallOf(p) /\ Remaining(p)' = Remaining(p)
    BY <2>1 DEF CallOf, Remaining
  <2>4. /\ \A p \in Operators : Recording(p)' = Recording(p) /\ Again(p)' = Again(p)
        /\ Sole' = Sole
    BY <2>1, <2>3 DEF Recording, Again, Sole, Busy
  <2>5. Behind' = Behind /\ Current' = Current
    BY <2>1, <2>2, <2>4 DEF Behind, Current
  <2>6. QED
    BY <2>1, <2>4, <2>5 DEF EfficiencyInv
<1>2. CASE Next
  <2>1. PICK p \in Operators : Steps(p)
    BY <1>2 DEF Next, Steps
  <2>2. CASE AppendOperational(p)
    BY <2>2, OperationalBack
  <2>3. CASE ~AppendOperational(p)
    <3>1. operational' = operational /\ (mixed => mixed')
      BY <2>1, <2>3, ViewsStay DEF EfficiencyInv
    <3>2. ASSUME ~mixed PROVE Keeps(p)
      BY <2>1, <2>3, <3>2, OpensBack, OpensActiveBack, StagesBack, ChecksBack, AppendsBack, IndexesBack, ProjectsBack,
         SettlesBack, VerifiesBack, CrashesBack DEF Steps
    <3>3. QED
      BY <2>1, <3>1, <3>2, EfficiencyOn
  <2>4. QED
    BY <2>2, <2>3
<1>3. QED
  BY <1>1, <1>2

\* As long as no two calls have been in flight at once, every observation in the operational
\* journal carries the state that the observations before it lead to and every boundary was
\* allowed by those before it; and whenever no call is in flight and none that died is to be
\* repeated, active-experiment.json says what the journal says, wherever processes have died.
THEOREM QualificationAlwaysReplays == Spec => []QualificationReplays
<1>1. EfficiencyInv => QualificationReplays
  <2> SUFFICES ASSUME EfficiencyInv, ~mixed
               PROVE  /\ EfficiencyEventsVerify(operational)
                      /\ /\ \A p \in Operators : ~Busy(p) /\ ~work[p].interrupted
                         /\ EventsOf(operational, "plan_recorded") # {}
                         => active = ActiveProjection(operational, Heads)
    BY DEF QualificationReplays
  <2>1. EfficiencyEventsVerify(operational)
    BY DEF EfficiencyInv, JournalReplays
  <2>2. ASSUME \A p \in Operators : ~Busy(p) /\ ~work[p].interrupted,
               EventsOf(operational, "plan_recorded") # {}
        PROVE  Current
    <3>1. Behind \/ Current
      BY <2>2 DEF EfficiencyInv, Planned
    <3>2. \A p \in Operators : ~Posting(work[p]) /\ ~Again(p)
      BY <2>2 DEF Posting, Landed, Busy, Again
    <3>3. QED
      BY <3>1, <3>2 DEF Behind
  <2>3. QED
    BY <2>1, <2>2 DEF Current
<1>2. QED
  BY <1>1, MovesInit, MovesNext, FreshNext, FoundedInit, FoundedNext, FreshInit,
     EfficiencyInit, EfficiencyNext, PTL DEF Spec
=============================================================================
