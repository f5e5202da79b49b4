---------------------------- MODULE ArenaProofs ----------------------------
(* What Session Authority guarantees for every game, every cast, every set of *)
(* requests and any number of Sessions and forks; then what an episode on it  *)
(* guarantees for any cast, policies and budget: its archive verifies at every *)
(* step, and a resolution was earned.                                          *)
EXTENDS Arena, LogLemmas, FiniteSetTheorems

-----------------------------------------------------------------------------
(* Logs: what holds of the events of a Session, and of every prefix *)

PhasesRise(log) == \A i, j \in DOMAIN log : i <= j => log[i].phase <= log[j].phase

GrantsRevealed(log) ==
    \A i \in DOMAIN log : \A grant \in log[i].grants : Revealed(log[i].phase, grant)

\* An event by an actor follows a log in which the actor has the seat.
SeatedBy(before, event) ==
    event.by.kind = "actor" =>
        \E seat \in Seats :
            /\ BindingOf(before, seat).id = event.by.binding
            /\ BindingOf(before, seat).actor = event.by.principal
            /\ event.seat \in {seat, None}

ActorsSeated(log) == \A i \in DOMAIN log : SeatedBy(SubSeq(log, 1, i - 1), log[i])

\* A resolution follows the submission it names.
Resolves(before, event) ==
    LET n == event.submission
    IN event.type = "resolution-recorded" =>
        /\ n \in DOMAIN before
        /\ before[n].type = "resolution-submitted" /\ before[n].phase >= ResolutionPhase
        /\ event.item = "correct" <=> before[n].item \in Correct

SubmitsInPhase(event) ==
    event.type = "resolution-submitted" => event.phase >= ResolutionPhase

AfterTheEnd == {"actor-replaced", "private-note-added"}

Unresolved(log) == \A i \in DOMAIN log : log[i].type # "resolution-recorded"

Resolutions(log) ==
    /\ \A i \in DOMAIN log : SubmitsInPhase(log[i])
    /\ \A i \in DOMAIN log : log[i].type = "resolution-recorded" =>
         LET n == log[i].submission
         IN /\ n \in 1..(i - 1)
            /\ log[n].type = "resolution-submitted" /\ log[n].phase >= ResolutionPhase
            /\ log[i].item = "correct" <=> log[n].item \in Correct
            /\ \A j \in DOMAIN log : j > i => log[j].type \in AfterTheEnd

GoodLog(log) ==
    /\ PhasesRise(log)
    /\ GrantsRevealed(log)
    /\ ActorsSeated(log)
    /\ Resolutions(log)

\* What apply_command makes sure of before it appends an event.
Fits(log, event) ==
    /\ PhaseOf(log) <= event.phase
    /\ \A grant \in event.grants : Revealed(event.phase, grant)
    /\ SeatedBy(log, event)
    /\ SubmitsInPhase(event)
    /\ Resolves(log, event)
    /\ event.type \in AfterTheEnd \/ Unresolved(log)

Human(event) == \A seat \in DOMAIN event.bindings : event.bindings[seat].actor \in Humans
HumanLog(log) == \A i \in DOMAIN log : Human(log[i])

\* The prefix of a prefix.
LEMMA PrefixOfPrefix ==
    ASSUME NEW log \in Seq(SessionEvent), NEW n \in 0..Len(log), NEW k \in 0..n
    PROVE  SubSeq(SubSeq(log, 1, n), 1, k) = SubSeq(log, 1, k)
<1>1. /\ SubSeq(log, 1, n) \in Seq(SessionEvent)
      /\ Len(SubSeq(log, 1, n)) = n
      /\ \A i \in 1..n : SubSeq(log, 1, n)[i] = log[i]
  BY SubSeqProperties
<1>2. /\ SubSeq(SubSeq(log, 1, n), 1, k) \in Seq(SessionEvent)
      /\ Len(SubSeq(SubSeq(log, 1, n), 1, k)) = k
      /\ \A i \in 1..k : SubSeq(SubSeq(log, 1, n), 1, k)[i] = SubSeq(log, 1, n)[i]
  BY <1>1, SubSeqProperties
<1>3. /\ SubSeq(log, 1, k) \in Seq(SessionEvent)
      /\ Len(SubSeq(log, 1, k)) = k
      /\ \A i \in 1..k : SubSeq(log, 1, k)[i] = log[i]
  BY SubSeqProperties
<1>4. QED
  BY <1>1, <1>2, <1>3, SeqEqual

\* The prefix of an extended log.
LEMMA PrefixOfExtension ==
    ASSUME NEW log \in Seq(SessionEvent), NEW event \in SessionEvent, NEW k \in 0..Len(log)
    PROVE  SubSeq(Append(log, event), 1, k) = SubSeq(log, 1, k)
<1>1. /\ Append(log, event) \in Seq(SessionEvent)
      /\ Len(Append(log, event)) = Len(log) + 1
      /\ \A i \in 1..Len(log) : Append(log, event)[i] = log[i]
  BY AppendProperties
<1>2. /\ SubSeq(Append(log, event), 1, k) \in Seq(SessionEvent)
      /\ Len(SubSeq(Append(log, event), 1, k)) = k
      /\ \A i \in 1..k : SubSeq(Append(log, event), 1, k)[i] = Append(log, event)[i]
  BY <1>1, SubSeqProperties
<1>3. /\ SubSeq(log, 1, k) \in Seq(SessionEvent)
      /\ Len(SubSeq(log, 1, k)) = k
      /\ \A i \in 1..k : SubSeq(log, 1, k)[i] = log[i]
  BY SubSeqProperties
<1>4. QED
  BY <1>1, <1>2, <1>3, SeqEqual

LEMMA WholePrefix ==
    ASSUME NEW log \in Seq(SessionEvent)
    PROVE  SubSeq(log, 1, Len(log)) = log
<1>1. /\ SubSeq(log, 1, Len(log)) \in Seq(SessionEvent)
      /\ Len(SubSeq(log, 1, Len(log))) = Len(log)
      /\ \A i \in 1..Len(log) : SubSeq(log, 1, Len(log))[i] = log[i]
  BY SubSeqProperties
<1>2. QED
  BY <1>1, SeqEqual

\* A fork starts from a good log.
LEMMA PrefixIsGood ==
    ASSUME NEW log \in Seq(SessionEvent), NEW at \in 1..Len(log), GoodLog(log)
    PROVE  /\ SubSeq(log, 1, at) \in Seq(SessionEvent)
           /\ Len(SubSeq(log, 1, at)) = at
           /\ GoodLog(SubSeq(log, 1, at))
<1> DEFINE cut == SubSeq(log, 1, at)
<1>1. /\ cut \in Seq(SessionEvent) /\ Len(cut) = at /\ DOMAIN cut = 1..at
      /\ \A i \in 1..at : cut[i] = log[i]
      /\ DOMAIN log = 1..Len(log)
  BY SubSeqProperties
<1>2. PhasesRise(cut) /\ GrantsRevealed(cut)
  BY <1>1 DEF GoodLog, PhasesRise, GrantsRevealed
<1>3. ActorsSeated(cut)
  <2>1. SUFFICES ASSUME NEW i \in 1..at PROVE SeatedBy(SubSeq(cut, 1, i - 1), cut[i])
    BY <1>1 DEF ActorsSeated
  <2>2. SubSeq(cut, 1, i - 1) = SubSeq(log, 1, i - 1)
    BY PrefixOfPrefix
  <2>3. SeatedBy(SubSeq(log, 1, i - 1), log[i])
    BY <1>1 DEF GoodLog, ActorsSeated
  <2>4. QED
    BY <1>1, <2>2, <2>3
<1>4. Resolutions(cut)
  BY <1>1 DEF GoodLog, Resolutions, SubmitsInPhase
<1>5. QED
  BY <1>1, <1>2, <1>3, <1>4 DEF GoodLog

\* An event that fits keeps the log good.
LEMMA ExtensionIsGood ==
    ASSUME NEW log \in Seq(SessionEvent), log # << >>, GoodLog(log),
           NEW event \in SessionEvent, Fits(log, event)
    PROVE  GoodLog(Append(log, event))
<1> DEFINE longer == Append(log, event)
<1>1. /\ longer \in Seq(SessionEvent) /\ Len(longer) = Len(log) + 1
      /\ DOMAIN longer = 1..(Len(log) + 1) /\ DOMAIN log = 1..Len(log)
      /\ \A i \in 1..Len(log) : longer[i] = log[i]
      /\ longer[Len(log) + 1] = event
      /\ Len(log) \in Nat \ {0}
  BY AppendProperties, EmptySeq
<1>2. PhasesRise(longer)
  <2>1. \A i \in 1..Len(log) : log[i].phase \in Int /\ log[i].phase <= log[Len(log)].phase
    <3>1. \A i \in 1..Len(log) : log[i] \in SessionEvent
      BY ElementOfSeq
    <3>2. \A i \in 1..Len(log) : log[i].phase \in Int
      BY <3>1, PhasesAssumption DEF SessionEvent
    <3>3. \A i \in 1..Len(log) : i <= Len(log) /\ Len(log) \in DOMAIN log
      BY <1>1
    <3>4. QED
      BY <1>1, <3>2, <3>3 DEF GoodLog, PhasesRise
  <2>2. log[Len(log)].phase <= event.phase /\ event.phase \in Int
    BY PhasesAssumption DEF Fits, PhaseOf, SessionEvent
  <2>3. QED
    BY <1>1, <2>1, <2>2 DEF GoodLog, PhasesRise
<1>3. GrantsRevealed(longer)
  BY <1>1 DEF GoodLog, GrantsRevealed, Fits
<1>4. ActorsSeated(longer)
  <2>1. SUFFICES ASSUME NEW i \in 1..(Len(log) + 1) PROVE SeatedBy(SubSeq(longer, 1, i - 1), longer[i])
    BY <1>1 DEF ActorsSeated
  <2>2. SubSeq(longer, 1, i - 1) = SubSeq(log, 1, i - 1)
    <3>1. i - 1 \in 0..Len(log)
      BY <1>1
    <3>2. QED
      BY <3>1, PrefixOfExtension
  <2>3. CASE i <= Len(log)
    <3>1. i \in DOMAIN log /\ longer[i] = log[i]
      BY <1>1, <2>3
    <3>2. SeatedBy(SubSeq(log, 1, i - 1), log[i])
      BY <3>1 DEF GoodLog, ActorsSeated
    <3>3. QED
      BY <2>2, <3>1, <3>2
  <2>4. CASE i = Len(log) + 1
    <3>1. i - 1 = Len(log) /\ longer[i] = event
      BY <1>1, <2>4
    <3>2. SubSeq(longer, 1, i - 1) = log
      BY <2>2, <3>1, WholePrefix
    <3>3. SeatedBy(log, event)
      BY DEF Fits
    <3>4. QED
      BY <3>1, <3>2, <3>3
  <2>5. QED
    BY <2>3, <2>4
<1>5. Resolutions(longer)
  <2>1. \A i \in 1..(Len(log) + 1) : SubmitsInPhase(longer[i])
    BY <1>1 DEF GoodLog, Resolutions, Fits
  <2>2. ASSUME NEW i \in 1..Len(log), log[i].type = "resolution-recorded"
        PROVE  event.type \in AfterTheEnd
    BY <1>1, <2>2 DEF Fits, Unresolved
  <2>3. ASSUME NEW i \in 1..Len(log), log[i].type = "resolution-recorded"
        PROVE  LET n == longer[i].submission
               IN /\ n \in 1..(i - 1)
                  /\ longer[n].type = "resolution-submitted" /\ longer[n].phase >= ResolutionPhase
                  /\ longer[i].item = "correct" <=> longer[n].item \in Correct
                  /\ \A j \in 1..(Len(log) + 1) : j > i => longer[j].type \in AfterTheEnd
    BY <1>1, <2>2, <2>3 DEF GoodLog, Resolutions
  <2>4. ASSUME event.type = "resolution-recorded"
        PROVE  LET n == event.submission
               IN /\ n \in 1..Len(log)
                  /\ longer[n].type = "resolution-submitted" /\ longer[n].phase >= ResolutionPhase
                  /\ event.item = "correct" <=> longer[n].item \in Correct
    BY <1>1, <2>4 DEF Fits, Resolves
  <2>5. QED
    BY <1>1, <2>1, <2>3, <2>4 DEF Resolutions
<1>6. QED
  BY <1>2, <1>3, <1>4, <1>5 DEF GoodLog

-----------------------------------------------------------------------------
(* The inductive invariant *)

Sizes ==
    \A s \in SessionIds :
        /\ Len(histories[s]) <= MaxSequence
        /\ prefix[s] <= Len(histories[s])
        /\ histories[s] = << >> => receipts[s] = {}

ReceiptsHold ==
    \A s \in SessionIds : \A r \in receipts[s] :
        r.sequence # 0 =>
            /\ r.sequence \in 1..Len(histories[s])
            /\ r.sequence = r.request.expected + 1
            /\ histories[s][r.sequence].command = r.request.id
            /\ histories[s][r.sequence].by = r.request.by

SessionInv ==
    /\ TypeOK
    /\ Sizes
    /\ ReceiptsHold
    /\ \A s \in SessionIds : GoodLog(histories[s])
    /\ \A s \in SessionIds : mode[s] = "live" => HumanLog(histories[s])

\* What apply_command does to an accepted and to a rejected Command.
Proper(s, c, event) ==
    /\ event \in SessionEvent
    /\ Fits(histories[s], event)
    /\ mode[s] = "live" => Human(event)
    /\ event.command = c.id /\ event.by = c.by

New(s, c) == \A r \in receipts[s] : r.request # c

Took(s, c) ==
    /\ New(s, c) /\ Current(s, c)
    /\ \E event : Proper(s, c, event) /\ Accept(s, c, event)
    /\ UNCHANGED <<prefix, mode>>

Refused(s, c) ==
    /\ New(s, c)
    /\ Refuse(s, c)
    /\ UNCHANGED <<prefix, mode>>

LEMMA EventType ==
    ASSUME NEW c \in Request, NEW type \in EventTypes, NEW phase \in Phases,
           NEW seat \in {None} \cup Seats, NEW item \in {None} \cup Items,
           NEW n \in Nat, NEW grants \in SUBSET Grant,
           NEW bindings, \E seats \in SUBSET Seats : bindings \in [seats -> Binding]
    PROVE  Event(c.id, c.by, type, phase, seat, item, n, grants, bindings) \in SessionEvent
<1>1. bindings \in UNION {[seats -> Binding] : seats \in SUBSET Seats}
  OBVIOUS
<1>2. c.id \in STRING /\ c.by \in Authorities
  BY DEF Request
<1>3. QED
  BY <1>1, <1>2 DEF Event, SessionEvent

LEMMA NoBindingsType == \E seats \in SUBSET Seats : NoBindings \in [seats -> Binding]
<1>1. NoBindings \in [{} -> Binding]
  BY DEF NoBindings
<1>2. QED
  BY <1>1

\* Only what a Reveal names can be granted.
LEMMA RevealedIsGrant ==
    ASSUME NEW grant, NEW phase, Revealed(phase, grant),
           \E x, y : grant = [seat |-> x, resource |-> y]
    PROVE  grant \in Grant
BY RevealsAssumption DEF Revealed, Grant

LEMMA Earliest ==
    /\ Min(Phases) \in Phases
    /\ \A phase \in Phases : Min(Phases) <= phase
BY PhasesAssumption DEF Min

LEMMA RevealedLater ==
    ASSUME NEW grant, NEW early \in Phases, NEW late \in Phases, early <= late,
           Revealed(early, grant)
    PROVE  Revealed(late, grant)
<1>1. PICK reveal \in Reveals : /\ reveal.phase <= early
                               /\ reveal.seat = grant.seat /\ reveal.resource = grant.resource
  BY DEF Revealed
<1>2. reveal.phase \in Int /\ early \in Int /\ late \in Int
  BY PhasesAssumption, RevealsAssumption
<1>3. reveal.phase <= late
  BY <1>1, <1>2
<1>4. QED
  BY <1>1, <1>3 DEF Revealed

-----------------------------------------------------------------------------
(* apply_command: every action appends an event that fits, or refuses *)

\* A Session that exists, and a Command it has not answered yet.
Pending(s, c) ==
    /\ SessionInv
    /\ s \in SessionIds /\ histories[s] # << >>
    /\ c \in Request
    /\ c.action = "replace-actor" => c.args.binding \in Binding

LEMMA PendingFacts ==
    ASSUME NEW s, NEW c, Pending(s, c)
    PROVE  /\ histories[s] \in Seq(SessionEvent)
           /\ Len(histories[s]) \in Nat \ {0}
           /\ DOMAIN histories[s] = 1..Len(histories[s])
           /\ \A i \in DOMAIN histories[s] : histories[s][i] \in SessionEvent
           /\ Phase(s) \in Phases /\ Phase(s) \in Int
           /\ c.id \in STRING /\ c.by \in Authorities /\ c.args \in Args
           /\ GoodLog(histories[s])
<1>1. /\ histories[s] \in Seq(SessionEvent)
      /\ Len(histories[s]) \in Nat \ {0}
      /\ DOMAIN histories[s] = 1..Len(histories[s])
  BY EmptySeq DEF Pending, SessionInv, TypeOK
<1>2. \A i \in DOMAIN histories[s] : histories[s][i] \in SessionEvent
  BY <1>1, ElementOfSeq
<1>3. Phase(s) \in Phases
  BY <1>1, <1>2 DEF Phase, PhaseOf, SessionEvent
<1>4. QED
  BY <1>1, <1>2, <1>3, PhasesAssumption DEF Pending, SessionInv, Request

LEMMA StatusFacts ==
    ASSUME NEW s, Status(s) \in {"created", "active"}
    PROVE  Unresolved(histories[s])
BY DEF Status, StatusOf, Unresolved

LEMMA HostFacts ==
    ASSUME NEW c, ByHost(c)
    PROVE  c.by.kind # "actor"
BY DEF ByHost

LEMMA ActorFacts ==
    ASSUME NEW s, NEW c, SeatsOf(histories[s], c.by) # {}
    PROVE  /\ SeatOf(s, c) \in Seats
           /\ BindingOf(histories[s], SeatOf(s, c)).id = c.by.binding
           /\ BindingOf(histories[s], SeatOf(s, c)).actor = c.by.principal
<1>1. SeatOf(s, c) \in SeatsOf(histories[s], c.by)
  BY DEF SeatOf
<1>2. QED
  BY <1>1 DEF SeatsOf

\* An event of an actor in its seat.
LEMMA ActorEventIsProper ==
    ASSUME NEW s, NEW c, Pending(s, c), SeatsOf(histories[s], c.by) # {},
           NEW type \in EventTypes \ {"resolution-recorded"},
           type \in AfterTheEnd \/ Status(s) = "active",
           type = "resolution-submitted" => Phase(s) >= ResolutionPhase,
           NEW seat \in {SeatOf(s, c), None}, NEW item \in {None} \cup Items
    PROVE  Proper(s, c, Event(c.id, c.by, type, Phase(s), seat, item, 0, {}, NoBindings))
<1> DEFINE event == Event(c.id, c.by, type, Phase(s), seat, item, 0, {}, NoBindings)
<1>1. /\ event.command = c.id /\ event.by = c.by /\ event.type = type
      /\ event.phase = Phase(s) /\ event.grants = {} /\ event.bindings = NoBindings
      /\ event.seat = seat
  BY DEF Event
<1>2. event \in SessionEvent
  <2>1. seat \in {None} \cup Seats
    BY ActorFacts
  <2>2. c \in Request /\ Phase(s) \in Phases
    BY PendingFacts DEF Pending
  <2>3. QED
    BY <2>1, <2>2, EventType, NoBindingsType
<1>3. SeatedBy(histories[s], event)
  <2>1. /\ SeatOf(s, c) \in Seats
        /\ BindingOf(histories[s], SeatOf(s, c)).id = event.by.binding
        /\ BindingOf(histories[s], SeatOf(s, c)).actor = event.by.principal
        /\ event.seat \in {SeatOf(s, c), None}
    BY <1>1, ActorFacts
  <2>2. QED
    BY <2>1 DEF SeatedBy
<1>4. event.type \in AfterTheEnd \/ Unresolved(histories[s])
  BY <1>1, StatusFacts
<1>5. Phase(s) <= event.phase
  BY <1>1, PendingFacts
<1>6. Fits(histories[s], event)
  BY <1>1, <1>3, <1>4, <1>5 DEF Fits, SubmitsInPhase, Resolves, Phase
<1>7. Human(event)
  BY <1>1 DEF Human, NoBindings
<1>8. QED
  BY <1>1, <1>2, <1>6, <1>7 DEF Proper

\* An event of the host.
LEMMA HostEventIsProper ==
    ASSUME NEW s, NEW c, Pending(s, c), ByHost(c),
           NEW type \in EventTypes \ {"resolution-submitted"},
           type \in AfterTheEnd \/ Status(s) \in {"created", "active"},
           NEW phase \in Phases, Phase(s) <= phase,
           NEW seat \in {None} \cup Seats, NEW item \in {None} \cup Items, NEW n \in Nat,
           NEW grants \in SUBSET Grant, \A grant \in grants : Revealed(phase, grant),
           NEW bindings, \E seats \in SUBSET Seats : bindings \in [seats -> Binding],
           mode[s] = "live" => \A x \in DOMAIN bindings : bindings[x].actor \in Humans,
           Resolves(histories[s], Event(c.id, c.by, type, phase, seat, item, n, grants, bindings))
    PROVE  Proper(s, c, Event(c.id, c.by, type, phase, seat, item, n, grants, bindings))
<1> DEFINE event == Event(c.id, c.by, type, phase, seat, item, n, grants, bindings)
<1>1. /\ event.command = c.id /\ event.by = c.by /\ event.type = type
      /\ event.phase = phase /\ event.grants = grants /\ event.bindings = bindings
  BY DEF Event
<1>2. event \in SessionEvent
  BY EventType DEF Pending
<1>3. SeatedBy(histories[s], event)
  BY <1>1, HostFacts DEF SeatedBy
<1>4. event.type \in AfterTheEnd \/ Unresolved(histories[s])
  BY <1>1, StatusFacts
<1>5. Fits(histories[s], event)
  BY <1>1, <1>3, <1>4 DEF Fits, SubmitsInPhase, Phase
<1>6. mode[s] = "live" => Human(event)
  BY <1>1 DEF Human
<1>7. QED
  BY <1>1, <1>2, <1>5, <1>6 DEF Proper

\* The one place where the answer is given.
LEMMA AnswerCases ==
    ASSUME NEW s, NEW c, NEW STATE allowed, NEW STATE event, Answer(s, c, allowed, event),
           allowed => Proper(s, c, event)
    PROVE  Took(s, c) \/ Refused(s, c)
BY DEF Answer, Took, Refused, New

\* The host's event when the binding table does not change.
LEMMA TableEventIsProper ==
    ASSUME NEW s, NEW c, Pending(s, c), ByHost(c), Status(s) \in {"created", "active"},
           NEW type \in EventTypes \ {"resolution-submitted", "resolution-recorded"},
           NEW phase \in Phases, Phase(s) <= phase, NEW item \in {None} \cup Items,
           NEW grants, \A grant \in grants : /\ Revealed(phase, grant)
                                            /\ \E x, y : grant = [seat |-> x, resource |-> y]
    PROVE  Proper(s, c, TableEvent(c, type, phase, item, grants))
<1>1. grants \in SUBSET Grant
  BY RevealedIsGrant
<1>2. DOMAIN NoBindings = {}
  BY DEF NoBindings
<1>3. Resolves(histories[s], Event(c.id, c.by, type, phase, None, item, 0, grants, NoBindings))
  BY DEF Resolves, Event
<1>4. QED
  BY <1>1, <1>2, <1>3, HostEventIsProper, NoBindingsType DEF TableEvent

LEMMA ApplyCases ==
    ASSUME NEW s, NEW c, Pending(s, c), Apply(s, c)
    PROVE  Took(s, c) \/ Refused(s, c)
<1>1. /\ Phase(s) \in Phases /\ Phase(s) \in Int
      /\ c.args.item \in {None} \cup Items /\ c.args.submission \in Nat
  BY PendingFacts DEF Args
<1>2. CASE OpenSession(s, c)
  <2> DEFINE grants == {grant \in {[seat |-> r.seat, resource |-> r.resource] : r \in Reveals} :
                          Revealed(Min(Phases), grant)}
  <2>1. ASSUME ByHost(c), Status(s) = "created"
        PROVE  Proper(s, c, TableEvent(c, "session-opened", Phase(s), None, grants))
    <3>1. \A grant \in grants : /\ Revealed(Phase(s), grant)
                                /\ \E x, y : grant = [seat |-> x, resource |-> y]
      BY <1>1, Earliest, RevealedLater
    <3>2. QED
      BY <1>1, <2>1, <3>1, TableEventIsProper DEF EventTypes
  <2>2. QED
    BY <1>2, <2>1, AnswerCases DEF OpenSession
<1>3. CASE RequestHint(s, c)
  <2>1. ActorWhileActive(s, c) => Proper(s, c, SeatEvent(s, c, "hint-requested", None))
    BY ActorEventIsProper DEF ActorWhileActive, SeatEvent, EventTypes
  <2>2. QED
    BY <1>3, <2>1, AnswerCases DEF RequestHint
<1>4. CASE RequestEvidence(s, c)
  <2>1. ActorWhileActive(s, c) => Proper(s, c, SeatEvent(s, c, "evidence-requested", c.args.item))
    BY <1>1, ActorEventIsProper DEF ActorWhileActive, SeatEvent, EventTypes
  <2>2. QED
    BY <1>4, <2>1, AnswerCases DEF RequestEvidence
<1>5. CASE ShareClaim(s, c)
  <2>1. ActorWhileActive(s, c) => Proper(s, c, SeatEvent(s, c, "claim-shared", c.args.item))
    BY <1>1, ActorEventIsProper DEF ActorWhileActive, SeatEvent, EventTypes
  <2>2. QED
    BY <1>5, <2>1, AnswerCases DEF ShareClaim
<1>6. CASE AdvancePhase(s, c)
  <2>1. ASSUME HostWhileActive(s, c), c.args.phase \in Phases, c.args.phase = Phase(s) + 1
        PROVE  Proper(s, c, TableEvent(c, "phase-advanced", c.args.phase, None, {}))
    <3>1. Phase(s) <= c.args.phase
      BY <1>1, <2>1
    <3>2. QED
      BY <2>1, <3>1, TableEventIsProper DEF HostWhileActive, EventTypes
  <2>2. QED
    BY <1>6, <2>1, AnswerCases DEF AdvancePhase
<1>7. CASE DiscloseResource(s, c)
  <2> DEFINE grants == Grants(c.args.seats, c.args.resources)
  <2>1. HostWhileActive(s, c) /\ AllRevealed(s, grants) =>
            Proper(s, c, TableEvent(c, "resource-disclosed", Phase(s), None, grants))
    BY <1>1, TableEventIsProper DEF HostWhileActive, AllRevealed, Grants, EventTypes
  <2>2. QED
    BY <1>7, <2>1, AnswerCases DEF DiscloseResource
<1>8. CASE DeliverIntervention(s, c)
  <2> DEFINE grants == Grants(c.args.seats, Interventions[c.args.item].resources)
  <2>1. HostWhileActive(s, c) /\ AllRevealed(s, grants) =>
            Proper(s, c, TableEvent(c, "intervention-delivered", Phase(s), c.args.item, grants))
    BY <1>1, TableEventIsProper DEF HostWhileActive, AllRevealed, Grants, EventTypes
  <2>2. QED
    BY <1>8, <2>1, AnswerCases DEF DeliverIntervention
<1>9. CASE RecordExceptionalIntervention(s, c)
  <2> DEFINE grants == Grants(c.args.seats, c.args.resources)
  <2>1. HostWhileActive(s, c) /\ AllRevealed(s, grants) =>
            Proper(s, c, TableEvent(c, "exceptional-intervention-recorded", Phase(s), None, grants))
    BY <1>1, TableEventIsProper DEF HostWhileActive, AllRevealed, Grants, EventTypes
  <2>2. QED
    BY <1>9, <2>1, AnswerCases DEF RecordExceptionalIntervention
<1>10. CASE SubmitResolution(s, c)
  <2>1. ActorWhileActive(s, c) /\ Phase(s) >= ResolutionPhase =>
            Proper(s, c, SeatEvent(s, c, "resolution-submitted", c.args.item))
    BY <1>1, ActorEventIsProper DEF ActorWhileActive, SeatEvent, EventTypes
  <2>2. QED
    BY <1>10, <2>1, AnswerCases DEF SubmitResolution
<1>11. CASE RecordResolution(s, c)
  <2> DEFINE n == c.args.submission
             verdict == IF histories[s][n].item \in Correct THEN "correct" ELSE "incorrect"
             event == Event(c.id, c.by, "resolution-recorded", Phase(s), None, verdict, n, {}, NoBindings)
  <2>1. ASSUME HostWhileActive(s, c), n \in DOMAIN histories[s],
               histories[s][n].type = "resolution-submitted"
        PROVE  Proper(s, c, event)
    <3>1. histories[s][n].phase >= ResolutionPhase
      BY <2>1, PendingFacts DEF GoodLog, Resolutions, SubmitsInPhase
    <3>2. Resolves(histories[s], event)
      BY <2>1, <3>1 DEF Resolves, Event
    <3>3. DOMAIN NoBindings = {} /\ verdict \in {None} \cup Items
      BY GameAssumption DEF NoBindings
    <3>4. ByHost(c) /\ Status(s) \in {"created", "active"} /\ Phase(s) <= Phase(s)
      BY <1>1, <2>1 DEF HostWhileActive
    <3>5. QED
      BY <1>1, <3>2, <3>3, <3>4, HostEventIsProper, NoBindingsType DEF EventTypes, AfterTheEnd
  <2>2. QED
    BY <1>11, <2>1, AnswerCases DEF RecordResolution
<1>12. CASE ReplaceActor(s, c)
  <2> DEFINE new == c.args.binding
             bindings == [seat \in {c.args.seat} |-> new]
  <2>1. ASSUME ByHost(c), c.args.seat \in Seats, mode[s] = "live" => new.actor \in Humans
        PROVE  Proper(s, c, Replacement(s, c))
    <3>1. new \in Binding
      BY <1>12 DEF ReplaceActor, Pending
    <3>2. \E seats \in SUBSET Seats : bindings \in [seats -> Binding]
      <4>1. bindings \in [{c.args.seat} -> Binding]
        BY <3>1
      <4>2. QED
        BY <2>1, <4>1
    <3>3. mode[s] = "live" => \A x \in DOMAIN bindings : bindings[x].actor \in Humans
      BY <2>1
    <3>4. Resolves(histories[s], Event(c.id, c.by, "actor-replaced", Phase(s), c.args.seat, None, 0,
                                       {}, bindings))
      BY DEF Resolves, Event
    <3>5. "actor-replaced" \in EventTypes \ {"resolution-submitted"} /\ "actor-replaced" \in AfterTheEnd
      BY DEF EventTypes, AfterTheEnd
    <3>6. Phase(s) <= Phase(s) /\ c.args.seat \in {None} \cup Seats /\ None \in {None} \cup Items
      BY <1>1, <2>1
    <3>7. Proper(s, c, Event(c.id, c.by, "actor-replaced", Phase(s), c.args.seat, None, 0, {}, bindings))
      BY <1>1, <2>1, <3>2, <3>3, <3>4, <3>5, <3>6, HostEventIsProper
    <3>8. QED
      BY <3>7 DEF Replacement
  <2>2. QED
    BY <1>12, <2>1, AnswerCases DEF ReplaceActor
<1>13. CASE AddPrivateNote(s, c)
  <2>1. SeatsOf(histories[s], c.by) # {} =>
            Proper(s, c, TableEvent(c, "private-note-added", Phase(s), c.args.item, {}))
    BY <1>1, ActorEventIsProper DEF TableEvent, AfterTheEnd, EventTypes
  <2>2. QED
    BY <1>13, <2>1, AnswerCases DEF AddPrivateNote
<1>14. CASE UpdateCharacterState(s, c)
  <2>1. ActorWhileActive(s, c) => Proper(s, c, SeatEvent(s, c, "character-state-updated", c.args.item))
    BY <1>1, ActorEventIsProper DEF ActorWhileActive, SeatEvent, EventTypes
  <2>2. QED
    BY <1>14, <2>1, AnswerCases DEF UpdateCharacterState
<1>15. QED
  BY <1>2, <1>3, <1>4, <1>5, <1>6, <1>7, <1>8, <1>9, <1>10, <1>11, <1>12, <1>13, <1>14 DEF Apply

-----------------------------------------------------------------------------
(* The invariant holds *)

LEMMA GenesisIsGood ==
    ASSUME NEW cast \in [Seats -> Binding]
    PROVE  /\ <<Genesis(cast)>> \in Seq(SessionEvent)
           /\ GoodLog(<<Genesis(cast)>>)
           /\ Human(Genesis(cast)) => HumanLog(<<Genesis(cast)>>)
<1> DEFINE event == Genesis(cast)
<1>1. event \in SessionEvent
  <2>1. cast \in UNION {[seats -> Binding] : seats \in SUBSET Seats}
    OBVIOUS
  <2>2. [kind |-> "system", principal |-> None, binding |-> None] \in Authorities
    BY DEF Authorities
  <2>3. QED
    BY <2>1, <2>2, Earliest DEF Genesis, Event, SessionEvent, EventTypes
<1>2. event.phase \in Int /\ event.grants = {} /\ event.by.kind = "system" /\ event.type = "session-created"
  BY Earliest, PhasesAssumption DEF Genesis, Event
<1>3. /\ <<event>> \in Seq(SessionEvent) /\ DOMAIN <<event>> = {1} /\ <<event>>[1] = event
  BY <1>1
<1>4. GoodLog(<<event>>)
  BY <1>2, <1>3 DEF GoodLog, PhasesRise, GrantsRevealed, ActorsSeated, SeatedBy, Resolutions, SubmitsInPhase
<1>5. QED
  BY <1>3, <1>4 DEF HumanLog

LEMMA InitSession == Init => SessionInv
<1>1. SUFFICES ASSUME Init PROVE SessionInv
  OBVIOUS
<1>2. TypeOK
  BY <1>1 DEF Init, TypeOK
<1>3. \A s \in SessionIds : histories[s] = << >> /\ receipts[s] = {} /\ prefix[s] = 0
  BY <1>1 DEF Init
<1>4. GoodLog(<< >>) /\ HumanLog(<< >>)
  BY DEF GoodLog, PhasesRise, GrantsRevealed, ActorsSeated, Resolutions, HumanLog
<1>5. Sizes /\ ReceiptsHold
  BY <1>3, BoundsAssumption DEF Sizes, ReceiptsHold
<1>6. QED
  BY <1>2, <1>3, <1>4, <1>5 DEF SessionInv

LEMMA CreateSession ==
    ASSUME SessionInv, NEW s \in SessionIds, NEW m \in {"live", "simulation"}, NEW cast \in Casts,
           Create(s, m, cast)
    PROVE  SessionInv'
<1>1. cast \in [Seats -> Binding]
  BY CastsAssumption
<1>2. /\ histories' = [histories EXCEPT ![s] = <<Genesis(cast)>>]
      /\ mode' = [mode EXCEPT ![s] = m]
      /\ prefix' = prefix /\ receipts' = receipts
      /\ histories[s] = << >>
      /\ m = "live" => Human(Genesis(cast))
  BY <1>1 DEF Create, Genesis, Event, Human
<1>3. TypeOK'
  BY <1>1, <1>2, GenesisIsGood DEF SessionInv, TypeOK
<1>4. receipts[s] = {} /\ prefix[s] = 0
  BY <1>2 DEF SessionInv, Sizes, TypeOK
<1>5. Sizes' /\ ReceiptsHold'
  BY <1>2, <1>4, BoundsAssumption DEF SessionInv, Sizes, ReceiptsHold, TypeOK
<1>6. \A t \in SessionIds : GoodLog(histories'[t])
  BY <1>1, <1>2, GenesisIsGood DEF SessionInv, TypeOK
<1>7. \A t \in SessionIds : mode'[t] = "live" => HumanLog(histories'[t])
  BY <1>1, <1>2, GenesisIsGood DEF SessionInv, TypeOK
<1>8. QED
  BY <1>3, <1>5, <1>6, <1>7 DEF SessionInv

LEMMA ForkSession ==
    ASSUME SessionInv, NEW source \in SessionIds, NEW s \in SessionIds,
           NEW at \in 1..Len(histories[source]), Fork(source, s, at)
    PROVE  SessionInv'
<1> DEFINE cut == SubSeq(histories[source], 1, at)
<1>1. /\ histories' = [histories EXCEPT ![s] = cut]
      /\ prefix' = [prefix EXCEPT ![s] = at]
      /\ mode' = [mode EXCEPT ![s] = "simulation"]
      /\ receipts' = receipts /\ histories[s] = << >>
  BY DEF Fork
<1>2. histories[source] \in Seq(SessionEvent) /\ GoodLog(histories[source])
  BY DEF SessionInv, TypeOK
<1>3. cut \in Seq(SessionEvent) /\ Len(cut) = at /\ GoodLog(cut)
  BY <1>2, PrefixIsGood
<1>4. TypeOK'
  BY <1>1, <1>3 DEF SessionInv, TypeOK
<1>5. receipts[s] = {} /\ at <= MaxSequence /\ cut # << >>
  <2>1. receipts[s] = {} /\ Len(histories[source]) <= MaxSequence
    BY <1>1 DEF SessionInv, Sizes
  <2>2. Len(histories[source]) \in Nat /\ at \in 1..Len(histories[source])
    BY <1>2
  <2>3. cut # << >>
    BY <1>3, <2>2
  <2>4. QED
    BY <2>1, <2>2, <2>3, BoundsAssumption
<1>6. Sizes' /\ ReceiptsHold'
  BY <1>1, <1>3, <1>5 DEF SessionInv, Sizes, ReceiptsHold, TypeOK
<1>7. \A t \in SessionIds : GoodLog(histories'[t])
  BY <1>1, <1>3 DEF SessionInv, TypeOK
<1>8. \A t \in SessionIds : mode'[t] = "live" => HumanLog(histories'[t])
  BY <1>1 DEF SessionInv, TypeOK
<1>9. QED
  BY <1>4, <1>6, <1>7, <1>8 DEF SessionInv

LEMMA RefusedSession ==
    ASSUME NEW s, NEW c, Pending(s, c), Refused(s, c)
    PROVE  SessionInv'
<1>1. /\ receipts' = [receipts EXCEPT ![s] = @ \cup {[request |-> c, sequence |-> 0]}]
      /\ histories' = histories /\ prefix' = prefix /\ mode' = mode
  BY DEF Refused, Refuse
<1>2. TypeOK'
  BY <1>1 DEF Pending, SessionInv, TypeOK
<1>3. Sizes' /\ ReceiptsHold'
  BY <1>1 DEF Pending, SessionInv, Sizes, ReceiptsHold, TypeOK
<1>4. QED
  BY <1>1, <1>2, <1>3 DEF Pending, SessionInv

LEMMA TookSession ==
    ASSUME NEW s, NEW c, Pending(s, c), Took(s, c)
    PROVE  SessionInv'
<1>1. PICK event : Proper(s, c, event) /\ Accept(s, c, event)
  BY DEF Took
<1> DEFINE log == histories[s]
           longer == Append(log, event)
           receipt == [request |-> c, sequence |-> Len(log) + 1]
<1>2. /\ histories' = [histories EXCEPT ![s] = longer]
      /\ receipts' = [receipts EXCEPT ![s] = @ \cup {receipt}]
      /\ prefix' = prefix /\ mode' = mode
      /\ Len(log) < MaxSequence
      /\ c.expected = Len(log)
  BY <1>1 DEF Accept, Took, Current
<1>3. /\ log \in Seq(SessionEvent) /\ Len(log) \in Nat \ {0} /\ GoodLog(log) /\ log # << >>
      /\ s \in SessionIds /\ event \in SessionEvent /\ c \in Request
  BY <1>1, PendingFacts DEF Pending, Proper
<1>4. /\ longer \in Seq(SessionEvent) /\ Len(longer) = Len(log) + 1
      /\ \A i \in 1..Len(log) : longer[i] = log[i]
      /\ longer[Len(log) + 1] = event
      /\ DOMAIN longer = 1..(Len(log) + 1) /\ DOMAIN log = 1..Len(log)
  BY <1>3, AppendProperties
<1>5. GoodLog(longer)
  BY <1>1, <1>3, ExtensionIsGood DEF Proper
<1>6. mode[s] = "live" => HumanLog(longer)
  <2>1. mode[s] = "live" => HumanLog(log) /\ Human(event)
    BY <1>1, <1>3 DEF Pending, SessionInv, Proper
  <2>2. QED
    BY <1>4, <2>1 DEF HumanLog
<1>7. TypeOK'
  BY <1>2, <1>3, <1>4 DEF Pending, SessionInv, TypeOK
<1>8. Sizes'
  <2>1. longer # << >> /\ Len(longer) <= MaxSequence /\ prefix[s] <= Len(longer)
    <3>1. Sizes /\ prefix[s] \in Nat
      BY <1>3 DEF Pending, SessionInv, TypeOK
    <3>2. prefix[s] <= Len(log)
      BY <1>3, <3>1 DEF Sizes
    <3>3. longer # << >>
      BY <1>3, <1>4
    <3>4. QED
      BY <1>2, <1>3, <1>4, <3>1, <3>2, <3>3, BoundsAssumption
  <2>2. QED
    BY <1>2, <1>3, <2>1 DEF Pending, SessionInv, Sizes, TypeOK
<1>9. ReceiptsHold'
  <2>1. SUFFICES ASSUME NEW t \in SessionIds, NEW r \in receipts'[t], r.sequence # 0
                 PROVE  /\ r.sequence \in 1..Len(histories'[t])
                        /\ r.sequence = r.request.expected + 1
                        /\ histories'[t][r.sequence].command = r.request.id
                        /\ histories'[t][r.sequence].by = r.request.by
    BY DEF ReceiptsHold
  <2>2. CASE r \in receipts[t]
    <3>1. /\ r.sequence \in 1..Len(histories[t])
          /\ r.sequence = r.request.expected + 1
          /\ histories[t][r.sequence].command = r.request.id
          /\ histories[t][r.sequence].by = r.request.by
      BY <2>1, <2>2 DEF Pending, SessionInv, ReceiptsHold
    <3>2. CASE t = s
      <4>1. histories'[t] = longer
        BY <1>2, <1>3, <3>2 DEF Pending, SessionInv, TypeOK
      <4>2. QED
        BY <1>3, <1>4, <3>1, <3>2, <4>1
    <3>3. CASE t # s
      BY <1>2, <3>1, <3>3 DEF Pending, SessionInv, TypeOK
    <3>4. QED
      BY <3>2, <3>3
  <2>3. CASE r \notin receipts[t]
    <3>1. t = s /\ r = receipt
      BY <1>2, <2>1, <2>3 DEF Pending, SessionInv, TypeOK
    <3>2. histories'[t] = longer
      BY <1>2, <1>3, <3>1 DEF Pending, SessionInv, TypeOK
    <3>3. event.command = c.id /\ event.by = c.by
      BY <1>1 DEF Proper
    <3>4. QED
      BY <1>2, <1>3, <1>4, <3>1, <3>2, <3>3
  <2>4. QED
    BY <2>2, <2>3
<1>10. \A t \in SessionIds : GoodLog(histories'[t])
  BY <1>2, <1>3, <1>5 DEF Pending, SessionInv, TypeOK
<1>11. \A t \in SessionIds : mode'[t] = "live" => HumanLog(histories'[t])
  BY <1>2, <1>3, <1>6 DEF Pending, SessionInv, TypeOK
<1>12. QED
  BY <1>7, <1>8, <1>9, <1>10, <1>11 DEF SessionInv

\* A Command that reaches a Session finds it in existence.
LEMMA DeliveredIsPending ==
    ASSUME SessionInv, NEW s \in SessionIds, NEW request \in Requests,
           NEW revision \in 1..Len(histories[s])
    PROVE  Pending(s, At(request, revision))
<1>1. request \in Request /\ revision \in Nat
  BY RequestsAssumption DEF SessionInv, TypeOK
<1>2. /\ At(request, revision) \in Request
      /\ At(request, revision).action = request.action
      /\ At(request, revision).args = request.args
  BY <1>1 DEF At, Request
<1>3. histories[s] # << >>
  BY DEF SessionInv, TypeOK
<1>4. QED
  BY <1>2, <1>3, RequestsAssumption DEF Pending

LEMMA NextSession == SessionInv /\ [Next]_vars => SessionInv'
<1>1. SUFFICES ASSUME SessionInv, [Next]_vars PROVE SessionInv'
  OBVIOUS
<1>2. ASSUME NEW s \in SessionIds, NEW m \in {"live", "simulation"}, NEW cast \in Casts,
             Create(s, m, cast)
      PROVE  SessionInv'
  BY <1>1, <1>2, CreateSession
<1>3. ASSUME NEW s \in SessionIds, NEW source \in SessionIds,
             NEW at \in 1..Len(histories[source]), Fork(source, s, at)
      PROVE  SessionInv'
  BY <1>1, <1>3, ForkSession
<1>4. ASSUME NEW s \in SessionIds, NEW request \in Requests,
             NEW revision \in 1..Len(histories[s]), Apply(s, At(request, revision))
      PROVE  SessionInv'
  <2>1. Pending(s, At(request, revision))
    BY <1>1, DeliveredIsPending
  <2>2. QED
    BY <1>4, <2>1, ApplyCases, TookSession, RefusedSession
<1>5. ASSUME UNCHANGED vars PROVE SessionInv'
  <2>1. histories' = histories /\ prefix' = prefix /\ mode' = mode /\ receipts' = receipts
    BY <1>5 DEF vars
  <2>2. TypeOK' /\ Sizes' /\ ReceiptsHold'
    BY <1>1, <2>1 DEF SessionInv, TypeOK, Sizes, ReceiptsHold
  <2>3. QED
    BY <1>1, <2>1, <2>2 DEF SessionInv
<1>6. QED
  BY <1>1, <1>2, <1>3, <1>4, <1>5 DEF Next

LEMMA SpecSession == Spec => []SessionInv
BY InitSession, NextSession, PTL DEF Spec

-----------------------------------------------------------------------------
(* What the invariant says of every Session *)

\* In every game and for every set of requests, a Session History is a sequence
\* of well-formed events, each in a Phase of the game, and a receipt belongs to
\* a well-formed request.
THEOREM TypeCorrect == Spec => []TypeOK
<1>1. SessionInv => TypeOK
  BY DEF SessionInv
<1>2. QED
  BY <1>1, SpecSession, PTL

\* An accepted receipt names the event its Command caused, right after the
\* revision its sender saw (expected_sequence).
THEOREM CommandsActOnWhatWasSeen == Spec => []AcceptedOnWhatWasSeen
<1>1. SessionInv => AcceptedOnWhatWasSeen
  BY DEF SessionInv, ReceiptsHold, AcceptedOnWhatWasSeen
<1>2. QED
  BY <1>1, SpecSession, PTL

\* No resource is told to a seat before a Reveal of the game allows it, through
\* any of the four Commands that disclose and in any fork.
THEOREM NothingIsToldEarly == Spec => []NothingEarly
<1>1. SessionInv => NothingEarly
  <2>1. SUFFICES ASSUME SessionInv, NEW s \in SessionIds, histories[s] # << >>,
                        NEW seat \in Seats, NEW resource \in DisclosedTo(histories[s], seat)
                 PROVE  \E reveal \in Reveals :
                          /\ reveal.phase <= Phase(s)
                          /\ reveal.seat = seat /\ reveal.resource = resource
    BY DEF NothingEarly
  <2> DEFINE log == histories[s]
  <2>2. /\ log \in Seq(SessionEvent) /\ Len(log) \in Nat /\ Len(log) \in DOMAIN log
        /\ DOMAIN log = 1..Len(log)
        /\ \A i \in DOMAIN log : log[i] \in SessionEvent
    <3>1. log \in Seq(SessionEvent)
      BY <2>1 DEF SessionInv, TypeOK
    <3>2. Len(log) \in Nat /\ DOMAIN log = 1..Len(log) /\ Len(log) # 0
      BY <2>1, <3>1, EmptySeq
    <3>3. \A i \in DOMAIN log : log[i] \in SessionEvent
      BY <3>1, <3>2, ElementOfSeq
    <3>4. QED
      BY <3>1, <3>2, <3>3
  <2>3. PICK i \in DOMAIN log : \E grant \in log[i].grants : grant.seat = seat /\ grant.resource = resource
    BY <2>1 DEF DisclosedTo
  <2>4. PICK reveal \in Reveals : /\ reveal.phase <= log[i].phase
                                  /\ reveal.seat = seat /\ reveal.resource = resource
    BY <2>1, <2>3 DEF SessionInv, GoodLog, GrantsRevealed, Revealed
  <2>5. log[i].phase <= log[Len(log)].phase
    <3>1. i <= Len(log)
      BY <2>2, <2>3
    <3>2. QED
      BY <2>1, <2>2, <2>3, <3>1 DEF SessionInv, GoodLog, PhasesRise
  <2>6. reveal.phase \in Int /\ log[i].phase \in Int /\ log[Len(log)].phase \in Int
    <3>1. reveal.phase \in Phases
      BY <2>4, RevealsAssumption
    <3>2. log[i].phase \in Phases /\ log[Len(log)].phase \in Phases
      BY <2>2, <2>3 DEF SessionEvent
    <3>3. QED
      BY <3>1, <3>2, PhasesAssumption
  <2>7. reveal.phase <= Phase(s)
    BY <2>4, <2>5, <2>6 DEF Phase, PhaseOf
  <2>8. QED
    BY <2>4, <2>7
<1>2. QED
  BY <1>1, SpecSession, PTL

\* Every event an actor caused follows a history in which that actor's binding
\* holds the seat: replacing an actor ends whatever it has under way.
THEOREM ActorsActWhileSeated == Spec => []ActsWhileSeated
<1>1. SessionInv => ActsWhileSeated
  BY DEF SessionInv, GoodLog, ActorsSeated, SeatedBy, ActsWhileSeated
<1>2. QED
  BY <1>1, SpecSession, PTL

\* Only humans ever sit in a live Session.
THEOREM LiveSessionsAreHuman == Spec => []LiveIsHuman
<1>1. SessionInv => LiveIsHuman
  BY DEF SessionInv, HumanLog, Human, LiveIsHuman
<1>2. QED
  BY <1>1, SpecSession, PTL

\* A Session is resolved at most once, for an earlier submission of its own
\* history, and only replacements and notes follow.
THEOREM SessionsResolveOnce == Spec => []ResolvedOnce
<1>1. SessionInv => ResolvedOnce
  BY DEF SessionInv, GoodLog, Resolutions, AfterTheEnd, ResolvedOnce
<1>2. QED
  BY <1>1, SpecSession, PTL

-----------------------------------------------------------------------------
(* One actor in each seat, one seat for each binding                         *)

\* The binding of the seat after n events is that of event i.
Latest(log, n, seat, i) ==
    /\ i \in 1..n /\ seat \in DOMAIN log[i].bindings
    /\ \A j \in 1..n : seat \in DOMAIN log[j].bindings => j <= i

SeatsTaken(log) == \A n \in DOMAIN log : \A seat \in Seats : \E i \in 1..n : Latest(log, n, seat, i)

ActorsApart(log) ==
    \A n \in DOMAIN log : \A a, b \in Seats : \A i, j \in 1..n :
        a # b /\ Latest(log, n, a, i) /\ Latest(log, n, b, j)
            => log[i].bindings[a].actor # log[j].bindings[b].actor

IdsOnce(log) ==
    \A i, j \in DOMAIN log : \A a \in DOMAIN log[i].bindings, b \in DOMAIN log[j].bindings :
        log[i].bindings[a].id = log[j].bindings[b].id => i = j /\ a = b

\* It holds of every prefix, also of one that somebody forks.
GoodSeats(log) == SeatsTaken(log) /\ ActorsApart(log) /\ IdsOnce(log)

LEMMA LatestIsBinding ==
    ASSUME NEW log \in Seq(SessionEvent), NEW seat, NEW i, Latest(log, Len(log), seat, i)
    PROVE  BindingOf(log, seat) = log[i].bindings[seat]
<1>1. DOMAIN log = 1..Len(log) /\ Len(log) \in Nat
  OBVIOUS
<1>2. SeatedAt(log, seat) = i
  <2> DEFINE IsLast(k) == /\ seat \in DOMAIN log[k].bindings
                          /\ \A j \in DOMAIN log : seat \in DOMAIN log[j].bindings => j <= k
  <2>1. i \in DOMAIN log /\ IsLast(i)
    BY <1>1 DEF Latest
  <2>2. \A k \in DOMAIN log : IsLast(k) => k = i
    BY <1>1, <2>1
  <2>3. SeatedAt(log, seat) = CHOOSE k \in DOMAIN log : IsLast(k)
    BY DEF SeatedAt
  <2> HIDE DEF IsLast
  <2>4. QED
    BY <2>1, <2>2, <2>3
<1>3. QED
  BY <1>2 DEF BindingOf

\* A fork starts with its seats taken.
LEMMA PrefixSeats ==
    ASSUME NEW log \in Seq(SessionEvent), NEW at \in 1..Len(log), GoodSeats(log)
    PROVE  GoodSeats(SubSeq(log, 1, at))
<1> DEFINE cut == SubSeq(log, 1, at)
<1>1. /\ DOMAIN cut = 1..at /\ DOMAIN log = 1..Len(log) /\ Len(log) \in Nat
      /\ \A i \in 1..at : cut[i] = log[i]
  BY SubSeqProperties
<1>2. ASSUME NEW n \in 1..at, NEW seat, NEW i PROVE Latest(cut, n, seat, i) <=> Latest(log, n, seat, i)
  <2>1. \A j \in 1..n : cut[j] = log[j]
    BY <1>1
  <2>2. QED
    BY <2>1 DEF Latest
<1>3. SeatsTaken(cut)
  BY <1>1, <1>2 DEF GoodSeats, SeatsTaken
<1>4. ActorsApart(cut)
  <2>1. SUFFICES ASSUME NEW n \in 1..at, NEW a \in Seats, NEW b \in Seats, NEW i \in 1..n, NEW j \in 1..n,
                        a # b, Latest(cut, n, a, i), Latest(cut, n, b, j)
                 PROVE  cut[i].bindings[a].actor # cut[j].bindings[b].actor
    BY <1>1 DEF ActorsApart
  <2>2. n \in DOMAIN log /\ Latest(log, n, a, i) /\ Latest(log, n, b, j)
    BY <1>1, <1>2, <2>1
  <2>3. cut[i] = log[i] /\ cut[j] = log[j]
    BY <1>1
  <2>4. QED
    BY <2>1, <2>2, <2>3 DEF GoodSeats, ActorsApart
<1>5. IdsOnce(cut)
  BY <1>1 DEF GoodSeats, IdsOnce
<1>6. QED
  BY <1>3, <1>4, <1>5 DEF GoodSeats

\* What replace-actor makes sure of; no other Command binds anybody.
Rebinds(log, event, seat, new) ==
    /\ event.bindings = [x \in {seat} |-> new]
    /\ \A other \in Seats \ {seat} : BindingOf(log, other).actor # new.actor
    /\ new.id \notin BindingIdsIn(log)
KeepsSeats(log, event) ==
    \/ event.bindings = NoBindings
    \/ \E seat \in Seats : \E new : Rebinds(log, event, seat, new)

LEMMA ExtendedSeats ==
    ASSUME NEW log \in Seq(SessionEvent), log # << >>, GoodSeats(log),
           NEW event, KeepsSeats(log, event)
    PROVE  GoodSeats(Append(log, event))
<1> DEFINE longer == Append(log, event)
           end == Len(log) + 1
<1>1. /\ DOMAIN longer = 1..end /\ DOMAIN log = 1..Len(log)
      /\ \A i \in 1..Len(log) : longer[i] = log[i]
      /\ longer[end] = event
      /\ Len(log) \in Nat \ {0}
  BY EmptySeq
<1>2. ASSUME NEW n \in 1..Len(log), NEW seat, NEW i
      PROVE  Latest(longer, n, seat, i) <=> Latest(log, n, seat, i)
  <2>1. \A j \in 1..n : longer[j] = log[j]
    BY <1>1
  <2>2. QED
    BY <2>1 DEF Latest
\* Who the event does not bind stays where it was.
<1>3. ASSUME NEW seat, seat \notin DOMAIN event.bindings, NEW i
      PROVE  Latest(longer, end, seat, i) <=> Latest(log, Len(log), seat, i)
  BY <1>1, <1>3 DEF Latest
<1>4. ASSUME NEW seat, seat \in DOMAIN event.bindings, NEW i
      PROVE  Latest(longer, end, seat, i) <=> i = end
  BY <1>1, <1>4 DEF Latest
<1>5. SeatsTaken(longer)
  <2>1. SUFFICES ASSUME NEW n \in 1..end, NEW seat \in Seats
                 PROVE  \E i \in 1..n : Latest(longer, n, seat, i)
    BY <1>1 DEF SeatsTaken
  <2>2. CASE n \in 1..Len(log)
    BY <1>1, <1>2, <2>2 DEF GoodSeats, SeatsTaken
  <2>3. CASE n = end /\ seat \in DOMAIN event.bindings
    BY <1>1, <1>4, <2>3
  <2>4. CASE n = end /\ seat \notin DOMAIN event.bindings
    <3>1. Len(log) \in DOMAIN log
      BY <1>1
    <3>2. PICK i \in 1..Len(log) : Latest(log, Len(log), seat, i)
      BY <3>1 DEF GoodSeats, SeatsTaken
    <3>3. i \in 1..n
      BY <1>1, <2>4
    <3>4. QED
      BY <1>3, <2>4, <3>2, <3>3
  <2>5. QED
    BY <1>1, <2>2, <2>3, <2>4
<1>6. ActorsApart(longer)
  <2>1. SUFFICES ASSUME NEW n \in 1..end, NEW a \in Seats, NEW b \in Seats, NEW i \in 1..n, NEW j \in 1..n,
                        a # b, Latest(longer, n, a, i), Latest(longer, n, b, j)
                 PROVE  longer[i].bindings[a].actor # longer[j].bindings[b].actor
    BY <1>1 DEF ActorsApart
  <2>2. ASSUME NEW m \in 1..Len(log), Latest(log, m, a, i), Latest(log, m, b, j)
        PROVE  longer[i].bindings[a].actor # longer[j].bindings[b].actor
    <3>1. i \in 1..Len(log) /\ j \in 1..Len(log) /\ i \in 1..m /\ j \in 1..m
      BY <1>1, <2>2 DEF Latest
    <3>2. log[i].bindings[a].actor # log[j].bindings[b].actor
      BY <1>1, <2>1, <2>2, <3>1 DEF GoodSeats, ActorsApart
    <3>3. QED
      BY <1>1, <3>1, <3>2
  <2>3. CASE n \in 1..Len(log)
    BY <1>2, <2>1, <2>2, <2>3
  <2>4. CASE n = end
    <3>1. CASE event.bindings = NoBindings
      <4>1. a \notin DOMAIN event.bindings /\ b \notin DOMAIN event.bindings
        BY <3>1 DEF NoBindings
      <4>2. Len(log) \in 1..Len(log)
        BY <1>1
      <4>3. QED
        BY <1>3, <2>1, <2>2, <2>4, <4>1, <4>2
    <3>2. ASSUME NEW seat \in Seats, NEW new, Rebinds(log, event, seat, new)
          PROVE  longer[i].bindings[a].actor # longer[j].bindings[b].actor
      <4>1. /\ DOMAIN event.bindings = {seat} /\ event.bindings[seat] = new
            /\ \A other \in Seats \ {seat} : BindingOf(log, other).actor # new.actor
        BY <3>2 DEF Rebinds
      <4>2. ASSUME NEW other \in Seats \ {seat}, NEW k, Latest(longer, end, other, k)
            PROVE  longer[k].bindings[other].actor # new.actor
        <5>1. Latest(log, Len(log), other, k)
          BY <1>3, <4>1, <4>2
        <5>2. BindingOf(log, other) = log[k].bindings[other]
          BY <5>1, LatestIsBinding
        <5>3. longer[k] = log[k]
          BY <1>1, <5>1 DEF Latest
        <5>4. QED
          BY <4>1, <5>2, <5>3
      <4>3. CASE a = seat
        BY <1>1, <1>4, <2>1, <2>4, <4>1, <4>2, <4>3
      <4>4. CASE b = seat
        BY <1>1, <1>4, <2>1, <2>4, <4>1, <4>2, <4>4
      <4>5. CASE a # seat /\ b # seat
        <5>1. Latest(log, Len(log), a, i) /\ Latest(log, Len(log), b, j)
          BY <1>3, <2>1, <2>4, <4>1, <4>5
        <5>2. Len(log) \in 1..Len(log)
          BY <1>1
        <5>3. QED
          BY <2>2, <5>1, <5>2
      <4>6. QED
        BY <4>3, <4>4, <4>5
    <3>3. QED
      BY <3>1, <3>2 DEF KeepsSeats
  <2>5. QED
    BY <1>1, <2>3, <2>4
<1>7. IdsOnce(longer)
  <2>1. ASSUME NEW i \in 1..Len(log), NEW a \in DOMAIN log[i].bindings, NEW b \in DOMAIN event.bindings
        PROVE  log[i].bindings[a].id # event.bindings[b].id
    <3>1. PICK new : \E seat \in Seats : Rebinds(log, event, seat, new)
      BY <2>1 DEF KeepsSeats, NoBindings
    <3>2. event.bindings[b] = new
      BY <3>1 DEF Rebinds
    <3>3. log[i].bindings[a].id \in BindingIdsIn(log)
      BY <1>1 DEF BindingIdsIn
    <3>4. QED
      BY <3>1, <3>2, <3>3 DEF Rebinds
  <2>2. \A a, b \in DOMAIN event.bindings : a = b
    BY DEF KeepsSeats, NoBindings, Rebinds
  <2>3. SUFFICES ASSUME NEW i \in 1..end, NEW j \in 1..end,
                        NEW a \in DOMAIN longer[i].bindings, NEW b \in DOMAIN longer[j].bindings,
                        longer[i].bindings[a].id = longer[j].bindings[b].id
                 PROVE  i = j /\ a = b
    BY <1>1 DEF IdsOnce
  <2>4. CASE i \in 1..Len(log) /\ j \in 1..Len(log)
    BY <1>1, <2>3, <2>4 DEF GoodSeats, IdsOnce
  <2>5. CASE i \in 1..Len(log) /\ j = end
    BY <1>1, <2>1, <2>3, <2>5
  <2>6. CASE i = end /\ j \in 1..Len(log)
    BY <1>1, <2>1, <2>3, <2>6
  <2>7. CASE i = end /\ j = end
    BY <1>1, <2>2, <2>3, <2>7
  <2>8. QED
    BY <1>1, <2>4, <2>5, <2>6, <2>7
<1>8. QED
  BY <1>5, <1>6, <1>7 DEF GoodSeats

\* create_session admits a cast of different actors under different ids.
LEMMA GenesisSeats ==
    ASSUME NEW cast \in [Seats -> Binding], Different(cast)
    PROVE  GoodSeats(<<Genesis(cast)>>)
<1> DEFINE log == <<Genesis(cast)>>
<1>1. DOMAIN log = {1} /\ log[1].bindings = cast /\ DOMAIN cast = Seats /\ 1..1 = {1}
  BY DEF Genesis, Event
<1>2. SeatsTaken(log)
  BY <1>1 DEF SeatsTaken, Latest
<1>3. ActorsApart(log) /\ IdsOnce(log)
  BY <1>1 DEF ActorsApart, IdsOnce, Different
<1>4. QED
  BY <1>2, <1>3 DEF GoodSeats

\* A Command leaves the Sessions as they were or appends an event that keeps the seats.
SeatStep(s) ==
    \/ histories' = histories
    \/ \E event : /\ KeepsSeats(histories[s], event)
                  /\ histories' = [histories EXCEPT ![s] = Append(@, event)]

LEMMA AnswerSeats ==
    ASSUME NEW s, NEW c, NEW STATE allowed, NEW STATE event, Answer(s, c, allowed, event),
           allowed => KeepsSeats(histories[s], event)
    PROVE  SeatStep(s)
BY DEF Answer, Accept, Refuse, SeatStep

LEMMA NobodyMoves ==
    ASSUME NEW log, NEW id, NEW by, NEW type, NEW phase, NEW seat, NEW item, NEW n, NEW grants
    PROVE  KeepsSeats(log, Event(id, by, type, phase, seat, item, n, grants, NoBindings))
BY DEF KeepsSeats, Event

LEMMA ApplySeats ==
    ASSUME NEW s, NEW c, Apply(s, c)
    PROVE  SeatStep(s)
<1>1. ASSUME NEW STATE allowed, NEW type, NEW STATE phase, NEW item, NEW STATE grants,
             Answer(s, c, allowed, TableEvent(c, type, phase, item, grants))
      PROVE  SeatStep(s)
  BY <1>1, NobodyMoves, AnswerSeats DEF TableEvent
<1>2. ASSUME NEW STATE allowed, NEW type, NEW item,
             Answer(s, c, allowed, SeatEvent(s, c, type, item))
      PROVE  SeatStep(s)
  BY <1>2, NobodyMoves, AnswerSeats DEF SeatEvent
<1>3. CASE OpenSession(s, c)
  BY <1>1, <1>3 DEF OpenSession
<1>4. CASE RequestHint(s, c)
  BY <1>2, <1>4 DEF RequestHint
<1>5. CASE RequestEvidence(s, c)
  BY <1>2, <1>5 DEF RequestEvidence
<1>6. CASE ShareClaim(s, c)
  BY <1>2, <1>6 DEF ShareClaim
<1>7. CASE AdvancePhase(s, c)
  BY <1>1, <1>7 DEF AdvancePhase
<1>8. CASE DiscloseResource(s, c)
  BY <1>1, <1>8 DEF DiscloseResource
<1>9. CASE DeliverIntervention(s, c)
  BY <1>1, <1>9 DEF DeliverIntervention
<1>10. CASE RecordExceptionalIntervention(s, c)
  BY <1>1, <1>10 DEF RecordExceptionalIntervention
<1>11. CASE SubmitResolution(s, c)
  BY <1>2, <1>11 DEF SubmitResolution
<1>12. CASE RecordResolution(s, c)
  BY <1>12, NobodyMoves, AnswerSeats DEF RecordResolution
<1>13. CASE ReplaceActor(s, c)
  <2> DEFINE log == histories[s]
             new == c.args.binding
             allowed == /\ ByHost(c)
                        /\ c.args.seat \in Seats
                        /\ mode[s] = "live" => new.actor \in Humans
                        /\ \A seat \in Seats \ {c.args.seat} : BindingOf(log, seat).actor # new.actor
                        /\ new.id \notin BindingIdsIn(log)
  <2>1. Answer(s, c, allowed, Replacement(s, c))
    BY <1>13 DEF ReplaceActor
  <2>2. allowed => KeepsSeats(log, Replacement(s, c))
    <3>1. Replacement(s, c).bindings = [seat \in {c.args.seat} |-> new]
      BY DEF Replacement, Event
    <3>2. allowed => Rebinds(log, Replacement(s, c), c.args.seat, new)
      BY <3>1 DEF Rebinds
    <3>3. QED
      BY <3>2 DEF KeepsSeats
  <2> HIDE DEF allowed
  <2>3. QED
    BY <2>1, <2>2, AnswerSeats
<1>14. CASE AddPrivateNote(s, c)
  BY <1>1, <1>14 DEF AddPrivateNote
<1>15. CASE UpdateCharacterState(s, c)
  BY <1>2, <1>15 DEF UpdateCharacterState
<1>16. QED
  BY <1>3, <1>4, <1>5, <1>6, <1>7, <1>8, <1>9, <1>10, <1>11, <1>12, <1>13, <1>14, <1>15 DEF Apply

SeatsInv == \A s \in SessionIds : GoodSeats(histories[s])

LEMMA InitSeats == Init => SeatsInv
BY DEF Init, SeatsInv, GoodSeats, SeatsTaken, ActorsApart, IdsOnce

LEMMA NextSeats == SessionInv /\ SeatsInv /\ [Next]_vars => SeatsInv'
<1>1. SUFFICES ASSUME SessionInv, SeatsInv, [Next]_vars PROVE SeatsInv'
  OBVIOUS
<1>2. histories \in [SessionIds -> Seq(SessionEvent)]
  BY <1>1 DEF SessionInv, TypeOK
<1>3. ASSUME NEW s \in SessionIds, NEW m \in {"live", "simulation"}, NEW cast \in Casts,
             Create(s, m, cast)
      PROVE  SeatsInv'
  <2>1. cast \in [Seats -> Binding] /\ Different(cast)
    BY <1>3, CastsAssumption DEF Create
  <2>2. histories' = [histories EXCEPT ![s] = <<Genesis(cast)>>]
    BY <1>3 DEF Create
  <2>3. QED
    BY <1>1, <1>2, <2>1, <2>2, GenesisSeats DEF SeatsInv
<1>4. ASSUME NEW s \in SessionIds, NEW source \in SessionIds,
             NEW at \in 1..Len(histories[source]), Fork(source, s, at)
      PROVE  SeatsInv'
  <2>1. histories' = [histories EXCEPT ![s] = SubSeq(histories[source], 1, at)]
    BY <1>4 DEF Fork
  <2>2. GoodSeats(SubSeq(histories[source], 1, at))
    BY <1>1, <1>2, PrefixSeats DEF SeatsInv
  <2>3. QED
    BY <1>1, <1>2, <2>1, <2>2 DEF SeatsInv
<1>5. ASSUME NEW s \in SessionIds, NEW request \in Requests,
             NEW revision \in 1..Len(histories[s]), Apply(s, At(request, revision))
      PROVE  SeatsInv'
  <2>1. SeatStep(s)
    BY <1>5, ApplySeats
  <2>2. CASE histories' = histories
    BY <1>1, <2>2 DEF SeatsInv
  <2>3. ASSUME NEW event, KeepsSeats(histories[s], event),
               histories' = [histories EXCEPT ![s] = Append(@, event)]
        PROVE  SeatsInv'
    <3>1. histories[s] \in Seq(SessionEvent) /\ histories[s] # << >> /\ GoodSeats(histories[s])
      BY <1>1, <1>2 DEF SeatsInv
    <3>2. GoodSeats(Append(histories[s], event))
      BY <2>3, <3>1, ExtendedSeats
    <3>3. QED
      BY <1>1, <1>2, <2>3, <3>2 DEF SeatsInv
  <2>4. QED
    BY <2>1, <2>2, <2>3 DEF SeatStep
<1>6. ASSUME UNCHANGED vars PROVE SeatsInv'
  BY <1>1, <1>6 DEF vars, SeatsInv
<1>7. QED
  BY <1>1, <1>3, <1>4, <1>5, <1>6 DEF Next

LEMMA SpecSeats == Spec => [](SessionInv /\ SeatsInv)
<1>1. Init => SessionInv /\ SeatsInv
  BY InitSession, InitSeats
<1>2. SessionInv /\ SeatsInv /\ [Next]_vars => (SessionInv /\ SeatsInv)'
  BY NextSession, NextSeats
<1>3. QED
  BY <1>1, <1>2, PTL DEF Spec

\* In every Session that exists no two seats are one actor's, and no binding id is ever
\* used for a second binding, through any chain of replacements and forks (create_session,
\* replace-actor, fork_session).
THEOREM SeatsAreSeparate == Spec => []OneSeatEach
<1>1. SessionInv /\ SeatsInv => OneSeatEach
  <2>1. SUFFICES ASSUME SessionInv, SeatsInv, NEW s \in SessionIds, histories[s] # << >>
                 PROVE  /\ \A a, b \in Seats : a # b => BindingOf(histories[s], a).actor # BindingOf(histories[s], b).actor
                        /\ IdsOnce(histories[s])
    BY DEF OneSeatEach, IdsOnce
  <2> DEFINE log == histories[s]
  <2>2. log \in Seq(SessionEvent) /\ GoodSeats(log) /\ Len(log) \in DOMAIN log
    <3>1. log \in Seq(SessionEvent)
      BY <2>1 DEF SessionInv, TypeOK
    <3>2. Len(log) \in DOMAIN log
      BY <2>1, <3>1, EmptySeq
    <3>3. QED
      BY <2>1, <3>1, <3>2 DEF SeatsInv
  <2>3. ASSUME NEW a \in Seats, NEW b \in Seats, a # b
        PROVE  BindingOf(log, a).actor # BindingOf(log, b).actor
    <3>1. PICK i \in 1..Len(log) : Latest(log, Len(log), a, i)
      BY <2>2 DEF GoodSeats, SeatsTaken
    <3>2. PICK j \in 1..Len(log) : Latest(log, Len(log), b, j)
      BY <2>2 DEF GoodSeats, SeatsTaken
    <3>3. log[i].bindings[a].actor # log[j].bindings[b].actor
      BY <2>2, <2>3, <3>1, <3>2 DEF GoodSeats, ActorsApart
    <3>4. QED
      BY <2>2, <3>1, <3>2, <3>3, LatestIsBinding
  <2>4. QED
    BY <2>2, <2>3 DEF GoodSeats
<1>2. QED
  BY <1>1, SpecSeats, PTL

-----------------------------------------------------------------------------
(* One answer for every request, one effect for every command id             *)

Effects == [s \in SessionIds |-> Applied(s)]
AnswersOf(s) == {[request |-> r.request, accepted |-> r.sequence # 0] : r \in receipts[s]}
AnswerSets == [s \in SessionIds |-> AnswersOf(s)]
Sent == {At(request, n) : request \in Requests, n \in 1..MaxSequence}

\* Applied, of any log.
CommandsAfter(log, cut) ==
    LET first == IF cut # 0 THEN cut ELSE 1
    IN IF Len(log) < first THEN << >>
       ELSE [i \in 1..(Len(log) - first) |-> log[first + i].command]

LEMMA AppliedIsAfter ==
    ASSUME NEW s
    PROVE  /\ Applied(s) = CommandsAfter(histories[s], prefix[s])
           /\ Applied(s)' = CommandsAfter(histories'[s], prefix'[s])
BY DEF Applied, CommandsAfter

LEMMA NothingAfter ==
    ASSUME NEW log \in Seq(SessionEvent), NEW cut, Len(log) = IF cut # 0 THEN cut ELSE 1
    PROVE  CommandsAfter(log, cut) = << >>
<1> DEFINE first == IF cut # 0 THEN cut ELSE 1
<1>1. Len(log) = first /\ Len(log) \in Nat
  OBVIOUS
<1>2. CommandsAfter(log, cut) =
          IF Len(log) < first THEN << >> ELSE [i \in 1..(Len(log) - first) |-> log[first + i].command]
  BY DEF CommandsAfter
<1> HIDE DEF first
<1>3. ~(Len(log) < first) /\ Len(log) - first = 0
  BY <1>1
<1>4. QED
  BY <1>2, <1>3

LEMMA OneMoreAfter ==
    ASSUME NEW log \in Seq(SessionEvent), Len(log) # 0, NEW event \in SessionEvent,
           NEW cut \in Nat, cut <= Len(log)
    PROVE  CommandsAfter(Append(log, event), cut) = Append(CommandsAfter(log, cut), event.command)
<1> DEFINE longer == Append(log, event)
           first == IF cut # 0 THEN cut ELSE 1
           n == Len(log) - first
           before == [i \in 1..n |-> log[first + i].command]
           after == [i \in 1..(n + 1) |-> longer[first + i].command]
           values == {before[i] : i \in 1..n} \cup {event.command}
<1>1. first \in 1..Len(log) /\ n \in Nat /\ Len(log) \in Nat
  OBVIOUS
<1>2. /\ longer \in Seq(SessionEvent) /\ Len(longer) = Len(log) + 1
      /\ \A i \in 1..Len(log) : longer[i] = log[i]
      /\ longer[Len(log) + 1] = event
  BY AppendProperties
<1>3. CommandsAfter(log, cut) = before
  BY <1>1 DEF CommandsAfter
<1>4. CommandsAfter(longer, cut) = after
  <2>1. ~(Len(longer) < first) /\ Len(longer) - first = n + 1
    BY <1>1, <1>2
  <2>2. CommandsAfter(longer, cut) = [i \in 1..(Len(longer) - first) |-> longer[first + i].command]
    BY <2>1 DEF CommandsAfter
  <2>3. QED
    BY <2>1, <2>2
<1>5. \A i \in 1..n : after[i] = before[i]
  <2>1. \A i \in 1..n : first + i \in 1..Len(log) /\ i \in 1..(n + 1)
    BY <1>1
  <2>2. QED
    BY <1>2, <2>1
<1>6. after[n + 1] = event.command
  <2>1. first + (n + 1) = Len(log) + 1 /\ n + 1 \in 1..(n + 1)
    BY <1>1
  <2>2. QED
    BY <1>2, <2>1
<1>7. /\ before \in Seq(values) /\ Len(before) = n
      /\ DOMAIN after = 1..(n + 1)
      /\ event.command \in values
  <2>1. \A i \in 1..n : before[i] \in values
    OBVIOUS
  <2>2. before = [i \in 1..n |-> before[i]] /\ DOMAIN after = 1..(n + 1) /\ event.command \in values
    OBVIOUS
  <2> HIDE DEF before, values, n, after
  <2>3. QED
    BY <1>1, <2>1, <2>2
<1>8. after \in Seq(values) /\ Len(after) = n + 1
  <2>1. \A i \in 1..(n + 1) : after[i] \in values
    <3>1. \A i \in 1..n : after[i] \in values
      BY <1>5
    <3>2. after[n + 1] \in values
      BY <1>6
    <3> HIDE DEF after, values, n
    <3>3. QED
      BY <1>1, <3>1, <3>2
  <2>2. after = [i \in 1..(n + 1) |-> after[i]]
    OBVIOUS
  <2> HIDE DEF after, values, n
  <2>3. QED
    BY <1>1, <2>1, <2>2
<1> HIDE DEF after, before, values, n, longer, first
<1>9. /\ Append(before, event.command) \in Seq(values) /\ Len(Append(before, event.command)) = n + 1
      /\ \A i \in 1..n : Append(before, event.command)[i] = before[i]
      /\ Append(before, event.command)[n + 1] = event.command
  BY <1>7, AppendProperties
<1>10. \A i \in 1..(n + 1) : after[i] = Append(before, event.command)[i]
  BY <1>1, <1>5, <1>6, <1>9
<1>11. after = Append(before, event.command)
  BY <1>8, <1>9, <1>10, SeqEqual
<1>12. QED
  BY <1>3, <1>4, <1>11 DEF longer

\* A Session that comes to exist has had no Command of its own.
LEMMA BornUnapplied ==
    ASSUME SessionInv, NEW s \in SessionIds, histories[s] = << >>,
           NEW log \in Seq(SessionEvent), Len(log) \in Nat \ {0}, NEW at \in Nat,
           Len(log) = IF at # 0 THEN at ELSE 1,
           histories' = [histories EXCEPT ![s] = log],
           prefix' = [prefix EXCEPT ![s] = at], receipts' = receipts
    PROVE  UNCHANGED <<Effects, AnswerSets>>
<1>1. /\ histories \in [SessionIds -> Seq(SessionEvent)] /\ prefix \in [SessionIds -> Nat]
      /\ prefix[s] = 0
  BY EmptySeq DEF SessionInv, TypeOK, Sizes
<1>2. Applied(s) = << >>
  BY <1>1 DEF Applied
<1>3. Applied(s)' = << >>
  <2>1. histories'[s] = log /\ prefix'[s] = at
    BY <1>1
  <2>2. CommandsAfter(log, at) = << >>
    BY NothingAfter
  <2>3. Applied(s)' = CommandsAfter(log, at)
    BY <2>1, AppliedIsAfter
  <2>4. QED
    BY <2>2, <2>3
<1>4. \A t \in SessionIds \ {s} : Applied(t)' = Applied(t)
  BY <1>1 DEF Applied
<1>5. Effects' = Effects
  BY <1>2, <1>3, <1>4 DEF Effects
<1>6. QED
  BY <1>5 DEF AnswerSets, AnswersOf

\* An accepted Command is applied after those before it.
LEMMA TookIsAccept ==
    ASSUME NEW s, NEW c, Pending(s, c), Took(s, c)
    PROVE  Authority!Accept(s, c)
<1>1. PICK event : Proper(s, c, event) /\ Accept(s, c, event)
  BY DEF Took
<1> DEFINE log == histories[s]
           longer == Append(log, event)
           receipt == [request |-> c, sequence |-> Len(log) + 1]
<1>2. /\ histories' = [histories EXCEPT ![s] = longer]
      /\ receipts' = [receipts EXCEPT ![s] = @ \cup {receipt}]
      /\ prefix' = prefix
      /\ \A r \in receipts[s] : r.request # c /\ r.request.id # c.id
  BY <1>1 DEF Accept, Took, Current, New
<1>3. /\ s \in SessionIds /\ log \in Seq(SessionEvent) /\ Len(log) \in Nat \ {0}
      /\ event \in SessionEvent /\ event.command = c.id
      /\ histories \in [SessionIds -> Seq(SessionEvent)] /\ prefix \in [SessionIds -> Nat]
      /\ receipts \in [SessionIds -> SUBSET [request : Request, sequence : Nat]]
      /\ prefix[s] <= Len(log)
  BY <1>1, PendingFacts DEF Pending, Proper, SessionInv, TypeOK, Sizes
<1>4. Applied(s)' = Append(Applied(s), c.id)
  <2>1. histories'[s] = longer /\ prefix'[s] = prefix[s] /\ prefix[s] \in Nat
    BY <1>2, <1>3
  <2>2. CommandsAfter(longer, prefix[s]) = Append(CommandsAfter(log, prefix[s]), event.command)
    BY <1>3, <2>1, OneMoreAfter
  <2>3. Applied(s)' = CommandsAfter(longer, prefix[s]) /\ Applied(s) = CommandsAfter(log, prefix[s])
    BY <2>1, AppliedIsAfter
  <2>4. QED
    BY <1>3, <2>2, <2>3
<1>5. Effects' = [Effects EXCEPT ![s] = Append(@, c.id)]
  <2>1. \A t \in SessionIds \ {s} : Applied(t)' = Applied(t)
    BY <1>2, <1>3 DEF Applied
  <2>2. QED
    BY <1>3, <1>4, <2>1 DEF Effects
<1>6. AnswerSets' = [AnswerSets EXCEPT ![s] = @ \cup {[request |-> c, accepted |-> TRUE]}]
  <2>1. AnswersOf(s)' = AnswersOf(s) \cup {[request |-> c, accepted |-> TRUE]}
    <3>1. receipts'[s] = receipts[s] \cup {receipt} /\ (receipt.sequence # 0) = TRUE /\ receipt.request = c
      BY <1>2, <1>3
    <3>2. QED
      BY <3>1 DEF AnswersOf
  <2>2. \A t \in SessionIds \ {s} : AnswersOf(t)' = AnswersOf(t)
    BY <1>2, <1>3 DEF AnswersOf
  <2>3. QED
    BY <1>3, <2>1, <2>2 DEF AnswerSets
<1>7. \A a \in AnswerSets[s] : a.request # c /\ a.request.id # c.id
  BY <1>2, <1>3 DEF AnswerSets, AnswersOf
<1>8. QED
  BY <1>5, <1>6, <1>7 DEF Authority!Accept, Authority!Unanswered, Effects, AnswerSets, AnswersOf

LEMMA RefusedIsRefuse ==
    ASSUME NEW s, NEW c, Pending(s, c), Refused(s, c)
    PROVE  Authority!Refuse(s, c)
<1> DEFINE receipt == [request |-> c, sequence |-> 0]
<1>1. /\ receipts' = [receipts EXCEPT ![s] = @ \cup {receipt}]
      /\ histories' = histories /\ prefix' = prefix
      /\ \A r \in receipts[s] : r.request # c
      /\ s \in SessionIds /\ receipts \in [SessionIds -> SUBSET [request : Request, sequence : Nat]]
  BY DEF Refused, Refuse, New, Pending, SessionInv, TypeOK
<1>2. Effects' = Effects
  BY <1>1 DEF Effects, Applied
<1>3. AnswerSets' = [AnswerSets EXCEPT ![s] = @ \cup {[request |-> c, accepted |-> FALSE]}]
  <2>1. AnswersOf(s)' = AnswersOf(s) \cup {[request |-> c, accepted |-> FALSE]}
    <3>1. receipts'[s] = receipts[s] \cup {receipt} /\ (receipt.sequence # 0) = FALSE /\ receipt.request = c
      BY <1>1
    <3>2. QED
      BY <3>1 DEF AnswersOf
  <2>2. \A t \in SessionIds \ {s} : AnswersOf(t)' = AnswersOf(t)
    BY <1>1 DEF AnswersOf
  <2>3. QED
    BY <1>1, <2>1, <2>2 DEF AnswerSets
<1>4. \A a \in AnswerSets[s] : a.request # c
  BY <1>1 DEF AnswerSets, AnswersOf
<1>5. QED
  BY <1>2, <1>3, <1>4 DEF Authority!Refuse, Authority!Unanswered, Effects, AnswerSets, AnswersOf

\* Session Authority implements ExactlyOnce: whatever is repeated, reordered or asked of
\* a fork, a request has one answer and a command id one effect (apply_command).
THEOREM SessionImplementsExactlyOnce == Spec => ImplementsExactlyOnce
<1>1. Init => Authority!Init
  <2>1. SUFFICES ASSUME Init PROVE Authority!Init
    OBVIOUS
  <2>2. \A s \in SessionIds : histories[s] = << >> /\ prefix[s] = 0 /\ receipts[s] = {}
    BY <2>1 DEF Init
  <2>3. \A s \in SessionIds : Applied(s) = << >> /\ AnswersOf(s) = {}
    BY <2>2, EmptySeq DEF Applied, AnswersOf
  <2>4. QED
    BY <2>3 DEF Authority!Init, AnswersOf
<1>2. SessionInv /\ [Next]_vars => [Authority!Next]_<<Effects, AnswerSets>>
  <2>1. SUFFICES ASSUME SessionInv, [Next]_vars PROVE [Authority!Next]_<<Effects, AnswerSets>>
    OBVIOUS
  <2>2. ASSUME NEW s \in SessionIds, NEW m \in {"live", "simulation"}, NEW cast \in Casts,
               Create(s, m, cast)
        PROVE  UNCHANGED <<Effects, AnswerSets>>
    <3> DEFINE log == <<Genesis(cast)>>
    <3>1. log \in Seq(SessionEvent) /\ Len(log) = 1
      BY CastsAssumption, GenesisIsGood
    <3>2. prefix' = [prefix EXCEPT ![s] = 0] /\ histories[s] = << >>
      BY <2>1, <2>2, EmptySeq DEF Create, SessionInv, TypeOK, Sizes
    <3>3. histories' = [histories EXCEPT ![s] = log] /\ receipts' = receipts /\ 0 \in Nat
      BY <2>2 DEF Create
    <3> HIDE DEF log
    <3>4. Len(log) \in Nat \ {0} /\ Len(log) = IF 0 # 0 THEN 0 ELSE 1
      BY <3>1
    <3>5. QED
      BY <2>1, <3>1, <3>2, <3>3, <3>4, BornUnapplied
  <2>3. ASSUME NEW s \in SessionIds, NEW source \in SessionIds,
               NEW at \in 1..Len(histories[source]), Fork(source, s, at)
        PROVE  UNCHANGED <<Effects, AnswerSets>>
    <3>1. /\ SubSeq(histories[source], 1, at) \in Seq(SessionEvent)
          /\ Len(SubSeq(histories[source], 1, at)) = at /\ at \in Nat \ {0}
      BY <2>1, PrefixIsGood DEF SessionInv, TypeOK
    <3>2. QED
      BY <2>1, <2>3, <3>1, BornUnapplied DEF Fork
  <2>4. ASSUME NEW s \in SessionIds, NEW request \in Requests,
               NEW revision \in 1..Len(histories[s]), Apply(s, At(request, revision))
        PROVE  Authority!Next
    <3> DEFINE c == At(request, revision)
    <3>1. Pending(s, c)
      BY <2>1, DeliveredIsPending
    <3>2. c \in Sent
      <4>1. Len(histories[s]) \in Nat /\ Len(histories[s]) <= MaxSequence
        BY <2>1 DEF SessionInv, TypeOK, Sizes
      <4>2. revision \in 1..MaxSequence
        BY <4>1, BoundsAssumption
      <4>3. QED
        BY <4>2 DEF Sent
    <3> HIDE DEF c
    <3>3. Authority!Accept(s, c) \/ Authority!Refuse(s, c)
      BY <2>4, <3>1, ApplyCases, TookIsAccept, RefusedIsRefuse DEF c
    <3>4. QED
      BY <3>2, <3>3 DEF Authority!Next, Sent
  <2>5. ASSUME UNCHANGED vars PROVE UNCHANGED <<Effects, AnswerSets>>
    BY <2>5 DEF vars, Effects, AnswerSets, AnswersOf, Applied
  <2>6. QED
    BY <2>1, <2>2, <2>3, <2>4, <2>5 DEF Next
<1>3. QED
  BY <1>1, <1>2, SpecSession, PTL DEF Spec, ImplementsExactlyOnce, Authority!Spec, Effects, AnswerSets, AnswersOf

-----------------------------------------------------------------------------
(* What a trace says up to one of its Events *)

\* _epistemic_state and _visible_dialogue of the first n Events of a trace.
Opened(es, n, actor) ==
    {es[i].call.args.item : i \in {j \in 1..n :
        /\ es[j].call # None /\ es[j].actor = actor
        /\ es[j].call.tool = "inspect_evidence" /\ es[j].accepted}}
Told(es, n) ==
    {es[i].call.args.item : i \in {j \in 1..n :
        es[j].call # None /\ es[j].type = "evidence-shared" /\ es[j].accepted}}
Heard(es, n, actor) ==
    {j \in 1..n : es[j].type \in Dialogue /\ {"public", actor} \cap es[j].visibility # {}}
Taken(es, n, actor) == {j \in 1..n : es[j].call # None /\ es[j].actor = actor}

\* The projection of a role at a Session revision, after so many Events.
View(log, revision, es, n, actor) ==
    [game |-> Snapshot(SubSeq(log, 1, revision), actor),
     inspected |-> IF actor = Host THEN {} ELSE Opened(es, n, actor),
     shared |-> IF actor = Host THEN {} ELSE Told(es, n) \ Opened(es, n, actor),
     dialogue |-> Heard(es, n, actor),
     prior |-> Cardinality(Taken(es, n, actor))]

-----------------------------------------------------------------------------
(* The inductive invariant *)

\* Only the first event seats anybody, and what is told has been revealed.
GameHolds(log) ==
    /\ IsLog(log) /\ log # << >>
    /\ log[1].bindings = Cast
    /\ \A n \in 2..Len(log) : log[n].bindings = NoBindings
    /\ PhaseOf(log) \in Phases
    /\ \A n \in 1..Len(log) : \A grant \in log[n].grants : Revealed(PhaseOf(log), grant)

\* The Session Events the arena has accounted for: a submission waits for its recording.
Accounted == IF submitted = << >> THEN Len(Here) ELSE Len(Here) - 1

\* A share is of what the sharer opened, evidence opened had been disclosed, and
\* a resolution cites what its submitter opened or was told.
ShareFits(es, n, event) ==
    event.type = "evidence-shared" =>
        /\ event.call # None
        /\ event.call.tool = "share_evidence" /\ event.accepted
        /\ event.call.args.item \in Opened(es, n, event.actor)

InspectionFits(log, event) ==
    event.call.tool = "inspect_evidence" /\ event.accepted =>
        /\ event.actor # Host
        /\ event.call.args.item \in DisclosedTo(log, SeatFor(event.actor))

Made(runtime) == {n \in DOMAIN runtime : runtime[n].type = "resolution-submitted"}

ResolutionFits(es, n, event) ==
    event.call.tool = "submit_resolution" /\ event.accepted =>
        /\ event.call.cited # {}
        /\ event.call.cited \subseteq Opened(es, n, event.actor) \cup Told(es, n)
        /\ Cardinality(Made(event.runtime)) = 1
        /\ \A k \in Made(event.runtime) :
              ProofPaths[PathNamed(event.runtime[k].item)].resources \subseteq event.call.cited

\* A call saw the Session at a revision, and caused the next events of it.
CallFits(log, last, es, i) ==
    /\ es[i].actor \in Roles
    /\ IsLog(es[i].runtime)
    /\ es[i].before \in 1..last /\ es[i].before + Len(es[i].runtime) <= last
    /\ es[i].observation = View(log, es[i].before, es, i - 1, es[i].actor)
    /\ InspectionFits(log, es[i])
    /\ ResolutionFits(es, i - 1, es[i])

EventFits(log, last, es, i) ==
    /\ VisibilityHolds(es[i])
    /\ \A k \in DOMAIN es[i].runtime :
          es[i].before + k \in 1..last /\ log[es[i].before + k] = es[i].runtime[k]
    /\ ShareFits(es, i - 1, es[i])
    /\ es[i].call # None => CallFits(log, last, es, i)

\* The calls caused, one after the other, every Session Event after the first.
Covers(es, n) ==
    \E i \in 1..Len(es) :
        es[i].call # None /\ n \in (es[i].before + 1)..(es[i].before + Len(es[i].runtime))
Tiles(last, es) ==
    /\ \A n \in 2..last : Covers(es, n)
    /\ \A i, j \in 1..Len(es) : i < j /\ es[i].call # None /\ es[j].call # None =>
          es[i].before + Len(es[i].runtime) <= es[j].before

TraceHolds(log, last, es) ==
    /\ IsLog(es)
    /\ \A i \in 1..Len(es) : EventFits(log, last, es, i)
    /\ Tiles(last, es)

\* A resource was opened by a role to whose seat it was disclosed in time, and the
\* role is the submitter or it was shared.
Earned(es, submission, resource) ==
    \E seat \in Seats :
        /\ resource \in Opened(es, Len(es), ActorOf(seat))
        /\ seat = submission.seat \/ resource \in Told(es, Len(es))
        /\ \E reveal \in Reveals : /\ reveal.seat = seat /\ reveal.resource = resource
                                  /\ reveal.phase <= submission.phase

SubmissionEarned(es, submission) ==
    /\ submission.type = "resolution-submitted"
    /\ \A resource \in ProofPaths[PathNamed(submission.item)].resources : Earned(es, submission, resource)

\* The call that waits for its recording.
PendingHolds ==
    /\ ended = None /\ Active \in Roles /\ Len(Here) >= 2
    /\ submitted[1].call \in Calls /\ submitted[1].call.tool = "submit_resolution"
    /\ submitted[1].call.cited # {} /\ submitted[1].call.cited \subseteq Available(Active)
    /\ submitted[1].seen = View(Here, Len(Here) - 1, events, Len(events), Active)
    /\ SubmissionEarned(events, Here[Len(Here)])
    /\ ProofPaths[PathNamed(Here[Len(Here)].item)].resources \subseteq submitted[1].call.cited

UnresolvedTo(log, n) == \A i \in 1..n : log[i].type # "resolution-recorded"

\* The last event records the submission before it, and how the episode ended.
ResolutionHolds(log, es) ==
    LET resolution == log[Len(log)]
        submission == log[Len(log) - 1]
    IN /\ Len(log) >= 2 /\ UnresolvedTo(log, Len(log) - 1)
       /\ resolution.type = "resolution-recorded" /\ resolution.submission = Len(log) - 1
       /\ SubmissionEarned(es, submission)
       /\ IF submission.item \in Correct
          THEN resolution.item = "correct" /\ ended = "accepted_resolution"
          ELSE resolution.item = "incorrect" /\ ended = "incorrect_resolution"

Resolved == ended \in {"accepted_resolution", "incorrect_resolution"}

IInv ==
    /\ DOMAIN histories = SessionIds
    /\ GameHolds(Here)
    /\ TraceHolds(Here, Accounted, events)
    /\ ended \in {None} \cup Reasons
    /\ submitted # << >> => PendingHolds
    /\ IF Resolved THEN ResolutionHolds(Here, events) ELSE UnresolvedTo(Here, Len(Here))

-----------------------------------------------------------------------------
(* Traces *)

\* A log goes on as another.
Extends(log, longer) ==
    /\ IsLog(log) /\ IsLog(longer) /\ Len(log) <= Len(longer)
    /\ \A i \in 1..Len(log) : longer[i] = log[i]

LEMMA ExtendsItself ==
    ASSUME NEW log, IsLog(log)
    PROVE  Extends(log, log)
BY LogFacts DEF Extends

LEMMA AppendExtends ==
    ASSUME NEW log, IsLog(log), NEW event
    PROVE  Extends(log, Append(log, event))
BY LogFacts, LongerLog DEF Extends

LEMMA SamePrefix ==
    ASSUME NEW log, NEW longer, Extends(log, longer), NEW n \in 0..Len(log)
    PROVE  SubSeq(longer, 1, n) = SubSeq(log, 1, n)
<1>1. IsLog(log) /\ IsLog(longer) /\ Len(log) \in Nat /\ Len(longer) \in Nat /\ n \in 0..Len(longer)
      /\ \A i \in 1..n : longer[i] = log[i]
  BY LogFacts DEF Extends
<1>2. /\ IsLog(SubSeq(log, 1, n)) /\ Len(SubSeq(log, 1, n)) = n
      /\ \A i \in 1..n : SubSeq(log, 1, n)[i] = log[i]
  BY <1>1, PrefixLog
<1>3. /\ IsLog(SubSeq(longer, 1, n)) /\ Len(SubSeq(longer, 1, n)) = n
      /\ \A i \in 1..n : SubSeq(longer, 1, n)[i] = longer[i]
  BY <1>1, PrefixLog
<1>4. QED
  BY <1>1, <1>2, <1>3, SameLog

\* What was disclosed stays so.
LEMMA MoreDisclosed ==
    ASSUME NEW log, NEW longer, Extends(log, longer), NEW seat
    PROVE  DisclosedTo(log, seat) \subseteq DisclosedTo(longer, seat)
<1>1. \A i \in DOMAIN log : i \in DOMAIN longer /\ longer[i] = log[i]
  <2>1. DOMAIN log = 1..Len(log) /\ DOMAIN longer = 1..Len(longer) /\ Len(log) <= Len(longer)
        /\ Len(log) \in Nat /\ Len(longer) \in Nat
    BY LogFacts DEF Extends
  <2>2. QED
    BY <2>1 DEF Extends
<1>2. UNION {log[i].grants : i \in DOMAIN log} \subseteq UNION {longer[i].grants : i \in DOMAIN longer}
  BY <1>1
<1>3. QED
  BY <1>2 DEF DisclosedTo

\* The past of an Event is what it was.
LEMMA SamePast ==
    ASSUME NEW es, NEW fs, NEW n \in Nat, \A i \in 1..n : fs[i] = es[i], NEW actor
    PROVE  /\ Opened(fs, n, actor) = Opened(es, n, actor)
           /\ Told(fs, n) = Told(es, n)
           /\ Heard(fs, n, actor) = Heard(es, n, actor)
           /\ Taken(fs, n, actor) = Taken(es, n, actor)
<1>1. {j \in 1..n : /\ fs[j].call # None /\ fs[j].actor = actor
                   /\ fs[j].call.tool = "inspect_evidence" /\ fs[j].accepted}
        = {j \in 1..n : /\ es[j].call # None /\ es[j].actor = actor
                       /\ es[j].call.tool = "inspect_evidence" /\ es[j].accepted}
  OBVIOUS
<1>2. Opened(fs, n, actor) = Opened(es, n, actor)
  BY <1>1 DEF Opened
<1>3. {j \in 1..n : fs[j].call # None /\ fs[j].type = "evidence-shared" /\ fs[j].accepted}
        = {j \in 1..n : es[j].call # None /\ es[j].type = "evidence-shared" /\ es[j].accepted}
  OBVIOUS
<1>4. Told(fs, n) = Told(es, n)
  BY <1>3 DEF Told
<1>5. Heard(fs, n, actor) = Heard(es, n, actor)
  BY DEF Heard
<1>6. Taken(fs, n, actor) = Taken(es, n, actor)
  BY DEF Taken
<1>7. QED
  BY <1>2, <1>4, <1>5, <1>6

LEMMA SameView ==
    ASSUME NEW log, NEW longer, Extends(log, longer), NEW revision \in 0..Len(log),
           NEW es, NEW fs, NEW n \in Nat, \A i \in 1..n : fs[i] = es[i], NEW actor
    PROVE  View(longer, revision, fs, n, actor) = View(log, revision, es, n, actor)
<1>1. SubSeq(longer, 1, revision) = SubSeq(log, 1, revision)
  BY SamePrefix
<1>2. /\ Opened(fs, n, actor) = Opened(es, n, actor) /\ Told(fs, n) = Told(es, n)
      /\ Heard(fs, n, actor) = Heard(es, n, actor) /\ Taken(fs, n, actor) = Taken(es, n, actor)
  BY SamePast
<1>3. QED
  BY <1>1, <1>2 DEF View

\* More is opened and told as a trace goes on.
LEMMA MorePast ==
    ASSUME NEW es, NEW fs, Extends(es, fs), NEW actor
    PROVE  /\ Opened(es, Len(es), actor) \subseteq Opened(fs, Len(fs), actor)
           /\ Told(es, Len(es)) \subseteq Told(fs, Len(fs))
<1>1. \A i \in 1..Len(es) : i \in 1..Len(fs) /\ fs[i] = es[i]
  <2>1. Len(es) \in Nat /\ Len(fs) \in Nat /\ Len(es) <= Len(fs)
    BY LogFacts DEF Extends
  <2>2. QED
    BY <2>1 DEF Extends
<1>2. {j \in 1..Len(es) : /\ es[j].call # None /\ es[j].actor = actor
                         /\ es[j].call.tool = "inspect_evidence" /\ es[j].accepted}
        \subseteq {j \in 1..Len(fs) : /\ fs[j].call # None /\ fs[j].actor = actor
                                     /\ fs[j].call.tool = "inspect_evidence" /\ fs[j].accepted}
  BY <1>1
<1>3. Opened(es, Len(es), actor) \subseteq Opened(fs, Len(fs), actor)
  BY <1>1, <1>2 DEF Opened
<1>4. {j \in 1..Len(es) : es[j].call # None /\ es[j].type = "evidence-shared" /\ es[j].accepted}
        \subseteq {j \in 1..Len(fs) : fs[j].call # None /\ fs[j].type = "evidence-shared" /\ fs[j].accepted}
  BY <1>1
<1>5. Told(es, Len(es)) \subseteq Told(fs, Len(fs))
  BY <1>1, <1>4 DEF Told
<1>6. QED
  BY <1>3, <1>5

\* An Event that fitted still fits when Session and trace have gone on.
LEMMA StillFits ==
    ASSUME NEW log, NEW longer, Extends(log, longer),
           NEW last \in 0..Len(log), NEW later \in last..Len(longer),
           NEW es, NEW fs, Extends(es, fs),
           NEW i \in 1..Len(es), EventFits(log, last, es, i)
    PROVE  EventFits(longer, later, fs, i)
<1>1. /\ Len(log) \in Nat /\ Len(longer) \in Nat /\ Len(log) <= Len(longer)
      /\ \A n \in 1..Len(log) : longer[n] = log[n]
      /\ Len(es) \in Nat /\ i - 1 \in Nat /\ fs[i] = es[i]
      /\ \A j \in 1..(i - 1) : fs[j] = es[j]
  BY LogFacts DEF Extends
<1>2. Opened(fs, i - 1, es[i].actor) = Opened(es, i - 1, es[i].actor) /\ Told(fs, i - 1) = Told(es, i - 1)
  <2>1. i - 1 \in Nat /\ \A j \in 1..(i - 1) : fs[j] = es[j]
    BY <1>1
  <2>2. QED
    BY <2>1, SamePast
<1>3. VisibilityHolds(fs[i])
  BY <1>1 DEF EventFits
<1>4. ASSUME NEW k \in DOMAIN fs[i].runtime
      PROVE  fs[i].before + k \in 1..later /\ longer[fs[i].before + k] = fs[i].runtime[k]
  <2>1. es[i].before + k \in 1..last /\ log[es[i].before + k] = es[i].runtime[k]
    BY <1>1 DEF EventFits
  <2>2. es[i].before + k \in 1..Len(log) /\ es[i].before + k \in 1..later
    BY <1>1, <2>1
  <2>3. QED
    BY <1>1, <2>1, <2>2
<1>5. ShareFits(fs, i - 1, fs[i])
  BY <1>1, <1>2 DEF EventFits, ShareFits
<1>6. ASSUME fs[i].call # None
      PROVE  CallFits(longer, later, fs, i)
  <2>1. CallFits(log, last, es, i)
    BY <1>1, <1>6 DEF EventFits
  <2>2. /\ es[i].actor \in Roles /\ IsLog(es[i].runtime) /\ Len(es[i].runtime) \in Nat
        /\ es[i].before \in 1..last /\ es[i].before + Len(es[i].runtime) <= last
        /\ es[i].observation = View(log, es[i].before, es, i - 1, es[i].actor)
    BY <2>1, LogFacts DEF CallFits
  <2>3. es[i].before \in 1..later /\ es[i].before + Len(es[i].runtime) <= later /\ es[i].before \in 0..Len(log)
    BY <1>1, <2>2
  <2>4. View(longer, es[i].before, fs, i - 1, es[i].actor) = View(log, es[i].before, es, i - 1, es[i].actor)
    <3>1. i - 1 \in Nat /\ \A j \in 1..(i - 1) : fs[j] = es[j]
      BY <1>1
    <3>2. es[i].before \in 0..Len(log)
      BY <2>3
    <3> DEFINE n == i - 1  revision == es[i].before  actor == es[i].actor
    <3>3. n \in Nat /\ (\A j \in 1..n : fs[j] = es[j]) /\ revision \in 0..Len(log) /\ Extends(log, longer)
      BY <3>1, <3>2
    <3> HIDE DEF n, revision, actor
    <3>4. View(longer, revision, fs, n, actor) = View(log, revision, es, n, actor)
      BY <3>3, SameView
    <3>5. QED
      BY <3>4 DEF n, revision, actor
  <2>5. InspectionFits(longer, fs[i])
    BY <1>1, <2>1, MoreDisclosed DEF CallFits, InspectionFits
  <2>6. ResolutionFits(fs, i - 1, fs[i])
    BY <1>1, <1>2, <2>1 DEF CallFits, ResolutionFits
  <2>7. QED
    BY <1>1, <2>2, <2>3, <2>4, <2>5, <2>6 DEF CallFits
<1>7. QED
  BY <1>3, <1>4, <1>5, <1>6 DEF EventFits

\* The next Event of a trace: a call that caused the Session Events since the last.
LEMMA CallTraced ==
    ASSUME NEW log, NEW longer, Extends(log, longer), NEW last \in 1..Len(log),
           NEW es, TraceHolds(log, last, es), NEW event, event.call # None,
           event.before = last, Len(event.runtime) = Len(longer) - last,
           EventFits(longer, Len(longer), Append(es, event), Len(es) + 1)
    PROVE  TraceHolds(longer, Len(longer), Append(es, event))
<1> DEFINE fs == Append(es, event)
<1>1. /\ IsLog(es) /\ Len(es) \in Nat /\ IsLog(fs) /\ Len(fs) = Len(es) + 1
      /\ (\A i \in 1..Len(es) : fs[i] = es[i]) /\ fs[Len(es) + 1] = event
      /\ Extends(es, fs)
  BY LogFacts, LongerLog, AppendExtends DEF TraceHolds
<1>2. /\ Len(log) \in Nat /\ Len(longer) \in Nat /\ Len(log) <= Len(longer)
      /\ last \in 0..Len(log) /\ Len(longer) \in last..Len(longer)
  BY LogFacts DEF Extends
<1>3. EventFits(longer, Len(longer), fs, Len(es) + 1)
  OBVIOUS
<1> HIDE DEF fs
<1>4. \A i \in 1..Len(fs) : EventFits(longer, Len(longer), fs, i)
  <2>1. \A i \in 1..Len(es) : EventFits(longer, Len(longer), fs, i)
    <3>1. \A i \in 1..Len(es) : EventFits(log, last, es, i)
      BY DEF TraceHolds
    <3>2. QED
      BY <1>1, <1>2, <3>1, StillFits
  <2>2. \A i \in 1..Len(fs) : i \in 1..Len(es) \/ i = Len(es) + 1
    BY <1>1
  <2>3. QED
    BY <1>3, <2>1, <2>2
<1>5. ASSUME NEW n \in 2..Len(longer)
      PROVE  Covers(fs, n)
  <2>1. CASE n <= last
    <3>1. n \in 2..last
      BY <1>2, <2>1
    <3>2. Covers(es, n)
      BY <3>1 DEF TraceHolds, Tiles
    <3>3. PICK i \in 1..Len(es) : es[i].call # None /\ n \in (es[i].before + 1)..(es[i].before + Len(es[i].runtime))
      BY <3>2 DEF Covers
    <3>4. i \in 1..Len(fs) /\ fs[i] = es[i]
      BY <1>1
    <3>5. QED
      BY <3>3, <3>4 DEF Covers
  <2>2. CASE n > last
    <3>1. n \in (event.before + 1)..(event.before + Len(event.runtime))
      BY <1>2, <2>2
    <3>2. Len(es) + 1 \in 1..Len(fs)
      BY <1>1
    <3>3. QED
      BY <1>1, <3>1, <3>2 DEF Covers
  <2>3. QED
    BY <1>2, <2>1, <2>2
<1>6. ASSUME NEW i \in 1..Len(fs), NEW j \in 1..Len(fs), i < j, fs[i].call # None, fs[j].call # None
      PROVE  fs[i].before + Len(fs[i].runtime) <= fs[j].before
  <2>1. i \in 1..Len(es) /\ fs[i] = es[i]
    BY <1>1, <1>6
  <2>2. CASE j <= Len(es)
    <3>1. j \in 1..Len(es) /\ fs[j] = es[j]
      BY <1>1, <2>2
    <3>2. QED
      BY <1>6, <2>1, <3>1 DEF TraceHolds, Tiles
  <2>3. CASE j = Len(es) + 1
    <3>1. fs[j].before = last
      BY <1>1, <2>3
    <3>2. EventFits(log, last, es, i)
      BY <2>1 DEF TraceHolds
    <3>3. es[i].before + Len(es[i].runtime) <= last
      BY <1>6, <2>1, <3>2 DEF EventFits, CallFits
    <3>4. QED
      BY <2>1, <3>1, <3>3
  <2>4. QED
    BY <1>1, <2>2, <2>3
<1>7. Tiles(Len(longer), fs)
  BY <1>5, <1>6 DEF Tiles
<1>8. TraceHolds(longer, Len(longer), fs)
  BY <1>1, <1>4, <1>7 DEF TraceHolds
<1>9. QED
  BY <1>8 DEF fs

\* An Event of the environment's own.
LEMMA SystemTraced ==
    ASSUME NEW log, IsLog(log), NEW last \in 0..Len(log), NEW es, TraceHolds(log, last, es),
           NEW type \in {"episode-reset", "episode-terminated"}, NEW visibility
    PROVE  TraceHolds(log, last, Append(es, System(type, visibility)))
<1> DEFINE event == System(type, visibility)
           fs == Append(es, event)
<1>1. /\ IsLog(es) /\ Len(es) \in Nat /\ IsLog(fs) /\ Len(fs) = Len(es) + 1
      /\ (\A i \in 1..Len(es) : fs[i] = es[i]) /\ fs[Len(es) + 1] = event
      /\ Extends(es, fs)
  BY LogFacts, LongerLog, AppendExtends DEF TraceHolds
<1>2. /\ event.call = None /\ event.type = type /\ event.runtime = << >>
  BY DEF System, ArenaEvent
<1>3. Len(log) \in Nat /\ last \in last..Len(log) /\ Extends(log, log)
  BY LogFacts, ExtendsItself
<1> HIDE DEF event, fs
<1>4. EventFits(log, last, fs, Len(es) + 1)
  <2>1. DOMAIN event.runtime = {}
    BY <1>2
  <2>2. VisibilityHolds(event)
    BY <1>2 DEF VisibilityHolds
  <2>3. ShareFits(fs, (Len(es) + 1) - 1, fs[Len(es) + 1])
    BY <1>1, <1>2 DEF ShareFits
  <2>4. QED
    BY <1>1, <1>2, <2>1, <2>2, <2>3 DEF EventFits
<1>5. \A i \in 1..Len(fs) : EventFits(log, last, fs, i)
  <2>1. \A i \in 1..Len(es) : EventFits(log, last, fs, i)
    <3>1. \A i \in 1..Len(es) : EventFits(log, last, es, i)
      BY DEF TraceHolds
    <3>2. QED
      BY <1>1, <1>3, <3>1, StillFits
  <2>2. \A i \in 1..Len(fs) : i \in 1..Len(es) \/ i = Len(es) + 1
    BY <1>1
  <2>3. QED
    BY <1>4, <2>1, <2>2
<1>6. ASSUME NEW n \in 2..last
      PROVE  Covers(fs, n)
  <2>1. PICK i \in 1..Len(es) : es[i].call # None /\ n \in (es[i].before + 1)..(es[i].before + Len(es[i].runtime))
    BY DEF TraceHolds, Tiles, Covers
  <2>2. i \in 1..Len(fs) /\ fs[i] = es[i]
    BY <1>1
  <2>3. QED
    BY <2>1, <2>2 DEF Covers
<1>7. ASSUME NEW i \in 1..Len(fs), NEW j \in 1..Len(fs), i < j, fs[i].call # None, fs[j].call # None
      PROVE  fs[i].before + Len(fs[i].runtime) <= fs[j].before
  <2>1. i # Len(es) + 1 /\ j # Len(es) + 1
    BY <1>1, <1>2, <1>7
  <2>2. i \in 1..Len(es) /\ j \in 1..Len(es) /\ fs[i] = es[i] /\ fs[j] = es[j]
    BY <1>1, <2>1
  <2>3. QED
    BY <1>7, <2>2 DEF TraceHolds, Tiles
<1>8. TraceHolds(log, last, fs)
  BY <1>1, <1>5, <1>6, <1>7 DEF TraceHolds, Tiles
<1>9. QED
  BY <1>8 DEF fs, event

-----------------------------------------------------------------------------
(* The Session of the episode *)

\* What apply_command makes sure of before it appends an event that seats nobody.
Fitting(log, event) ==
    /\ event.phase \in Phases /\ PhaseOf(log) <= event.phase
    /\ event.bindings = NoBindings
    /\ \A grant \in event.grants : Revealed(event.phase, grant)

LEMMA GameGrows ==
    ASSUME NEW log, GameHolds(log), NEW event, Fitting(log, event)
    PROVE  GameHolds(Append(log, event))
<1> DEFINE longer == Append(log, event)
<1>1. /\ IsLog(log) /\ Len(log) \in Nat /\ Len(log) >= 1
      /\ IsLog(longer) /\ longer # << >> /\ Len(longer) = Len(log) + 1
      /\ (\A i \in 1..Len(log) : longer[i] = log[i]) /\ longer[Len(log) + 1] = event
  BY LogFacts, LongerLog DEF GameHolds
<1> HIDE DEF longer
<1>2. longer[1].bindings = Cast
  BY <1>1 DEF GameHolds
<1>3. \A n \in 2..Len(longer) : longer[n].bindings = NoBindings
  <2>1. SUFFICES ASSUME NEW n \in 2..Len(longer) PROVE longer[n].bindings = NoBindings
    OBVIOUS
  <2>2. CASE n <= Len(log)
    BY <1>1, <2>2 DEF GameHolds
  <2>3. CASE n = Len(log) + 1
    BY <1>1, <2>3 DEF Fitting
  <2>4. QED
    BY <1>1, <2>2, <2>3
<1>4. PhaseOf(longer) = event.phase
  BY <1>1 DEF PhaseOf
<1>5. ASSUME NEW n \in 1..Len(longer), NEW grant \in longer[n].grants
      PROVE  Revealed(event.phase, grant)
  <2>1. CASE n <= Len(log)
    <3>1. n \in 1..Len(log) /\ grant \in log[n].grants
      BY <1>1, <1>5, <2>1
    <3>2. Revealed(PhaseOf(log), grant) /\ PhaseOf(log) \in Phases
      BY <3>1 DEF GameHolds
    <3>3. QED
      BY <3>2, RevealedLater DEF Fitting
  <2>2. CASE n = Len(log) + 1
    BY <1>1, <1>5, <2>2 DEF Fitting
  <2>3. QED
    BY <1>1, <2>1, <2>2
<1>6. event.phase \in Phases
  BY DEF Fitting
<1>7. GameHolds(longer)
  BY <1>1, <1>2, <1>3, <1>4, <1>5, <1>6 DEF GameHolds
<1>8. QED
  BY <1>7 DEF longer

\* The one place where a Command is answered.
LEMMA Answered ==
    ASSUME DOMAIN histories = SessionIds, NEW STATE c, NEW STATE allowed, NEW STATE event,
           Answer(Table, c, allowed, event), allowed => Fitting(Here, event)
    PROVE  /\ DOMAIN histories' = SessionIds
           /\ Here' = Here \/ (allowed /\ Fitting(Here, event) /\ Here' = Append(Here, event))
<1>1. CASE Accept(Table, c, event) /\ allowed
  <2>1. histories' = [histories EXCEPT ![Table] = Append(@, event)]
    BY <1>1 DEF Accept
  <2>2. QED
    BY <1>1, <2>1, TableAssumption DEF Here
<1>2. CASE Refuse(Table, c)
  BY <1>2 DEF Refuse, Here
<1>3. QED
  BY <1>1, <1>2 DEF Answer

\* A Command of a host or of a seat appends an event of its own kind, or none.
Kinds == {"session-opened", "hint-requested", "evidence-requested", "claim-shared", "phase-advanced",
          "resource-disclosed", "intervention-delivered", "character-state-updated"}
Adds(event) == Fitting(Here, event) /\ event.type \in Kinds /\ Here' = Append(Here, event)
Commands(c) ==
    \/ OpenSession(Table, c) \/ AdvancePhase(Table, c)
    \/ DiscloseResource(Table, c) \/ DeliverIntervention(Table, c)
    \/ RequestEvidence(Table, c) \/ RequestHint(Table, c)
    \/ ShareClaim(Table, c) \/ UpdateCharacterState(Table, c)

LEMMA SeatFitting ==
    ASSUME GameHolds(Here), NEW STATE c, NEW type, NEW STATE item
    PROVE  /\ Fitting(Here, SeatEvent(Table, c, type, item))
           /\ SeatEvent(Table, c, type, item).type = type
<1>1. PhaseOf(Here) \in Phases /\ PhaseOf(Here) \in Int
  BY PhasesAssumption DEF GameHolds
<1>2. QED
  BY <1>1 DEF SeatEvent, Event, Fitting, Phase, Here

LEMMA TableFitting ==
    ASSUME GameHolds(Here), NEW STATE c, NEW type, NEW STATE phase, phase \in Phases,
           Phase(Table) <= phase, NEW STATE item,
           NEW STATE grants, \A grant \in grants : Revealed(phase, grant)
    PROVE  /\ Fitting(Here, TableEvent(c, type, phase, item, grants))
           /\ TableEvent(c, type, phase, item, grants).type = type
BY DEF TableEvent, Event, Fitting, Phase, Here

LEMMA CommandsAnswered ==
    ASSUME DOMAIN histories = SessionIds, GameHolds(Here), NEW STATE c, Commands(c)
    PROVE  /\ DOMAIN histories' = SessionIds
           /\ Here' = Here \/ \E event : Adds(event)
<1>1. Phase(Table) \in Phases /\ Phase(Table) \in Int /\ Phase(Table) <= Phase(Table)
  BY PhasesAssumption DEF GameHolds, Phase, Here
<1>2. CASE OpenSession(Table, c)
  <2> DEFINE grants == {grant \in {[seat |-> r.seat, resource |-> r.resource] : r \in Reveals} :
                          Revealed(Min(Phases), grant)}
             event == TableEvent(c, "session-opened", Phase(Table), None, grants)
  <2>1. \A grant \in grants : Revealed(Phase(Table), grant)
    BY <1>1, Earliest, RevealedLater
  <2>2. Fitting(Here, event) /\ event.type = "session-opened"
    BY <1>1, <2>1, TableFitting
  <2>3. Answer(Table, c, ByHost(c) /\ Status(Table) = "created", event)
    BY <1>2 DEF OpenSession
  <2>4. QED
    BY <2>2, <2>3, Answered DEF Adds, Kinds
<1>3. CASE AdvancePhase(Table, c)
  <2> DEFINE allowed == HostWhileActive(Table, c) /\ c.args.phase \in Phases /\ c.args.phase = Phase(Table) + 1
             event == TableEvent(c, "phase-advanced", c.args.phase, None, {})
  <2>1. allowed => Fitting(Here, event) /\ event.type = "phase-advanced"
    <3>1. SUFFICES ASSUME allowed PROVE Fitting(Here, event) /\ event.type = "phase-advanced"
      OBVIOUS
    <3>2. c.args.phase \in Phases /\ Phase(Table) <= c.args.phase
      BY <1>1, <3>1
    <3>3. QED
      BY <3>2, TableFitting
  <2>2. Answer(Table, c, allowed, event)
    BY <1>3 DEF AdvancePhase
  <2>3. QED
    BY <2>1, <2>2, Answered DEF Adds, Kinds
<1>4. CASE DiscloseResource(Table, c)
  <2> DEFINE grants == Grants(c.args.seats, c.args.resources)
             allowed == HostWhileActive(Table, c) /\ AllRevealed(Table, grants)
             event == TableEvent(c, "resource-disclosed", Phase(Table), None, grants)
  <2>1. allowed => Fitting(Here, event) /\ event.type = "resource-disclosed"
    BY <1>1, TableFitting DEF AllRevealed
  <2>2. Answer(Table, c, allowed, event)
    BY <1>4 DEF DiscloseResource
  <2>3. QED
    BY <2>1, <2>2, Answered DEF Adds, Kinds
<1>5. CASE DeliverIntervention(Table, c)
  <2> DEFINE planned == Interventions[c.args.item]
             grants == Grants(c.args.seats, planned.resources)
             allowed == /\ HostWhileActive(Table, c)
                        /\ c.args.item \in DOMAIN Interventions
                        /\ planned.phase <= Phase(Table)
                        /\ AllRevealed(Table, grants)
             event == TableEvent(c, "intervention-delivered", Phase(Table), c.args.item, grants)
  <2>1. allowed => Fitting(Here, event) /\ event.type = "intervention-delivered"
    BY <1>1, TableFitting DEF AllRevealed
  <2>2. Answer(Table, c, allowed, event)
    BY <1>5 DEF DeliverIntervention
  <2>3. QED
    BY <2>1, <2>2, Answered DEF Adds, Kinds
<1>6. CASE RequestEvidence(Table, c)
  <2> DEFINE allowed == ActorWhileActive(Table, c) /\ c.args.item \in Resources
             event == SeatEvent(Table, c, "evidence-requested", c.args.item)
  <2>1. Fitting(Here, event) /\ event.type = "evidence-requested"
    BY SeatFitting
  <2>2. Answer(Table, c, allowed, event)
    BY <1>6 DEF RequestEvidence
  <2>3. QED
    BY <2>1, <2>2, Answered DEF Adds, Kinds
<1>7. CASE RequestHint(Table, c)
  <2> DEFINE event == SeatEvent(Table, c, "hint-requested", None)
  <2>1. Fitting(Here, event) /\ event.type = "hint-requested"
    BY SeatFitting
  <2>2. Answer(Table, c, ActorWhileActive(Table, c), event)
    BY <1>7 DEF RequestHint
  <2>3. QED
    BY <2>1, <2>2, Answered DEF Adds, Kinds
<1>8. CASE ShareClaim(Table, c)
  <2> DEFINE allowed == ActorWhileActive(Table, c) /\ c.args.item \in Propositions
             event == SeatEvent(Table, c, "claim-shared", c.args.item)
  <2>1. Fitting(Here, event) /\ event.type = "claim-shared"
    BY SeatFitting
  <2>2. Answer(Table, c, allowed, event)
    BY <1>8 DEF ShareClaim
  <2>3. QED
    BY <2>1, <2>2, Answered DEF Adds, Kinds
<1>9. CASE UpdateCharacterState(Table, c)
  <2> DEFINE allowed ==
                 /\ ActorWhileActive(Table, c)
                 /\ [seat |-> SeatOf(Table, c), phase |-> Phase(Table), move |-> c.args.item] \in Moves
             event == SeatEvent(Table, c, "character-state-updated", c.args.item)
  <2>1. Fitting(Here, event) /\ event.type = "character-state-updated"
    BY SeatFitting
  <2>2. Answer(Table, c, allowed, event)
    BY <1>9 DEF UpdateCharacterState
  <2>3. QED
    BY <2>1, <2>2, Answered DEF Adds, Kinds
<1>10. QED
  BY <1>2, <1>3, <1>4, <1>5, <1>6, <1>7, <1>8, <1>9 DEF Commands

\* The event at which a seat was taken is the first.
LEMMA SeatedAsCast ==
    ASSUME NEW log, GameHolds(log), NEW seat \in Seats
    PROVE  BindingOf(log, seat) = Cast[seat]
<1>1. /\ DOMAIN log = 1..Len(log) /\ Len(log) \in Nat /\ Len(log) >= 1
      /\ DOMAIN Cast = Seats /\ DOMAIN NoBindings = {}
  BY LogFacts, TableAssumption, CastsAssumption DEF GameHolds, NoBindings
<1>2. \A i \in DOMAIN log : seat \in DOMAIN log[i].bindings <=> i = 1
  <2>1. SUFFICES ASSUME NEW i \in 1..Len(log) PROVE seat \in DOMAIN log[i].bindings <=> i = 1
    BY <1>1
  <2>2. CASE i = 1
    BY <1>1, <2>2 DEF GameHolds
  <2>3. CASE i \in 2..Len(log)
    <3>1. log[i].bindings = NoBindings
      BY <2>3 DEF GameHolds
    <3>2. QED
      BY <1>1, <2>3, <3>1
  <2>4. QED
    BY <1>1, <2>2, <2>3
<1>3. SeatedAt(log, seat) = 1
  <2>1. 1 \in DOMAIN log
    BY <1>1
  <2>2. \A i \in DOMAIN log :
           (seat \in DOMAIN log[i].bindings /\ \A j \in DOMAIN log : seat \in DOMAIN log[j].bindings => j <= i)
             <=> i = 1
    BY <1>1, <1>2, <2>1
  <2>3. QED
    BY <2>1, <2>2 DEF SeatedAt
<1>4. QED
  BY <1>3 DEF BindingOf, GameHolds

\* A role is the host or has a seat, and only one.
LEMMA RolesFacts ==
    /\ \A actor \in Roles : actor = Host \/ \E seat \in Seats : ActorOf(seat) = actor
    /\ Host \in Roles
<1> DEFINE S == {Host} \cup {ActorOf(seat) : seat \in Seats}
           order == [i \in DOMAIN SeatOrder |-> ActorOf(SeatOrder[i])]
<1>1. Len(SeatOrder) \in Nat /\ DOMAIN SeatOrder = 1..Len(SeatOrder)
      /\ \A i \in DOMAIN SeatOrder : SeatOrder[i] \in Seats
  BY OrderAssumption, LenProperties, ElementOfSeq
<1>2. order \in [1..Len(SeatOrder) -> S]
  BY <1>1
<1>3. order \in Seq(S)
  BY <1>1, <1>2, SeqDef
<1>4. <<Host>> \in Seq(S) /\ Len(<<Host>>) = 1 /\ <<Host>>[1] = Host
  <2>1. Host \in S
    OBVIOUS
  <2> HIDE DEF S
  <2>2. QED
    BY <2>1
<1> HIDE DEF S, order
<1>5. /\ Schedule \in Seq(S)
      /\ Len(Schedule) = 1 + Len(order)
      /\ \A i \in 1..(1 + Len(order)) : Schedule[i] = IF i <= 1 THEN <<Host>>[i] ELSE order[i - 1]
  BY <1>3, <1>4, ConcatProperties DEF Schedule, order
<1>6. Len(order) \in Nat /\ DOMAIN Schedule = 1..(1 + Len(order))
  BY <1>3, <1>5, LenProperties
<1>7. \A i \in DOMAIN Schedule : Schedule[i] \in S
  BY <1>5, <1>6, ElementOfSeq
<1>8. Schedule[1] = Host /\ 1 \in DOMAIN Schedule
  BY <1>4, <1>5, <1>6
<1>9. Roles \subseteq S /\ Host \in Roles
  BY <1>7, <1>8 DEF Roles, ToSet
<1>10. QED
  BY <1>9 DEF S

LEMMA SeatForFacts ==
    ASSUME NEW actor \in Roles, actor # Host
    PROVE  SeatFor(actor) \in Seats /\ ActorOf(SeatFor(actor)) = actor
BY RolesFacts DEF SeatFor

LEMMA OnlySeat ==
    ASSUME NEW a \in Seats, NEW b \in Seats, ActorOf(a) = ActorOf(b)
    PROVE  a = b
BY TableAssumption DEF Different, ActorOf

\* The seat a Command of a role acts for is the role's.
LEMMA SeatOfRole ==
    ASSUME GameHolds(Here), NEW actor \in Roles, actor # Host, NEW STATE c,
           c.by = AuthorityOf(actor), SeatsOf(Here, c.by) # {}
    PROVE  SeatOf(Table, c) = SeatFor(actor)
<1>1. SeatFor(actor) \in Seats /\ ActorOf(SeatFor(actor)) = actor
  BY SeatForFacts
<1>2. c.by.principal = actor
  BY DEF AuthorityOf, Bound
<1>3. SeatOf(Table, c) \in SeatsOf(Here, c.by)
  BY DEF SeatOf, Here
<1>4. SeatOf(Table, c) \in Seats /\ BindingOf(Here, SeatOf(Table, c)).actor = actor
  BY <1>2, <1>3 DEF SeatsOf
<1>5. ActorOf(SeatOf(Table, c)) = actor
  BY <1>4, SeatedAsCast DEF ActorOf
<1>6. QED
  BY <1>1, <1>4, <1>5, OnlySeat

\* A submission, and what an accepted one means.
LEMMA SubmissionAnswered ==
    ASSUME DOMAIN histories = SessionIds, GameHolds(Here), NEW STATE c, SubmitResolution(Table, c)
    PROVE  LET event == SeatEvent(Table, c, "resolution-submitted", c.args.item)
           IN /\ DOMAIN histories' = SessionIds
              /\ \/ Here' = Here
                 \/ /\ SeatsOf(Here, c.by) # {} /\ c.args.item \in Answers
                    /\ Fitting(Here, event) /\ Here' = Append(Here, event)
<1> DEFINE event == SeatEvent(Table, c, "resolution-submitted", c.args.item)
           allowed == /\ ActorWhileActive(Table, c)
                      /\ Phase(Table) >= ResolutionPhase
                      /\ c.args.item \in Answers
<1>1. Fitting(Here, event)
  BY SeatFitting
<1>2. Answer(Table, c, allowed, event)
  BY DEF SubmitResolution
<1>3. allowed => SeatsOf(Here, c.by) # {} /\ c.args.item \in Answers
  BY DEF ActorWhileActive, Here
<1> HIDE DEF event, allowed
<1>4. /\ DOMAIN histories' = SessionIds
      /\ Here' = Here \/ (allowed /\ Fitting(Here, event) /\ Here' = Append(Here, event))
  BY <1>1, <1>2, Answered
<1>5. QED
  BY <1>3, <1>4 DEF event

\* The recording of a submission.
LEMMA RecordingAnswered ==
    ASSUME DOMAIN histories = SessionIds, GameHolds(Here), NEW STATE c, RecordResolution(Table, c)
    PROVE  LET n == c.args.submission
               event == Event(c.id, c.by, "resolution-recorded", Phase(Table), None,
                          IF Here[n].item \in Correct THEN "correct" ELSE "incorrect", n, {}, NoBindings)
           IN /\ DOMAIN histories' = SessionIds
              /\ \/ Here' = Here
                 \/ Fitting(Here, event) /\ Here' = Append(Here, event)
<1> DEFINE n == c.args.submission
           event == Event(c.id, c.by, "resolution-recorded", Phase(Table), None,
                      IF Here[n].item \in Correct THEN "correct" ELSE "incorrect", n, {}, NoBindings)
           allowed == /\ HostWhileActive(Table, c)
                      /\ n \in DOMAIN Here /\ Here[n].type = "resolution-submitted"
<1>1. Fitting(Here, event)
  <2>1. PhaseOf(Here) \in Phases /\ PhaseOf(Here) \in Int
    BY PhasesAssumption DEF GameHolds
  <2>2. QED
    BY <2>1 DEF Event, Fitting, Phase, Here
<1>2. Answer(Table, c, allowed, event)
  BY DEF RecordResolution, Here
<1> HIDE DEF event, allowed
<1>3. /\ DOMAIN histories' = SessionIds
      /\ Here' = Here \/ (allowed /\ Fitting(Here, event) /\ Here' = Append(Here, event))
  BY <1>1, <1>2, Answered
<1>4. QED
  BY <1>3 DEF event

-----------------------------------------------------------------------------
(* The end of a call *)

LEMMA ConcatOne ==
    ASSUME NEW es, IsLog(es), NEW event
    PROVE  es \o <<event>> = Append(es, event) /\ es \o << >> = es
<1> DEFINE S == Range(es) \cup {event}
<1>1. es \in Seq(S) /\ event \in S
  <2>1. es \in Seq(Range(es)) /\ Range(es) \subseteq S
    BY DEF IsLog
  <2>2. QED
    BY <2>1, SeqMonotonic
<1> HIDE DEF S
<1>2. QED
  BY <1>1, AppendIsConcat, ConcatEmptySeq

\* What is past when an Event is logged is what was there.
LEMMA PastOfNext ==
    ASSUME NEW log, NEW longer, Extends(log, longer), NEW last \in 0..Len(log),
           NEW es, NEW fs, Extends(es, fs), NEW actor
    PROVE  /\ Opened(fs, Len(es), actor) = Opened(es, Len(es), actor)
           /\ Told(fs, Len(es)) = Told(es, Len(es))
           /\ View(longer, last, fs, Len(es), actor) = View(log, last, es, Len(es), actor)
<1> DEFINE size == Len(es)
<1>1. size \in Nat /\ \A i \in 1..size : fs[i] = es[i]
  BY LogFacts DEF Extends
<1> HIDE DEF size
<1>2. Opened(fs, size, actor) = Opened(es, size, actor)
  BY <1>1, SamePast
<1>3. Told(fs, size) = Told(es, size)
  BY <1>1, SamePast
<1>4. View(longer, last, fs, size, actor) = View(log, last, es, size, actor)
  BY <1>1, SameView
<1>5. QED
  BY <1>2, <1>4, <1>3 DEF size

\* A call fits if it saw the Session as it was, and took the events it caused.
LEMMA CallFitsNext ==
    ASSUME NEW log, NEW longer, Extends(log, longer), NEW last \in 1..Len(log),
           NEW es, IsLog(es), NEW event, event.before = last, event.actor \in Roles,
           event.runtime = SubSeq(longer, last + 1, Len(longer)),
           event.observation = View(log, last, es, Len(es), event.actor),
           VisibilityHolds(event), ShareFits(es, Len(es), event),
           InspectionFits(log, event), ResolutionFits(es, Len(es), event)
    PROVE  /\ EventFits(longer, Len(longer), Append(es, event), Len(es) + 1)
           /\ Len(event.runtime) = Len(longer) - last
<1> DEFINE gs == Append(es, event)
           size == Len(es)
           who == event.actor
<1>1. /\ size \in Nat /\ (size + 1) - 1 = size
      /\ Extends(es, gs) /\ gs[size + 1] = event
  BY LogFacts, LongerLog, AppendExtends
<1>2. Len(log) \in Nat /\ Len(longer) \in Nat /\ Len(log) <= Len(longer) /\ last \in 0..Len(log)
  BY LogFacts DEF Extends
<1>3. /\ IsLog(event.runtime)
      /\ Len(event.runtime) = Len(longer) - last
      /\ DOMAIN event.runtime = 1..(Len(longer) - last)
      /\ \A k \in 1..(Len(longer) - last) : event.runtime[k] = longer[last + k]
  <2> DEFINE m == last + 1
  <2>1. m \in Int /\ Len(longer) \in Int /\ \A i \in m..Len(longer) : longer[i] \in Range(longer)
    <3>1. DOMAIN longer = 1..Len(longer)
      BY LogFacts DEF Extends
    <3>2. QED
      BY <1>2, <3>1 DEF Range
  <2>2. /\ SubSeq(longer, m, Len(longer)) \in Seq(Range(longer))
        /\ Len(SubSeq(longer, m, Len(longer))) = IF m <= Len(longer) THEN Len(longer) - m + 1 ELSE 0
        /\ \A i \in 1..(Len(longer) - m + 1) : SubSeq(longer, m, Len(longer))[i] = longer[m + i - 1]
    BY <2>1, SubSeqProperties
  <2>3. IsLog(event.runtime)
    BY <2>2, SeqIsLog
  <2>4. Len(event.runtime) = Len(longer) - last
    BY <1>2, <2>2
  <2>5. DOMAIN event.runtime = 1..(Len(longer) - last)
    BY <2>3, <2>4, LogFacts
  <2>6. \A k \in 1..(Len(longer) - last) : event.runtime[k] = longer[last + k]
    <3>1. SUFFICES ASSUME NEW k \in 1..(Len(longer) - last) PROVE event.runtime[k] = longer[last + k]
      OBVIOUS
    <3>2. k \in 1..(Len(longer) - m + 1) /\ m + k - 1 = last + k
      BY <1>2
    <3>3. QED
      BY <2>2, <3>2
  <2>7. QED
    BY <2>3, <2>4, <2>5, <2>6
<1> HIDE DEF gs, size, who
<1>4. /\ Opened(gs, size, who) = Opened(es, size, who) /\ Told(gs, size) = Told(es, size)
      /\ View(longer, last, gs, size, who) = View(log, last, es, size, who)
  BY <1>1, <1>2, PastOfNext DEF size
<1>5. ShareFits(gs, size, event) /\ ResolutionFits(gs, size, event)
  BY <1>4 DEF ShareFits, ResolutionFits, size, who
<1>6. InspectionFits(longer, event)
  BY MoreDisclosed DEF InspectionFits
<1>7. CallFits(longer, Len(longer), gs, size + 1)
  <2>1. event.before \in 1..Len(longer) /\ event.before + Len(event.runtime) <= Len(longer)
    BY <1>2, <1>3
  <2>2. event.observation = View(longer, last, gs, size, who)
    BY <1>4 DEF size, who
  <2>3. QED
    BY <1>1, <1>3, <1>5, <1>6, <2>1, <2>2 DEF CallFits, who
<1>8. \A k \in DOMAIN event.runtime :
         event.before + k \in 1..Len(longer) /\ longer[event.before + k] = event.runtime[k]
  BY <1>2, <1>3
<1>9. EventFits(longer, Len(longer), gs, size + 1)
  BY <1>1, <1>5, <1>7, <1>8 DEF EventFits
<1>10. QED
  BY <1>3, <1>9 DEF gs, size

LEMMA AccountedFacts ==
    ASSUME IInv
    PROVE  /\ IsLog(Here) /\ Len(Here) \in Nat /\ Len(Here) >= 1
           /\ Accounted \in 1..Len(Here)
           /\ IsLog(events) /\ Len(events) \in Nat
<1>1. IsLog(Here) /\ Len(Here) \in Nat /\ Len(Here) >= 1
  BY LogFacts DEF IInv, GameHolds
<1>2. Accounted \in 1..Len(Here)
  BY <1>1 DEF IInv, PendingHolds, Accounted
<1>3. IsLog(events) /\ Len(events) \in Nat
  BY LogFacts DEF IInv, TraceHolds
<1>4. QED
  BY <1>1, <1>2, <1>3

\* The Event of a call that saw this much, as step logs it.
Logged(actor, call, type, visibility, accepted, seen) ==
    ArenaEvent(actor, type, visibility, call, accepted, Accounted,
               SubSeq(Here', Accounted + 1, Len(Here')), seen)

LEMMA Concluded ==
    ASSUME IInv, NEW STATE actor, actor \in Roles, NEW STATE call, call \in Calls,
           NEW type, NEW STATE visibility, NEW ACTION accepted, NEW STATE seen, NEW ACTION reason,
           Conclude(actor, call, type, visibility, accepted, seen, reason),
           Extends(Here, Here'),
           seen = View(Here, Accounted, events, Len(events), actor),
           VisibilityHolds(Logged(actor, call, type, visibility, accepted, seen)),
           ShareFits(events, Len(events), Logged(actor, call, type, visibility, accepted, seen)),
           InspectionFits(Here, Logged(actor, call, type, visibility, accepted, seen)),
           ResolutionFits(events, Len(events), Logged(actor, call, type, visibility, accepted, seen))
    PROVE  /\ TraceHolds(Here', Len(Here'), events')
           /\ Extends(events, events')
           /\ ended' = reason \/ (reason = None /\ ended' = "step_budget_exhausted")
<1> DEFINE event == Logged(actor, call, type, visibility, accepted, seen)
           longer == Here'
           fs == Append(events, event)
           ending == System("episode-terminated", {"public"})
<1>1. /\ IsLog(Here) /\ Len(Here) \in Nat /\ Accounted \in 1..Len(Here)
      /\ IsLog(events) /\ Len(events) \in Nat
      /\ TraceHolds(Here, Accounted, events)
  BY AccountedFacts DEF IInv
<1>2. seen.game.sequence = Accounted
  <2>1. Len(SubSeq(Here, 1, Accounted)) = Accounted
    BY <1>1, PrefixLog
  <2>2. QED
    BY <2>1 DEF View, Snapshot
<1>3. /\ event.before = Accounted /\ event.actor = actor /\ event.call = call
      /\ event.runtime = SubSeq(longer, Accounted + 1, Len(longer))
      /\ event.observation = seen
  BY DEF Logged, ArenaEvent
<1>4. /\ events' = events \o <<event>> \o << >> \/ events' = events \o <<event>> \o <<ending>>
      /\ ended' = reason \/ (reason = None /\ ended' = "step_budget_exhausted")
  BY <1>2 DEF Conclude, Logged
<1>5. /\ VisibilityHolds(event) /\ ShareFits(events, Len(events), event)
      /\ InspectionFits(Here, event) /\ ResolutionFits(events, Len(events), event)
      /\ Extends(Here, longer)
  OBVIOUS
<1>6. event.call # None
  BY <1>3, NoneAssumption
<1>7. event.observation = View(Here, Accounted, events, Len(events), event.actor)
  BY <1>3
<1> HIDE DEF event, longer, ending
<1>8. /\ EventFits(longer, Len(longer), fs, Len(events) + 1)
      /\ Len(event.runtime) = Len(longer) - Accounted
  BY <1>1, <1>3, <1>5, <1>7, CallFitsNext
<1>9. TraceHolds(longer, Len(longer), fs)
  BY <1>1, <1>3, <1>5, <1>6, <1>8, CallTraced
<1>10. IsLog(fs) /\ Len(fs) = Len(events) + 1 /\ Extends(events, fs)
       /\ \A i \in 1..Len(events) : fs[i] = events[i]
  BY <1>1, LongerLog, AppendExtends
<1>11. events \o <<event>> = fs
  BY <1>1, ConcatOne
<1> HIDE DEF fs
<1>12. events' = fs \/ events' = Append(fs, ending)
  BY <1>4, <1>10, <1>11, ConcatOne
<1>13. TraceHolds(longer, Len(longer), Append(fs, ending))
  <2>1. IsLog(longer) /\ Len(longer) \in 0..Len(longer)
    BY <1>5, LogFacts DEF Extends
  <2>2. QED
    BY <1>9, <2>1, SystemTraced DEF ending
<1>14. Extends(events, Append(fs, ending))
  <2>1. Extends(fs, Append(fs, ending))
    BY <1>10, AppendExtends
  <2>2. QED
    BY <1>1, <1>10, <2>1 DEF Extends
<1>15. TraceHolds(longer, Len(longer), events') /\ Extends(events, events')
  BY <1>9, <1>10, <1>12, <1>13, <1>14
<1>16. QED
  BY <1>4, <1>15 DEF longer

\* What the environment computes from live state is what the trace says.
LEMMA TraceIsSeen ==
    ASSUME IInv, NEW actor
    PROVE  /\ Inspected(actor) = Opened(events, Len(events), actor)
           /\ Shared = Told(events, Len(events))
           /\ DialogueFor(actor) = Heard(events, Len(events), actor)
           /\ {i \in CallEvents : events[i].actor = actor} = Taken(events, Len(events), actor)
<1>1. DOMAIN events = 1..Len(events)
  BY AccountedFacts, LogFacts
<1>2. \A i \in 1..Len(events) : events[i].type = "evidence-shared" => events[i].call # None /\ events[i].accepted
  BY DEF IInv, TraceHolds, EventFits, ShareFits
<1>3. {j \in CallEvents : /\ events[j].actor = actor
                         /\ events[j].call.tool = "inspect_evidence" /\ events[j].accepted}
        = {j \in 1..Len(events) : /\ events[j].call # None /\ events[j].actor = actor
                                 /\ events[j].call.tool = "inspect_evidence" /\ events[j].accepted}
  BY <1>1 DEF CallEvents
<1>4. Inspected(actor) = Opened(events, Len(events), actor)
  BY <1>3 DEF Inspected, Opened
<1>5. {j \in DOMAIN events : events[j].type = "evidence-shared"}
        = {j \in 1..Len(events) : /\ events[j].call # None
                                 /\ events[j].type = "evidence-shared" /\ events[j].accepted}
  BY <1>1, <1>2
<1>6. Shared = Told(events, Len(events))
  BY <1>5 DEF Shared, Told
<1>7. DialogueFor(actor) = Heard(events, Len(events), actor)
  BY <1>1 DEF DialogueFor, Heard
<1>8. {i \in CallEvents : events[i].actor = actor} = Taken(events, Len(events), actor)
  BY <1>1 DEF CallEvents, Taken
<1>9. QED
  BY <1>4, <1>6, <1>7, <1>8

LEMMA ObservationIsView ==
    ASSUME IInv, submitted = << >>, NEW actor
    PROVE  Observation(actor) = View(Here, Accounted, events, Len(events), actor)
<1>1. SubSeq(Here, 1, Accounted) = Here
  BY AccountedFacts, WholeLog DEF Accounted
<1>2. QED
  BY <1>1, TraceIsSeen DEF Observation, View

LEMMA LoggedFields ==
    ASSUME NEW STATE actor, NEW STATE call, NEW type, NEW STATE visibility, NEW ACTION accepted,
           NEW STATE seen
    PROVE  LET event == Logged(actor, call, type, visibility, accepted, seen)
           IN /\ event.actor = actor /\ event.type = type /\ event.visibility = visibility
              /\ event.call = call
              /\ event.runtime = SubSeq(Here', Accounted + 1, Len(Here'))
BY DEF Logged, ArenaEvent

\* Nothing is asked of a call that was refused, or of one that is no inspection,
\* share, submission or talk.
LEMMA RefusedFits ==
    ASSUME NEW es, NEW n, NEW log, NEW event, ~event.accepted,
           event.type \in {"tool-rejected", "tool-call"}
    PROVE  /\ VisibilityHolds(event) /\ ShareFits(es, n, event)
           /\ InspectionFits(log, event) /\ ResolutionFits(es, n, event)
<1>1. event.type \notin Dialogue
  BY DEF Dialogue
<1>2. VisibilityHolds(event) /\ ShareFits(es, n, event)
  BY <1>1 DEF VisibilityHolds, ShareFits, Dialogue
<1>3. InspectionFits(log, event) /\ ResolutionFits(es, n, event)
  BY DEF InspectionFits, ResolutionFits
<1>4. QED
  BY <1>2, <1>3

LEMMA OtherToolFits ==
    ASSUME NEW es, NEW n, NEW log, NEW event, event.type \notin Dialogue,
           event.call.tool \notin {"inspect_evidence", "submit_resolution"}
    PROVE  /\ VisibilityHolds(event) /\ ShareFits(es, n, event)
           /\ InspectionFits(log, event) /\ ResolutionFits(es, n, event)
<1>1. VisibilityHolds(event) /\ ShareFits(es, n, event)
  BY DEF VisibilityHolds, ShareFits, Dialogue
<1>2. InspectionFits(log, event) /\ ResolutionFits(es, n, event)
  BY DEF InspectionFits, ResolutionFits
<1>3. QED
  BY <1>1, <1>2

\* A call that neither submits nor records keeps the invariant.
LEMMA Ordinary ==
    ASSUME IInv, ended = None, submitted = << >>, submitted' = << >>,
           NEW STATE actor, actor \in Roles, NEW STATE call, call \in Calls,
           NEW type, NEW STATE visibility, NEW ACTION accepted, NEW STATE reason,
           reason \in {None, "authorization_failure", "safety_failure", "host_end"},
           Conclude(actor, call, type, visibility, accepted, Observation(actor), reason),
           DOMAIN histories' = SessionIds,
           \/ Here' = Here
           \/ \E event : /\ Fitting(Here, event) /\ event.type # "resolution-recorded"
                         /\ Here' = Append(Here, event),
           VisibilityHolds(Logged(actor, call, type, visibility, accepted, Observation(actor))),
           ShareFits(events, Len(events), Logged(actor, call, type, visibility, accepted, Observation(actor))),
           InspectionFits(Here, Logged(actor, call, type, visibility, accepted, Observation(actor))),
           ResolutionFits(events, Len(events), Logged(actor, call, type, visibility, accepted, Observation(actor)))
    PROVE  IInv'
<1>1. IsLog(Here) /\ Len(Here) \in Nat
  BY AccountedFacts
<1>2. Extends(Here, Here')
  BY <1>1, ExtendsItself, AppendExtends
<1>3. GameHolds(Here')
  BY GameGrows DEF IInv
<1>4. ~Resolved /\ UnresolvedTo(Here, Len(Here))
  BY NoneAssumption DEF Resolved, IInv, Reasons
<1>5. UnresolvedTo(Here', Len(Here'))
  <2>1. CASE Here' = Here
    BY <1>4, <2>1
  <2>2. CASE \E event : Fitting(Here, event) /\ event.type # "resolution-recorded" /\ Here' = Append(Here, event)
    <3>1. PICK event : event.type # "resolution-recorded" /\ Here' = Append(Here, event)
      BY <2>2
    <3>2. /\ Len(Here') = Len(Here) + 1 /\ Here'[Len(Here) + 1] = event
          /\ \A i \in 1..Len(Here) : Here'[i] = Here[i]
      BY <1>1, <3>1, LongerLog
    <3>3. ASSUME NEW i \in 1..Len(Here') PROVE Here'[i].type # "resolution-recorded"
      <4>1. CASE i <= Len(Here)
        <5>1. i \in 1..Len(Here)
          BY <1>1, <3>2, <4>1
        <5>2. QED
          BY <1>4, <3>2, <5>1 DEF UnresolvedTo
      <4>2. CASE i = Len(Here) + 1
        BY <3>1, <3>2, <4>2
      <4>3. QED
        BY <1>1, <3>2, <4>1, <4>2
    <3>4. QED
      BY <3>3 DEF UnresolvedTo
  <2>3. QED
    BY <2>1, <2>2
<1>6. /\ TraceHolds(Here', Len(Here'), events')
      /\ ended' = reason \/ (reason = None /\ ended' = "step_budget_exhausted")
  BY <1>2, ObservationIsView, Concluded
<1>7. ended' \in {None} \cup Reasons /\ ~Resolved'
  BY <1>6, NoneAssumption DEF Reasons, Resolved
<1>8. Accounted' = Len(Here')
  BY DEF Accounted
<1>9. QED
  BY <1>3, <1>5, <1>6, <1>7, <1>8 DEF IInv

-----------------------------------------------------------------------------
(* The tools *)

LEMMA HostToolsFacts ==
    HostTools \subseteq {"open_session", "broadcast", "disclose_resource", "deliver_intervention",
                         "end_session", "advance_phase"}
BY DEF HostTools

\* A tool of a seat is called by a role that has one.
LEMMA SeatCaller ==
    ASSUME NEW actor, NEW call, NEW tools, MayCall(actor, call, tools),
           call.tool \in {"inspect_evidence", "say", "share_evidence", "message", "submit_resolution"}
    PROVE  actor # Host
<1>1. call.tool \notin HostTools
  BY HostToolsFacts
<1>2. call.tool \in LegalTools(actor)
  BY DEF MayCall
<1>3. QED
  BY <1>1, <1>2 DEF LegalTools

\* A call that leaves the Session alone keeps the invariant if its Event fits.
LEMMA QuietHolds ==
    ASSUME IInv, NEW actor, Acts(actor), NEW call \in Calls,
           NEW type, NEW visibility, NEW accepted, NEW reason,
           reason \in {None, "authorization_failure", "safety_failure", "host_end"},
           UNCHANGED <<session, submitted>>,
           Conclude(actor, call, type, visibility, accepted, Observation(actor), reason),
           VisibilityHolds(Logged(actor, call, type, visibility, accepted, Observation(actor))),
           ShareFits(events, Len(events), Logged(actor, call, type, visibility, accepted, Observation(actor))),
           InspectionFits(Here, Logged(actor, call, type, visibility, accepted, Observation(actor))),
           ResolutionFits(events, Len(events), Logged(actor, call, type, visibility, accepted, Observation(actor)))
    PROVE  IInv'
<1>1. ended = None /\ submitted = << >> /\ actor \in Roles
  BY DEF Acts
<1>2. submitted' = << >> /\ histories' = histories
  BY <1>1 DEF session, vars
<1>3. Here' = Here /\ DOMAIN histories' = SessionIds
  BY <1>2 DEF Here, IInv
<1>4. QED
  BY <1>1, <1>2, <1>3, Ordinary

LEMMA RefusalHolds ==
    ASSUME IInv, NEW actor, Acts(actor), NEW call \in Calls,
           NEW type \in {"tool-rejected", "tool-call"}, NEW visibility,
           NEW reason \in {None, "authorization_failure"},
           UNCHANGED <<session, submitted>>,
           Conclude(actor, call, type, visibility, FALSE, Observation(actor), reason)
    PROVE  IInv'
<1> DEFINE event == Logged(actor, call, type, visibility, FALSE, Observation(actor))
<1>1. event.type = type /\ ~event.accepted
  BY DEF Logged, ArenaEvent
<1> HIDE DEF event
<1>2. /\ VisibilityHolds(event) /\ ShareFits(events, Len(events), event)
      /\ InspectionFits(Here, event) /\ ResolutionFits(events, Len(events), event)
  BY <1>1, RefusedFits
<1>3. reason \in {None, "authorization_failure", "safety_failure", "host_end"}
  OBVIOUS
<1>4. QED
  BY <1>2, <1>3, QuietHolds DEF event

LEMMA ViolateHolds ==
    ASSUME IInv, NEW actor, Acts(actor), NEW call \in Calls, Violate(actor, call)
    PROVE  IInv'
<1>1. /\ UNCHANGED <<session, submitted>>
      /\ Conclude(actor, call, "tool-rejected", {"trusted"}, FALSE, Observation(actor), "authorization_failure")
  BY DEF Violate
<1>2. "tool-rejected" \in {"tool-rejected", "tool-call"}
      /\ "authorization_failure" \in {None, "authorization_failure"}
  OBVIOUS
<1>3. QED
  BY <1>1, <1>2, RefusalHolds

LEMMA RefusedCallsHold ==
    ASSUME IInv, NEW actor, NEW call \in Calls,
           \/ OutOfTurn(actor) \/ UnauthorizedTool(actor)
           \/ Malformed(actor, call) \/ OutOfBounds(actor, call) \/ SubmitUnearned(actor, call)
    PROVE  IInv'
<1>1. CASE OutOfTurn(actor)
  <2>1. (CHOOSE c \in Calls : TRUE) \in Calls
    BY CallsAssumption
  <2>2. QED
    BY <1>1, <2>1, ViolateHolds DEF OutOfTurn
<1>2. CASE UnauthorizedTool(actor)
  <2> DEFINE illegal == {c \in Calls : c.tool \notin LegalTools(actor)}
  <2>1. Acts(actor) /\ illegal # {} /\ Violate(actor, CHOOSE c \in illegal : TRUE)
    BY <1>2 DEF UnauthorizedTool
  <2>2. (CHOOSE c \in illegal : TRUE) \in Calls
    BY <2>1
  <2>3. QED
    BY <2>1, <2>2, ViolateHolds
<1>3. CASE Malformed(actor, call)
  <2>1. /\ Acts(actor) /\ UNCHANGED <<session, submitted>>
        /\ Conclude(actor, call, "tool-rejected", {"trusted"}, FALSE, Observation(actor), None)
    BY <1>3 DEF Malformed
  <2>2. QED
    BY <2>1, RefusalHolds
<1>4. CASE OutOfBounds(actor, call)
  BY <1>4, ViolateHolds DEF OutOfBounds, MayCall
<1>5. CASE SubmitUnearned(actor, call)
  <2>1. /\ Acts(actor) /\ UNCHANGED <<session, submitted>>
        /\ Conclude(actor, call, "tool-call", {"trusted"}, FALSE, Observation(actor), None)
    BY <1>5 DEF SubmitUnearned, MayCall
  <2>2. QED
    BY <2>1, RefusalHolds
<1>6. QED
  BY <1>1, <1>2, <1>3, <1>4, <1>5

\* A tool that only says something.
LEMMA SaidHolds ==
    ASSUME IInv, NEW actor, NEW call \in Calls, NEW tools, MayCall(actor, call, tools),
           NEW type, NEW visibility, NEW reason,
           reason \in {None, "safety_failure", "host_end"},
           Said(actor, call, type, visibility, reason),
           call.tool # "submit_resolution",
           type \in {"said", "host-broadcast", "evidence-shared"} => visibility = {"public"},
           type = "private-message" => Cardinality(visibility) = 2 /\ actor \in visibility,
           type = "evidence-shared" => call.tool = "share_evidence" /\ call.args.item \in Inspected(actor),
           call.tool = "inspect_evidence" =>
               actor # Host /\ call.args.item \in DisclosedTo(Here, SeatFor(actor))
    PROVE  IInv'
<1> DEFINE event == Logged(actor, call, type, visibility, TRUE, Observation(actor))
<1>1. /\ event.actor = actor /\ event.type = type /\ event.visibility = visibility
      /\ event.call = call /\ event.accepted
  BY DEF Logged, ArenaEvent
<1> HIDE DEF event
<1>2. VisibilityHolds(event)
  BY <1>1 DEF VisibilityHolds
<1>3. ShareFits(events, Len(events), event)
  BY <1>1, TraceIsSeen, NoneAssumption DEF ShareFits
<1>4. InspectionFits(Here, event) /\ ResolutionFits(events, Len(events), event)
  BY <1>1 DEF InspectionFits, ResolutionFits
<1>5. /\ Acts(actor) /\ UNCHANGED <<session, submitted>>
      /\ Conclude(actor, call, type, visibility, TRUE, Observation(actor), reason)
      /\ reason \in {None, "authorization_failure", "safety_failure", "host_end"}
  BY DEF MayCall, Said
<1>6. QED
  BY <1>2, <1>3, <1>4, <1>5, QuietHolds DEF event

LEMMA TalkHolds ==
    ASSUME IInv, NEW actor, NEW call \in Calls,
           \/ Broadcast(actor, call) \/ EndSession(actor, call) \/ InspectEvidence(actor, call)
           \/ Say(actor, call) \/ ShareEvidence(actor, call) \/ Message(actor, call)
    PROVE  IInv'
<1>1. CASE Broadcast(actor, call)
  <2>1. /\ MayCall(actor, call, {"broadcast"}) /\ call.tool = "broadcast"
        /\ Said(actor, call, "host-broadcast", {"public"}, None)
    BY <1>1 DEF Broadcast, MayCall
  <2>2. QED
    BY <2>1, SaidHolds
<1>2. CASE EndSession(actor, call)
  <2> DEFINE reason == IF call.args.item = "safety_failure" THEN "safety_failure" ELSE "host_end"
  <2>1. /\ MayCall(actor, call, {"end_session"}) /\ call.tool = "end_session"
        /\ Said(actor, call, "tool-call", {"trusted"}, reason)
        /\ reason \in {None, "safety_failure", "host_end"}
    BY <1>2 DEF EndSession, MayCall
  <2> HIDE DEF reason
  <2>2. QED
    BY <2>1, SaidHolds
<1>3. CASE InspectEvidence(actor, call)
  <2>1. /\ MayCall(actor, call, {"inspect_evidence"}) /\ call.tool = "inspect_evidence"
        /\ call.args.item \in DisclosedTo(Here, SeatFor(actor))
        /\ Said(actor, call, "tool-call", {"trusted"}, None)
    BY <1>3 DEF InspectEvidence, MayCall
  <2>2. actor # Host
    BY <2>1, SeatCaller
  <2>3. QED
    BY <2>1, <2>2, SaidHolds
<1>4. CASE Say(actor, call)
  <2>1. /\ MayCall(actor, call, {"say"}) /\ call.tool = "say"
        /\ Said(actor, call, "said", {"public"}, None)
    BY <1>4 DEF Say, MayCall
  <2>2. QED
    BY <2>1, SaidHolds
<1>5. CASE ShareEvidence(actor, call)
  <2>1. /\ MayCall(actor, call, {"share_evidence"}) /\ call.tool = "share_evidence"
        /\ call.args.item \in Inspected(actor)
        /\ Said(actor, call, "evidence-shared", {"public"}, None)
    BY <1>5 DEF ShareEvidence, MayCall
  <2>2. QED
    BY <2>1, SaidHolds
<1>6. CASE Message(actor, call)
  <2>1. /\ MayCall(actor, call, {"message"}) /\ call.tool = "message"
        /\ call.args.seat \in Seats /\ call.args.seat # SeatFor(actor)
        /\ Said(actor, call, "private-message", {actor, ActorOf(call.args.seat)}, None)
    BY <1>6 DEF Message, MayCall
  <2>2. actor # Host /\ actor \in Roles
    BY <2>1, SeatCaller DEF MayCall, Acts
  <2>3. ActorOf(call.args.seat) # actor
    BY <2>1, <2>2, SeatForFacts, OnlySeat
  <2>4. Cardinality({actor, ActorOf(call.args.seat)}) = 2
    <3>1. IsFiniteSet({actor}) /\ Cardinality({actor}) = 1 /\ ActorOf(call.args.seat) \notin {actor}
      BY <2>3, FS_Singleton
    <3>2. Cardinality({actor} \cup {ActorOf(call.args.seat)}) = Cardinality({actor}) + 1
      BY <3>1, FS_AddElement
    <3>3. {actor} \cup {ActorOf(call.args.seat)} = {actor, ActorOf(call.args.seat)}
      OBVIOUS
    <3>4. QED
      BY <3>1, <3>2, <3>3
  <2>5. QED
    BY <2>1, <2>4, SaidHolds
<1>7. QED
  BY <1>1, <1>2, <1>3, <1>4, <1>5, <1>6

\* A tool that is a Command, accepted or refused.
LEMMA CommandHolds ==
    ASSUME IInv, NEW actor, NEW call \in Calls, HostCommand(actor, call) \/ SeatCommand(actor, call)
    PROVE  IInv'
<1>1. /\ Acts(actor) /\ Commanded(actor, call)
      /\ call.tool \notin {"inspect_evidence", "submit_resolution"}
  BY DEF HostCommand, SeatCommand, MayCall
<1>2. \E action : Commands(Command(actor, call, action))
  <2>1. CASE HostCommand(actor, call)
    <3>1. call.tool \in {"open_session", "advance_phase", "disclose_resource", "deliver_intervention"}
      BY <2>1 DEF HostCommand, MayCall
    <3>2. CASE call.tool = "open_session"
      BY <2>1, <3>2 DEF HostCommand, Commands
    <3>3. CASE call.tool = "advance_phase"
      BY <2>1, <3>3 DEF HostCommand, Commands
    <3>4. CASE call.tool = "disclose_resource"
      BY <2>1, <3>4 DEF HostCommand, Commands
    <3>5. CASE call.tool = "deliver_intervention"
      BY <2>1, <3>5 DEF HostCommand, Commands
    <3>6. QED
      BY <3>1, <3>2, <3>3, <3>4, <3>5
  <2>2. CASE SeatCommand(actor, call)
    <3>1. call.tool \in {"request_evidence", "request_hint", "share_claim", "update_character_state"}
      BY <2>2 DEF SeatCommand, MayCall
    <3>2. CASE call.tool = "request_evidence"
      BY <2>2, <3>2 DEF SeatCommand, Commands
    <3>3. CASE call.tool = "request_hint"
      BY <2>2, <3>3 DEF SeatCommand, Commands
    <3>4. CASE call.tool = "share_claim"
      BY <2>2, <3>4 DEF SeatCommand, Commands
    <3>5. CASE call.tool = "update_character_state"
      BY <2>2, <3>5 DEF SeatCommand, Commands
    <3>6. QED
      BY <3>1, <3>2, <3>3, <3>4, <3>5
  <2>3. QED
    BY <2>1, <2>2
<1>3. /\ DOMAIN histories' = SessionIds
      /\ Here' = Here \/ \E event : Adds(event)
  BY <1>2, CommandsAnswered DEF IInv
<1>4. \/ Here' = Here
      \/ \E event : /\ Fitting(Here, event) /\ event.type # "resolution-recorded"
                    /\ Here' = Append(Here, event)
  BY <1>3 DEF Adds, Kinds
<1>5. /\ ended = None /\ submitted = << >> /\ actor \in Roles /\ submitted' = << >>
      /\ Conclude(actor, call, "tool-call", {"trusted"}, Accepted, Observation(actor), None)
  BY <1>1 DEF Acts, Commanded
<1> DEFINE event == Logged(actor, call, "tool-call", {"trusted"}, Accepted, Observation(actor))
<1>6. event.type = "tool-call" /\ event.call = call
  BY DEF Logged, ArenaEvent
<1> HIDE DEF event
<1>7. /\ VisibilityHolds(event) /\ ShareFits(events, Len(events), event)
      /\ InspectionFits(Here, event) /\ ResolutionFits(events, Len(events), event)
  BY <1>1, <1>6, OtherToolFits DEF Dialogue
<1>8. QED
  BY <1>3, <1>4, <1>5, <1>7, Ordinary DEF event

-----------------------------------------------------------------------------
(* A submission and its recording *)

\* The smallest of a set of numbers, however large the set.
LEMMA SmallestNat ==
    ASSUME NEW T \in SUBSET Nat, T # {}
    PROVE  Min(T) \in T
<1>1. PICK x \in T : \A y \in T : ~ (<<y, x>> \in OpToRel(<, Nat))
  BY NatLessThanWellFounded, WFMin
<1>2. ASSUME NEW y \in T PROVE x <= y
  <2>1. x \in Nat /\ y \in Nat
    OBVIOUS
  <2>2. ~ (y < x)
    BY <1>1, <2>1 DEF OpToRel
  <2>3. QED
    BY <2>1, <2>2
<1>3. \E z \in T : \A y \in T : z <= y
  BY <1>2
<1>4. QED
  BY <1>3 DEF Min

\* The path that licenses a submission is completed by what the call cites.
LEMMA LicensedFacts ==
    ASSUME NEW actor, NEW call, LicensedPaths(actor, call) # {}
    PROVE  LET path == Min(LicensedPaths(actor, call))
           IN /\ path \in DOMAIN ProofPaths
              /\ call.cited # {} /\ call.cited \subseteq Available(actor)
              /\ ProofPaths[path].resources \subseteq call.cited
<1> DEFINE licensed == LicensedPaths(actor, call)
<1>1. licensed \subseteq EligiblePaths(actor, call)
  BY DEF LicensedPaths
<1>2. EligiblePaths(actor, call) \subseteq DOMAIN ProofPaths /\ DOMAIN ProofPaths \subseteq Nat
  BY PathsAssumption DEF EligiblePaths
<1>3. licensed \in SUBSET Nat /\ licensed # {}
  BY <1>1, <1>2
<1> HIDE DEF licensed
<1>4. Min(licensed) \in licensed
  BY <1>3, SmallestNat
<1>5. Min(licensed) \in EligiblePaths(actor, call)
  BY <1>1, <1>4
<1>6. QED
  BY <1>5 DEF EligiblePaths, licensed

\* A submission names one path.
LEMMA PathIsNamed ==
    ASSUME NEW hypothesis \in Hypotheses, NEW path \in DOMAIN ProofPaths
    PROVE  PathNamed(Submissions[hypothesis, path]) = path
<1>1. \A h \in Hypotheses, q \in DOMAIN ProofPaths : <<h, q>> \in DOMAIN Submissions
  BY PathsAssumption
<1>2. ASSUME NEW h \in Hypotheses, NEW q \in DOMAIN ProofPaths,
             Submissions[h, q] = Submissions[hypothesis, path]
      PROVE  q = path
  <2>1. <<h, q>> = <<hypothesis, path>>
    BY <1>1, <1>2, PathsAssumption DEF IsInjective
  <2>2. QED
    BY <2>1
<1>3. QED
  BY <1>2 DEF PathNamed

\* What was disclosed to a seat had been revealed.
LEMMA DisclosedIsRevealed ==
    ASSUME NEW log, GameHolds(log), NEW seat, NEW resource \in DisclosedTo(log, seat)
    PROVE  \E reveal \in Reveals : /\ reveal.seat = seat /\ reveal.resource = resource
                                  /\ reveal.phase <= PhaseOf(log)
<1>1. PICK grant \in UNION {log[i].grants : i \in DOMAIN log} : grant.seat = seat /\ grant.resource = resource
  BY DEF DisclosedTo
<1>2. PICK i \in DOMAIN log : grant \in log[i].grants
  BY <1>1
<1>3. i \in 1..Len(log)
  BY LogFacts DEF GameHolds
<1>4. Revealed(PhaseOf(log), grant)
  BY <1>2, <1>3 DEF GameHolds
<1>5. QED
  BY <1>1, <1>4 DEF Revealed

LEMMA OpenedWasDisclosed ==
    ASSUME IInv, NEW actor, NEW resource \in Opened(events, Len(events), actor)
    PROVE  /\ actor \in Roles /\ actor # Host
           /\ resource \in DisclosedTo(Here, SeatFor(actor))
<1>1. PICK i \in 1..Len(events) : /\ events[i].call # None /\ events[i].actor = actor
                                 /\ events[i].call.tool = "inspect_evidence" /\ events[i].accepted
                                 /\ resource = events[i].call.args.item
  BY DEF Opened
<1>2. CallFits(Here, Accounted, events, i)
  BY <1>1 DEF IInv, TraceHolds, EventFits
<1>3. QED
  BY <1>1, <1>2 DEF CallFits, InspectionFits

LEMMA ToldWasOpened ==
    ASSUME IInv, NEW resource \in Told(events, Len(events))
    PROVE  \E actor : resource \in Opened(events, Len(events), actor)
<1>1. PICK i \in 1..Len(events) : events[i].type = "evidence-shared" /\ resource = events[i].call.args.item
  BY DEF Told
<1>2. ShareFits(events, i - 1, events[i])
  BY DEF IInv, TraceHolds, EventFits
<1>3. resource \in Opened(events, i - 1, events[i].actor)
  BY <1>1, <1>2 DEF ShareFits
<1>4. 1..(i - 1) \subseteq 1..Len(events)
  BY AccountedFacts
<1>5. resource \in Opened(events, Len(events), events[i].actor)
  BY <1>3, <1>4 DEF Opened
<1>6. QED
  BY <1>5

\* Whatever a seat may cite was earned when it submits.
LEMMA CitedIsEarned ==
    ASSUME IInv, NEW actor \in Roles, actor # Host, NEW submission,
           submission.seat = SeatFor(actor), submission.phase = PhaseOf(Here),
           NEW resource \in Available(actor)
    PROVE  Earned(events, submission, resource)
<1>1. resource \in Opened(events, Len(events), actor) \/ resource \in Told(events, Len(events))
  BY TraceIsSeen DEF Available
<1>2. PICK who : /\ resource \in Opened(events, Len(events), who)
                 /\ who = actor \/ resource \in Told(events, Len(events))
  BY <1>1, ToldWasOpened
<1>3. /\ who \in Roles /\ who # Host /\ resource \in DisclosedTo(Here, SeatFor(who))
  BY <1>2, OpenedWasDisclosed
<1>4. SeatFor(who) \in Seats /\ ActorOf(SeatFor(who)) = who
  BY <1>3, SeatForFacts
<1>5. \E reveal \in Reveals : /\ reveal.seat = SeatFor(who) /\ reveal.resource = resource
                             /\ reveal.phase <= PhaseOf(Here)
  BY <1>3, DisclosedIsRevealed DEF IInv
<1>6. SeatFor(who) = submission.seat \/ resource \in Told(events, Len(events))
  BY <1>2
<1>7. QED
  BY <1>2, <1>4, <1>5, <1>6 DEF Earned

\* What was earned stays earned.
LEMMA StillEarned ==
    ASSUME NEW es, NEW fs, Extends(es, fs), NEW submission, SubmissionEarned(es, submission)
    PROVE  SubmissionEarned(fs, submission)
<1>1. ASSUME NEW resource \in ProofPaths[PathNamed(submission.item)].resources
      PROVE  Earned(fs, submission, resource)
  <2>1. Earned(es, submission, resource)
    BY DEF SubmissionEarned
  <2>2. QED
    BY <2>1, MorePast DEF Earned
<1>2. QED
  BY <1>1 DEF SubmissionEarned

\* What a submission is made of, and what happens to it.
LEMMA MaySubmitFacts ==
    ASSUME IInv, NEW actor, NEW call \in Calls, MaySubmit(actor, call)
    PROVE  LET c == Submission(actor, call)
               event == SeatEvent(Table, c, "resolution-submitted", c.args.item)
           IN /\ Acts(actor) /\ actor = Active /\ actor \in Roles /\ actor # Host
              /\ call.tool = "submit_resolution"
              /\ DOMAIN histories' = SessionIds
              /\ \/ Here' = Here
                 \/ /\ Fitting(Here, event) /\ Here' = Append(Here, event)
                    /\ event.type = "resolution-submitted"
                    /\ event.seat = SeatFor(actor) /\ event.phase = PhaseOf(Here)
                    /\ call.cited # {} /\ call.cited \subseteq Available(actor)
                    /\ ProofPaths[PathNamed(event.item)].resources \subseteq call.cited
<1> DEFINE c == Submission(actor, call)
           event == SeatEvent(Table, c, "resolution-submitted", c.args.item)
           path == Min(LicensedPaths(actor, call))
<1>1. /\ MayCall(actor, call, {"submit_resolution"}) /\ call.tool = "submit_resolution"
      /\ LicensedPaths(actor, call) # {}
      /\ SubmitResolution(Table, c)
  BY DEF MaySubmit, MayCall
<1>2. Acts(actor) /\ actor = Active /\ actor \in Roles /\ actor # Host
  BY <1>1, SeatCaller DEF MayCall, Acts
<1>3. /\ c.by = AuthorityOf(actor)
      /\ c.args.item = IF call.hypothesis = None THEN None ELSE Submissions[call.hypothesis, path]
  <2>1. call.args \in Args
    BY CallsAssumption DEF Call
  <2>2. DOMAIN call.args = {"phase", "seats", "resources", "item", "submission", "seat", "binding"}
    BY <2>1 DEF Args
  <2>3. QED
    BY <2>2 DEF Submission, Command
<1>4. /\ path \in DOMAIN ProofPaths
      /\ call.cited # {} /\ call.cited \subseteq Available(actor)
      /\ ProofPaths[path].resources \subseteq call.cited
  BY <1>1, LicensedFacts
<1>5. /\ event.type = "resolution-submitted" /\ event.item = c.args.item
      /\ event.seat = SeatOf(Table, c) /\ event.phase = PhaseOf(Here)
  BY DEF SeatEvent, Event, Phase, Here
<1> HIDE DEF c, event, path
<1>6. /\ DOMAIN histories' = SessionIds
      /\ \/ Here' = Here
         \/ /\ SeatsOf(Here, c.by) # {} /\ c.args.item \in Answers
            /\ Fitting(Here, event) /\ Here' = Append(Here, event)
  BY <1>1, SubmissionAnswered DEF IInv, event
<1>7. ASSUME SeatsOf(Here, c.by) # {}, c.args.item \in Answers
      PROVE  /\ event.seat = SeatFor(actor)
             /\ ProofPaths[PathNamed(event.item)].resources \subseteq call.cited
  <2>1. event.seat = SeatFor(actor)
    BY <1>2, <1>3, <1>5, <1>7, SeatOfRole DEF IInv
  <2>2. call.hypothesis # None /\ event.item = Submissions[call.hypothesis, path]
    BY <1>3, <1>5, <1>7, NoneAssumption
  <2>3. call.hypothesis \in Hypotheses
    BY <2>2, CallsAssumption DEF Call
  <2>4. PathNamed(event.item) = path
    BY <1>4, <2>2, <2>3, PathIsNamed
  <2>5. QED
    BY <1>4, <2>1, <2>4
<1>8. QED
  BY <1>1, <1>2, <1>4, <1>5, <1>6, <1>7 DEF c, event

LEMMA SubmitRefusedHolds ==
    ASSUME IInv, NEW actor, NEW call \in Calls, SubmitRefused(actor, call)
    PROVE  IInv'
<1>1. MaySubmit(actor, call) /\ ~Accepted /\ Commanded(actor, call)
  BY DEF SubmitRefused
<1>2. /\ Acts(actor) /\ actor \in Roles /\ DOMAIN histories' = SessionIds
      /\ Here' = Here \/ \E event : Here' = Append(Here, event)
  BY <1>1, MaySubmitFacts
<1>3. Here' = Here
  <2>1. SUFFICES ASSUME NEW event, Here' = Append(Here, event) PROVE FALSE
    BY <1>2
  <2>2. Len(Here') = Len(Here) + 1 /\ Len(Here) \in Nat
    BY <2>1, AccountedFacts, LongerLog
  <2>3. QED
    BY <1>1, <2>2 DEF Accepted
<1>4. /\ ended = None /\ submitted = << >> /\ submitted' = << >>
      /\ Conclude(actor, call, "tool-call", {"trusted"}, Accepted, Observation(actor), None)
  BY <1>1, <1>2 DEF Acts, Commanded
<1> DEFINE event == Logged(actor, call, "tool-call", {"trusted"}, Accepted, Observation(actor))
<1>5. event.type = "tool-call" /\ ~event.accepted
  BY <1>1 DEF Logged, ArenaEvent
<1> HIDE DEF event
<1>6. /\ VisibilityHolds(event) /\ ShareFits(events, Len(events), event)
      /\ InspectionFits(Here, event) /\ ResolutionFits(events, Len(events), event)
  BY <1>5, RefusedFits
<1>7. QED
  BY <1>2, <1>3, <1>4, <1>6, Ordinary DEF event

\* An accepted submission waits for its recording.
LEMMA SubmitHolds ==
    ASSUME IInv, NEW actor, NEW call \in Calls, Submit(actor, call)
    PROVE  IInv'
<1> DEFINE event == SeatEvent(Table, Submission(actor, call), "resolution-submitted",
                              Submission(actor, call).args.item)
<1>1. /\ MaySubmit(actor, call) /\ Accepted
      /\ submitted' = <<[call |-> call, seen |-> Observation(actor)]>>
      /\ UNCHANGED <<events, turn, ended>>
  BY DEF Submit
<1>2. /\ Acts(actor) /\ actor = Active /\ actor \in Roles /\ actor # Host
      /\ call.tool = "submit_resolution"
      /\ DOMAIN histories' = SessionIds
  BY <1>1, MaySubmitFacts
<1>3. /\ ended = None /\ submitted = << >> /\ events' = events /\ turn' = turn /\ ended' = None
  BY <1>1, <1>2 DEF Acts
<1>4. IsLog(Here) /\ Len(Here) \in Nat /\ Len(Here) >= 1 /\ Accounted = Len(Here)
      /\ IsLog(events) /\ Len(events) \in Nat
  BY <1>3, AccountedFacts DEF Accounted
<1>5. /\ Fitting(Here, event) /\ Here' = Append(Here, event)
      /\ event.type = "resolution-submitted"
      /\ event.seat = SeatFor(actor) /\ event.phase = PhaseOf(Here)
      /\ call.cited # {} /\ call.cited \subseteq Available(actor)
      /\ ProofPaths[PathNamed(event.item)].resources \subseteq call.cited
  <2>1. ~(Here' = Here)
    BY <1>1, <1>4 DEF Accepted
  <2>2. QED
    BY <1>1, <2>1, MaySubmitFacts
<1> HIDE DEF event
<1>6. /\ Len(Here') = Len(Here) + 1 /\ Here'[Len(Here')] = event
      /\ \A i \in 1..Len(Here) : Here'[i] = Here[i]
  BY <1>4, <1>5, LongerLog
<1>7. Extends(Here, Here') /\ GameHolds(Here')
  BY <1>4, <1>5, AppendExtends, GameGrows DEF IInv
<1>8. /\ submitted' # << >>
      /\ submitted'[1].call = call /\ submitted'[1].seen = Observation(actor)
  BY <1>1
<1>9. Accounted' = Len(Here)
  BY <1>4, <1>6, <1>8 DEF Accounted
<1>10. TraceHolds(Here', Len(Here), events')
  <2>1. TraceHolds(Here, Len(Here), events)
    BY <1>4 DEF IInv
  <2>2. Extends(events, events) /\ Len(Here) \in 0..Len(Here) /\ Len(Here) \in Len(Here)..Len(Here')
    BY <1>4, <1>6, ExtendsItself
  <2>3. \A i \in 1..Len(events) : EventFits(Here', Len(Here), events, i)
    BY <1>7, <2>1, <2>2, StillFits DEF TraceHolds
  <2>4. QED
    BY <1>3, <2>1, <2>3 DEF TraceHolds
<1>11. Active' = actor
  BY <1>2, <1>3 DEF Active
<1>12. Available(actor)' = Available(actor)
  BY <1>3 DEF Available, Inspected, Shared, CallEvents
<1>13. submitted'[1].seen = View(Here', Len(Here') - 1, events', Len(events'), actor)
  <2>1. Observation(actor) = View(Here, Len(Here), events, Len(events), actor)
    BY <1>3, <1>4, ObservationIsView
  <2>2. /\ Len(Here) \in 0..Len(Here) /\ Extends(events, events)
    BY <1>4, ExtendsItself
  <2>3. View(Here', Len(Here), events, Len(events), actor) = View(Here, Len(Here), events, Len(events), actor)
    BY <1>7, <2>2, PastOfNext
  <2>4. Len(Here') - 1 = Len(Here)
    BY <1>4, <1>6
  <2>5. QED
    BY <1>3, <1>8, <2>1, <2>3, <2>4
<1>14. SubmissionEarned(events', event)
  <2>1. \A resource \in ProofPaths[PathNamed(event.item)].resources : Earned(events, event, resource)
    BY <1>2, <1>5, CitedIsEarned
  <2>2. QED
    BY <1>3, <1>5, <2>1 DEF SubmissionEarned
<1>15. PendingHolds'
  <2>1. ended' = None /\ Active' \in Roles /\ Len(Here') >= 2
    BY <1>2, <1>3, <1>4, <1>6, <1>11
  <2>2. /\ submitted'[1].call \in Calls /\ submitted'[1].call.tool = "submit_resolution"
        /\ submitted'[1].call.cited # {} /\ submitted'[1].call.cited \subseteq Available(actor)'
        /\ ProofPaths[PathNamed(Here'[Len(Here')].item)].resources \subseteq submitted'[1].call.cited
    BY <1>2, <1>5, <1>6, <1>8, <1>12
  <2>3. Available(Active)' = Available(actor)'
    BY <1>11 DEF Available, Inspected
  <2>4. SubmissionEarned(events', Here'[Len(Here')])
    BY <1>6, <1>14
  <2>5. QED
    BY <1>11, <1>13, <2>1, <2>2, <2>3, <2>4 DEF PendingHolds
<1>16. ~Resolved /\ ~Resolved'
  BY <1>3, NoneAssumption DEF Resolved, Reasons
<1>17. UnresolvedTo(Here', Len(Here'))
  <2>1. UnresolvedTo(Here, Len(Here))
    BY <1>16 DEF IInv
  <2>2. \A i \in 1..Len(Here') : i \in 1..Len(Here) \/ i = Len(Here')
    BY <1>4, <1>6
  <2>3. QED
    BY <1>5, <1>6, <2>1, <2>2 DEF UnresolvedTo
<1>18. QED
  BY <1>2, <1>3, <1>7, <1>9, <1>10, <1>15, <1>16, <1>17 DEF IInv

\* The recording ends the episode as it ends the Session.
LEMMA RecordHolds ==
    ASSUME IInv, Record
    PROVE  IInv'
<1> DEFINE n == Len(Here)
           verdict == IF Here[n].item \in Correct THEN "correct" ELSE "incorrect"
           recorded == Event(Recording(Host).id, Recording(Host).by, "resolution-recorded", Phase(Table), None,
                             verdict, n, {}, NoBindings)
           reason == IF Last(Here').item = "correct" THEN "accepted_resolution" ELSE "incorrect_resolution"
           call == submitted[1].call
           seen == submitted[1].seen
<1>1. /\ submitted # << >> /\ RecordResolution(Table, Recording(Host)) /\ Accepted
      /\ Conclude(Active, call, "tool-call", {"trusted"}, TRUE, seen, reason)
      /\ submitted' = << >>
  BY DEF Record, Resolve
<1>2. PendingHolds /\ ended = None
  BY <1>1 DEF IInv, PendingHolds
<1>3. IsLog(Here) /\ n \in Nat /\ n >= 2 /\ Accounted = n - 1 /\ IsLog(events)
  BY <1>1, <1>2, AccountedFacts DEF Accounted, PendingHolds
<1>4. Recording(Host).args.submission = n
  BY DEF Recording, NoArgs
<1>5. /\ DOMAIN histories' = SessionIds
      /\ Here' = Here \/ (Fitting(Here, recorded) /\ Here' = Append(Here, recorded))
  BY <1>1, <1>4, RecordingAnswered DEF IInv
<1>6. Fitting(Here, recorded) /\ Here' = Append(Here, recorded)
  BY <1>1, <1>3, <1>5 DEF Accepted
<1>7. recorded.type = "resolution-recorded" /\ recorded.submission = n /\ recorded.item = verdict
  BY DEF Event
<1> HIDE DEF recorded
<1>8. /\ Len(Here') = n + 1 /\ Here'[n + 1] = recorded
      /\ \A i \in 1..n : Here'[i] = Here[i]
  BY <1>3, <1>6, LongerLog
<1>9. Extends(Here, Here') /\ GameHolds(Here')
  BY <1>3, <1>6, AppendExtends, GameGrows DEF IInv
<1>10. reason = IF Here[n].item \in Correct THEN "accepted_resolution" ELSE "incorrect_resolution"
  <2>1. Last(Here').item = verdict
    BY <1>7, <1>8 DEF Last
  <2>2. QED
    BY <2>1
<1> DEFINE event == Logged(Active, call, "tool-call", {"trusted"}, TRUE, seen)
<1>11. /\ event.type = "tool-call" /\ event.call = call /\ event.actor = Active
       /\ event.runtime = SubSeq(Here', Accounted + 1, Len(Here'))
  BY DEF Logged, ArenaEvent
<1> HIDE DEF event
<1>12. /\ call \in Calls /\ call.tool = "submit_resolution" /\ Active \in Roles
       /\ call.cited # {} /\ call.cited \subseteq Available(Active)
       /\ seen = View(Here, Accounted, events, Len(events), Active)
       /\ SubmissionEarned(events, Here[n])
       /\ ProofPaths[PathNamed(Here[n].item)].resources \subseteq call.cited
  BY <1>2, <1>3 DEF PendingHolds
<1>13. Made(event.runtime) = {1} /\ event.runtime[1] = Here[n]
  <2>1. event.runtime = SubSeq(Here', n, n + 1)
    <3>1. Accounted + 1 = n /\ Len(Here') = n + 1
      BY <1>3, <1>8
    <3>2. QED
      BY <1>11, <3>1
  <2>2. \A i \in n..(n + 1) : Here'[i] \in {Here[n], recorded}
    BY <1>3, <1>8
  <2>3. /\ SubSeq(Here', n, n + 1) \in Seq({Here[n], recorded})
        /\ Len(SubSeq(Here', n, n + 1)) = IF n <= n + 1 THEN (n + 1) - n + 1 ELSE 0
        /\ \A i \in 1..((n + 1) - n + 1) : SubSeq(Here', n, n + 1)[i] = Here'[n + i - 1]
    BY <1>3, <2>2, SubSeqProperties
  <2>4. Len(event.runtime) = 2 /\ event.runtime[1] = Here[n] /\ event.runtime[2] = recorded
    <3>1. (n + 1) - n + 1 = 2 /\ n <= n + 1 /\ n + 1 - 1 = n /\ n + 2 - 1 = n + 1 /\ 1 \in 1..2 /\ 2 \in 1..2
      BY <1>3
    <3>2. Here'[n] = Here[n]
      BY <1>3, <1>8
    <3>3. QED
      BY <1>8, <2>1, <2>3, <3>1, <3>2
  <2>5. DOMAIN event.runtime = 1..2
    <3>1. event.runtime \in Seq({Here[n], recorded})
      BY <2>1, <2>3
    <3>2. DOMAIN event.runtime = 1..Len(event.runtime)
      BY <3>1, LenProperties
    <3>3. QED
      BY <2>4, <3>2
  <2>6. Here[n].type = "resolution-submitted"
    BY <1>12 DEF SubmissionEarned
  <2>7. \A i \in 1..2 : i = 1 \/ i = 2
    OBVIOUS
  <2>8. event.runtime[1].type = "resolution-submitted" /\ event.runtime[2].type # "resolution-submitted"
    BY <1>7, <2>4, <2>6
  <2>9. QED
    BY <2>4, <2>5, <2>7, <2>8 DEF Made
<1>14. VisibilityHolds(event) /\ ShareFits(events, Len(events), event) /\ InspectionFits(Here, event)
  BY <1>11, <1>12 DEF VisibilityHolds, ShareFits, InspectionFits
<1>15. ResolutionFits(events, Len(events), event)
  <2>1. Cardinality(Made(event.runtime)) = 1
    BY <1>13, FS_Singleton
  <2>2. call.cited \subseteq Opened(events, Len(events), Active) \cup Told(events, Len(events))
    BY <1>12, TraceIsSeen DEF Available
  <2>3. QED
    BY <1>11, <1>12, <1>13, <2>1, <2>2 DEF ResolutionFits
<1>16. /\ TraceHolds(Here', Len(Here'), events')
       /\ Extends(events, events')
       /\ ended' = reason \/ (reason = None /\ ended' = "step_budget_exhausted")
  <2> HIDE DEF reason, call, seen
  <2>1. QED
    BY <1>1, <1>9, <1>12, <1>14, <1>15, Concluded DEF event
<1>17. ended' = reason
  BY <1>10, <1>16, NoneAssumption DEF Reasons
<1>18. Resolved' /\ ended' \in {None} \cup Reasons
  BY <1>10, <1>17 DEF Resolved, Reasons
<1>19. Accounted' = Len(Here')
  BY <1>1 DEF Accounted
<1>20. ResolutionHolds(Here, events)'
  <2>1. Len(Here') - 1 = n /\ Len(Here') >= 2 /\ Here'[Len(Here')] = recorded /\ Here'[Len(Here') - 1] = Here[n]
    BY <1>3, <1>8
  <2>2. UnresolvedTo(Here', n)
    <3>1. ~Resolved
      BY <1>2, NoneAssumption DEF Resolved, Reasons
    <3>2. UnresolvedTo(Here, n)
      BY <3>1 DEF IInv
    <3>3. QED
      BY <1>8, <3>2 DEF UnresolvedTo
  <2>3. SubmissionEarned(events', Here[n])
    BY <1>12, <1>16, StillEarned
  <2>4. QED
    BY <1>7, <1>10, <1>17, <2>1, <2>2, <2>3 DEF ResolutionHolds
<1>21. QED
  BY <1>1, <1>5, <1>9, <1>16, <1>18, <1>19, <1>20 DEF IInv

-----------------------------------------------------------------------------
(* The invariant holds *)

LEMMA ResetIInv == Reset => IInv
<1> SUFFICES ASSUME Reset PROVE IInv
  OBVIOUS
<1> DEFINE event == Genesis(Cast)
           log == <<event>>
           first == System("episode-reset", {"trusted"})
<1>1. /\ DOMAIN histories = SessionIds /\ Here = log
      /\ events = <<first>> /\ submitted = << >> /\ ended = None
  BY TableAssumption DEF Reset, Here
<1>2. /\ event.bindings = Cast /\ event.phase = Min(Phases) /\ event.grants = {}
      /\ event.type = "session-created"
  BY DEF Genesis, Event
<1> HIDE DEF event
<1>3. Len(log) = 1 /\ log[1] = event /\ log # << >> /\ IsLog(log)
  <2>1. log \in Seq({event})
    OBVIOUS
  <2>2. QED
    BY <2>1, SeqIsLog
<1>4. GameHolds(log)
  <2>1. \A n \in 1..Len(log) : n = 1
    BY <1>3
  <2>2. \A n \in 2..Len(log) : FALSE
    BY <1>3
  <2>3. PhaseOf(log) \in Phases
    BY <1>2, <1>3, Earliest DEF PhaseOf
  <2>4. QED
    BY <1>2, <1>3, <2>1, <2>2, <2>3 DEF GameHolds
<1>5. IsLog(<< >>) /\ Len(<< >>) = 0
  <2>1. << >> \in Seq({event}) /\ Len(<< >>) = 0
    BY EmptySeq
  <2>2. QED
    BY <2>1, SeqIsLog
<1> HIDE DEF log
<1>6. TraceHolds(log, 1, << >>)
  <2>1. \A i \in 1..Len(<< >>) : FALSE
    BY <1>5
  <2>2. \A n \in 2..1 : FALSE
    OBVIOUS
  <2>3. Tiles(1, << >>)
    BY <2>1, <2>2 DEF Tiles
  <2>4. QED
    BY <1>5, <2>1, <2>3 DEF TraceHolds
<1>7. TraceHolds(log, 1, Append(<< >>, first))
  <2>1. 1 \in 0..Len(log)
    BY <1>3
  <2>2. QED
    BY <1>3, <1>6, <2>1, SystemTraced
<1>8. Append(<< >>, first) = <<first>>
  <2> HIDE DEF first
  <2>1. QED
    OBVIOUS
<1>9. Accounted = 1
  BY <1>1, <1>3 DEF Accounted
<1>10. ~Resolved /\ UnresolvedTo(log, Len(log))
  <2>1. \A i \in 1..Len(log) : i = 1
    BY <1>3
  <2>2. QED
    BY <1>1, <1>2, <1>3, <2>1, NoneAssumption DEF Resolved, UnresolvedTo, Reasons
<1>11. QED
  BY <1>1, <1>4, <1>7, <1>8, <1>9, <1>10 DEF IInv

LEMMA NothingHappens ==
    ASSUME IInv, UNCHANGED <<session, arena>>
    PROVE  IInv'
<1>1. histories' = histories /\ events' = events /\ turn' = turn /\ submitted' = submitted /\ ended' = ended
  BY DEF session, vars, arena
<1>2. Here' = Here /\ Accounted' = Accounted /\ Active' = Active /\ Resolved' = Resolved
  BY <1>1 DEF Here, Accounted, Active, Resolved
<1>3. Available(Active)' = Available(Active)
  BY <1>1, <1>2 DEF Available, Inspected, Shared, CallEvents
<1>4. submitted # << >> => PendingHolds'
  BY <1>1, <1>2, <1>3 DEF IInv, PendingHolds
<1>5. Resolved => ResolutionHolds(Here, events)'
  BY <1>1, <1>2 DEF IInv, ResolutionHolds
<1>6. QED
  BY <1>1, <1>2, <1>4, <1>5 DEF IInv

LEMMA StepIInv ==
    ASSUME IInv, NEW actor, NEW call \in Calls, Step(actor, call)
    PROVE  IInv'
<1>1. CASE Malformed(actor, call) \/ OutOfBounds(actor, call) \/ SubmitUnearned(actor, call)
  BY <1>1, RefusedCallsHold
<1>2. CASE \/ Broadcast(actor, call) \/ EndSession(actor, call) \/ InspectEvidence(actor, call)
           \/ Say(actor, call) \/ ShareEvidence(actor, call) \/ Message(actor, call)
  BY <1>2, TalkHolds
<1>3. CASE HostCommand(actor, call) \/ SeatCommand(actor, call)
  BY <1>3, CommandHolds
<1>4. CASE SubmitRefused(actor, call)
  BY <1>4, SubmitRefusedHolds
<1>5. CASE Submit(actor, call)
  BY <1>5, SubmitHolds
<1>6. QED
  BY <1>1, <1>2, <1>3, <1>4, <1>5 DEF Step

LEMMA PlayIInv == IInv /\ [Play]_<<session, arena>> => IInv'
<1> SUFFICES ASSUME IInv, [Play]_<<session, arena>> PROVE IInv'
  OBVIOUS
<1>1. CASE \E actor \in Roles : OutOfTurn(actor) \/ Turn(actor)
  <2>1. PICK actor \in Roles : OutOfTurn(actor) \/ Turn(actor)
    BY <1>1
  <2>2. PICK some \in Calls : TRUE
    BY CallsAssumption
  <2>3. CASE OutOfTurn(actor) \/ UnauthorizedTool(actor)
    BY <2>2, <2>3, RefusedCallsHold
  <2>4. CASE \E call \in Calls : Step(actor, call)
    BY <2>4, StepIInv
  <2>5. QED
    BY <2>1, <2>3, <2>4 DEF Turn
<1>2. CASE Record
  BY <1>2, RecordHolds
<1>3. CASE Archive
  BY <1>3, NothingHappens DEF Archive
<1>4. CASE UNCHANGED <<session, arena>>
  BY <1>4, NothingHappens
<1>5. QED
  BY <1>1, <1>2, <1>3, <1>4 DEF Play

LEMMA EpisodeIInv == Episode => []IInv
<1>1. Reset => IInv
  BY ResetIInv
<1>2. IInv /\ [Play]_<<session, arena>> => IInv'
  BY PlayIInv
<1>3. QED
  BY <1>1, <1>2, PTL DEF Episode

-----------------------------------------------------------------------------
(* The archive verifies *)

\* What the verifier scans for is what the trace says.
LEMMA Rederives ==
    ASSUME IInv, NEW i \in 1..Len(events), NEW actor
    PROVE  /\ InspectedBefore(i, actor) = Opened(events, i - 1, actor)
           /\ SharedBefore(i) = Told(events, i - 1)
           /\ {j \in CallEvents : j < i /\ events[j].actor = actor} = Taken(events, i - 1, actor)
<1>1. DOMAIN events = 1..Len(events) /\ Len(events) \in Nat
  BY AccountedFacts, LogFacts
<1>2. \A k : k \in CallEvents /\ k < i <=> k \in 1..(i - 1) /\ events[k].call # None
  BY <1>1 DEF CallEvents
<1>3. {k \in CallEvents : /\ k < i /\ events[k].actor = actor
                         /\ events[k].call.tool = "inspect_evidence" /\ events[k].accepted}
        = {k \in 1..(i - 1) : /\ events[k].call # None /\ events[k].actor = actor
                             /\ events[k].call.tool = "inspect_evidence" /\ events[k].accepted}
  BY <1>2
<1>4. InspectedBefore(i, actor) = Opened(events, i - 1, actor)
  BY <1>3 DEF InspectedBefore, Opened
<1>5. {k \in CallEvents : k < i /\ events[k].type = "evidence-shared" /\ events[k].accepted}
        = {k \in 1..(i - 1) : events[k].call # None /\ events[k].type = "evidence-shared" /\ events[k].accepted}
  BY <1>2
<1>6. SharedBefore(i) = Told(events, i - 1)
  BY <1>5 DEF SharedBefore, Told
<1>7. {j \in CallEvents : j < i /\ events[j].actor = actor} = Taken(events, i - 1, actor)
  BY <1>2 DEF Taken
<1>8. QED
  BY <1>4, <1>6, <1>7

LEMMA HoldingVerifies == IInv => Verifies
<1> SUFFICES ASSUME IInv PROVE Verifies
  OBVIOUS
<1>1. /\ DOMAIN events = 1..Len(events) /\ DOMAIN Here = 1..Len(Here) /\ Len(Here) \in Nat
      /\ Accounted \in 1..Len(Here)
  BY AccountedFacts, LogFacts
<1>2. ASSUME NEW i \in DOMAIN events
      PROVE  VisibilityHolds(events[i]) /\ ToSet(events[i].runtime) \subseteq ToSet(Here)
  <2>1. EventFits(Here, Accounted, events, i)
    BY <1>1 DEF IInv, TraceHolds
  <2>2. ASSUME NEW k \in DOMAIN events[i].runtime
        PROVE  events[i].runtime[k] \in ToSet(Here)
    <3>1. events[i].before + k \in 1..Accounted /\ Here[events[i].before + k] = events[i].runtime[k]
      BY <2>1 DEF EventFits
    <3>2. events[i].before + k \in DOMAIN Here
      BY <1>1, <3>1
    <3>3. QED
      BY <3>1, <3>2 DEF ToSet
  <2>3. QED
    BY <2>1, <2>2 DEF EventFits, ToSet
<1>3. ASSUME NEW i \in CallEvents
      PROVE  /\ events[i].observation = Rederived(i)
             /\ ShareIsEarned(i)
             /\ ResolutionIsEarned(i)
  <2> DEFINE who == events[i].actor
  <2>1. i \in 1..Len(events) /\ events[i].call # None
    BY <1>1 DEF CallEvents
  <2>2. EventFits(Here, Accounted, events, i) /\ CallFits(Here, Accounted, events, i)
    BY <2>1 DEF IInv, TraceHolds, EventFits
  <2>3. /\ InspectedBefore(i, who) = Opened(events, i - 1, who)
        /\ SharedBefore(i) = Told(events, i - 1)
        /\ {j \in CallEvents : j < i /\ events[j].actor = who} = Taken(events, i - 1, who)
    BY <2>1, Rederives
  <2>4. events[i].observation = Rederived(i)
    <3>1. events[i].observation = View(Here, events[i].before, events, i - 1, who)
      BY <2>2 DEF CallFits
    <3>2. QED
      BY <2>3, <3>1 DEF View, Rederived, Heard
  <2>5. ShareIsEarned(i)
    BY <2>2, <2>3 DEF EventFits, ShareFits, ShareIsEarned
  <2>6. ResolutionIsEarned(i)
    BY <2>2, <2>3 DEF CallFits, ResolutionFits, ResolutionIsEarned, Made
  <2>7. QED
    BY <2>4, <2>5, <2>6
<1>4. QED
  BY <1>2, <1>3 DEF Verifies

LEMMA HoldingAccounts == IInv /\ submitted = << >> => AccountsFor
<1> SUFFICES ASSUME IInv, submitted = << >> PROVE AccountsFor
  OBVIOUS
<1>1. /\ DOMAIN events = 1..Len(events) /\ DOMAIN Here = 1..Len(Here)
      /\ Accounted = Len(Here)
  BY AccountedFacts, LogFacts DEF Accounted
<1>2. TraceHolds(Here, Len(Here), events)
  BY <1>1 DEF IInv
<1>3. \A i \in DOMAIN events : \A k \in DOMAIN events[i].runtime :
         events[i].before + k \in DOMAIN Here /\ Here[events[i].before + k] = events[i].runtime[k]
  BY <1>1, <1>2 DEF TraceHolds, EventFits
<1>4. \A n \in 2..Len(Here) : \E i \in CallEvents : n \in (events[i].before + 1)..After(i)
  BY <1>1, <1>2 DEF TraceHolds, Tiles, Covers, CallEvents, After
<1>5. \A i, j \in CallEvents : i < j => After(i) <= events[j].before
  BY <1>1, <1>2 DEF TraceHolds, Tiles, CallEvents, After
<1>6. QED
  BY <1>3, <1>4, <1>5 DEF AccountsFor

\* Whatever policies answer, the archive of the episode verifies at every step and
\* accounts for every event of its Session.
THEOREM ArchivesVerify == Episode => []TraceVerifies
<1>1. IInv => TraceVerifies
  BY HoldingVerifies, HoldingAccounts DEF TraceVerifies
<1>2. QED
  BY <1>1, EpisodeIInv, PTL

-----------------------------------------------------------------------------
(* The outcome was earned *)

LEMMA HoldingEarned == IInv => OutcomeEarned
<1> SUFFICES ASSUME IInv PROVE OutcomeEarned
  OBVIOUS
<1> DEFINE resolved == {i \in DOMAIN Here : Here[i].type = "resolution-recorded"}
           n == Len(Here)
<1>1. DOMAIN Here = 1..n /\ n \in Nat
  BY AccountedFacts, LogFacts
<1>2. CASE Resolved
  <2>1. ResolutionHolds(Here, events) /\ submitted = << >>
    <3>1. ended # None
      BY <1>2, NoneAssumption DEF Resolved, Reasons
    <3>2. QED
      BY <1>2, <3>1 DEF IInv, PendingHolds
  <2>2. /\ n >= 2 /\ UnresolvedTo(Here, n - 1)
        /\ Here[n].type = "resolution-recorded" /\ Here[n].submission = n - 1
        /\ SubmissionEarned(events, Here[n - 1])
        /\ IF Here[n - 1].item \in Correct
           THEN Here[n].item = "correct" /\ ended = "accepted_resolution"
           ELSE Here[n].item = "incorrect" /\ ended = "incorrect_resolution"
    BY <2>1 DEF ResolutionHolds
  <2>3. resolved = {n}
    <3>1. n \in resolved
      BY <1>1, <2>2
    <3>2. ASSUME NEW i \in resolved PROVE i = n
      <4>1. i \in 1..n /\ i \notin 1..(n - 1)
        BY <1>1, <2>2 DEF UnresolvedTo
      <4>2. QED
        BY <1>1, <4>1
    <3>3. QED
      BY <3>1, <3>2
  <2>4. ended \in {"accepted_resolution", "incorrect_resolution"} <=> resolved # {}
    BY <1>2, <2>3 DEF Resolved
  <2>5. Rewarded <=> ended = "accepted_resolution"
    <3>1. Here[Here[n].submission].type = "resolution-submitted"
      BY <2>2 DEF SubmissionEarned
    <3>2. Here[n].item = "correct" <=> ended = "accepted_resolution"
      BY <2>2
    <3>3. QED
      BY <2>3, <3>1, <3>2, HoldingVerifies DEF Rewarded
  <2>6. ASSUME NEW i \in resolved
        PROVE  LET submission == Here[Here[i].submission]
               IN /\ ended = "accepted_resolution" <=> submission.item \in Correct
                  /\ \A resource \in ProofPaths[PathNamed(submission.item)].resources :
                       \E seat \in Seats :
                           /\ resource \in Inspected(ActorOf(seat))
                           /\ seat = submission.seat \/ resource \in Shared
                           /\ \E reveal \in Reveals : /\ reveal.seat = seat /\ reveal.resource = resource
                                                     /\ reveal.phase <= submission.phase
    <3>1. Here[Here[i].submission] = Here[n - 1]
      BY <2>2, <2>3
    <3>2. ended = "accepted_resolution" <=> Here[n - 1].item \in Correct
      BY <2>2
    <3>3. \A resource \in ProofPaths[PathNamed(Here[n - 1].item)].resources : Earned(events, Here[n - 1], resource)
      BY <2>2 DEF SubmissionEarned
    <3>4. QED
      BY <3>1, <3>2, <3>3, TraceIsSeen DEF Earned
  <2>7. QED
    BY <2>4, <2>5, <2>6 DEF OutcomeEarned
<1>3. CASE ~Resolved
  <2>1. UnresolvedTo(Here, n)
    BY <1>3 DEF IInv
  <2>2. resolved = {}
    BY <1>1, <2>1 DEF UnresolvedTo
  <2>3. ~Rewarded /\ ended # "accepted_resolution"
    BY <1>3, <2>2 DEF Rewarded, Resolved
  <2>4. QED
    BY <1>3, <2>2, <2>3 DEF OutcomeEarned, Resolved
<1>4. QED
  BY <1>2, <1>3

\* An episode is resolved as its Session is, exactly the accepted resolutions are
\* rewarded, and each resource of the path was disclosed in time and opened by the
\* submitter or by a role that shared it.
THEOREM OutcomesAreEarned == Episode => []OutcomeEarned
<1>1. IInv => OutcomeEarned
  BY HoldingEarned
<1>2. QED
  BY <1>1, EpisodeIInv, PTL
=============================================================================
