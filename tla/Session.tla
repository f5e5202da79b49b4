------------------------------- MODULE Session -------------------------------
(***************************************************************************)
(* runtime/runtime.py: Sessions over one Release, and the Commands hosts   *)
(* and Actors send them.  A client builds a Command on a revision it saw   *)
(* earlier, so a Command arrives late, twice, or after others; a command   *)
(* id may come back with another request.  Forks share a prefix.           *)
(***************************************************************************)
EXTENDS SessionLog, FiniteSets, FiniteSetsExt

CONSTANTS
    SessionIds,
    Humans,             \* the Actors of kind human
    Hosts,              \* principals with a host Viewer grant
    Casts,              \* Actor Bindings create_session is called with
    Resources,          \* of the kernel
    Propositions,       \* of the game
    ResolutionPhase,
    Interventions,      \* id -> its Phase and the resources of its evidence
    Moves,              \* [seat, phase, move] a Character Program offers
    Answers,            \* hypothesis with proof path
    Correct,            \* those the Release accepts
    Items,              \* what payloads name
    Requests,           \* what clients may ask for, at whatever revision
    MaxSequence,        \* bound: events of a Session
    MaxRefusals         \* bound: rejection receipts of a Session

\* AuthorizationContext, the parameters of a Command, SessionCommand.
Authorities == [kind : {"viewer", "actor", "system"}, principal : {None} \cup STRING, binding : {None} \cup BindingIds]
Args == [phase : {None} \cup Int, seats : SUBSET Seats, resources : SUBSET STRING,
         item : {None} \cup Items, submission : Nat, seat : {None} \cup Seats,
         binding : {None} \cup Binding]
Request == [id : STRING, session : SessionIds, action : STRING, by : Authorities, args : Args,
            expected : Nat]

EventTypes ==
    {"session-created", "session-opened", "hint-requested", "evidence-requested", "claim-shared",
     "phase-advanced", "resource-disclosed", "intervention-delivered",
     "exceptional-intervention-recorded", "resolution-submitted", "resolution-recorded",
     "actor-replaced", "private-note-added", "character-state-updated"}

\* SessionEvent, the payloads of all types side by side.
SessionEvent ==
    [command : {None} \cup STRING, by : Authorities, type : EventTypes, phase : Phases, seat : {None} \cup Seats,
     item : {None} \cup Items, submission : Nat, grants : SUBSET Grant,
     bindings : UNION {[seats -> Binding] : seats \in SUBSET Seats}]

ASSUME ActorsAssumption == Humans \subseteq Actors /\ None \notin BindingIds
ASSUME CastsAssumption == Casts \subseteq [Seats -> Binding]
ASSUME GameAssumption ==
    ResolutionPhase \in Phases /\ Correct \subseteq Answers /\ {"correct", "incorrect"} \subseteq Items
ASSUME RequestsAssumption ==
    /\ Requests \subseteq Request
    /\ \A request \in Requests : request.action = "replace-actor" => request.args.binding \in Binding
ASSUME BoundsAssumption == MaxSequence \in Nat \ {0} /\ MaxRefusals \in Nat

VARIABLES
    histories,  \* ordered_events of each Session, << >> before it exists
    prefix,     \* how many of them a fork took from its source
    mode,
    receipts    \* Command Receipts: the request, and its event's sequence or 0

vars == <<histories, prefix, mode, receipts>>

NoBindings == [seat \in {} |-> None]

\* The parameters of a Command, those its action does not have left empty.
NoArgs == [phase |-> None, seats |-> {}, resources |-> {}, item |-> None,
           submission |-> 0, seat |-> None, binding |-> None]

\* The phase is the represented Phase, not a parameter.
Event(id, by, type, phase, seat, item, submission, grants, bindings) ==
    [command |-> id, by |-> by, type |-> type, phase |-> phase, seat |-> seat, item |-> item,
     submission |-> submission, grants |-> grants, bindings |-> bindings]

Init ==
    /\ histories = [s \in SessionIds |-> << >>]
    /\ prefix = [s \in SessionIds |-> 0]
    /\ mode = [s \in SessionIds |-> None]
    /\ receipts = [s \in SessionIds |-> {}]

-----------------------------------------------------------------------------
(* create_session and fork_session *)

Genesis(cast) ==
    Event(None, [kind |-> "system", principal |-> None, binding |-> None],
          "session-created", Min(Phases),
          None, None, 0, {}, cast)

Different(cast) ==
    \A a, b \in Seats : a # b => cast[a].actor # cast[b].actor /\ cast[a].id # cast[b].id

Create(s, m, cast) ==
    /\ histories[s] = << >>
    /\ Different(cast)
    /\ m = "live" => \A seat \in Seats : cast[seat].actor \in Humans
    /\ histories' = [histories EXCEPT ![s] = <<Genesis(cast)>>]
    /\ mode' = [mode EXCEPT ![s] = m]
    /\ UNCHANGED <<prefix, receipts>>

\* A fork takes the events up to a sequence, and none of the receipts.
Fork(source, s, at) ==
    /\ histories[s] = << >>
    /\ at \in 1..Len(histories[source])
    /\ histories' = [histories EXCEPT ![s] = SubSeq(histories[source], 1, at)]
    /\ prefix' = [prefix EXCEPT ![s] = at]
    /\ mode' = [mode EXCEPT ![s] = "simulation"]
    /\ UNCHANGED receipts

-----------------------------------------------------------------------------
(* apply_command: what every Command goes through *)

\* Mutant: a receipt is only looked up by the whole request.
CurrentForgettingIds(s, c) == c.session = s /\ c.expected = Len(histories[s])

\* Mutant: expected_sequence is not compared.
CurrentWhatever(s, c) ==
    /\ \A r \in receipts[s] : r.request.id # c.id
    /\ c.session = s

\* The checks before the action is looked at: the id is new, the identity is
\* this Session's, and nothing happened since the revision the sender saw.
Current(s, c) ==
    /\ \A r \in receipts[s] : r.request.id # c.id
    /\ c.session = s
    /\ c.expected = Len(histories[s])

Accept(s, c, event) ==
    /\ Len(histories[s]) < MaxSequence
    /\ histories' = [histories EXCEPT ![s] = Append(@, event)]
    /\ receipts' = [receipts EXCEPT ![s] =
                      @ \cup {[request |-> c, sequence |-> Len(histories[s]) + 1]}]

Refuse(s, c) ==
    /\ Cardinality({r \in receipts[s] : r.sequence = 0}) < MaxRefusals
    /\ receipts' = [receipts EXCEPT ![s] = @ \cup {[request |-> c, sequence |-> 0]}]
    /\ UNCHANGED histories

\* One Event or one rejection Receipt; a request answered before changes nothing.
Answer(s, c, allowed, event) ==
    /\ \A r \in receipts[s] : r.request # c
    /\ IF Current(s, c) /\ allowed THEN Accept(s, c, event) ELSE Refuse(s, c)
    /\ UNCHANGED <<prefix, mode>>

Status(s) == StatusOf(histories[s])
Phase(s) == PhaseOf(histories[s])
ByHost(c) == c.by.kind = "viewer" /\ c.by.principal \in Hosts

\* Mutant: the host acts whatever the status.
HostAnyTime(s, c) == ByHost(c)

HostWhileActive(s, c) == ByHost(c) /\ Status(s) = "active"
ActorWhileActive(s, c) == SeatsOf(histories[s], c.by) # {} /\ Status(s) = "active"
SeatOf(s, c) == CHOOSE seat \in SeatsOf(histories[s], c.by) : TRUE

\* What a seat does, and what is said about the table as a whole.
SeatEvent(s, c, type, item) ==
    Event(c.id, c.by, type, Phase(s), SeatOf(s, c), item, 0, {}, NoBindings)
TableEvent(c, type, phase, item, grants) ==
    Event(c.id, c.by, type, phase, None, item, 0, grants, NoBindings)

\* The disclosures of these resources to these seats.
Grants(seats, resources) == {[seat |-> x, resource |-> y] : x \in seats, y \in resources}
AllRevealed(s, grants) == \A grant \in grants : Revealed(Phase(s), grant)

-----------------------------------------------------------------------------
(* apply_command: the actions *)

OpenSession(s, c) ==
    /\ c.action = "open-session"
    /\ Answer(s, c, ByHost(c) /\ Status(s) = "created",
         TableEvent(c, "session-opened", Phase(s), None,
           {grant \in {[seat |-> r.seat, resource |-> r.resource] : r \in Reveals} :
              Revealed(Min(Phases), grant)}))

RequestHint(s, c) ==
    /\ c.action = "request-hint"
    /\ Answer(s, c, ActorWhileActive(s, c),
         SeatEvent(s, c, "hint-requested", None))

RequestEvidence(s, c) ==
    /\ c.action = "request-evidence"
    /\ Answer(s, c, ActorWhileActive(s, c) /\ c.args.item \in Resources,
         SeatEvent(s, c, "evidence-requested", c.args.item))

ShareClaim(s, c) ==
    /\ c.action = "share-claim"
    /\ Answer(s, c, ActorWhileActive(s, c) /\ c.args.item \in Propositions,
         SeatEvent(s, c, "claim-shared", c.args.item))

AdvancePhase(s, c) ==
    /\ c.action = "advance-phase"
    /\ Answer(s, c, HostWhileActive(s, c) /\ c.args.phase \in Phases /\ c.args.phase = Phase(s) + 1,
         TableEvent(c, "phase-advanced", c.args.phase, None, {}))

DiscloseResource(s, c) ==
    LET grants == Grants(c.args.seats, c.args.resources)
    IN /\ c.action = "disclose-resource"
       /\ Answer(s, c, HostWhileActive(s, c) /\ AllRevealed(s, grants),
            TableEvent(c, "resource-disclosed", Phase(s), None, grants))

DeliverIntervention(s, c) ==
    LET planned == Interventions[c.args.item]
        grants == Grants(c.args.seats, planned.resources)
    IN /\ c.action = "deliver-intervention"
       /\ Answer(s, c, /\ HostWhileActive(s, c)
                       /\ c.args.item \in DOMAIN Interventions
                       /\ planned.phase <= Phase(s)
                       /\ AllRevealed(s, grants),
            TableEvent(c, "intervention-delivered", Phase(s), c.args.item, grants))

RecordExceptionalIntervention(s, c) ==
    LET grants == Grants(c.args.seats, c.args.resources)
    IN /\ c.action = "record-exceptional-intervention"
       /\ Answer(s, c, /\ HostWhileActive(s, c)
                       /\ c.args.seats # {} /\ c.args.seats \subseteq Seats
                       /\ AllRevealed(s, grants),
            TableEvent(c, "exceptional-intervention-recorded", Phase(s), None, grants))

SubmitResolution(s, c) ==
    /\ c.action = "submit-resolution"
    /\ Answer(s, c, /\ ActorWhileActive(s, c)
                    /\ Phase(s) >= ResolutionPhase
                    /\ c.args.item \in Answers,
         SeatEvent(s, c, "resolution-submitted", c.args.item))

\* The item of the event says whether the submission was correct.
RecordResolution(s, c) ==
    LET log == histories[s]
        n == c.args.submission
    IN /\ c.action = "record-resolution"
       /\ Answer(s, c, /\ HostWhileActive(s, c)
                       /\ n \in DOMAIN log /\ log[n].type = "resolution-submitted",
            Event(c.id, c.by, "resolution-recorded", Phase(s), None,
              IF log[n].item \in Correct THEN "correct" ELSE "incorrect", n, {}, NoBindings))

Replacement(s, c) ==
    Event(c.id, c.by, "actor-replaced", Phase(s), c.args.seat, None, 0, {},
          [seat \in {c.args.seat} |-> c.args.binding])

\* Mutant: the ids of ended bindings are free again.
ReplaceActorReusing(s, c) ==
    LET log == histories[s]
        new == c.args.binding
    IN /\ c.action = "replace-actor"
       /\ Answer(s, c, /\ ByHost(c)
                       /\ c.args.seat \in Seats
                       /\ mode[s] = "live" => new.actor \in Humans
                       /\ \A seat \in Seats \ {c.args.seat} : BindingOf(log, seat).actor # new.actor
                       /\ \A seat \in Seats : BindingOf(log, seat).id # new.id,
            Replacement(s, c))

\* The old binding ends and a binding never used before takes the seat.
ReplaceActor(s, c) ==
    LET log == histories[s]
        new == c.args.binding
    IN /\ c.action = "replace-actor"
       /\ Answer(s, c, /\ ByHost(c)
                       /\ c.args.seat \in Seats
                       /\ mode[s] = "live" => new.actor \in Humans
                       /\ \A seat \in Seats \ {c.args.seat} : BindingOf(log, seat).actor # new.actor
                       /\ new.id \notin BindingIdsIn(log),
            Replacement(s, c))

\* Notes belong to the actor; they may be added whatever the status.
AddPrivateNote(s, c) ==
    /\ c.action = "add-private-note"
    /\ Answer(s, c, SeatsOf(histories[s], c.by) # {},
         TableEvent(c, "private-note-added", Phase(s), c.args.item, {}))

UpdateCharacterState(s, c) ==
    /\ c.action = "update-character-state"
    /\ Answer(s, c, /\ ActorWhileActive(s, c)
                    /\ [seat |-> SeatOf(s, c), phase |-> Phase(s), move |-> c.args.item] \in Moves,
         SeatEvent(s, c, "character-state-updated", c.args.item))

Apply(s, c) ==
    \/ OpenSession(s, c) \/ RequestHint(s, c) \/ RequestEvidence(s, c) \/ ShareClaim(s, c)
    \/ AdvancePhase(s, c) \/ DiscloseResource(s, c) \/ DeliverIntervention(s, c)
    \/ RecordExceptionalIntervention(s, c) \/ SubmitResolution(s, c) \/ RecordResolution(s, c)
    \/ ReplaceActor(s, c) \/ AddPrivateNote(s, c) \/ UpdateCharacterState(s, c)

\* A request as its sender built it on one revision.
At(request, revision) == [request EXCEPT !.expected = revision]

Next ==
    \E s \in SessionIds :
        \/ \E m \in {"live", "simulation"}, cast \in Casts : Create(s, m, cast)
        \/ \E source \in SessionIds : \E at \in 1..Len(histories[source]) : Fork(source, s, at)
        \/ \E request \in Requests, revision \in 1..Len(histories[s]) :
             Apply(s, At(request, revision))

Spec == Init /\ [][Next]_vars

-----------------------------------------------------------------------------
(* Properties *)

TypeOK ==
    /\ histories \in [SessionIds -> Seq(SessionEvent)]
    /\ prefix \in [SessionIds -> Nat]
    /\ mode \in [SessionIds -> {None, "live", "simulation"}]
    /\ receipts \in [SessionIds -> SUBSET [request : Request, sequence : Nat]]

\* The events of a Session that Commands of its own caused.
Applied(s) ==
    LET first == IF prefix[s] # 0 THEN prefix[s] ELSE 1
        log == histories[s]
    IN IF Len(log) < first THEN << >>
       ELSE [i \in 1..(Len(log) - first) |-> log[first + i].command]

Authority == INSTANCE ExactlyOnce WITH
    Requests <- {At(request, n) : request \in Requests, n \in 1..MaxSequence},
    applied <- [s \in SessionIds |-> Applied(s)],
    answers <- [s \in SessionIds |->
                  {[request |-> r.request, accepted |-> r.sequence # 0] : r \in receipts[s]}]

\* Each Session answers every request once and applies every command id once,
\* however often and in whatever order requests are repeated.
ImplementsExactlyOnce == Authority!Spec

\* verify_history accepts what apply_command made: an accepted receipt names an
\* event of its own command, and it is the event after the revision the sender
\* saw, so no Command ever took effect on a Session its sender had not seen.
AcceptedOnWhatWasSeen ==
    \A s \in SessionIds : \A r \in receipts[s] :
        r.sequence # 0 =>
            /\ r.sequence = r.request.expected + 1
            /\ histories[s][r.sequence].command = r.request.id
            /\ histories[s][r.sequence].by = r.request.by

\* Nothing is told to a seat before the Phase in which a Reveal allows it, by
\* opening, disclosure, planned or exceptional intervention, in any fork.
NothingEarly ==
    \A s \in SessionIds : histories[s] # << >> =>
        \A seat \in Seats : \A resource \in DisclosedTo(histories[s], seat) :
            \E reveal \in Reveals :
                /\ reveal.phase <= Phase(s)
                /\ reveal.seat = seat /\ reveal.resource = resource

\* Whatever an actor did, it did while it controlled the seat: a Command it
\* sent before it was replaced is worth nothing afterwards.
ActsWhileSeated ==
    \A s \in SessionIds : \A i \in DOMAIN histories[s] :
        LET event == histories[s][i]
            before == SubSeq(histories[s], 1, i - 1)
        IN event.by.kind = "actor" =>
             \E seat \in Seats :
                /\ BindingOf(before, seat).id = event.by.binding
                /\ BindingOf(before, seat).actor = event.by.principal
                /\ event.seat \in {seat, None}

\* One actor controls one seat, and a binding id names one binding for ever,
\* through any chain of replacements and forks.
OneSeatEach ==
    \A s \in SessionIds : histories[s] # << >> =>
        /\ \A a, b \in Seats : a # b => BindingOf(histories[s], a).actor # BindingOf(histories[s], b).actor
        /\ \A i, j \in DOMAIN histories[s] :
             \A a \in DOMAIN histories[s][i].bindings, b \in DOMAIN histories[s][j].bindings :
                histories[s][i].bindings[a].id = histories[s][j].bindings[b].id => i = j /\ a = b

\* "Live Sessions allow human Actors": nobody else ever sits in one.
LiveIsHuman ==
    \A s \in SessionIds : mode[s] = "live" =>
        \A i \in DOMAIN histories[s] : \A seat \in DOMAIN histories[s][i].bindings :
            histories[s][i].bindings[seat].actor \in Humans

\* A Session is resolved once, for a submission made earlier in its own history
\* (or before the fork) by a seated actor when the Resolution was open; only
\* replacements and notes come after.
ResolvedOnce ==
    \A s \in SessionIds : \A i \in DOMAIN histories[s] :
        LET log == histories[s]
            n == log[i].submission
        IN log[i].type = "resolution-recorded" =>
            /\ n \in 1..(i - 1)
            /\ log[n].type = "resolution-submitted" /\ log[n].phase >= ResolutionPhase
            /\ log[i].item = "correct" <=> log[n].item \in Correct
            /\ \A j \in DOMAIN log : j > i => log[j].type \in {"actor-replaced", "private-note-added"}
=============================================================================
