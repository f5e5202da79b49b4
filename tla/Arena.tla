-------------------------------- MODULE Arena --------------------------------
(***************************************************************************)
(* simulation/environment.py: one multi-agent episode over one Session.    *)
(* A host and one policy per Seat take turns in a fixed order; each turn is *)
(* one tool call, and most tools are Commands of the Session Authority.    *)
(* simulation/verification.py re-derives the trace from what is archived.  *)
(***************************************************************************)
EXTENDS Session, SequencesExt

CONSTANTS
    Table,              \* session_id of the episode
    Host,               \* _host_actor_id
    Cast,               \* the Actor Binding of each Seat
    SeatOrder,          \* realized_seat_order
    Dossiers,           \* Seats with a dossier
    PrivateMessages,    \* config.allow_private_messages
    MaxSteps,           \* config.max_steps
    Hypotheses,
    ProofPaths,         \* id (a number, in the order of the ids) -> hypothesis, resources of its evidence
    Submissions,        \* <<hypothesis, proof path>> -> the Item that names them
    Calls               \* the tool calls policies may answer with

\* ToolCall: a tool with its arguments, or without those it needs.
Call == [tool : STRING, args : Args, hypothesis : {None} \cup Hypotheses,
         cited : SUBSET Resources, malformed : BOOLEAN]

\* _termination_reason
Reasons == {"authorization_failure", "safety_failure", "host_end", "step_budget_exhausted",
            "accepted_resolution", "incorrect_resolution"}

ASSUME TableAssumption == Table \in SessionIds /\ Cast \in Casts /\ Different(Cast) /\ Host \in Hosts
ASSUME OrderAssumption == SeatOrder \in Seq(Seats) /\ IsInjective(SeatOrder) /\ ToSet(SeatOrder) = Seats
ASSUME ConfigAssumption == MaxSteps \in Nat \ {0} /\ PrivateMessages \in BOOLEAN /\ Dossiers \subseteq Seats
ASSUME PathsAssumption ==
    /\ DOMAIN ProofPaths \subseteq Nat
    /\ ProofPaths \in [DOMAIN ProofPaths -> [hypothesis : Hypotheses, resources : SUBSET Resources]]
    /\ Submissions \in [Hypotheses \X DOMAIN ProofPaths -> Answers] /\ IsInjective(Submissions)
ASSUME CallsAssumption ==
    /\ Calls \subseteq Call /\ Calls # {}
    /\ \A call \in Calls : call.malformed => call.tool # "open_session"
ASSUME NoneAssumption == None \notin Answers /\ None \notin Calls /\ None \notin Reasons

VARIABLES
    events,     \* the arena's own Events
    turn,       \* _turn_index
    submitted,  \* the call whose submission waits to be recorded, and what was seen
    ended       \* _termination_reason

arena == <<events, turn, submitted, ended>>
session == vars

ActorOf(seat) == Cast[seat].actor
Schedule == <<Host>> \o [i \in DOMAIN SeatOrder |-> ActorOf(SeatOrder[i])]
Roles == ToSet(Schedule)
SeatFor(actor) == CHOOSE seat \in Seats : ActorOf(seat) = actor
Active == Schedule[turn]

\* _auth
AuthorityOf(actor) ==
    IF actor = Host THEN Viewer(Host) ELSE Bound(actor, Cast[SeatFor(actor)].id)

Here == histories[Table]

-----------------------------------------------------------------------------
(* What a role may see and do *)

Dialogue == {"said", "private-message", "host-broadcast", "evidence-shared"}
CallEvents == {i \in DOMAIN events : events[i].call # None}

\* _inspected_resources
Inspected(actor) ==
    {events[i].call.args.item : i \in {j \in CallEvents :
        /\ events[j].actor = actor
        /\ events[j].call.tool = "inspect_evidence"
        /\ events[j].accepted}}

Shared == {events[i].call.args.item : i \in {j \in DOMAIN events : events[j].type = "evidence-shared"}}

\* _available_resolution_evidence
Available(actor) == Inspected(actor) \cup Shared

\* _dialogue_for
DialogueFor(actor) ==
    {i \in DOMAIN events : /\ events[i].type \in Dialogue
                           /\ {"public", actor} \cap events[i].visibility # {}}

\* _legal_tools, with allowed_actions of seat_snapshot.
HostTools ==
    CASE Status(Table) = "created" -> {"open_session"}
      [] Status(Table) = "active" ->
           {"broadcast", "disclose_resource", "deliver_intervention", "end_session"}
             \cup {tool \in {"advance_phase"} : Phase(Table) < Max(Phases)}
      [] OTHER -> {}

SeatTools(actor) ==
    {"inspect_evidence", "say"}
      \cup {tool \in {"share_evidence"} : Inspected(actor) # {}}
      \cup {tool \in {"message"} : PrivateMessages}
      \cup {tool \in {"request_evidence", "request_hint", "share_claim",
                      "update_character_state", "submit_resolution"} :
              /\ Status(Table) = "active"
              /\ tool = "update_character_state" => SeatFor(actor) \in Dossiers
              /\ tool = "submit_resolution" => Phase(Table) = ResolutionPhase}

LegalTools(actor) ==
    IF ended # None \/ actor # Active THEN {}
    ELSE IF actor = Host THEN HostTools ELSE SeatTools(actor)

Snapshot(log, actor) ==
    [sequence |-> Len(log), status |-> StatusOf(log), phase |-> PhaseOf(log),
     resources |-> IF actor = Host THEN {} ELSE DisclosedTo(log, SeatFor(actor))]

\* observe
Observation(actor) ==
    [game |-> Snapshot(Here, actor),
     inspected |-> IF actor = Host THEN {} ELSE Inspected(actor),
     shared |-> IF actor = Host THEN {} ELSE Shared \ Inspected(actor),
     dialogue |-> DialogueFor(actor),
     prior |-> Cardinality({i \in CallEvents : events[i].actor = actor})]

-----------------------------------------------------------------------------
(* step: what every call goes through *)

\* ArenaEvent and TrajectoryStep: runtime holds the Session Events of the call.
ArenaEvent(actor, type, visibility, call, accepted, before, runtime, observation) ==
    [actor |-> actor, type |-> type, visibility |-> visibility, call |-> call,
     accepted |-> accepted, before |-> before, runtime |-> runtime, observation |-> observation]

System(type, visibility) ==
    ArenaEvent("system", type, visibility, None, TRUE, 0, << >>, None)

Steps == Cardinality(CallEvents)

\* The end of step: the Event, the budget, the next turn.  seen is what the
\* actor observed before the call; reason ends the episode.
Conclude(actor, call, type, visibility, accepted, seen, reason) ==
    LET runtime == SubSeq(Here', seen.game.sequence + 1, Len(Here'))
        event == ArenaEvent(actor, type, visibility, call, accepted, seen.game.sequence, runtime, seen)
        exhausted == reason = None /\ Steps + 1 >= MaxSteps
    IN /\ events' = events \o <<event>> \o
                      (IF exhausted THEN <<System("episode-terminated", {"public"})>> ELSE << >>)
       /\ ended' = IF exhausted THEN "step_budget_exhausted" ELSE reason
       /\ turn' = IF ended' = None THEN (turn % Len(Schedule)) + 1 ELSE turn

\* _terminate_for_violation
Violate(actor, call) ==
    /\ UNCHANGED <<session, submitted>>
    /\ Conclude(actor, call, "tool-rejected", {"trusted"}, FALSE, Observation(actor), "authorization_failure")

\* A role acts: the episode goes on and no submission is being recorded.
Acts(actor) == ended = None /\ submitted = << >> /\ actor \in Roles
MayCall(actor, call, tools) ==
    /\ Acts(actor) /\ actor = Active
    /\ call.tool \in LegalTools(actor) \cap tools

\* The turn is looked at first, and of the call only its tool: every call that
\* is out of turn, or of a tool the role has not, ends the episode alike.
OutOfTurn(actor) ==
    /\ Acts(actor)
    /\ actor # Active
    /\ Violate(actor, CHOOSE call \in Calls : TRUE)

UnauthorizedTool(actor) ==
    LET illegal == {call \in Calls : call.tool \notin LegalTools(actor)}
    IN /\ Acts(actor) /\ actor = Active
       /\ illegal # {}
       /\ Violate(actor, CHOOSE call \in illegal : TRUE)

\* A KeyError, TypeError or ValueError out of _execute.
Malformed(actor, call) ==
    /\ Acts(actor) /\ actor = Active
    /\ call.tool \in LegalTools(actor)
    /\ \/ call.malformed
       \/ call.tool = "share_evidence" /\ call.args.item \notin Inspected(actor)
    /\ UNCHANGED <<session, submitted>>
    /\ Conclude(actor, call, "tool-rejected", {"trusted"}, FALSE, Observation(actor), None)

\* AuthorizationDenied out of _execute.
OutOfBounds(actor, call) ==
    /\ MayCall(actor, call, {"inspect_evidence", "message"})
    /\ ~call.malformed
    /\ \/ /\ call.tool = "inspect_evidence"
          /\ call.args.item \notin DisclosedTo(Here, SeatFor(actor))
       \/ /\ call.tool = "message"
          /\ call.args.seat \notin Seats \ {SeatFor(actor)}
    /\ Violate(actor, call)

-----------------------------------------------------------------------------
(* _execute: the tools *)

\* A tool that changes nothing but the arena's own Events.
Said(actor, call, type, visibility, reason) ==
    /\ ~call.malformed
    /\ UNCHANGED <<session, submitted>>
    /\ Conclude(actor, call, type, visibility, TRUE, Observation(actor), reason)

Broadcast(actor, call) ==
    /\ MayCall(actor, call, {"broadcast"})
    /\ Said(actor, call, "host-broadcast", {"public"}, None)

EndSession(actor, call) ==
    /\ MayCall(actor, call, {"end_session"})
    /\ Said(actor, call, "tool-call", {"trusted"},
            IF call.args.item = "safety_failure" THEN "safety_failure" ELSE "host_end")

InspectEvidence(actor, call) ==
    /\ MayCall(actor, call, {"inspect_evidence"})
    /\ call.args.item \in DisclosedTo(Here, SeatFor(actor))
    /\ Said(actor, call, "tool-call", {"trusted"}, None)

Say(actor, call) ==
    /\ MayCall(actor, call, {"say"})
    /\ Said(actor, call, "said", {"public"}, None)

\* Mutant: a share is not checked against what the sharer opened.
ShareUnearned(actor, call) ==
    /\ MayCall(actor, call, {"share_evidence"})
    /\ Said(actor, call, "evidence-shared", {"public"}, None)

ShareEvidence(actor, call) ==
    /\ MayCall(actor, call, {"share_evidence"})
    /\ call.args.item \in Inspected(actor)
    /\ Said(actor, call, "evidence-shared", {"public"}, None)

Message(actor, call) ==
    /\ MayCall(actor, call, {"message"})
    /\ call.args.seat \in Seats \ {SeatFor(actor)}
    /\ Said(actor, call, "private-message", {actor, ActorOf(call.args.seat)}, None)

\* _runtime_command: a Command on the revision the Session is at; call ids are
\* the callers' and differ from call to call.
Command(actor, call, action) ==
    [id |-> <<"call", Steps + 1>>, session |-> Table, action |-> action, by |-> AuthorityOf(actor),
     args |-> call.args, expected |-> Len(Here)]

Accepted == Len(Here') > Len(Here)

\* A tool that is one Command, accepted or refused by the Session Authority.
Commanded(actor, call) ==
    /\ ~call.malformed
    /\ Conclude(actor, call, "tool-call", {"trusted"}, Accepted, Observation(actor), None)
    /\ UNCHANGED submitted

HostCommand(actor, call) ==
    LET as(action) == Command(actor, call, action)
    IN /\ MayCall(actor, call, {"open_session", "advance_phase", "disclose_resource", "deliver_intervention"})
       /\ CASE call.tool = "open_session" -> OpenSession(Table, as("open-session"))
            [] call.tool = "advance_phase" -> AdvancePhase(Table, as("advance-phase"))
            [] call.tool = "disclose_resource" -> DiscloseResource(Table, as("disclose-resource"))
            [] call.tool = "deliver_intervention" -> DeliverIntervention(Table, as("deliver-intervention"))
       /\ Commanded(actor, call)

SeatCommand(actor, call) ==
    LET as(action) == Command(actor, call, action)
    IN /\ MayCall(actor, call, {"request_evidence", "request_hint", "share_claim", "update_character_state"})
       /\ CASE call.tool = "request_evidence" -> RequestEvidence(Table, as("request-evidence"))
            [] call.tool = "request_hint" -> RequestHint(Table, as("request-hint"))
            [] call.tool = "share_claim" -> ShareClaim(Table, as("share-claim"))
            [] call.tool = "update_character_state" -> UpdateCharacterState(Table, as("update-character-state"))
       /\ Commanded(actor, call)

-----------------------------------------------------------------------------
(* _execute: submit_resolution *)

\* Mutant: what the policy cites is believed.
PathsForWhateverIsCited(actor, call) ==
    {path \in DOMAIN ProofPaths : ProofPaths[path].resources \subseteq call.cited}

\* _licensed_proof_path: paths the cited resources complete, if all of them
\* were opened by the actor or shared by one who opened them.
EligiblePaths(actor, call) ==
    {path \in DOMAIN ProofPaths :
        /\ call.cited # {} /\ call.cited \subseteq Available(actor)
        /\ ProofPaths[path].resources \subseteq call.cited}

\* The path goes with the hypothesis where one does.
LicensedPaths(actor, call) ==
    LET eligible == EligiblePaths(actor, call)
        matching == {path \in eligible : ProofPaths[path].hypothesis = call.hypothesis}
    IN IF matching # {} THEN matching ELSE eligible

SubmitUnearned(actor, call) ==
    /\ MayCall(actor, call, {"submit_resolution"})
    /\ ~call.malformed
    /\ LicensedPaths(actor, call) = {}
    /\ UNCHANGED <<session, submitted>>
    /\ Conclude(actor, call, "tool-call", {"trusted"}, FALSE, Observation(actor), None)

\* The submission is one Command of the actor.  None is a hypothesis that is
\* none of the game's.
Submission(actor, call) ==
    [Command(actor, call, "submit-resolution") EXCEPT !.args.item =
       IF call.hypothesis = None THEN None
       ELSE Submissions[call.hypothesis, Min(LicensedPaths(actor, call))]]

MaySubmit(actor, call) ==
    /\ MayCall(actor, call, {"submit_resolution"})
    /\ ~call.malformed
    /\ LicensedPaths(actor, call) # {}
    /\ SubmitResolution(Table, Submission(actor, call))

SubmitRefused(actor, call) ==
    /\ MaySubmit(actor, call)
    /\ ~Accepted
    /\ Commanded(actor, call)

Submit(actor, call) ==
    /\ MaySubmit(actor, call)
    /\ Accepted
    /\ submitted' = <<[call |-> call, seen |-> Observation(actor)]>>
    /\ UNCHANGED <<events, turn, ended>>

Recording(by) ==
    [id |-> <<"environment-resolution", Steps + 1>>, session |-> Table, action |-> "record-resolution",
     by |-> AuthorityOf(by), args |-> [NoArgs EXCEPT !.submission = Len(Here)], expected |-> Len(Here)]

Resolve(by) ==
    /\ submitted # << >>
    /\ RecordResolution(Table, Recording(by))
    /\ Accepted
    /\ Conclude(Active, submitted[1].call, "tool-call", {"trusted"}, TRUE, submitted[1].seen,
         IF Last(Here').item = "correct" THEN "accepted_resolution" ELSE "incorrect_resolution")
    /\ submitted' = << >>

\* Mutant: the environment records in the name of the submitter.
RecordAsSubmitter == Resolve(Active)

\* In the same call the environment records an accepted submission with the
\* host's authority.  It raises if that is refused, which leaves the Session
\* ahead of the arena and the episode without an end.
Record == Resolve(Host)

-----------------------------------------------------------------------------
Step(actor, call) ==
    \/ Malformed(actor, call) \/ OutOfBounds(actor, call)
    \/ Broadcast(actor, call) \/ EndSession(actor, call)
    \/ InspectEvidence(actor, call) \/ Say(actor, call)
    \/ ShareEvidence(actor, call) \/ Message(actor, call)
    \/ HostCommand(actor, call) \/ SeatCommand(actor, call)
    \/ SubmitUnearned(actor, call) \/ SubmitRefused(actor, call) \/ Submit(actor, call)

\* reset
Reset ==
    /\ histories = [s \in SessionIds |-> IF s = Table THEN <<Genesis(Cast)>> ELSE << >>]
    /\ prefix = [s \in SessionIds |-> 0]
    /\ mode = [s \in SessionIds |-> IF s = Table THEN "simulation" ELSE None]
    /\ receipts = [s \in SessionIds |-> {}]
    /\ events = <<System("episode-reset", {"trusted"})>>
    /\ turn = 1
    /\ submitted = << >>
    /\ ended = None

\* archive: what is frozen of an episode that is over does not change.
Archive == ended # None /\ UNCHANGED <<session, arena>>

Turn(actor) == UnauthorizedTool(actor) \/ \E call \in Calls : Step(actor, call)

Play ==
    \/ \E actor \in Roles : OutOfTurn(actor) \/ Turn(actor)
    \/ Record
    \/ Archive

\* The runner asks the active policy for a call until the episode is over, and
\* a call that has submitted goes on to record.
Episode == Reset /\ [][Play]_<<session, arena>>
             /\ WF_<<session, arena>>(Turn(Active)) /\ WF_<<session, arena>>(Record)
-----------------------------------------------------------------------------
(* verification.py: what can be re-derived from an archive *)

\* _epistemic_state, before the arena Event i.
InspectedBefore(i, actor) ==
    {events[j].call.args.item : j \in {k \in CallEvents :
        /\ k < i /\ events[k].actor = actor
        /\ events[k].call.tool = "inspect_evidence" /\ events[k].accepted}}
SharedBefore(i) ==
    {events[j].call.args.item : j \in {k \in CallEvents :
        k < i /\ events[k].type = "evidence-shared" /\ events[k].accepted}}

\* The projection of the role at the Session revision the step names, with
\* _visible_dialogue and the role's steps before this one.
Rederived(i) ==
    LET actor == events[i].actor
    IN [game |-> Snapshot(SubSeq(Here, 1, events[i].before), actor),
        inspected |-> IF actor = Host THEN {} ELSE InspectedBefore(i, actor),
        shared |-> IF actor = Host THEN {} ELSE SharedBefore(i) \ InspectedBefore(i, actor),
        dialogue |-> {j \in 1..(i - 1) : /\ events[j].type \in Dialogue
                                         /\ {"public", actor} \cap events[j].visibility # {}},
        prior |-> Cardinality({j \in CallEvents : j < i /\ events[j].actor = actor})]

VisibilityHolds(event) ==
    /\ event.type \in {"said", "host-broadcast", "evidence-shared"} => event.visibility = {"public"}
    /\ event.type = "private-message" =>
         Cardinality(event.visibility) = 2 /\ event.actor \in event.visibility

ShareIsEarned(i) ==
    events[i].type = "evidence-shared" =>
        /\ events[i].call.tool = "share_evidence" /\ events[i].accepted
        /\ events[i].call.args.item \in InspectedBefore(i, events[i].actor)

PathNamed(item) ==
    CHOOSE path \in DOMAIN ProofPaths :
        \E hypothesis \in Hypotheses : Submissions[hypothesis, path] = item

ResolutionIsEarned(i) ==
    LET event == events[i]
        made == {n \in DOMAIN event.runtime : event.runtime[n].type = "resolution-submitted"}
    IN event.call.tool = "submit_resolution" /\ event.accepted =>
         /\ event.call.cited # {}
         /\ event.call.cited \subseteq InspectedBefore(i, event.actor) \cup SharedBefore(i)
         /\ Cardinality(made) = 1
         /\ \A n \in made : ProofPaths[PathNamed(event.runtime[n].item)].resources \subseteq event.call.cited

\* _trace_findings finds nothing.
Verifies ==
    /\ \A i \in DOMAIN events :
         /\ VisibilityHolds(events[i])
         /\ ToSet(events[i].runtime) \subseteq ToSet(Here)
    /\ \A i \in CallEvents :
         /\ events[i].observation = Rederived(i)
         /\ ShareIsEarned(i)
         /\ ResolutionIsEarned(i)

\* evaluate_episode: the reward is 1.0 and not 0.0.  A violation is on record
\* exactly if it ended the episode.
Rewarded ==
    LET resolved == {i \in DOMAIN Here : Here[i].type = "resolution-recorded"}
        outcome == \E i \in resolved : /\ Here[i].item = "correct"
                                       /\ Here[Here[i].submission].type = "resolution-submitted"
    IN /\ Verifies
       /\ ended \notin {"authorization_failure", "safety_failure"}
       /\ outcome /\ ended = "accepted_resolution"

-----------------------------------------------------------------------------
(* Properties *)

\* session_sequence_after
After(i) == events[i].before + Len(events[i].runtime)

\* Each Session Event after the first is the next one of one call.
AccountsFor ==
    /\ \A i \in DOMAIN events : \A k \in DOMAIN events[i].runtime :
          events[i].before + k \in DOMAIN Here /\ Here[events[i].before + k] = events[i].runtime[k]
    /\ \A n \in 2..Len(Here) : \E i \in CallEvents : n \in (events[i].before + 1)..After(i)
    /\ \A i, j \in CallEvents : i < j => After(i) <= events[j].before

\* Whatever policies answer, in turn or out of it, well formed or not, the
\* archive of the episode verifies at every step, and the arena's Events
\* account for every Session Event after the first, in order.
TraceVerifies ==
    submitted = << >> =>
        /\ Verifies
        /\ AccountsFor

\* The episode says it was resolved exactly if its Session was, and the same
\* way; exactly the accepted resolutions are rewarded; and the proof path of the
\* resolution was earned: each of its resources was opened by a role to whose
\* seat it had been disclosed by then, in a Phase in which the fiction allowed
\* it (README: "previously opened by the submitting role or publicly shared by
\* a role that opened them").
OutcomeEarned ==
    LET resolved == {i \in DOMAIN Here : Here[i].type = "resolution-recorded"}
    IN /\ submitted = << >> =>
            (ended \in {"accepted_resolution", "incorrect_resolution"} <=> resolved # {})
       /\ submitted = << >> => (Rewarded <=> ended = "accepted_resolution")
       /\ \A i \in resolved :
            LET submission == Here[Here[i].submission]
            IN /\ ended = "accepted_resolution" <=> submission.item \in Correct
               /\ \A resource \in ProofPaths[PathNamed(submission.item)].resources :
                    \E seat \in Seats :
                        /\ resource \in Inspected(ActorOf(seat))
                        /\ seat = submission.seat \/ resource \in Shared
                        /\ \E reveal \in Reveals : /\ reveal.seat = seat /\ reveal.resource = resource
                                                  /\ reveal.phase <= submission.phase

\* Every episode ends, by the budget if by nothing else.
EpisodeEnds == <>(ended # None)
=============================================================================
