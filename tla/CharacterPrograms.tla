-------------------------- MODULE CharacterPrograms --------------------------
(***************************************************************************)
(* narrative/characters.py: what each seat's Dossier may say, and what of it  *)
(* is shown in a Phase.  A text is what it cites; empty says that it has no   *)
(* words.  A game's program is None or a Character Program.                  *)
(***************************************************************************)
EXTENDS Games

MoveKinds == {"action", "bargain", "challenge", "fallback", "after_exposure"}

\* _texts
TextsOf(dossier) ==
    {dossier.identity, dossier.secret, dossier.firstMove} \cup dossier.prose
    \cup (UNION {r.texts : r \in ToSet(dossier.relationships)})
    \cup {c.perspective : c \in ToSet(dossier.chronology)}
    \cup {m.instruction : m \in ToSet(dossier.moves)}
    \cup {r.trigger : r \in ToSet(dossier.revelations)}
    \cup {a.pressure : a \in ToSet(dossier.arcs)}
    \cup {e.consequence : e \in ToSet(dossier.endings)}

-----------------------------------------------------------------------------
(* What a Program lets a seat know *)

GrantedTo(grants, seat) == {g.id : g \in {h \in grants : seat \in h.seats}}
PropositionsFor(program, seat) == program.public \cup GrantedTo(program.grants, seat)
EventsFor(program, seat) == program.publicEvents \cup GrantedTo(program.eventGrants, seat)

Overlaps(public, grants, hosts) ==
    LET private == {g.id : g \in grants}
    IN public \cap hosts # {} \/ public \cap private # {} \/ hosts \cap private # {}

\* reveal_phase_by_seat
RevealOrders(game, evidence, seat) ==
    {Order(game)[r.phase] : r \in {v \in ToSet(game.reveals) : v.evidence = evidence /\ seat \in v.audience}}

ProgramFindings(game, program) ==
    LET propositions == IdsOf(game.propositions)
        events == IdsOf(game.events)
        seats == [i \in DOMAIN program.dossiers |-> program.dossiers[i].seat]
    IN Dangling(program.public \cup program.hostOnly \cup {g.id : g \in program.grants}, propositions)
       \cup Dangling(program.publicEvents \cup program.hostEvents
                     \cup {g.id : g \in program.eventGrants}, events)
       \cup Dangling(UNION {g.seats : g \in program.grants \cup program.eventGrants}, IdsOf(game.seats))
       \cup (IF \/ Overlaps(program.public, program.grants, program.hostOnly)
                \/ Overlaps(program.publicEvents, program.eventGrants, program.hostEvents)
             THEN {<<"knowledge-overlap", "program">>} ELSE {})
       \cup Blockers("duplicate-id", Repeated(program.dossiers))
       \cup (IF ToSet(seats) # SupportedSeats(game) \/ Len(seats) # Cardinality(SupportedSeats(game))
             THEN {<<"incomplete-cast", "program">>} ELSE {})

-----------------------------------------------------------------------------
(* The Findings against one Dossier *)

Unless(holds, code, dossier) == IF holds THEN {} ELSE {<<code, dossier.id>>}

BoundaryFindings(game, dossier) ==
    LET known == PropositionsFor(game.program, dossier.seat)
        boundary == dossier.boundary
        beliefs == {b.proposition : b \in ToSet(ById(game.characters)[dossier.character].beliefs)}
        true == {p \in DOMAIN Truth(game) : Truth(game)[p] = "true"}
    IN Blockers("unauthorized-knowledge",
          (boundary.known \cup boundary.revisable \cup boundary.lies \cup boundary.fixed) \ known)
       \cup Unless(boundary.lies \cap boundary.fixed = {}, "contradictory-boundary", dossier)
       \cup Blockers("contradictory-boundary", boundary.known \ true)
       \cup Blockers("contradictory-belief", boundary.revisable \ beliefs)
       \cup Unless(dossier.openingBeliefs \subseteq beliefs, "contradictory-belief", dossier)

ObjectiveFindings(game, dossier) ==
    LET used == dossier.objectives \cup dossier.secondary
                \cup UNION {a.objectives : a \in ToSet(dossier.arcs)}
    IN Dangling(used, ById(game.characters)[dossier.character].objectives)
       \cup Unless(/\ ~dossier.identity.empty /\ ~dossier.secret.empty /\ ~dossier.firstMove.empty
                   /\ dossier.objectives # {}, "incomplete-quick-start", dossier)

RelationshipFindings(game, dossier) ==
    LET others == IdsOf(game.characters) \ {dossier.character}
        named == [i \in DOMAIN dossier.relationships |-> dossier.relationships[i].id]
    IN Unless(ToSet(named) = others /\ Len(named) = Cardinality(others),
              "incomplete-relationships", dossier)

\* Of two Arcs of one Phase the last is looked at.
ArcOf(dossier, phase) == dossier.arcs[Max({i \in DOMAIN dossier.arcs : dossier.arcs[i].phase = phase})]
ArcPhases(dossier) == {a.phase : a \in ToSet(dossier.arcs)}

Unavailable(game, dossier, arc) ==
    LET moves == ById(dossier.moves)
    IN {e \in UNION {moves[m].instruction.evidence : m \in arc.moves \cap DOMAIN moves} :
          \A order \in RevealOrders(game, e, dossier.seat) : order > Order(game)[arc.phase]}

ArcFindings(game, dossier) ==
    LET moves == ById(dossier.moves)
    IN (UNION {LET arc == ArcOf(dossier, phase)
                   kinds == {moves[m].kind : m \in arc.moves \cap DOMAIN moves}
               IN Dangling(arc.moves, DOMAIN moves)
                  \cup Unless({"action", "fallback", "after_exposure"} \subseteq kinds,
                              "dead-end-state", dossier)
                  \cup Blockers("unavailable-evidence", Unavailable(game, dossier, arc)) :
                 phase \in ArcPhases(dossier)})
       \cup Unless(ArcPhases(dossier) = IdsOf(game.phases), "incomplete-phase-arc", dossier)

\* A Move of evidence in a Phase that is not the game's: its order is looked up.
ArcsRaise(game, dossier) ==
    LET moves == ById(dossier.moves)
    IN \E phase \in ArcPhases(dossier) \ IdsOf(game.phases) :
          \E m \in ArcOf(dossier, phase).moves \cap DOMAIN moves : moves[m].instruction.evidence # {}

MoveFindings(game, dossier) ==
    Unless(Repeated(dossier.moves) = {} /\ Repeated(dossier.revelations) = {}, "duplicate-id", dossier)
    \cup Blockers("invalid-move", {m.kind : m \in ToSet(dossier.moves)} \ MoveKinds)
    \cup (UNION {Dangling(m.targets, IdsOf(game.characters)) : m \in ToSet(dossier.moves)})
    \cup Unless({"bargain", "challenge"} \subseteq {m.kind : m \in ToSet(dossier.moves)},
                "incomplete-agency", dossier)

RevelationFindings(game, dossier) ==
    Blockers("unreachable-revelation",
        dossier.secret.propositions \ {r.secret : r \in ToSet(dossier.revelations)})
    \cup Blockers("unreachable-revelation",
        {r.secret : r \in {q \in ToSet(dossier.revelations) :
            \/ q.secret \notin PropositionsFor(game.program, dossier.seat)
            \/ q.phases = {} \/ ~(q.phases \subseteq IdsOf(game.phases))
            \/ q.recovery \notin IdsOf(game.interventions)}})
    \cup Unless(dossier.endings # << >>, "missing-resolution-choice", dossier)

TextFindings(game, dossier, text) ==
    Unless(~text.empty, "empty-prose", dossier)
    \cup Blockers("unauthorized-knowledge",
           (text.propositions \ PropositionsFor(game.program, dossier.seat))
           \cup (text.events \ EventsFor(game.program, dossier.seat))
           \cup {e \in text.evidence : \/ e \notin IdsOf(game.evidence)
                                       \/ RevealOrders(game, e, dossier.seat) = {}})
    \cup Dangling(text.characters, IdsOf(game.characters))

IsSomebodys(game, dossier) ==
    /\ dossier.seat \in IdsOf(game.seats)
    /\ dossier.character \in IdsOf(game.characters)
    /\ ById(game.characters)[dossier.character].seat = dossier.seat
\* A Dossier of nobody is looked at no further.
DossierFindings(game, dossier) ==
    IF ~IsSomebodys(game, dossier) THEN {<<"dangling-reference", dossier.character>>}
    ELSE Dangling({dossier.resource}, IdsOf(game.resources))
         \cup Unless(dossier.pages \in 3..5, "page-target", dossier)
         \cup BoundaryFindings(game, dossier) \cup ObjectiveFindings(game, dossier)
         \cup RelationshipFindings(game, dossier) \cup MoveFindings(game, dossier)
         \cup ArcFindings(game, dossier) \cup RevelationFindings(game, dossier)
         \cup UNION {TextFindings(game, dossier, t) : t \in TextsOf(dossier)}

ProgramRaises(game) ==
    \E d \in ToSet(game.program.dossiers) : IsSomebodys(game, d) /\ ArcsRaise(game, d)
CharacterFindings(game) ==
    ProgramFindings(game, game.program)
    \cup UNION {DossierFindings(game, d) : d \in ToSet(game.program.dossiers)}

-----------------------------------------------------------------------------
\* validate_facilitated_investigation: what depends on references is looked at only
\* when all of them lead somewhere.
Findings(game) ==
    LET found == KernelFindings(game) \cup TruthFindings(game) \cup ReferenceFindings(game)
                 \cup ChronologyFindings(game) \cup ContractFindings(game)
                 \cup UNION {Blockers("duplicate-id", Repeated(items)) : items \in Identified(game)}
    IN IF \E f \in found : f[1] = "dangling-reference" THEN found
       ELSE IF ProgressionRaises(game) \/ (game.program # None /\ ProgramRaises(game)) THEN Refused
       ELSE found \cup ProgressionFindings(game)
            \cup (IF game.program = None THEN {} ELSE CharacterFindings(game))

-----------------------------------------------------------------------------
(* phase_character_projection *)

\* Of two Arcs of one Phase the first is shown.
ShownArc(dossier, phase) ==
    dossier.arcs[Min({i \in DOMAIN dossier.arcs : dossier.arcs[i].phase = phase})]
PhaseProjection(dossier, phase) ==
    LET moves == ById(dossier.moves)
    IN IF phase \notin ArcPhases(dossier) THEN Refused
       ELSE LET arc == ShownArc(dossier, phase)
            IN IF ~(arc.moves \subseteq DOMAIN moves) THEN Refused
               ELSE [dossier |-> dossier.id, secret |-> dossier.secret,
                     boundary |-> dossier.boundary, chronology |-> dossier.chronology,
                     arc |-> arc, moves |-> {moves[m] : m \in arc.moves},
                     endings |-> dossier.endings]

\* render_dossier_markdown: what its sheet says of the game.  Whatever it names is
\* looked up, in all Arcs, also what no Finding is about.
Sheet(game, dossier) ==
    LET revelations == ById(dossier.revelations)
        shown == UNION {a.revelations : a \in ToSet(dossier.arcs)}
    IN IF \/ \E c \in ToSet(dossier.chronology) :
               c.phase \notin IdsOf(game.phases) \/ c.event \notin IdsOf(game.events)
          \/ \E a \in ToSet(dossier.arcs) : ~(a.moves \subseteq IdsOf(dossier.moves))
          \/ ~(shown \subseteq DOMAIN revelations)
       THEN Refused
       ELSE [events |-> {c.event : c \in ToSet(dossier.chronology)},
             propositions |-> dossier.openingBeliefs \cup dossier.boundary.known
                              \cup dossier.boundary.revisable \cup dossier.boundary.lies
                              \cup dossier.boundary.fixed
                              \cup {revelations[r].secret : r \in shown},
             texts |-> TextsOf(dossier)]
=============================================================================
