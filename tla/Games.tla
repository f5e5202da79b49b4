-------------------------------- MODULE Games --------------------------------
(***************************************************************************)
(* kernel/validation.py, narrative/validation.py and narrative/derivations.py: *)
(* an authored game and the Findings against it.  A collection is a sequence *)
(* of records with an id, as it was written; an id that is written twice     *)
(* stands for the last record.  A Finding is its code and what it quotes.    *)
(* An operation that raises returns Refused.                                 *)
(***************************************************************************)
EXTENDS Integers, SequencesExt, FiniteSetsExt

CONSTANTS None, Refused

IdsOf(items) == {items[i].id : i \in DOMAIN items}
ById(items) ==
    [id \in IdsOf(items) |-> items[Max({i \in DOMAIN items : items[i].id = id})]]
Repeated(items) ==
    {items[i].id : i \in {j \in DOMAIN items : \E k \in 1..(j - 1) : items[k].id = items[j].id}}
Order(game) == LET phases == ById(game.phases) IN [p \in DOMAIN phases |-> phases[p].order]

Digest(data) == <<"sha256", data>>
SeatRef(id) == [kind |-> "seat", id |-> id]

\* supported_seat_ids
SupportedSeats(game) == UNION {game.casts[i].seats : i \in DOMAIN game.casts}

Blockers(code, quotes) == {<<code, q>> : q \in quotes}
Dangling(names, present) == Blockers("dangling-reference", names \ present)

-----------------------------------------------------------------------------
(* validate_kernel *)

KernelFindings(game) ==
    LET seats == IdsOf(game.seats)
        resources == IdsOf(game.resources)
    IN (UNION {Blockers("duplicate-id", Repeated(items)) :
                 items \in {game.resources, game.seats, game.policies, game.extensions}})
       \cup Blockers("invalid-content-ref",
                     {r.id : r \in {q \in ToSet(game.resources) : q.digest = None}})
       \cup (UNION {Dangling({p.resource}, resources) : p \in ToSet(game.policies)})
       \cup UNION {Blockers("dangling-reference",
                      {g.id : g \in {h \in p.grantees : \/ h.kind \notin {"seat", "viewer"}
                                                        \/ h.kind = "seat" /\ h.id \notin seats}}) :
                     p \in ToSet(game.policies)}

-----------------------------------------------------------------------------
(* The Truth Model and what is derived from it *)

TruthValues == {"true", "false", "unresolved"}
Truth(game) ==
    [p \in {t.proposition : t \in ToSet(game.truth)} |->
       game.truth[Max({i \in DOMAIN game.truth : game.truth[i].proposition = p})].value]
Contradicted(game) ==
    {t.proposition : t \in {u \in ToSet(game.truth) : \E v \in ToSet(game.truth) :
        v.proposition = u.proposition /\ v.value # u.value}}
TruthFindings(game) ==
    LET propositions == IdsOf(game.propositions)
    IN Dangling(DOMAIN Truth(game), propositions)
       \cup Blockers("invalid-truth", {t.value : t \in ToSet(game.truth)} \ TruthValues)
       \cup Blockers("contradictory-truth", Contradicted(game))
       \cup Blockers("incomplete-truth", propositions \ DOMAIN Truth(game))

\* _truth_index, proposition_truth
PropositionTruth(game, proposition) ==
    IF \/ Contradicted(game) # {}
       \/ \E t \in ToSet(game.truth) : t.value \notin TruthValues
       \/ proposition \notin DOMAIN Truth(game)
    THEN Refused ELSE Truth(game)[proposition]

\* classify_claim
Belief(character, proposition) ==
    LET held == {i \in DOMAIN character.beliefs : character.beliefs[i].proposition = proposition}
    IN IF held = {} THEN "uncertain" ELSE character.beliefs[Min(held)].stance
ClassifyClaim(game, character, proposition, stance) ==
    LET truth == PropositionTruth(game, proposition)
        belief == Belief(character, proposition)
    IN IF truth = Refused THEN Refused
       ELSE [factuality |-> IF truth = "unresolved" THEN "unresolved"
                            ELSE IF (truth = "true") = (stance = "accepts") THEN "true" ELSE "false",
             intent |-> IF belief = "uncertain" THEN "indeterminate"
                        ELSE IF belief = stance THEN "sincere" ELSE "deliberate-lie"]

-----------------------------------------------------------------------------
(* Evidence and the seats it reaches *)

\* The Resources that some Access Policy grants to the seat.
AllowedTo(game, seat) ==
    {p.resource : p \in {q \in ToSet(game.policies) : SeatRef(seat) \in q.grantees}}

\* available_evidence
AvailableEvidence(game, seat, phase) ==
    {r.evidence : r \in {v \in ToSet(game.reveals) :
        /\ seat \in v.audience
        /\ Order(game)[v.phase] <= Order(game)[phase]
        /\ ById(game.evidence)[v.evidence].resource \in AllowedTo(game, seat)}}

-----------------------------------------------------------------------------
(* validate_facilitated_investigation *)

Identified(game) ==
    {game.propositions, game.events, game.characters, game.objectives, game.hypotheses,
     game.evidence, game.proofs, game.phases, game.reveals, game.interventions, game.casts}

ReferenceFindings(game) ==
    LET propositions == IdsOf(game.propositions)
        phases == IdsOf(game.phases)
        hypotheses == IdsOf(game.hypotheses)
        evidence == IdsOf(game.evidence)
        seats == IdsOf(game.seats)
        targets == {<<"proposition", p>> : p \in propositions} \cup {<<"hypothesis", h>> : h \in hypotheses}
    IN (UNION {Dangling(e.propositions, propositions) \cup Dangling(e.causes, IdsOf(game.events)) :
                 e \in ToSet(game.events)})
       \cup (UNION {Dangling({o.phase}, phases) : o \in ToSet(game.objectives)})
       \cup (UNION {Dangling({c.seat}, seats) \cup Dangling(c.objectives, IdsOf(game.objectives))
                    \cup Dangling({b.proposition : b \in ToSet(c.beliefs)}, propositions) :
                      c \in ToSet(game.characters)})
       \cup (UNION {Dangling(h.propositions, propositions) : h \in ToSet(game.hypotheses)})
       \cup (UNION {Dangling({e.resource}, IdsOf(game.resources))
                    \cup Blockers("dangling-reference", {t[2] : t \in e.relations \ targets}) :
                      e \in ToSet(game.evidence)})
       \cup (UNION {Dangling({p.hypothesis}, hypotheses) \cup Dangling(p.evidence, evidence) :
                      p \in ToSet(game.proofs)})
       \cup (UNION {Dangling({r.evidence}, evidence) \cup Dangling({r.phase}, phases)
                    \cup Dangling(r.audience, seats) : r \in ToSet(game.reveals)})
       \cup (UNION {Dangling({i.phase}, phases) \cup Dangling(i.evidence, evidence) :
                      i \in ToSet(game.interventions)})
       \cup Dangling({game.resolution.correct}, hypotheses)
       \cup Dangling({game.resolution.phase}, phases)
       \cup Dangling(game.resolution.proofs, IdsOf(game.proofs))
       \cup Dangling(SupportedSeats(game), seats)

ChronologyFindings(game) ==
    LET events == ById(game.events)
    IN Blockers("impossible-chronology",
         {e.id : e \in {f \in ToSet(game.events) :
            \E c \in f.causes \cap DOMAIN events : events[c].order >= f.order}})

ContractFindings(game) ==
    LET narrative == SelectSeq(game.extensions, LAMBDA x : x.id = "narrative")
    IN (IF game.casts = << >> \/ \E c \in ToSet(game.casts) : c.seats = {}
        THEN {<<"cast-contract", "profile">>} ELSE {})
       \cup (IF Len(narrative) # 1 \/ narrative[1].profile # game.profile.id
             THEN {<<"extension-contract", "narrative">>} ELSE {})
       \cup (IF game.profile.id # "facilitated-investigation" \/ ~game.profile.host
             THEN {<<"profile-contract", "profile">>} ELSE {})

-----------------------------------------------------------------------------
(* _validate_access_and_progression, for a game without dangling references *)

ResourceOf(game, evidence) == ById(game.evidence)[evidence].resource
MayOpen(game, evidence) ==
    {s \in IdsOf(game.seats) : ResourceOf(game, evidence) \in AllowedTo(game, s)}
ResolutionOrder(game) == Order(game)[game.resolution.phase]
Acceptable(game) == {ById(game.proofs)[p] : p \in game.resolution.proofs}

\* authorized_reveals: which evidence reaches which supported seat at which order.
Reaches(game) ==
    LET reached == {rs \in ToSet(game.reveals) \X SupportedSeats(game) :
                       /\ rs[2] \in rs[1].audience \cap MayOpen(game, rs[1].evidence)
                       /\ Order(game)[rs[1].phase] <= ResolutionOrder(game)}
    IN {<<rs[1].evidence, rs[2], Order(game)[rs[1].phase]>> : rs \in reached}

CriticalEvidence(game) == UNION {p.evidence : p \in Acceptable(game)}
InaccessibleCasts(game) ==
    {c.id : c \in {d \in ToSet(game.casts) :
        \E e \in CriticalEvidence(game) : ~\E r \in Reaches(game) : r[1] = e /\ r[2] \in d.seats}}
FirstOrder(game, evidence) == Min({r[3] : r \in {q \in Reaches(game) : q[1] = evidence}})
CompleteAt(game, proof) == Max({FirstOrder(game, e) : e \in proof.evidence})

\* max() and min() have nothing to choose from.
ProgressionRaises(game) ==
    /\ InaccessibleCasts(game) = {}
    /\ \E p \in Acceptable(game) : \/ p.evidence = {}
                                   \/ ~(p.evidence \subseteq {r[1] : r \in Reaches(game)})

\* Two names of one Proof Path are two Proof Paths that share its evidence.
ProofFindings(game) ==
    IF InaccessibleCasts(game) # {}
    THEN Blockers("inaccessible-critical-evidence", InaccessibleCasts(game))
    ELSE (IF \/ Cardinality(Acceptable(game)) < 2
             \/ \E e \in CriticalEvidence(game) : \A p \in Acceptable(game) : e \in p.evidence
          THEN {<<"single-point-proof-failure", "resolution">>} ELSE {})
         \cup Blockers("premature-proof",
                {p.id : p \in {q \in Acceptable(game) : CompleteAt(game, q) < ResolutionOrder(game)}})

UnauthorizedReveals(game) ==
    {r.id : r \in {v \in ToSet(game.reveals) : ~(v.audience \subseteq MayOpen(game, v.evidence))}}
\* characters_by_seat: the last Character of a seat stands for it.
CharacterOfSeat(game, seat) ==
    game.characters[Max({i \in DOMAIN game.characters : game.characters[i].seat = seat})]
IsActive(game, seat) ==
    /\ \E c \in ToSet(game.characters) : c.seat = seat
    /\ CharacterOfSeat(game, seat).objectives # {}
    /\ \E r \in ToSet(game.reveals) : seat \in r.audience
Recovers(game, intervention) ==
    intervention.kind \in {"hint", "recovery"} /\ intervention.evidence \cap CriticalEvidence(game) # {}

ProgressionFindings(game) ==
    Blockers("unauthorized-disclosure", UnauthorizedReveals(game))
    \cup ProofFindings(game)
    \cup Blockers("inactive-seat", {s \in SupportedSeats(game) : ~IsActive(game, s)})
    \cup (IF \E i \in ToSet(game.interventions) : Recovers(game, i)
          THEN {} ELSE {<<"unrecoverable-progression", "interventions">>})
=============================================================================
