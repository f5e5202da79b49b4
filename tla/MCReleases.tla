------------------------------ MODULE MCReleases ------------------------------
(* Games of two seats, the Candidates and Releases made of them, their laws. *)
EXTENDS Releases

-----------------------------------------------------------------------------
(* A sound game *)

Plain == [empty |-> FALSE, propositions |-> {}, events |-> {}, evidence |-> {}, characters |-> {}]
Citing(evidence) == [Plain EXCEPT !.evidence = evidence]

Reveal(id, evidence, phase, audience) ==
    [id |-> id, evidence |-> evidence, phase |-> phase, audience |-> audience]
Grant(id, resource, seats) ==
    [id |-> id, resource |-> resource, grantees |-> {SeatRef(s) : s \in seats}]
Resource(id) == [id |-> id, media |-> "text/plain", digest |-> Digest(id)]
Both == {"ada", "ben"}

Game(letters, maps, casts, resolution, last, proofs) ==
    [resources |-> <<Resource("letter"), Resource("map"), Resource("diary")>>,
     seats |-> <<[id |-> "ada"], [id |-> "ben"]>>,
     policies |-> <<Grant("a1", "letter", {"ada"}), Grant("a2", "map", {"ben"}),
                    Grant("a3", "diary", Both),
                    [id |-> "a4", resource |-> "diary", grantees |-> {[kind |-> "viewer", id |-> "host"]}]>>,
     extensions |-> <<[id |-> "narrative", profile |-> "facilitated-investigation"]>>,
     profile |-> [id |-> "facilitated-investigation", host |-> TRUE],
     casts |-> casts,
     propositions |-> <<[id |-> "arrived"], [id |-> "lied"], [id |-> "culprit"]>>,
     truth |-> <<[proposition |-> "arrived", value |-> "true"], [proposition |-> "lied", value |-> "false"],
                 [proposition |-> "culprit", value |-> "true"]>>,
     events |-> <<[id |-> "arrival", order |-> 1, propositions |-> {"arrived"}, causes |-> {}],
                  [id |-> "theft", order |-> 2, propositions |-> {"culprit"}, causes |-> {"arrival"}]>>,
     characters |->
        <<[id |-> "adele", seat |-> "ada", objectives |-> {"win"},
           beliefs |-> <<[proposition |-> "arrived", stance |-> "accepts"],
                         [proposition |-> "lied", stance |-> "accepts"]>>],
          [id |-> "bruno", seat |-> "ben", objectives |-> {"hide"}, beliefs |-> << >>]>>,
     objectives |-> <<[id |-> "win", phase |-> "dinner"], [id |-> "hide", phase |-> "dinner"]>>,
     hypotheses |-> <<[id |-> "guilty", propositions |-> {"culprit"}]>>,
     evidence |-> <<[id |-> "e1", resource |-> "letter", relations |-> {<<"hypothesis", "guilty">>}],
                    [id |-> "e2", resource |-> "map", relations |-> {<<"proposition", "lied">>}],
                    [id |-> "e3", resource |-> "diary", relations |-> {}]>>,
     proofs |-> <<[id |-> "p1", hypothesis |-> "guilty", evidence |-> {"e1", "e3"}],
                  [id |-> "p2", hypothesis |-> "guilty", evidence |-> {"e2"}],
                  [id |-> "p3", hypothesis |-> "guilty", evidence |-> {}],
                  [id |-> "p4", hypothesis |-> "guilty", evidence |-> {"e2", "e3"}]>>,
     phases |-> <<[id |-> "dinner", order |-> 1], [id |-> "night", order |-> last]>>,
     reveals |-> letters \o maps \o <<Reveal("r3", "e3", "night", Both)>>,
     interventions |-> <<[id |-> "help", kind |-> "hint", phase |-> "dinner", evidence |-> {"e1"}]>>,
     resolution |-> [correct |-> "guilty", phase |-> resolution, proofs |-> proofs],
     program |-> None]

Cast(id, seats) == [id |-> id, seats |-> seats]
Letters(phase, audience) == <<Reveal("r1", "e1", phase, audience)>>
Maps(phase, audience) == <<Reveal("r2", "e2", phase, audience)>>
SoundGame == Game(Letters("dinner", {"ada"}), Maps("night", {"ben"}), <<Cast("all", Both)>>,
                  "night", 2, {"p1", "p2"})

\* What may differ from it: who learns what when, who plays, and what resolves it.
Plots ==
    {[Game(letters, Maps(phase, audience), casts, resolution, last, proofs)
        EXCEPT !.policies[2] = Grant("a2", "map", granted)] :
       letters \in {Letters("dinner", {"ada"}), Letters("night", Both),
                    Letters("night", {"ada"}) \o <<Reveal("r4", "e1", "dinner", {"ada"})>>, << >>},
       phase \in {"dinner", "night"}, audience \in {{"ben"}, Both}, granted \in {{"ben"}, Both},
       casts \in {<<Cast("all", Both)>>, <<Cast("all", Both), Cast("solo", {"ben"})>>,
                  <<Cast("solo", {"ada"})>>, << >>},
       resolution \in {"dinner", "night"}, last \in {1, 2, 3},
       proofs \in {{"p1", "p2"}, {"p1", "p4"}, {"p2"}, {"p1", "p3"}, {"p2", "p4"}}}

-----------------------------------------------------------------------------
(* The same game with Dossiers, and what may be wrong with them *)

Move(id, kind) == [id |-> id, kind |-> kind, instruction |-> Plain, targets |-> {}]
Arc(phase) == [phase |-> phase, objectives |-> {}, pressure |-> Plain, moves |-> {"act", "wait", "admit"},
               revelations |-> {"confess"}]
Dossier(seat, character, other, objective) ==
    [id |-> seat, seat |-> seat, character |-> character, resource |-> "diary", pages |-> 4,
     identity |-> Plain, secret |-> [Plain EXCEPT !.propositions = {"lied"}], firstMove |-> Plain,
     objectives |-> {objective}, secondary |-> {}, openingBeliefs |-> {},
     boundary |-> [known |-> {"arrived"}, revisable |-> {}, lies |-> {"lied"}, fixed |-> {"arrived"}],
     prose |-> {Plain}, relationships |-> <<[id |-> other, texts |-> {Plain}]>>,
     chronology |-> <<[event |-> "arrival", phase |-> "dinner", perspective |-> Plain]>>,
     moves |-> <<Move("act", "action"), Move("wait", "fallback"), Move("admit", "after_exposure"),
                 Move("trade", "bargain"), Move("accuse", "challenge")>>,
     revelations |-> <<[id |-> "confess", secret |-> "lied", phases |-> {"night"}, trigger |-> Plain,
                        recovery |-> "help"]>>,
     arcs |-> <<Arc("dinner"), Arc("night")>>,
     endings |-> <<[id |-> "stay", consequence |-> Plain]>>]
SoundProgram ==
    [public |-> {"arrived"}, grants |-> {[id |-> "lied", seats |-> Both]}, hostOnly |-> {"culprit"},
     publicEvents |-> {"arrival"}, eventGrants |-> {}, hostEvents |-> {"theft"},
     dossiers |-> <<Dossier("ada", "adele", "bruno", "win"), Dossier("ben", "bruno", "adele", "hide")>>]
Played == [SoundGame EXCEPT !.program = SoundProgram]
Ada(game) == game.program.dossiers[1]
WithAda(game, dossier) == [game EXCEPT !.program.dossiers[1] = dossier]

\* The edits of the Program, and those of the game around it.
ProgramEdits == 1..24
EditedProgram(game, edit) ==
    LET d == Ada(game)
        p == game.program
    IN CASE edit = 1 -> WithAda(game, [d EXCEPT !.firstMove.propositions = {"culprit"}])
         [] edit = 2 -> WithAda(game, [d EXCEPT !.moves[1].instruction = Citing({"e2"})])
         [] edit = 3 -> WithAda(game, [d EXCEPT !.moves[1].instruction = Citing({"e3"})])
         [] edit = 4 -> WithAda(game, [d EXCEPT !.moves[1].instruction = Citing({"e1"})])
         [] edit = 5 -> WithAda(game, [d EXCEPT !.arcs[1].moves = {"wait", "admit"}])
         [] edit = 6 -> WithAda(game, [d EXCEPT !.arcs = <<[Arc("dinner") EXCEPT !.moves = {"act", "late", "admit", "wait"}]>> \o @,
                                                !.moves = Append(@, [Move("late", "action") EXCEPT !.instruction = Citing({"e3"})])])
         [] edit = 7 -> WithAda(game, [d EXCEPT !.chronology[1].event = "theft"])
         [] edit = 8 -> WithAda(game, [d EXCEPT !.chronology[1].event = "nothing"])
         [] edit = 9 -> WithAda(game, [d EXCEPT !.arcs[1].revelations = {"missing"}])
         [] edit = 10 -> WithAda(game, [d EXCEPT !.boundary.known = {"lied"}])
         [] edit = 11 -> WithAda(game, [d EXCEPT !.boundary.fixed = {"lied"}])
         [] edit = 12 -> WithAda(game, [d EXCEPT !.revelations = << >>])
         [] edit = 13 -> WithAda(game, [d EXCEPT !.revelations[1].recovery = "nobody"])
         [] edit = 14 -> WithAda(game, [d EXCEPT !.relationships = << >>])
         [] edit = 15 -> WithAda(game, [d EXCEPT !.prose = {Citing({"e2"})}])
         [] edit = 16 -> WithAda(game, [d EXCEPT !.arcs = Append(@, [Arc("dawn") EXCEPT !.moves = {"act"}])])
         [] edit = 17 -> WithAda(game, [d EXCEPT !.secondary = {"hide"}])
         [] edit = 18 -> WithAda(game, [d EXCEPT !.seat = "ben"])
         [] edit = 19 -> WithAda(game, [d EXCEPT !.pages = 6, !.endings = << >>])
         [] edit = 20 -> [game EXCEPT !.program.grants = {[id |-> "lied", seats |-> {"ben"}]}]
         [] edit = 21 -> [game EXCEPT !.program.public = p.public \cup {"culprit"}]
         [] edit = 22 -> [game EXCEPT !.program.dossiers = Tail(p.dossiers)]
         [] edit = 23 -> WithAda(game, [d EXCEPT !.openingBeliefs = {"lied"}, !.boundary.revisable = {"lied"}])
         [] edit = 24 -> WithAda(game, [d EXCEPT !.moves[1].kind = "dance", !.identity.empty = TRUE])

GameEdits == 1..14
EditedGame(game, edit) ==
    CASE edit = 1 -> [game EXCEPT !.events[1].causes = {"theft"}]
      [] edit = 2 -> [game EXCEPT !.events[1].causes = {"theft"}, !.events[1].order = 2]
      [] edit = 3 -> [game EXCEPT !.truth = Tail(@)]
      [] edit = 4 -> [game EXCEPT !.truth = Append(@, [proposition |-> "lied", value |-> "true"])]
      [] edit = 5 -> [game EXCEPT !.characters[2].seat = "cid"]
      [] edit = 6 -> [game EXCEPT !.seats = Append(@, [id |-> "cid"])]
      [] edit = 7 -> [game EXCEPT !.policies[1].grantees = {SeatRef("ben")}]
      [] edit = 8 -> [game EXCEPT !.interventions[1].kind = "note"]
      [] edit = 9 -> [game EXCEPT !.reveals[2].id = "r1"]
      [] edit = 10 -> [game EXCEPT !.extensions[1].profile = "other"]
      [] edit = 11 -> [game EXCEPT !.characters[1].objectives = {}]
      [] edit = 12 -> [game EXCEPT !.resources[1].digest = None]
      [] edit = 13 -> [game EXCEPT !.phases[2].order = 3]
      [] edit = 14 -> [game EXCEPT !.characters[2].beliefs = <<[proposition |-> "culprit", stance |-> "rejects"]>>]

Edited ==
    {Played, SoundGame}
    \cup {EditedProgram(Played, e) : e \in ProgramEdits}
    \cup {EditedProgram(EditedProgram(Played, e), f) : <<e, f>> \in {4, 6, 7, 20, 21, 23} \X ProgramEdits}
    \cup {EditedGame(Played, e) : e \in GameEdits}
    \cup {EditedGame(EditedProgram(Played, e), f) : <<e, f>> \in {4, 6, 21} \X GameEdits}

IsSound(game) == Findings(game) = {}

-----------------------------------------------------------------------------
(* What it means for a game to have no Findings *)

Known(game, cast, phase) == UNION {AvailableEvidence(game, s, phase) : s \in cast.seats}
Proven(game, cast, phase, lost) ==
    \E p \in Acceptable(game) : p.evidence \subseteq Known(game, cast, phase) \ lost

\* Whichever cast plays it and whichever one piece of evidence is overlooked, the cast
\* can prove a Hypothesis in the Resolution Phase; in an earlier one no cast can, all
\* evidence together.  Nothing is among the causes of its causes.
Solvable(game) ==
    LET end == game.resolution.phase
        phases == IdsOf(game.phases)
    IN /\ \A c \in ToSet(game.casts), e \in IdsOf(game.evidence) : Proven(game, c, end, {e})
       /\ \A c \in ToSet(game.casts), p \in phases :
             Order(game)[p] < ResolutionOrder(game) => ~Proven(game, c, p, {})
       /\ \A some \in SUBSET ToSet(game.events) \ {{}} :
             \E first \in some : first.causes \cap IdsOf(SetToSeq(some)) = {}

\* What a seat's Dossier cites is public or granted to the seat, and evidence that it
\* will be given; what a Phase asks it to do needs only what it then has.
Discreet(game) ==
    \A d \in ToSet(game.program.dossiers) :
       LET sheet == Sheet(game, d)
           last == CHOOSE p \in IdsOf(game.phases) : \A q \in IdsOf(game.phases) : Order(game)[q] <= Order(game)[p]
       IN /\ \A t \in TextsOf(d) :
                /\ t.propositions \cap game.program.hostOnly = {}
                /\ \A g \in game.program.grants : g.id \in t.propositions => d.seat \in g.seats
                /\ t.events \cap game.program.hostEvents = {}
                /\ t.evidence \subseteq AvailableEvidence(game, d.seat, last)
          /\ sheet # Refused => (sheet.propositions \ d.openingBeliefs) \cap game.program.hostOnly = {}
          /\ \A p \in IdsOf(game.phases) :
                LET shown == PhaseProjection(d, p)
                IN Len(d.arcs) = Cardinality(IdsOf(game.phases))
                   => /\ shown # Refused
                      /\ \A m \in shown.moves :
                            m.instruction.evidence \subseteq AvailableEvidence(game, d.seat, p)

\* Of two opposite stances on what is settled one is true, and of somebody who
\* believes one way or the other one is a lie.
Claims(game) ==
    \A c \in ToSet(game.characters), p \in IdsOf(game.propositions) :
       LET yes == ClassifyClaim(game, c, p, "accepts")
           no == ClassifyClaim(game, c, p, "rejects")
       IN /\ (PropositionTruth(game, p) = "unresolved" <=> yes.factuality = no.factuality)
          /\ (Belief(c, p) = "uncertain" <=> yes.intent = no.intent)

FindingsHold ==
    /\ \A game \in Plots : IsSound(game) => Solvable(game)
    /\ \A game \in Edited :
          IsSound(game) => /\ Solvable(game) /\ Claims(game)
                           /\ game.program # None => Discreet(game)
    /\ IsSound(SoundGame) /\ IsSound(Played)

-----------------------------------------------------------------------------
(* Candidates and Releases *)

Material(id) == [resource |-> id, media |-> "text/plain", data |-> id, receipt |-> "made", attestation |-> None]
Materials == <<Material("letter"), Material("map"), [Material("diary") EXCEPT !.attestation = "checked"]>>
Settings == [lock |-> ReferenceLock, seed |-> 7, options |-> "none", advisories |-> {}]
FaultyMaterials ==
    {<< >>, Tail(Materials), Append(Materials, Material("letter")), Append(Materials, Material("guide")),
     [Materials EXCEPT ![1].data = "forged"], [Materials EXCEPT ![1].media = "image/png"],
     [Materials EXCEPT ![3].receipt = None]}
Frozen(game) == FreezeCandidate(game, Materials, Settings)

\* A Candidate of which something was changed after it was frozen.
Changed(candidate) ==
    {[candidate EXCEPT !.game = g] : g \in {EditedGame(candidate.game, e) : e \in {6, 13, 14}}}
    \cup {[candidate EXCEPT !.materials = m] : m \in FaultyMaterials}
    \cup {[candidate EXCEPT !.materials[3].attestation = None], [candidate EXCEPT !.settings.seed = 8],
          [candidate EXCEPT !.settings.lock = "other"], [candidate EXCEPT !.manifest.settings.seed = 8],
          [candidate EXCEPT !.settings.seed = 8, !.manifest.settings.seed = 8]}

\* The bytes of a Release with one entry dropped, added, doubled or replaced.
Tampered(bundle) ==
    {bundle \ {e} : e \in bundle}
    \cup {bundle \cup {<<<<"materials", "note">>, "forged">>}}
    \cup {bundle \cup {<<e[1], None>>} : e \in bundle}
    \cup {(bundle \ {e}) \cup {<<e[1], None>>} : e \in {f \in bundle : f[1] # ReleasePath}}

\* compile_candidate returns, unless a seat has nobody or a Dossier's sheet cannot be made.
CanBeRendered(game) ==
    /\ \A s \in IdsOf(game.seats) : \E c \in ToSet(game.characters) : c.seat = s
    /\ game.program # None
         => /\ {d.seat : d \in ToSet(game.program.dossiers)} = IdsOf(game.seats)
            /\ \A d \in ToSet(game.program.dossiers) : Sheet(game, d) # Refused

\* What a sound game compiles to loads as it is and holds the game's materials.
Releasable(game, compiled) ==
    IF ~CanBeRendered(game) THEN compiled = Refused
    ELSE /\ compiled.attempt[1] = "released"
         /\ LoadRelease(compiled.release.bundle) = compiled.release
         /\ \A r \in ToSet(game.resources) :
               \E e \in compiled.release.bundle : e[1] = MaterialPath(r.id) /\ Digest(e[2]) = r.digest
FrozenWhenSound(game, frozen) ==
    IF IsSound(game) THEN Releasable(game, CompileCandidate(frozen.candidate))
    ELSE frozen = Refused \/ (frozen.candidate = None /\ frozen.findings # {})

\* A Candidate is frozen of a sound game with the materials of its Resources and of
\* nothing else; it is compiled to one Release, which holds them and loads as it is,
\* and what is changed on the way, in the Candidate or in the bytes, is refused.
ReleasesHold ==
    /\ \A game \in Edited : FrozenWhenSound(game, Frozen(game))
    /\ \A materials \in FaultyMaterials :
          FreezeCandidate(Played, materials, Settings).candidate = None
    /\ \A candidate \in {Frozen(game).candidate : game \in {SoundGame, Played}} :
          /\ \A other \in Changed(candidate) : CompileCandidate(other).release = None
          /\ \A bundle \in Tampered(CompileCandidate(candidate).release.bundle) :
                LoadRelease(bundle) = Refused

-----------------------------------------------------------------------------
\* Where no Finding protects a game: a Dossier's chronology may tell a host-only event and
\* a belief a host-only Proposition; of two Arcs of one Phase the first is shown and the
\* last was looked at; a seat that no cast uses may have no Character, so that the
\* Candidate cannot be compiled; orders may leave gaps, which advance-phase does not
\* cross (runtime.py:519).
Unprotected ==
    /\ \E game \in Edited \ {SoundGame} : \E s \in IdsOf(game.seats) :
          LET told == SeatProjection(game, s)
          IN /\ IsSound(game) /\ told # Refused
             /\ told.sheet.events \cap game.program.hostEvents # {}
    /\ \E game \in Edited \ {SoundGame} : \E s \in IdsOf(game.seats) :
          LET told == SeatProjection(game, s)
          IN /\ IsSound(game) /\ told # Refused
             /\ \E b \in told.beliefs : b.proposition \in game.program.hostOnly
    /\ \E game \in Edited \ {SoundGame} : \E d \in ToSet(game.program.dossiers), p \in IdsOf(game.phases) :
          /\ IsSound(game)
          /\ \E m \in PhaseProjection(d, p).moves :
                ~(m.instruction.evidence \subseteq AvailableEvidence(game, d.seat, p))
    /\ \E game \in Edited :
          IsSound(game) /\ CompileCandidate(Frozen(game).candidate) = Refused
    /\ \E game \in Edited :
          /\ IsSound(game) /\ ResolutionOrder(game) # Order(game)[Opening(game)]
          /\ ~\E p \in IdsOf(game.phases) : Order(game)[p] = ResolutionOrder(game) - 1
=============================================================================
