------------------------------- MODULE Releases -------------------------------
(***************************************************************************)
(* compiler/compiler.py and compiler/projections.py: a game and its materials *)
(* are frozen to a Candidate, a Candidate is compiled to a Release, and the   *)
(* bytes of a Release are loaded again.  The digest of a value is the value;  *)
(* a path is the sequence of its parts.                                      *)
(***************************************************************************)
EXTENDS CharacterPrograms

ReferenceLock == "reference"

-----------------------------------------------------------------------------
(* Projections *)

Opening(game) ==
    game.phases[CHOOSE i \in DOMAIN game.phases :
        \A j \in DOMAIN game.phases : \/ game.phases[i].order < game.phases[j].order
                                      \/ game.phases[i].order = game.phases[j].order /\ i <= j].id
FirstOf(items, seat) == items[Min({i \in DOMAIN items : items[i].seat = seat})]

\* Phases in their order, then as written.
NewIn(game, seat, i) ==
    LET Earlier(j) == \/ game.phases[j].order < game.phases[i].order
                      \/ game.phases[j].order = game.phases[i].order /\ j < i
    IN AvailableEvidence(game, seat, game.phases[i].id)
       \ UNION {AvailableEvidence(game, seat, game.phases[j].id) :
                  j \in {k \in DOMAIN game.phases : Earlier(k)}}

\* seat_projection: every seat needs a Character and, if there is a Program, a Dossier.
SeatProjection(game, seat) ==
    IF \/ ~\E c \in ToSet(game.characters) : c.seat = seat
       \/ game.program # None /\ ~\E d \in ToSet(game.program.dossiers) : d.seat = seat
    THEN Refused
    ELSE LET character == FirstOf(game.characters, seat)
             dossier == IF game.program = None THEN None ELSE FirstOf(game.program.dossiers, seat)
             projection ==
                [seat |-> seat, character |-> character.id, beliefs |-> ToSet(character.beliefs),
                 objectives |-> character.objectives, opening |-> Opening(game),
                 available |-> AvailableEvidence(game, seat, Opening(game)),
                 byPhase |-> [i \in DOMAIN game.phases |-> NewIn(game, seat, i)],
                 dossier |-> IF dossier = None THEN None ELSE PhaseProjection(dossier, Opening(game)),
                 sheet |-> IF dossier = None THEN None ELSE Sheet(game, dossier)]
         IN IF Refused \in {projection.dossier, projection.sheet} THEN Refused ELSE projection

HostProjection(game) == game
SimulationProjection(game, seats) ==
    [truth |-> game.truth, correct |-> game.resolution.correct, proofs |-> game.resolution.proofs,
     seats |-> seats]
ExportProjection(game) ==
    [resources |-> game.resources, policies |-> game.policies, reveals |-> game.reveals]

-----------------------------------------------------------------------------
(* freeze_candidate *)

Descriptor(material) == [material EXCEPT !.data = Digest(@)]
Descriptors(materials) == {Descriptor(m) : m \in ToSet(materials)}

MaterialFindings(game, materials) ==
    LET resources == ById(game.resources)
        supplied == [i \in DOMAIN materials |-> [id |-> materials[i].resource]]
        known == {m \in ToSet(materials) : m.resource \in DOMAIN resources}
        Against(code, ms) == Blockers(code, {m.resource : m \in ms})
    IN Against("unknown-material", ToSet(materials) \ known)
       \cup Against("material-hash-mismatch",
              {m \in known : Digest(m.data) # resources[m.resource].digest})
       \cup Against("material-media-mismatch", {m \in known : m.media # resources[m.resource].media})
       \cup Against("missing-reproduction-receipt", {m \in known : m.receipt = None})
       \cup Blockers("missing-material", DOMAIN resources \ IdsOf(supplied))
       \cup Blockers("duplicate-material", Repeated(supplied))

\* _profile_findings, _lock_findings, _material_findings
InputFindings(game, lock, materials) ==
    IF Findings(game) = Refused THEN Refused
    ELSE Findings(game)
         \cup (IF lock = ReferenceLock THEN {} ELSE {<<"incompatible-component-lock", "lock">>})
         \cup MaterialFindings(game, materials)

FrozenManifest(game, materials, settings) ==
    [game |-> game, materials |-> Descriptors(materials), settings |-> settings]

\* The settings are the seed, the component lock, the options and the advisories.
FreezeCandidate(game, materials, settings) ==
    LET found == InputFindings(game, settings.lock, materials)
        manifest == FrozenManifest(game, materials, settings)
    IN IF found = Refused \/ \E a \in settings.advisories : a.severity # "warning" THEN Refused
       ELSE IF found # {} THEN [candidate |-> None, findings |-> found]
       ELSE [candidate |-> [id |-> manifest, game |-> game, materials |-> materials,
                            settings |-> settings, manifest |-> manifest],
             findings |-> settings.advisories]

-----------------------------------------------------------------------------
(* compile_candidate *)

\* _candidate_findings: a Candidate is what it was frozen as.
CandidateFindings(candidate) ==
    LET found == InputFindings(candidate.game, candidate.settings.lock, candidate.materials)
        manifest == candidate.manifest
        Unless1(holds, code) == IF holds THEN {} ELSE {<<code, "candidate">>}
    IN IF found = Refused THEN Refused
       ELSE found
            \cup Unless1(manifest = candidate.id, "candidate-identity-mismatch")
            \cup Unless1(Descriptors(candidate.materials) = manifest.materials,
                         "candidate-material-mutation")
            \cup Unless1(candidate.game = manifest.game /\ candidate.settings = manifest.settings,
                         "candidate-semantic-mutation")

\* BundledFile: path, audience, data.
Bundled(path, data, audience) == <<path, audience, data>>
MaterialPath(resource) == <<"materials", resource>>
FilesOf(candidate, views) ==
    {Bundled(<<"trusted", "game">>, candidate.game, "trusted"),
     Bundled(<<"projections", "host">>, HostProjection(candidate.game), "trusted-host"),
     Bundled(<<"projections", "simulation">>, SimulationProjection(candidate.game, views),
             "trusted-simulation"),
     Bundled(<<"projections", "export">>, ExportProjection(candidate.game), "trusted-exporter")}
    \cup {Bundled(<<"projections", "seats", s>>, views[s], SeatRef(s)) : s \in DOMAIN views}
    \cup {Bundled(MaterialPath(m.resource), m.data, "access-policy") : m \in ToSet(candidate.materials)}
    \cup {Bundled(<<"receipts", m.resource>>, m.receipt, "trusted") : m \in ToSet(candidate.materials)}
    \cup {Bundled(<<"attestations", m.resource>>, m.attestation, "trusted") :
            m \in {n \in ToSet(candidate.materials) : n.attestation # None}}

\* A manifest is its core under the digest of the core.
ReleasePath == <<"release">>
FileDescriptor(file) == [file EXCEPT ![3] = Digest(@)]
ReleaseCore(candidate, files) ==
    [candidate |-> candidate.id, settings |-> candidate.settings, casts |-> candidate.game.casts,
     materials |-> Descriptors(candidate.materials), files |-> {FileDescriptor(f) : f \in files}]
Sealed(core) == [id |-> Digest(core), core |-> core]
EntriesOf(files) == {<<f[1], f[3]>> : f \in files}
ReleaseOf(manifest, files, bundle) ==
    [id |-> manifest.id, candidate |-> manifest.core.candidate, manifest |-> manifest,
     files |-> files \cup {Bundled(ReleasePath, manifest, "public-metadata")}, bundle |-> bundle]

\* The attempt is the outcome and the Findings.
CompileCandidate(candidate) ==
    LET found == CandidateFindings(candidate)
        views == [s \in IdsOf(candidate.game.seats) |-> SeatProjection(candidate.game, s)]
    IN IF found = Refused THEN Refused
       ELSE IF found # {} THEN [release |-> None, attempt |-> <<"blocked", found>>]
       ELSE IF \E s \in DOMAIN views : views[s] = Refused THEN Refused
       ELSE LET files == FilesOf(candidate, views)
                manifest == Sealed(ReleaseCore(candidate, files))
                entries == EntriesOf(files) \cup {<<ReleasePath, manifest>>}
            IN [release |-> ReleaseOf(manifest, files, entries),
                attempt |-> <<"released", candidate.settings.advisories>>]

-----------------------------------------------------------------------------
(* load_release *)

Entry(bundle, path) == (CHOOSE e \in bundle : e[1] = path)[2]
IsWellFormed(path) == ToSet(path) \cap {"", ".."} = {}

BundleMatches(bundle, manifest) ==
    /\ manifest.id = Digest(manifest.core)
    /\ \A d, o \in manifest.core.files : d[1] = o[1] => d = o
    /\ \A d \in manifest.core.files :
          /\ d[1] # ReleasePath /\ IsWellFormed(d[1])
          /\ \E e \in bundle : e[1] = d[1] /\ d[3] = Digest(e[2])
    /\ {e[1] : e \in bundle} = {d[1] : d \in manifest.core.files} \cup {ReleasePath}

LoadRelease(bundle) ==
    IF \/ \E d, e \in bundle : d # e /\ d[1] = e[1]
       \/ ~\E e \in bundle : e[1] = ReleasePath
    THEN Refused
    ELSE LET manifest == Entry(bundle, ReleasePath)
         IN IF ~BundleMatches(bundle, manifest) THEN Refused
            ELSE ReleaseOf(manifest,
                           {Bundled(d[1], Entry(bundle, d[1]), d[2]) : d \in manifest.core.files},
                           bundle)
=============================================================================
