------------------------------ MODULE BlindTrial ------------------------------
(***************************************************************************)
(* physical/exporter.py and climb/trial.py: which copies of a Release's      *)
(* materials are printed for whom, and the package made of them for judges   *)
(* who must not see what the host sees.  Names and paths are sequences of    *)
(* words; a digest or an archive of a value is the value; the text of a file *)
(* is the set of its phrases, a JSON file a value of its kind.  An operation *)
(* that raises returns Refused.                                              *)
(***************************************************************************)
EXTENDS Integers, SequencesExt, FiniteSetsExt

CONSTANTS None, Refused

Host == [kind |-> "viewer", id |-> <<"host">>]
Seat(id) == [kind |-> "seat", id |-> id]
Text(phrases) == <<"text", phrases>>
File(path, media, data) == [path |-> path, media |-> media, data |-> data]

-----------------------------------------------------------------------------
(* Physical Export *)

\* Of a game: resources maps a name to the media type and text of the material,
\* dossiers some of them to their seat, policies are pairs of a resource and its
\* grantees, reveals name a resource, the seats and the phase.
ResourcesOf(game) == DOMAIN game.resources

\* _delivery_by_resource: the earliest of the phases that reveal it to the seat.
Delivery(game, resource, seat) ==
    LET phases == {r.phase : r \in {v \in game.reveals : v.resource = resource /\ seat \in v.seats}}
    IN IF phases = {} THEN <<"opening">>
       ELSE CHOOSE p \in phases : \A q \in phases : game.order[p] <= game.order[q]

RenditionPath(game, resource) ==
    IF resource \in DOMAIN game.dossiers
    THEN <<"print", "dossiers">> \o game.dossiers[resource]
    ELSE <<"print", "resources">> \o resource
IsRendered(media) == media \in {"application/pdf", "text/markdown", "text/plain"}
Rendition(game, resource) ==
    File(RenditionPath(game, resource), "application/pdf", Text(game.resources[resource].text))

\* _build_plan: one copy for the host and for each seat that a policy grants it to.
\* A container is named by its seat and condition, joined.
CopyFor(game, resource, grantee) ==
    LET condition == IF grantee = Host THEN <<"host-setup">>
                     ELSE Delivery(game, resource, grantee.id)
    IN [resource |-> resource, rendition |-> RenditionPath(game, resource),
        audience |-> grantee, condition |-> condition,
        container |-> IF grantee = Host THEN <<"host", "binder">> ELSE grantee.id \o condition]
PlanCopies(game) ==
    {CopyFor(game, c[1], c[2]) :
        c \in UNION {{p.resource} \X {g \in p.grantees : g = Host \/ g.kind = "seat"} :
                     p \in game.policies}}
PlanContainers(game) ==
    {[id |-> id,
      of |-> LET within == {c \in PlanCopies(game) : c.container = id}
             IN CHOOSE o \in {[audience |-> c.audience, condition |-> c.condition] : c \in within} :
                    TRUE] :
        id \in {c.container : c \in PlanCopies(game)}}

\* export_physical: every resource is rendered, granted or not; _preflight checks
\* each file by its path.
Export(game) ==
    IF \E r \in ResourcesOf(game) : ~IsRendered(game.resources[r].media) THEN Refused
    ELSE LET prints == {Rendition(game, r) : r \in ResourcesOf(game)}
         IN [files |-> prints, copies |-> PlanCopies(game),
             containers |-> PlanContainers(game), checks |-> {f.path : f \in prints}]

-----------------------------------------------------------------------------
(* prepare_blind_trial *)

\* Mutant: every copy counts as a seat's.
CopiesOfAll(physical) == physical.copies
SeatCopies(physical) == {c \in physical.copies : c.audience.kind = "seat"}

SchedulePath == <<"trial", "schedule">>
ManifestPath == <<"blind-trial">>
PrintPath(resource) == <<"trial", "print">> \o resource
MaterialPath(game, resource) ==
    IF game.resources[resource].media = "application/pdf" THEN PrintPath(resource)
    ELSE <<"trial", "materials">> \o resource

\* _project_preflight_checks: the checks of the shipped prints, at their new paths.
ProjectedChecks(physical, resources) ==
    {PrintPath(r) : r \in {r \in resources :
        \E c \in SeatCopies(physical) : c.resource = r /\ c.rendition \in physical.checks}}

SeatFiles(game) ==
    {File(<<"trial", "seats">> \o s, "application/json", Text(game.projections[s])) :
        s \in DOMAIN game.projections}
ShippedFiles(game, physical, resources) ==
    {LET print == CHOOSE f \in physical.files : f.path = RenditionPath(game, r)
     IN File(PrintPath(r), print.media, print.data) : r \in resources}
    \cup {File(MaterialPath(game, r), game.resources[r].media, Text(game.resources[r].text)) :
            r \in {q \in resources : game.resources[q].media # "application/pdf"}}
Schedule(game, physical, resources) ==
    LET checks == ProjectedChecks(physical, resources)
    IN <<"schedule",
         [containers |-> {c.of : c \in {k \in physical.containers : k.of.audience.kind = "seat"}},
          copies |-> {[audience |-> c.audience, condition |-> c.condition,
                       resource |-> c.resource, material |-> MaterialPath(game, c.resource),
                       print |-> PrintPath(c.resource)] : c \in SeatCopies(physical)},
          checks |-> checks, ok |-> Cardinality(checks) = Cardinality(resources)]>>

\* _manifest describes every other file; _archive holds the bytes of all of them.
Manifest(content) == <<"manifest", content>>
WithManifest(content) ==
    content \cup {File(ManifestPath, "application/json", Manifest(content))}
Archive(files) == {<<f.path, f.data>> : f \in files}
Trial(files, manifest, archive) == [files |-> files, manifest |-> manifest, archive |-> archive]

\* verify_blind_trial.  hostly are the words that hold the word host; the phrases
\* of a projection that are forbidden keys are forbidden.
ContentOf(trial) == {f \in trial.files : f.path # ManifestPath}
PathsOf(trial) == {f.path : f \in trial.files}
ScheduleOf(trial) == (CHOOSE f \in trial.files : f.path = SchedulePath).data[2]
ForbiddenRoots == {"trusted", "receipts", "attestations", "source"}
ForbiddenKeys == {"truth_model", "release_id"}
VerifyTrial(trial, hostly) ==
    /\ trial.manifest = Manifest(ContentOf(trial))
    /\ \E f \in trial.files : f.path = ManifestPath /\ f.data = trial.manifest
    /\ trial.archive = Archive(trial.files)
    /\ \A p \in PathsOf(trial) : Head(p) \notin ForbiddenRoots /\ Range(p) \cap hostly = {}
    /\ SchedulePath \in PathsOf(trial)
    /\ \A c \in ScheduleOf(trial).copies : {c.material, c.print} \subseteq PathsOf(trial)
    /\ ScheduleOf(trial).checks \subseteq PathsOf(trial)
    /\ ScheduleOf(trial).ok
    /\ \A f \in trial.files :
          f.media = "application/json" /\ f.data[1] = "text"
            => f.data[2] \cap ForbiddenKeys = {}

Prepare(game, physical, story) ==
    LET resources == {c.resource : c \in SeatCopies(physical)}
        content == {File(<<"trial", "cover-story">>, "text/plain", Text(story))}
                   \cup SeatFiles(game) \cup ShippedFiles(game, physical, resources)
                   \cup {File(SchedulePath, "application/json",
                              Schedule(game, physical, resources))}
        trial == Trial(WithManifest(content), Manifest(content), Archive(WithManifest(content)))
    IN IF \/ story = {} \/ SeatFiles(game) = {} \/ resources = {}
          \/ ~VerifyTrial(trial, game.hostly)
       THEN Refused ELSE trial

\* load_blind_trial: the media types come from the manifest within the archive.
Load(archive, hostly) ==
    LET paths == {e[1] : e \in archive}
        manifest == (CHOOSE e \in archive : e[1] = ManifestPath)[2][2]
        MediaOf(p) == IF p = ManifestPath THEN "application/json"
                      ELSE (CHOOSE f \in manifest : f.path = p).media
        trial == Trial({File(e[1], MediaOf(e[1]), e[2]) : e \in archive}, <<"manifest", manifest>>,
                       archive)
    IN IF \/ ManifestPath \notin paths
          \/ Cardinality(archive) # Cardinality(paths)
          \/ paths # {f.path : f \in manifest} \cup {ManifestPath}
          \/ ~VerifyTrial(trial, hostly)
       THEN Refused ELSE trial

\* verify_trial_quote; nothing is quoted from the schedule or the manifest here.
QuoteStands(trial, path, quote) ==
    \E f \in trial.files :
        /\ f.path = path
        /\ f.media \in {"application/pdf", "text/plain", "text/markdown", "application/json"}
        /\ f.data[1] = "text" /\ quote \in f.data[2]
=============================================================================
