---------------------------- MODULE PublicRelease -----------------------------
(***************************************************************************)
(* release.py: whether a version of the library may be released, as a       *)
(* function of the ledger of an Experiment and of the evidence for the      *)
(* version.  It writes nothing.  An object is its own reference; the stages, *)
(* owners and texts of gates are left out.                                  *)
(***************************************************************************)
EXTENDS ClimbCalls

\* version: of the library and of the policy; pythons, upstreams, artifacts and
\* documents: the names that must be spoken for.
PublicReleasePolicy(epoch, pythons, upstreams, artifacts, documents) ==
    [epoch |-> epoch, pythons |-> pythons, upstreams |-> upstreams,
     artifacts |-> artifacts, documents |-> documents]

ReleaseAttestation(policy, version, candidate, standing, reviewer, receipt, artifacts, response) ==
    [policy |-> policy, version |-> version, candidate |-> candidate,
     standing |-> standing, reviewer |-> reviewer, receipt |-> receipt,
     artifacts |-> artifacts, response |-> response]

\* upstreams, tests, artifacts and documents map names to versions or references.
ReleaseEvidence(version, epoch, candidate, package, proofs, upstreams, tests, artifacts, documents, limitations, attestation) ==
    [version |-> version, epoch |-> epoch, candidate |-> candidate, package |-> package,
     proofs |-> proofs, upstreams |-> upstreams, tests |-> tests,
     artifacts |-> artifacts, documents |-> documents, limitations |-> limitations,
     attestation |-> attestation]

\* References whose object was handed over and is what they say.
AvailableRefs(objects) == {o.ref : o \in {x \in objects : x.ref = x.value}}

\* _refs_valid
RefsValid(values, required, available) ==
    DOMAIN values = required /\ {values[n] : n \in DOMAIN values} \subseteq available

\* The machine_qualified Standing of the Candidate, the last one if there are several.
StandingOf(bundle, evidence) ==
    LET standings == SelectSeq(bundle, LAMBDA r : /\ r.record = "standing"
                                                  /\ r.candidate = evidence.candidate
                                                  /\ r.level = "machine_qualified")
    IN IF standings = << >> THEN None ELSE Last(standings)

BoundExactly(bundle, evidence) ==
    \E b \in Collection(bundle, "trial_binding") :
       b.candidate = evidence.candidate /\ b.package = evidence.package

\* Judges of the Evaluations the Standing rests on, and who has proposed anything.
JudgesOf(standing) ==
    IF standing = None THEN {} ELSE UNION {ToSet(e.judges) : e \in ToSet(standing.evaluations)}
ParticipantsOf(bundle, standing) ==
    PrincipalsOf(bundle, JudgesOf(standing)
                         \cup {p.builder : p \in Collection(bundle, "proposal")})

StandingHolds(bundle, standing) ==
    /\ standing # None
    /\ Len(standing.evaluations) >= 2
    /\ ToSet(standing.evaluations) \subseteq Collection(bundle, "evaluation")
    /\ {"model-blind-panel", "independent-agentic-review"} \subseteq standing.kinds
    /\ \A e \in ToSet(standing.evaluations) : e.mode = "blind" /\ e.outcome = "pass"
    /\ Cardinality({e.instrument : e \in ToSet(standing.evaluations)}) = 1
    /\ Cardinality(PrincipalsOf(bundle, JudgesOf(standing))) >= 2

ReviewedIndependently(bundle, standing) ==
    /\ StandingHolds(bundle, standing)
    /\ HasRole(bundle, standing.reviewer, {"agent"}, {"reviewer"})
    /\ standing.reviewer \notin JudgesOf(standing)
    /\ PrincipalsOf(bundle, {standing.reviewer})
         \cap ParticipantsOf(bundle, standing) = {}

\* The release reviewer is an agent that answered, took no part in the Standing, and
\* attests exactly this.
Attested(bundle, evidence, policy, available) ==
    LET standing == StandingOf(bundle, evidence)
        attestation == evidence.attestation
    IN /\ attestation # None
       /\ HasRole(bundle, attestation.reviewer, {"agent"}, {"release-reviewer"})
       /\ attestation.receipt \in Collection(bundle, "model_receipt")
       /\ attestation.receipt.authority = attestation.reviewer
       /\ attestation.receipt.role = "release-reviewer"
       /\ attestation.receipt.output = attestation.response
       /\ attestation.response \in available
       /\ standing # None
       /\ PrincipalsOf(bundle, {attestation.reviewer})
            \cap (ParticipantsOf(bundle, standing)
                  \cup PrincipalsOf(bundle, {standing.reviewer})) = {}
       /\ attestation.policy = policy
       /\ attestation.version = evidence.version
       /\ attestation.candidate = evidence.candidate
       /\ attestation.standing = standing
       /\ attestation.artifacts = evidence.artifacts

\* The twelve gates of qualify_public_release.
GateResults(bundle, verified, evidence, policy, objects) ==
    LET available == AvailableRefs(objects)
        standing == StandingOf(bundle, evidence)
    IN [portable |-> verified /\ BoundExactly(bundle, evidence),
        authoring |-> evidence.proofs.authoring \in available,
        standing |-> StandingHolds(bundle, standing),
        independent |-> ReviewedIndependently(bundle, standing),
        experience |-> evidence.proofs.experience \in available,
        upstreams |-> /\ DOMAIN evidence.upstreams = policy.upstreams
                      /\ \A n \in policy.upstreams : evidence.upstreams[n] = "version",
        compatibility |-> /\ evidence.epoch = policy.epoch
                          /\ evidence.proofs.compatibility \in available,
        tests |-> RefsValid(evidence.tests, policy.pythons, available),
        artifacts |-> RefsValid(evidence.artifacts, policy.artifacts, available),
        documents |-> RefsValid(evidence.documents, policy.documents, available),
        limitations |-> evidence.limitations # << >> /\ "blank" \notin ToSet(evidence.limitations),
        attestation |-> Attested(bundle, evidence, policy, available)]

FailedGates(bundle, verified, evidence, policy, objects) ==
    LET gates == GateResults(bundle, verified, evidence, policy, objects)
    IN {g \in DOMAIN gates : ~gates[g]}

Qualified(bundle, verified, evidence, policy, objects) ==
    FailedGates(bundle, verified, evidence, policy, objects) = {}
=============================================================================
