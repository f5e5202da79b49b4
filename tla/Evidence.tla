------------------------------- MODULE Evidence -------------------------------
(***************************************************************************)
(* workspace/evidence.py and the claims of workspace/workspace.py: the      *)
(* closure of an object, checkpoints, Claim Manifests and Claim Capsules.   *)
(* An object is [kind, value, refs], where refs are the objects its typed   *)
(* fields name; content addressing makes the object its own reference.  A   *)
(* stored object is a member of a set, and an order of references (sorted   *)
(* and unique in the code) is a set.                                         *)
(***************************************************************************)
EXTENDS JournalLog, SequencesExt, FiniteSetsExt

CONSTANT None

Object(kind, value, refs) == [kind |-> kind, value |-> value, refs |-> refs]

\* JOURNAL_IDS: the independent journals of a Workspace.
JournalNames == {"lineage", "operational", "climb", "analysis", "qualification", "access"}

\* transitive_object_closure, which raises on an object that is not stored.
Closure(roots) ==
    LET reach[n \in 0..10] ==
            IF n = 0 THEN roots
            ELSE LET nearer == reach[n - 1] IN nearer \cup UNION {o.refs : o \in nearer}
    IN reach[10]

\* WorkspaceCheckpoint: a head for every journal.
Checkpoint(logs) ==
    Object("workspace_checkpoint",
           [name \in JournalNames |-> [sequence |-> Len(logs[name]), head |-> HeadOf(logs[name])]],
           {})
IsCheckpoint(o) ==
    /\ o.kind = "workspace_checkpoint"
    /\ DOMAIN o.value = JournalNames
    /\ \A name \in JournalNames : (o.value[name].sequence = 0) = (o.value[name].head = << >>)

\* journal_prefix: a verified checkpoint names a head that is in the journal.
JournalPrefix(log, head) == SubSeq(log, 1, Len(head))

\* verify_journal_prefix: the hash chain is part of what a log is.
PrefixVerifies(events, head) == KeysUnique(events) /\ HeadOf(events) = head

\* Workspace.verify_checkpoint
CheckpointVerifies(checkpoint, logs) ==
    /\ IsCheckpoint(checkpoint)
    /\ \A name \in JournalNames :
          LET pinned == checkpoint.value[name]
          IN /\ pinned.sequence <= Len(logs[name])
             /\ HeadOf(SubSeq(logs[name], 1, pinned.sequence)) = pinned.head

-----------------------------------------------------------------------------
(* Claims *)

BaseOf(manifest) ==
    {manifest.checkpoint} \cup manifest.roots \cup manifest.schemas \cup manifest.verifiers

\* Mutant: the objects the roots name, and not those that these name.
ManifestOneStep(claim, checkpoint, roots, schemas, verifiers) ==
    LET base == {checkpoint} \cup roots \cup schemas \cup verifiers
    IN [claim |-> claim, checkpoint |-> checkpoint, roots |-> roots, schemas |-> schemas,
        verifiers |-> verifiers, objects |-> base \cup UNION {o.refs : o \in base}]

\* ClaimManifest, as Workspace.create_claim_manifest makes it.
Manifest(claim, checkpoint, roots, schemas, verifiers) ==
    [claim |-> claim, checkpoint |-> checkpoint, roots |-> roots, schemas |-> schemas,
     verifiers |-> verifiers,
     objects |-> Closure({checkpoint} \cup roots \cup schemas \cup verifiers)]

\* Workspace.verify_claim_manifest
ManifestVerifies(manifest, logs) ==
    /\ CheckpointVerifies(manifest.checkpoint, logs)
    /\ Closure(BaseOf(manifest)) = manifest.objects

\* Workspace.export_claim_capsule: the objects, and each journal as far as the
\* checkpoint pins it.
Capsule(manifest, logs) ==
    [manifest |-> manifest, checkpoint |-> manifest.checkpoint, listed |-> manifest.objects,
     objects |-> manifest.objects,
     proofs |-> [name \in JournalNames |->
                   JournalPrefix(logs[name], manifest.checkpoint.value[name].head)]]

\* verify_claim_capsule_bytes, which reads nothing but the capsule.
CapsuleVerifies(capsule) ==
    /\ capsule.listed \subseteq capsule.objects
    /\ capsule.checkpoint \in capsule.objects
    /\ IsCheckpoint(capsule.checkpoint)
    /\ capsule.manifest.checkpoint = capsule.checkpoint
    /\ capsule.listed = capsule.manifest.objects
    /\ \A o \in capsule.listed : o.refs \subseteq capsule.manifest.objects
    /\ \A name \in JournalNames :
          LET pinned == capsule.checkpoint.value[name]
          IN /\ PrefixVerifies(capsule.proofs[name], pinned.head)
             /\ Len(capsule.proofs[name]) = pinned.sequence
=============================================================================
