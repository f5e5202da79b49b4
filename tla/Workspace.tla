----------------------------- MODULE Workspace ------------------------------
(***************************************************************************)
(* workspace/workspace.py: several processes over one Workspace directory. *)
(* Transactions (commit_draft, create_branch, select_revision,              *)
(* freeze_candidate, create_checkpoint, rebuild_indexes) hold workspace.lock; *)
(* Workspace.__init__ and the appends other parts make to the operational  *)
(* and climb journals do not.  One journal append is one step (Journal     *)
(* shows that it is a step of a durable log), and so is one replacement of *)
(* the manifest; what the manifest says is a function of the lengths of    *)
(* the journals it was derived from, so those lengths stand for it.        *)
(***************************************************************************)
EXTENDS JournalLog, FiniteSets, FiniteSetsExt

CONSTANTS
    Processes,
    Workspaces,     \* workspace_id's; a behaviour is about one of them
    Workers,        \* of each, the processes that work on it
    Branches,
    Tasks,          \* what callers ask of each: see Task below
    Openers,        \* processes that may open the Workspace while others work
    Crashable,      \* processes that may die half-way
    MaxLineage,     \* bound, of each: lineage events after which no new operation begins
    MaxElsewhere,   \* bound, of each: appends other parts make to an unlocked journal
    None

\* One thing a caller may ask for, under its idempotency key.
Task == [key : STRING, op : {"commit", "branch", "select", "freeze", "rebuild",
                             "checkpoint", "open"},
         branch : Branches \cup {None},
         data : STRING,
         other : Branches \cup {None, "foreign"}]

ASSUME ProcessesAssumption == None \notin Processes
ASSUME SubsetsAssumption == Openers \subseteq Processes /\ Crashable \subseteq Processes
ASSUME WorkersAssumption == Workers \in [Workspaces -> SUBSET Processes]
ASSUME TasksAssumption == Tasks \in [Workspaces -> SUBSET Task] /\ "foreign" \notin Branches
ASSUME BoundsAssumption ==
    /\ Workspaces \subseteq STRING
    /\ MaxLineage \in [Workspaces -> Nat] /\ MaxElsewhere \in [Workspaces -> Nat]

VARIABLES
    lineage, operational, climb,  \* the journals
    objects,        \* what the object store holds
    manifest,       \* workspace.json
    checkpoint,     \* the Checkpoint written last; none changes once written
    lock,           \* owner of workspace.lock
    pc,
    request,        \* the operation each process is in, or was last in
    view,           \* self.manifest of each process
    heads,          \* journal heads create_checkpoint has collected
    outcome         \* how each process's last operation ended

journals == <<lineage, operational, climb>>
stored == <<objects, manifest, checkpoint>>
locals == <<request, view, heads, outcome>>
vars == <<lineage, operational, climb, objects, manifest, checkpoint, lock, pc,
          request, view, heads, outcome>>

-----------------------------------------------------------------------------
(* Objects, lineage events and what they say *)

Draft(parents, data) == [kind |-> "draft", parents |-> parents, data |-> data]
Support(data) == [kind |-> "support", data |-> data]
Candidate(draft) == [kind |-> "candidate", draft |-> draft]
Checkpoint(lengths) == [kind |-> "checkpoint", heads |-> lengths]

\* The selection record that select_revision cites, and a revision of some
\* other Workspace that was never stored here.
Decision == [kind |-> "selection"]
Foreign == Draft(<< >>, "foreign")

\* refs_in: the objects an object names.
RefsIn(object) ==
    CASE object.kind = "draft" ->
           {object.parents[i] : i \in DOMAIN object.parents} \cup {Support(object.data)}
      [] object.kind = "candidate" -> {object.draft, Support(object.draft.data)}
      [] OTHER -> {}

Moves == {"draft_committed", "draft_merged", "branch_created", "branch_selected"}

\* _derive_manifest: the head of a branch is the target of the last lineage
\* event that moves it.
BranchHead(log, branch) ==
    LET moved == {i \in DOMAIN log : log[i].type \in Moves /\ log[i].branch = branch}
    IN IF moved = {} THEN None ELSE log[Max(moved)].target

\* What a projection derived now would say.
Derived == [lineage |-> Len(lineage), operational |-> Len(operational), climb |-> Len(climb)]

\* The projection of a process that has derived none.
Nothing == [lineage |-> 0, operational |-> 0, climb |-> 0]

\* A branch as self.manifest of the process shows it.
HeadInView(p, branch) == BranchHead(SubSeq(lineage, 1, view[p].lineage), branch)

Created(id) ==
    [key |-> id, type |-> "workspace_created", branch |-> None,
     expected |-> None, target |-> None, refs |-> {}]

Init ==
    /\ \E id \in Workspaces : lineage = <<Created(id)>>
    /\ operational = << >>
    /\ climb = << >>
    /\ objects = {}
    /\ manifest = Derived
    /\ checkpoint = Nothing
    /\ lock = None
    /\ pc = [p \in Processes |-> "idle"]
    /\ request = [p \in Processes |-> None]
    /\ view = [p \in Processes |-> Derived]
    /\ heads = [p \in Processes |-> Nothing]
    /\ outcome = [p \in Processes |-> "none"]

\* manifest["workspace_id"]
WorkspaceId == lineage[1].key

-----------------------------------------------------------------------------
(* Calls *)

\* The drafts the lineage has moved branches to, as the process has seen it.
DraftsInView(p) ==
    {lineage[i].target : i \in {n \in 1..view[p].lineage : lineage[n].type \in Moves}}

\* The lineage event an operation is about to append: its payload and the
\* objects it references.  expected is the head the caller believes current.
Intents(p, task) ==
    LET expected == HeadInView(p, task.branch)
        source == IF task.other = "foreign" THEN Foreign
                  ELSE IF task.other = None THEN None ELSE HeadInView(p, task.other)
        event(type, e, target, refs) ==
            [key |-> task.key, type |-> type, branch |-> task.branch,
             expected |-> e, target |-> target, refs |-> refs]
        given == IF expected = None THEN << >> ELSE <<expected>>
        merged == IF source = None THEN given ELSE Append(given, source)
        child == Draft(merged, task.data)
    IN CASE task.op = "commit" ->
              {event(IF source = None THEN "draft_committed" ELSE "draft_merged",
                     expected, child, {child} \cup RefsIn(child))}
         [] task.op = "branch" ->
              {event("branch_created", None, d, {d}) : d \in {source} \ {None}}
         [] task.op = "select" ->
              {event("branch_selected", expected, d, {d, Decision}) :
                 d \in IF expected = None THEN {} ELSE DraftsInView(p)}
         [] task.op = "freeze" ->
              {event("candidate_frozen", d, Candidate(d), {d, Candidate(d)}) :
                 d \in {expected} \ {None}}
         [] OTHER -> {event(task.op, None, None, {})}

Transactional == {"commit", "branch", "select", "freeze"}

\* A caller starts an operation of its own, built on the heads it last saw.
Begin(p, task) ==
    /\ pc[p] = "idle"
    /\ p \in Workers[WorkspaceId]
    /\ task.op = "open" => p \in Openers
    /\ Len(lineage) < MaxLineage[WorkspaceId]
    /\ \E event \in Intents(p, task) :
         request' = [request EXCEPT ![p] = [op |-> task.op, event |-> event]]
    /\ pc' = [pc EXCEPT ![p] = IF task.op = "open" THEN "open" ELSE "wait"]
    /\ outcome' = [outcome EXCEPT ![p] = "none"]
    /\ UNCHANGED <<journals, stored, lock, view, heads>>

\* A caller that crashed, or was rejected, repeats its last operation with the
\* same key and the same intent.
Retry(p) ==
    /\ pc[p] = "idle"
    /\ request[p] # None
    /\ request[p].op \in Transactional
    /\ pc' = [pc EXCEPT ![p] = "wait"]
    /\ outcome' = [outcome EXCEPT ![p] = "none"]
    /\ UNCHANGED <<journals, stored, lock, request, view, heads>>

Goto(p, label) == pc' = [pc EXCEPT ![p] = label]

\* Mutant: an early exit that skips the release.
LeaveLocked(p, result) ==
    /\ Goto(p, "idle")
    /\ outcome' = [outcome EXCEPT ![p] = result]

\* The operation raises or returns: file_mutex is released on the way out.
Leave(p, result) ==
    /\ Goto(p, "release")
    /\ outcome' = [outcome EXCEPT ![p] = result]

FirstStep(op) ==
    CASE op \in {"commit", "freeze"} -> "put"
      [] op \in {"branch", "select"} -> "check"
      [] op = "checkpoint" -> "collect"
      [] op = "rebuild" -> "derive"

\* Mutant: self._refresh() is forgotten; the heads of the last operation are used.
AcquireStale(p) ==
    /\ pc[p] = "wait"
    /\ lock = None
    /\ lock' = p
    /\ Goto(p, FirstStep(request[p].op))
    /\ UNCHANGED <<journals, stored, request, view, heads, outcome>>

\* with file_mutex(self.transaction_lock): self._refresh()
Acquire(p) ==
    /\ pc[p] = "wait"
    /\ lock = None
    /\ lock' = p
    /\ Goto(p, FirstStep(request[p].op))
    /\ view' = [view EXCEPT ![p] = IF request[p].op \in Transactional THEN Derived ELSE @]
    /\ UNCHANGED <<journals, stored, request, heads, outcome>>

Release(p) ==
    /\ pc[p] = "release"
    /\ lock' = None
    /\ Goto(p, "idle")
    /\ request' = [request EXCEPT ![p] = IF outcome[p] = "rejected" THEN @ ELSE None]
    /\ heads' = [heads EXCEPT ![p] = Nothing]
    /\ UNCHANGED <<journals, stored, view, outcome>>

-----------------------------------------------------------------------------
(* Transactions on the lineage *)

\* commit_draft stores the component lock and the operation receipt before it
\* looks at the parents; freeze_candidate reads the revision it freezes.
PutSupport(p) ==
    /\ pc[p] = "put"
    /\ LET event == request[p].event
       IN IF request[p].op = "commit"
          THEN /\ objects' = objects \cup {Support(event.target.data)}
               /\ IF \A i \in DOMAIN event.target.parents : event.target.parents[i] \in objects
                  THEN Goto(p, "child") /\ UNCHANGED outcome
                  ELSE Leave(p, "unavailable")
          ELSE /\ IF event.expected \in objects
                  THEN Goto(p, "child") /\ UNCHANGED outcome
                  ELSE Leave(p, "unavailable")
               /\ UNCHANGED objects
    /\ UNCHANGED <<journals, manifest, checkpoint, lock, request, view, heads>>

\* The child revision, or the candidate, is stored before any event names it.
PutTarget(p) ==
    /\ pc[p] = "child"
    /\ objects' = objects \cup {request[p].event.target}
    /\ Goto(p, "decide")
    /\ UNCHANGED <<journals, manifest, checkpoint, lock, locals>>

\* Mutant: the revisions an event names are not looked up.
CheckNothing(p) ==
    /\ pc[p] = "check"
    /\ Goto(p, "decide")
    /\ UNCHANGED <<journals, stored, lock, locals>>

\* create_branch and select_revision store nothing: what they name must verify.
CheckTargets(p) ==
    /\ pc[p] = "check"
    /\ IF request[p].event.refs \subseteq objects
       THEN Goto(p, "decide") /\ UNCHANGED outcome
       ELSE Leave(p, "unavailable")
    /\ UNCHANGED <<journals, stored, lock, request, view, heads>>

\* The head moved (or the branch to create exists) since the caller looked.
Stale(p) ==
    LET event == request[p].event
        actual == HeadInView(p, event.branch)
    IN actual # event.expected

\* Mutant: the head is compared before the key is looked up.
DecideHeadFirst(p) ==
    /\ pc[p] = "decide"
    /\ LET verdict == Verdict(lineage, request[p].event, Unset)
       IN IF Stale(p)
          THEN /\ IF request[p].op = "branch" THEN Leave(p, "rejected")
                  ELSE Goto(p, "audit") /\ UNCHANGED outcome
          ELSE IF verdict # "append" THEN Leave(p, verdict)
          ELSE Goto(p, "append") /\ UNCHANGED outcome
    /\ UNCHANGED <<journals, stored, lock, request, view, heads>>

\* Mutant: a lost race is reported to the caller and not audited.
DecideUnaudited(p) ==
    /\ pc[p] = "decide"
    /\ LET verdict == Verdict(lineage, request[p].event, Unset)
       IN IF verdict # "append" THEN Leave(p, verdict)
          ELSE IF Stale(p) THEN Leave(p, "rejected")
          ELSE Goto(p, "append") /\ UNCHANGED outcome
    /\ UNCHANGED <<journals, stored, lock, request, view, heads>>

\* event_for_key first, so that a retry of what was done returns it; then the
\* comparison with the refreshed head.
Decide(p) ==
    /\ pc[p] = "decide"
    /\ LET verdict == Verdict(lineage, request[p].event, Unset)
       IN IF verdict # "append" THEN Leave(p, verdict)
          ELSE IF Stale(p)
          THEN IF request[p].op = "branch" THEN Leave(p, "rejected")
               ELSE Goto(p, "audit") /\ UNCHANGED outcome
          ELSE Goto(p, "append") /\ UNCHANGED outcome
    /\ UNCHANGED <<journals, stored, lock, request, view, heads>>

AuditEvent(p) ==
    LET event == request[p].event
    IN [key |-> <<"rejected", event.key, event.expected, HeadInView(p, event.branch)>>,
        operation |-> event.type, branch |-> event.branch, knows |-> Len(climb)]

\* The event recorded under the key is of this very rejection (knows is no part
\* of the event in the file).
Recorded(event) ==
    LET recorded == EventForKey(operational, event.key)
    IN recorded.operation = event.operation /\ recorded.branch = event.branch

\* _audit_rejection: the key makes the same rejection one event, and refuses
\* that of another operation or branch.
Audit(p) ==
    /\ pc[p] = "audit"
    /\ LET event == AuditEvent(p)
           known == HasKey(operational, event.key)
       IN IF known /\ ~ Recorded(event)
          THEN Leave(p, "idempotency_conflict") /\ UNCHANGED operational
          ELSE /\ operational' = IF known THEN operational ELSE Append(operational, event)
               /\ outcome' = [outcome EXCEPT ![p] = "rejected"]
               /\ Goto(p, "derive")
    /\ UNCHANGED <<lineage, climb, stored, lock, request, view, heads>>

\* Mutant: the projection is left to the next operation.
AppendLineageOnly(p) ==
    /\ pc[p] = "append"
    /\ lineage' = Append(lineage, request[p].event)
    /\ Leave(p, "done")
    /\ UNCHANGED <<operational, climb, stored, lock, request, view, heads>>

\* The journal append that makes the operation happen.
AppendLineage(p) ==
    /\ pc[p] = "append"
    /\ lineage' = Append(lineage, request[p].event)
    /\ outcome' = [outcome EXCEPT ![p] = "done"]
    /\ Goto(p, "derive")
    /\ UNCHANGED <<operational, climb, stored, lock, request, view, heads>>

\* _persist_projection: derive again, then replace the manifest.
DeriveManifest(p) ==
    /\ pc[p] = "derive"
    /\ view' = [view EXCEPT ![p] = Derived]
    /\ Goto(p, "write")
    /\ UNCHANGED <<journals, stored, lock, request, heads, outcome>>

WriteManifest(p) ==
    /\ pc[p] = "write"
    /\ manifest' = view[p]
    /\ Goto(p, "release")
    /\ UNCHANGED <<journals, objects, checkpoint, lock, locals>>

-----------------------------------------------------------------------------
(* Checkpoints *)

\* create_checkpoint reads every journal in turn ...
Collect(p) ==
    /\ pc[p] = "collect"
    /\ heads' = [heads EXCEPT ![p] = [Derived EXCEPT !.climb = 0]]
    /\ Goto(p, "collect_climb")
    /\ UNCHANGED <<journals, stored, lock, request, view, outcome>>

CollectClimb(p) ==
    /\ pc[p] = "collect_climb"
    /\ heads' = [heads EXCEPT ![p].climb = Len(climb)]
    /\ Goto(p, "recheck")
    /\ UNCHANGED <<journals, stored, lock, request, view, outcome>>

\* Mutant: the journals are read once.
RecheckNothing(p) ==
    /\ pc[p] = "recheck"
    /\ Goto(p, "recheck_climb")
    /\ UNCHANGED <<journals, stored, lock, locals>>

\* ... and then every head again, in the same order, before it trusts them.
Recheck(p) ==
    /\ pc[p] = "recheck"
    /\ IF heads[p].lineage = Len(lineage) /\ heads[p].operational = Len(operational)
       THEN Goto(p, "recheck_climb") /\ UNCHANGED outcome
       ELSE Leave(p, "advanced")
    /\ UNCHANGED <<journals, stored, lock, request, view, heads>>

RecheckClimb(p) ==
    /\ pc[p] = "recheck_climb"
    /\ IF heads[p].climb = Len(climb)
       THEN Goto(p, "put_checkpoint") /\ UNCHANGED outcome
       ELSE Leave(p, "advanced")
    /\ UNCHANGED <<journals, stored, lock, request, view, heads>>

\* The Checkpoint is stored as an object, and then as a file of its own.
PutCheckpoint(p) ==
    /\ pc[p] = "put_checkpoint"
    /\ objects' = objects \cup {Checkpoint(heads[p])}
    /\ Goto(p, "write_checkpoint")
    /\ UNCHANGED <<journals, manifest, checkpoint, lock, locals>>

WriteCheckpoint(p) ==
    /\ pc[p] = "write_checkpoint"
    /\ checkpoint' = heads[p]
    /\ Leave(p, "done")
    /\ UNCHANGED <<journals, objects, manifest, lock, request, view, heads>>

-----------------------------------------------------------------------------
(* Outside workspace.lock *)

\* Workspace.__init__ derives the manifest, ...
Open(p) ==
    /\ pc[p] = "open"
    /\ view' = [view EXCEPT ![p] = Derived]
    /\ Goto(p, "open_read")
    /\ UNCHANGED <<journals, stored, lock, request, heads, outcome>>

\* Mutant: an existing manifest is trusted.
OpenTrusting(p) ==
    /\ pc[p] = "open_read"
    /\ Goto(p, "idle")
    /\ outcome' = [outcome EXCEPT ![p] = "opened"]
    /\ UNCHANGED <<journals, stored, lock, request, view, heads>>

\* ... reads the file, ...
OpenRead(p) ==
    /\ pc[p] = "open_read"
    /\ IF manifest = view[p]
       THEN Goto(p, "idle") /\ outcome' = [outcome EXCEPT ![p] = "opened"]
       ELSE Goto(p, "open_write") /\ UNCHANGED outcome
    /\ UNCHANGED <<journals, stored, lock, request, view, heads>>

\* ... and replaces one that differs.
OpenWrite(p) ==
    /\ pc[p] = "open_write"
    /\ manifest' = view[p]
    /\ Goto(p, "idle")
    /\ outcome' = [outcome EXCEPT ![p] = "opened"]
    /\ UNCHANGED <<journals, objects, checkpoint, lock, request, view, heads>>

\* Parts that use the Workspace append to its other journals without its lock
\* (the climb ledger, the generation coordinator), knowing what they have read.
AppendOperational ==
    /\ Cardinality({i \in DOMAIN operational : operational[i].key[1] = "elsewhere"}) < MaxElsewhere[WorkspaceId]
    /\ operational' = Append(operational,
         [key |-> <<"elsewhere", Len(operational)>>, operation |-> "elsewhere", branch |-> None,
          knows |-> Len(climb)])
    /\ UNCHANGED <<lineage, climb, stored, lock, pc, locals>>

AppendClimb ==
    /\ Len(climb) < MaxElsewhere[WorkspaceId]
    /\ climb' = Append(climb, [key |-> <<"elsewhere", Len(climb)>>, knows |-> Len(operational)])
    /\ UNCHANGED <<lineage, operational, stored, lock, pc, locals>>

\* The selection record is stored by whoever made it.
PutDecision ==
    /\ Decision \notin objects
    /\ objects' = objects \cup {Decision}
    /\ UNCHANGED <<journals, manifest, checkpoint, lock, pc, locals>>

\* The process dies between two steps; the kernel drops its lock.
Crash(p) ==
    /\ p \in Crashable
    /\ pc[p] \notin {"idle", "dead"}
    /\ lock' = IF lock = p THEN None ELSE lock
    /\ Goto(p, "dead")
    /\ outcome' = [outcome EXCEPT ![p] = "none"]
    /\ view' = [view EXCEPT ![p] = Nothing]
    /\ heads' = [heads EXCEPT ![p] = Nothing]
    /\ UNCHANGED <<journals, stored, request>>

\* A new process opens the Workspace the dead one left behind.
Restart(p) ==
    /\ pc[p] = "dead"
    /\ Goto(p, "open")
    /\ UNCHANGED <<journals, stored, lock, locals>>

-----------------------------------------------------------------------------
Step(p) ==
    \/ PutSupport(p) \/ PutTarget(p) \/ CheckTargets(p)
    \/ Decide(p) \/ Audit(p) \/ AppendLineage(p)
    \/ DeriveManifest(p) \/ WriteManifest(p) \/ Release(p)
    \/ Collect(p) \/ CollectClimb(p) \/ Recheck(p) \/ RecheckClimb(p)
    \/ PutCheckpoint(p) \/ WriteCheckpoint(p)
    \/ Open(p) \/ OpenRead(p) \/ OpenWrite(p)

Next ==
    \/ \E p \in Processes :
         \/ \E task \in Tasks[WorkspaceId] : Begin(p, task)
         \/ Retry(p)
         \/ Acquire(p)
         \/ Step(p)
         \/ Crash(p)
         \/ Restart(p)
    \/ AppendOperational
    \/ AppendClimb
    \/ PutDecision

\* A process that is inside an operation goes on with it or dies.
Spec == Init /\ [][Next]_vars /\ \A p \in Processes : WF_vars(Step(p))

-----------------------------------------------------------------------------
(* Properties *)

Labels == {"idle", "wait", "put", "child", "check", "decide", "audit", "append", "derive",
           "write", "release", "collect", "collect_climb", "recheck", "recheck_climb",
           "put_checkpoint", "write_checkpoint", "open", "open_read", "open_write", "dead"}
Outcomes == {"none", "done", "existing", "idempotency_conflict", "rejected", "unavailable",
             "advanced", "opened"}
Lengths == [lineage : Nat, operational : Nat, climb : Nat]

\* Views, manifest and checkpoints are lengths of journals there are.
Within(lengths) ==
    /\ lengths \in Lengths
    /\ lengths.lineage <= Len(lineage)
    /\ lengths.operational <= Len(operational)
    /\ lengths.climb <= Len(climb)

TypeOK ==
    /\ lock \in Processes \cup {None}
    /\ pc \in [Processes -> Labels]
    /\ outcome \in [Processes -> Outcomes]
    /\ DOMAIN request = Processes
    /\ view \in [Processes -> Lengths]
    /\ heads \in [Processes -> Lengths]
    /\ Within(manifest)
    /\ \A p \in Processes : Within(view[p]) /\ Within(heads[p])
    /\ Within(checkpoint)

\* No lost update: every lineage event that moves, creates or freezes a branch
\* was appended to exactly the head its caller named, whoever else was
\* committing, crashing or opening the Workspace at the time.
EveryMoveSawItsHead ==
    \A i \in DOMAIN lineage :
        lineage[i].type # "workspace_created" =>
            BranchHead(SubSeq(lineage, 1, i - 1), lineage[i].branch) =
                IF lineage[i].type = "branch_created" THEN None ELSE lineage[i].expected

\* verify never finds a missing referenced object: what a lineage event names
\* is in the store, and so is everything those objects name in turn.
EvidenceResolves ==
    /\ \A i \in DOMAIN lineage : lineage[i].refs \subseteq objects
    /\ \A object \in objects : RefsIn(object) \subseteq objects

\* An operation retried after a crash happens once.
OperationOnce == KeysUnique(lineage)

\* A caller that lost a race for a head can point to the audit event about it.
RejectionAudited ==
    \A p \in Processes :
        outcome[p] = "rejected" /\ request[p].op # "branch" =>
            \E i \in DOMAIN operational :
                /\ operational[i].key[1] = "rejected"
                /\ operational[i].key[2] = request[p].event.key
                /\ operational[i].key[3] = request[p].event.expected

\* A retry of an operation that did happen is never told it lost a race, even
\* when the branch has moved on since.
DoneIsNotRejected ==
    [][\A p \in Processes :
         outcome[p] # "rejected" /\ outcome'[p] = "rejected" =>
             ~ HasKey(lineage, request[p].event.key)]_vars

\* A checkpoint is a consistent cut of the journals that advance without the
\* lock: no event it pins was written with knowledge of one it leaves out.
CheckpointConsistent ==
    /\ \A i \in 1..checkpoint.climb : climb[i].knows <= checkpoint.operational
    /\ \A i \in 1..checkpoint.operational : operational[i].knows <= checkpoint.climb

\* A projection never runs ahead of history, and when nobody is inside an
\* operation it shows the branches the lineage says ("Branch Heads and
\* workspace.json are projections").
ManifestCurrentWhenQuiet ==
    (\A p \in Processes : pc[p] = "idle") => manifest.lineage = Len(lineage)

\* To a process that works alone, whatever its operations came to and wherever it
\* died, the manifest shows the whole lineage between operations; opening it after
\* a crash rebuilds what the crash left behind and sees every committed head.
OpeningRecovers ==
    \A p \in Processes :
        Workers[WorkspaceId] = {p} /\ pc[p] = "idle" =>
            /\ manifest.lineage = Len(lineage)
            /\ outcome[p] = "opened" => view[p].lineage = Len(lineage)

\* No error path and no crash leaves the Workspace locked.
LockComesFree == \A p \in Processes : lock = p ~> lock # p
=============================================================================
