--------------------------- MODULE WorkspaceProofs ---------------------------
(* What a Workspace guarantees for any number of processes, operations,       *)
(* retries, crashes, openers and appends by other parts.                      *)
EXTENDS Workspace, LogLemmas

-----------------------------------------------------------------------------
(* The inductive invariant *)

LogsOK ==
    /\ IsLog(lineage) /\ IsLog(operational) /\ IsLog(climb)
    /\ lineage # << >> /\ WorkspaceId \in Workspaces

\* Where a process works on the lineage, and where it holds workspace.lock.
InTransaction == {"put", "child", "check", "decide", "audit", "append"}
UnderLock == InTransaction \cup
    {"derive", "write", "release", "collect", "collect_climb", "recheck", "recheck_climb",
     "put_checkpoint", "write_checkpoint"}

LockHeld == \A p \in Processes : pc[p] \in UnderLock => lock = p

\* The manifest refreshed under the lock shows the head the journal has.
HeadKnown == \A p \in Processes : pc[p] \in InTransaction => view[p].lineage = Len(lineage)

\* The events Intents makes.
Intended(op, event) ==
    /\ event.type # "workspace_created"
    /\ event.type = "branch_created" => event.expected = None
    /\ event.type \in Moves => event.target.kind = "draft"
    /\ op = "commit" =>
         /\ event.target = Draft(event.target.parents, event.target.data)
         /\ event.refs = {event.target} \cup RefsIn(event.target)
    /\ op = "freeze" =>
         /\ event.type = "candidate_frozen"
         /\ event.expected.kind = "draft"
         /\ event.target = Candidate(event.expected)
         /\ event.refs = {event.expected, event.target}

Operations == Transactional \cup {"rebuild", "checkpoint", "open"}

Formed(r) ==
    /\ r.op \in Operations
    /\ r.op \in Transactional => Intended(r.op, r.event)

RequestsFormed ==
    \A p \in Processes :
        /\ request[p] = None \/ Formed(request[p])
        /\ pc[p] = "wait" => Formed(request[p]) /\ request[p].op # "open"
        /\ pc[p] \in InTransaction => Formed(request[p]) /\ request[p].op \in Transactional
        /\ pc[p] \in {"put", "child"} => request[p].op \in {"commit", "freeze"}

TargetsAreDrafts ==
    \A i \in DOMAIN lineage : lineage[i].type \in Moves => lineage[i].target.kind = "draft"

Base == TypeOK /\ LogsOK /\ RequestsFormed /\ TargetsAreDrafts

\* What an operation is about to store or to name.
NamedIsStored ==
    \A p \in Processes :
        LET event == request[p].event IN
        /\ pc[p] = "child" => /\ RefsIn(event.target) \subseteq objects
                              /\ event.refs \subseteq objects \cup {event.target}
        /\ pc[p] \in {"decide", "append"} => event.refs \subseteq objects

\* What was decided under the lock is still so when it is acted upon.
DecisionStands ==
    \A p \in Processes :
        LET event == request[p].event IN
        /\ pc[p] \in {"append", "audit"} => ~ HasKey(lineage, event.key)
        /\ pc[p] = "append" => HeadInView(p, event.branch) = event.expected

\* Processes that do not work on the Workspace do nothing, and the manifest of
\* one that works alone is behind only where it is about to write it.
Alone ==
    /\ \A q \in Processes \ Workers[WorkspaceId] : pc[q] = "idle" /\ request[q] = None
    /\ \A p \in Processes : Workers[WorkspaceId] = {p} =>
         /\ pc[p] \notin {"derive", "write", "open", "open_read", "open_write", "dead"} =>
              manifest.lineage = Len(lineage)
         /\ pc[p] \in {"write", "open_read", "open_write"} => view[p].lineage = Len(lineage)
         /\ outcome[p] = "opened" => pc[p] = "idle" /\ view[p].lineage = Len(lineage)

\* Nobody knows more of the other journal than it holds.
KnowsThePast ==
    /\ \A i \in DOMAIN climb : climb[i].knows \in Nat /\ climb[i].knows <= Len(operational)
    /\ \A i \in DOMAIN operational :
         operational[i].knows \in Nat /\ operational[i].knows <= Len(climb)

ConsistentCut(lengths) ==
    /\ \A i \in 1..lengths.climb : climb[i].knows <= lengths.operational
    /\ \A i \in 1..lengths.operational : operational[i].knows <= lengths.climb

Rechecked == {"recheck_climb", "put_checkpoint", "write_checkpoint"}

\* Heads that are read a second time and found again are a consistent cut.
Cuts ==
    /\ ConsistentCut(checkpoint)
    /\ \A p \in Processes :
         /\ pc[p] = "recheck" /\ heads[p].operational = Len(operational) => ConsistentCut(heads[p])
         /\ pc[p] \in Rechecked => ConsistentCut(heads[p])

-----------------------------------------------------------------------------
(* Operators *)

\* The head of a branch is the target of an event that moved it.
LEMMA HeadIsTarget ==
    ASSUME NEW log, IsLog(log), NEW branch, BranchHead(log, branch) # None
    PROVE  \E i \in DOMAIN log :
             log[i].type \in Moves /\ log[i].branch = branch /\ BranchHead(log, branch) = log[i].target
<1> DEFINE moved == {i \in DOMAIN log : log[i].type \in Moves /\ log[i].branch = branch}
<1>1. moved # {} /\ BranchHead(log, branch) = log[Max(moved)].target
  BY DEF BranchHead
<1>2. moved \in SUBSET (1..Len(log)) /\ Len(log) \in Nat
  BY LogFacts
<1> HIDE DEF moved
<1>3. Max(moved) \in moved
  BY <1>1, <1>2, LargestIndex
<1>4. QED
  BY <1>1, <1>3 DEF moved

\* A head in view is a draft.
LEMMA HeadInViewIsDraft ==
    ASSUME Base, NEW p \in Processes, NEW branch, HeadInView(p, branch) # None
    PROVE  HeadInView(p, branch).kind = "draft"
<1> DEFINE seen == SubSeq(lineage, 1, view[p].lineage)
<1>1. view[p].lineage \in 0..Len(lineage) /\ Len(lineage) \in Nat /\ DOMAIN lineage = 1..Len(lineage)
  BY LogFacts DEF Base, LogsOK, TypeOK, Within, Lengths
<1>2. IsLog(seen) /\ DOMAIN seen = 1..view[p].lineage /\ \A i \in 1..view[p].lineage : seen[i] = lineage[i]
  BY <1>1, PrefixLog DEF Base, LogsOK
<1>3. HeadInView(p, branch) = BranchHead(seen, branch)
  BY DEF HeadInView
<1> HIDE DEF seen
<1>4. IsLog(seen) /\ BranchHead(seen, branch) # None
  BY <1>2, <1>3
<1>5. \E i \in DOMAIN seen :
        seen[i].type \in Moves /\ seen[i].branch = branch /\ BranchHead(seen, branch) = seen[i].target
  BY <1>4, HeadIsTarget
<1>6. PICK i \in 1..view[p].lineage :
        lineage[i].type \in Moves /\ BranchHead(seen, branch) = lineage[i].target
  BY <1>2, <1>5
<1>7. i \in DOMAIN lineage
  BY <1>1
<1>8. QED
  BY <1>3, <1>6, <1>7 DEF Base, TargetsAreDrafts

LEMMA ViewedIsDraft ==
    ASSUME Base, NEW p \in Processes, NEW d \in DraftsInView(p)
    PROVE  d.kind = "draft"
<1>1. PICK i \in 1..view[p].lineage : lineage[i].type \in Moves /\ d = lineage[i].target
  BY DEF DraftsInView
<1>2. view[p].lineage \in 0..Len(lineage) /\ Len(lineage) \in Nat /\ DOMAIN lineage = 1..Len(lineage)
  BY LogFacts DEF Base, LogsOK, TypeOK, Within, Lengths
<1>3. QED
  BY <1>1, <1>2 DEF Base, TargetsAreDrafts

\* Every intent is formed as its operation needs it.
LEMMA IntentsAreFormed ==
    ASSUME Base, NEW p \in Processes, NEW task \in Tasks[WorkspaceId],
           NEW event \in Intents(p, task)
    PROVE  Formed([op |-> task.op, event |-> event])
<1>1. task.op \in Operations
  <2>1. task \in Task
    BY TasksAssumption DEF Base, LogsOK
  <2>2. QED
    BY <2>1 DEF Task, Operations, Transactional
<1> DEFINE source == IF task.other = "foreign" THEN Foreign
                     ELSE IF task.other = None THEN None ELSE HeadInView(p, task.other)
           expected == HeadInView(p, task.branch)
<1>2. source = None \/ source.kind = "draft"
  BY HeadInViewIsDraft DEF Foreign, Draft
<1>3. expected = None \/ expected.kind = "draft"
  BY HeadInViewIsDraft
<1>4. CASE task.op = "commit"
  <2>1. PICK merged : /\ event.target = Draft(merged, task.data)
                      /\ event.refs = {event.target} \cup RefsIn(event.target)
                      /\ event.type \in {"draft_committed", "draft_merged"}
    BY <1>4 DEF Intents
  <2>2. event.target = Draft(event.target.parents, event.target.data) /\ event.target.kind = "draft"
    BY <2>1 DEF Draft
  <2>3. Intended("commit", event)
    BY <2>1, <2>2 DEF Intended
  <2>4. QED
    BY <1>1, <1>4, <2>3 DEF Formed
<1>5. CASE task.op = "branch"
  <2>1. /\ event.type = "branch_created" /\ event.expected = None
        /\ event.target \in {source} \ {None}
    BY <1>5 DEF Intents
  <2>2. Intended("branch", event)
    BY <1>2, <2>1 DEF Intended
  <2>3. QED
    BY <1>1, <1>5, <2>2 DEF Formed
<1>6. CASE task.op = "select"
  <2>1. event.type = "branch_selected" /\ event.target \in DraftsInView(p)
    BY <1>6 DEF Intents
  <2>2. event.target.kind = "draft"
    BY <2>1, ViewedIsDraft
  <2>3. Intended("select", event)
    BY <2>1, <2>2 DEF Intended
  <2>4. QED
    BY <1>1, <1>6, <2>3 DEF Formed
<1>7. CASE task.op = "freeze"
  <2>1. /\ event.type = "candidate_frozen" /\ event.expected \in {expected} \ {None}
        /\ event.target = Candidate(event.expected)
        /\ event.refs = {event.expected, event.target}
    BY <1>7 DEF Intents
  <2>2. event.expected.kind = "draft"
    BY <1>3, <2>1
  <2>3. Intended("freeze", event)
    BY <2>1, <2>2 DEF Intended, Moves
  <2>4. QED
    BY <1>1, <1>7, <2>3 DEF Formed
<1>8. CASE task.op \notin Transactional
  BY <1>1, <1>8 DEF Formed
<1>9. QED
  BY <1>4, <1>5, <1>6, <1>7, <1>8 DEF Transactional

-----------------------------------------------------------------------------
(* Types, requests and the drafts the lineage names *)

\* The three journals only grow.
Grows(log, next) == next = log \/ \E e : next = Append(log, e)

LEMMA GrownLog ==
    ASSUME NEW log, IsLog(log), NEW next, Grows(log, next)
    PROVE  /\ IsLog(next) /\ Len(log) \in Nat /\ Len(next) \in Nat
           /\ Len(log) <= Len(next) /\ Len(next) <= Len(log) + 1
           /\ DOMAIN log = 1..Len(log) /\ DOMAIN next = 1..Len(next)
           /\ \A i \in 1..Len(log) : next[i] = log[i]
           /\ log # << >> => next # << >> /\ next[1] = log[1]
<1>1. Len(log) \in Nat /\ DOMAIN log = 1..Len(log) /\ (log # << >> => Len(log) >= 1)
  BY LogFacts
<1>2. CASE next = log
  BY <1>1, <1>2
<1>3. ASSUME NEW e, next = Append(log, e) PROVE /\ IsLog(next) /\ next # << >>
             /\ Len(next) = Len(log) + 1 /\ DOMAIN next = 1..(Len(log) + 1)
             /\ \A i \in 1..Len(log) : next[i] = log[i]
  BY <1>3, LongerLog
<1>4. QED
  BY <1>1, <1>2, <1>3 DEF Grows

LEMMA JournalsGrow ==
    ASSUME [Next]_vars
    PROVE  Grows(lineage, lineage') /\ Grows(operational, operational') /\ Grows(climb, climb')
BY DEF Next, vars, Grows, Begin, Retry, Acquire, Step, PutSupport, PutTarget, CheckTargets,
       Decide, Audit, AppendLineage, DeriveManifest, WriteManifest, Release, Collect, CollectClimb,
       Recheck, RecheckClimb,
       PutCheckpoint, WriteCheckpoint, Open, OpenRead, OpenWrite, Crash, Restart, AppendOperational, AppendClimb,
       PutDecision, journals

LEMMA LogsStep == LogsOK /\ [Next]_vars => LogsOK'
<1> SUFFICES ASSUME LogsOK, [Next]_vars PROVE LogsOK'
  OBVIOUS
<1>1. Grows(lineage, lineage') /\ Grows(operational, operational') /\ Grows(climb, climb')
  BY JournalsGrow
<1>2. IsLog(lineage') /\ lineage' # << >> /\ lineage'[1] = lineage[1]
  BY <1>1, GrownLog DEF LogsOK
<1>3. IsLog(operational') /\ IsLog(climb')
  BY <1>1, GrownLog DEF LogsOK
<1>4. WorkspaceId' = WorkspaceId
  BY <1>2 DEF WorkspaceId
<1>5. QED
  BY <1>2, <1>3, <1>4 DEF LogsOK

\* Lengths of journals that grow stay lengths of the journals.
LEMMA WithinLater ==
    ASSUME LogsOK, [Next]_vars, NEW lengths, Within(lengths)
    PROVE  Within(lengths)'
<1>1. /\ Len(lineage) \in Nat /\ Len(lineage') \in Nat /\ Len(lineage) <= Len(lineage')
      /\ Len(operational) \in Nat /\ Len(operational') \in Nat /\ Len(operational) <= Len(operational')
      /\ Len(climb) \in Nat /\ Len(climb') \in Nat /\ Len(climb) <= Len(climb')
  BY JournalsGrow, GrownLog DEF LogsOK
<1>2. QED
  BY <1>1 DEF Within, Lengths

LEMMA WithinNow == LogsOK => Within(Derived) /\ Within(Nothing) /\ Within([Derived EXCEPT !.climb = 0])
<1> SUFFICES ASSUME LogsOK PROVE Within(Derived) /\ Within(Nothing) /\ Within([Derived EXCEPT !.climb = 0])
  OBVIOUS
<1>1. Len(lineage) \in Nat /\ Len(operational) \in Nat /\ Len(climb) \in Nat
  BY LogFacts DEF LogsOK
<1>2. QED
  BY <1>1 DEF Within, Lengths, Derived, Nothing

\* A step of a process, and what it leaves alone.
Acts(p) ==
    \/ \E task \in Tasks[WorkspaceId] : Begin(p, task)
    \/ Retry(p) \/ Acquire(p) \/ Step(p) \/ Crash(p) \/ Restart(p)

Rests(q) ==
    /\ pc'[q] = pc[q] /\ request'[q] = request[q] /\ outcome'[q] = outcome[q]
    /\ view'[q] = view[q] /\ heads'[q] = heads[q]

LEMMA OthersRest ==
    ASSUME TypeOK, NEW p \in Processes, Acts(p), NEW q \in Processes, q # p
    PROVE  Rests(q)
BY DEF Acts, Rests, TypeOK, Begin, Retry, Acquire, Step, PutSupport, PutTarget, CheckTargets,
       Decide, Audit, AppendLineage, DeriveManifest, WriteManifest, Release, Collect, CollectClimb,
       Recheck, RecheckClimb,
       PutCheckpoint, WriteCheckpoint, Open, OpenRead, OpenWrite, Crash, Restart, Goto, Leave, locals

LEMMA StepCases ==
    ASSUME TypeOK, [Next]_vars
    PROVE  \/ \E p \in Processes : Acts(p)
           \/ (AppendOperational \/ AppendClimb \/ PutDecision \/ UNCHANGED vars)
              /\ UNCHANGED <<pc, lock, request, outcome, view, heads>>
BY DEF Next, Acts, AppendOperational, AppendClimb, PutDecision, vars, locals

LEMMA ActsOrRests ==
    ASSUME TypeOK, [Next]_vars, NEW q \in Processes
    PROVE  Acts(q) \/ Rests(q)
BY StepCases, OthersRest DEF Rests

LEMMA LineageChanges ==
    ASSUME [Next]_vars
    PROVE  UNCHANGED lineage \/ \E p \in Processes : AppendLineage(p)
BY DEF Next, vars, Begin, Retry, Acquire, Step, PutSupport, PutTarget, CheckTargets,
       Decide, Audit, DeriveManifest, WriteManifest, Release, Collect, CollectClimb,
       Recheck, RecheckClimb,
       PutCheckpoint, WriteCheckpoint, Open, OpenRead, OpenWrite, Crash, Restart, AppendOperational, AppendClimb,
       PutDecision, journals

\* What processes may come to know.
Seen(lengths) ==
    /\ lengths \in Lengths
    /\ lengths.lineage <= Len(lineage')
    /\ lengths.operational <= Len(operational')
    /\ lengths.climb <= Len(climb')

LEMMA SeenNow ==
    ASSUME LogsOK, [Next]_vars
    PROVE  /\ Seen(Derived) /\ Seen(Nothing) /\ Seen([Derived EXCEPT !.climb = 0])
           /\ \A lengths : Within(lengths) =>
                /\ Seen(lengths)
                /\ [lengths EXCEPT !.climb = Len(climb)] \in Lengths
                /\ Seen([lengths EXCEPT !.climb = Len(climb)])
<1>1. /\ Within(Derived) /\ Within(Nothing) /\ Within([Derived EXCEPT !.climb = 0])
      /\ \A lengths : Within(lengths) => Within([lengths EXCEPT !.climb = Len(climb)])
  <2>1. Len(lineage) \in Nat /\ Len(operational) \in Nat /\ Len(climb) \in Nat
    BY LogFacts DEF LogsOK
  <2>2. QED
    BY <2>1, WithinNow DEF Within, Lengths
<1>2. ASSUME NEW lengths, Within(lengths) PROVE Seen(lengths) /\ lengths \in Lengths
  BY <1>2, WithinLater DEF Seen, Within
<1>3. QED
  BY <1>1, <1>2

LEMMA ViewsStep ==
    ASSUME Base, NEW p \in Processes, Acts(p), [Next]_vars
    PROVE  /\ view' \in [Processes -> Lengths] /\ heads' \in [Processes -> Lengths]
           /\ \A q \in Processes : Seen(view'[q]) /\ Seen(heads'[q])
<1>1. TypeOK /\ LogsOK
  BY DEF Base
<1>2. \A q \in Processes : Seen(view[q]) /\ Seen(heads[q])
                           /\ Seen([heads[q] EXCEPT !.climb = Len(climb)])
  BY <1>1, SeenNow DEF TypeOK
<1>3. Seen(Derived) /\ Seen(Nothing) /\ Seen([Derived EXCEPT !.climb = 0])
  BY <1>1, SeenNow
<1>4. UNCHANGED view \/ \E v \in {view[p], Derived, Nothing} : view' = [view EXCEPT ![p] = v]
  BY DEF Acts, Begin, Retry, Acquire, Step, PutSupport, PutTarget, CheckTargets,
       Decide, Audit, AppendLineage, DeriveManifest, WriteManifest, Release, Collect, CollectClimb,
       Recheck, RecheckClimb,
       PutCheckpoint, WriteCheckpoint, Open, OpenRead, OpenWrite, Crash, Restart, locals
<1> DEFINE more == [heads[p] EXCEPT !.climb = Len(climb)]
           fresh == [Derived EXCEPT !.climb = 0]
<1>5. UNCHANGED heads \/ \E h \in {Nothing, fresh, more} : heads' = [heads EXCEPT ![p] = h]
  BY <1>1 DEF TypeOK, Acts, Begin, Retry, Acquire, Step, PutSupport, PutTarget, CheckTargets,
       Decide, Audit, AppendLineage, DeriveManifest, WriteManifest, Release, Collect, CollectClimb,
       Recheck, RecheckClimb,
       PutCheckpoint, WriteCheckpoint, Open, OpenRead, OpenWrite, Crash, Restart, locals
<1>6. \A v : Seen(v) => v \in Lengths
  BY DEF Seen
<1>7. view' \in [Processes -> Lengths] /\ \A q \in Processes : Seen(view'[q])
  BY <1>1, <1>2, <1>3, <1>4, <1>6 DEF TypeOK
<1>8. heads' \in [Processes -> Lengths] /\ \A q \in Processes : Seen(heads'[q])
  <2>1. Seen(more) /\ Seen(fresh) /\ Seen(Nothing)
    BY <1>2, <1>3
  <2> HIDE DEF more, fresh
  <2>2. QED
    BY <1>1, <1>2, <1>5, <1>6, <2>1 DEF TypeOK
<1>9. QED
  BY <1>7, <1>8

LEMMA TypeStep == Base /\ [Next]_vars => TypeOK'
<1> SUFFICES ASSUME Base, [Next]_vars PROVE TypeOK'
  OBVIOUS
<1>1. TypeOK /\ LogsOK /\ RequestsFormed
  BY DEF Base
<1>2. \A lengths : Within(lengths) => Within(lengths)'
  BY <1>1, WithinLater
<1>3. ASSUME NEW p \in Processes, Acts(p)
      PROVE  /\ view' \in [Processes -> Lengths] /\ heads' \in [Processes -> Lengths]
             /\ \A q \in Processes : Within(view[q])' /\ Within(heads[q])'
  BY <1>3, ViewsStep DEF Seen, Within
<1>4. ASSUME NEW p \in Processes, Acts(p)
      PROVE  /\ lock' \in Processes \cup {None} /\ pc' \in [Processes -> Labels]
             /\ outcome' \in [Processes -> Outcomes] /\ DOMAIN request' = Processes
  <2>1. CASE (\E task \in Tasks[WorkspaceId] : Begin(p, task)) \/ Retry(p)
    BY <1>1, <2>1 DEF TypeOK, Begin, Retry, Labels, Outcomes
  <2>2. CASE Acquire(p)
    BY <1>1, <2>2 DEF TypeOK, Acquire, FirstStep, Goto, RequestsFormed, Formed, Operations,
       Transactional, Labels
  <2>3. CASE PutSupport(p) \/ PutTarget(p) \/ CheckTargets(p)
    BY <1>1, <2>3 DEF TypeOK, PutSupport, PutTarget, CheckTargets, Goto, Leave, locals, Labels, Outcomes
  <2>4. CASE Decide(p)
    BY <1>1, <2>4 DEF TypeOK, Decide, Verdict, Goto, Leave, Labels, Outcomes
  <2>5. CASE Audit(p) \/ AppendLineage(p) \/ Release(p) \/ DeriveManifest(p) \/ WriteManifest(p)
    BY <1>1, <2>5 DEF TypeOK, Audit, AppendLineage, Release, DeriveManifest, WriteManifest, Goto, Leave,
       locals, Labels, Outcomes
  <2>6. CASE Collect(p) \/ CollectClimb(p) \/ Recheck(p) \/ RecheckClimb(p)
       \/ PutCheckpoint(p) \/ WriteCheckpoint(p)
    BY <1>1, <2>6 DEF TypeOK, Collect, CollectClimb, Recheck, RecheckClimb,
       PutCheckpoint, WriteCheckpoint, Goto, Leave, locals, Labels, Outcomes
  <2>7. CASE Open(p) \/ OpenRead(p) \/ OpenWrite(p) \/ Crash(p) \/ Restart(p)
    BY <1>1, <2>7 DEF TypeOK, Open, OpenRead, OpenWrite, Crash, Restart, Goto, locals, Labels, Outcomes
  <2>8. QED
    BY <1>4, <2>1, <2>2, <2>3, <2>4, <2>5, <2>6, <2>7 DEF Acts, Step
<1>5. ASSUME NEW p \in Processes, Acts(p) PROVE Within(manifest)' /\ Within(checkpoint)'
  <2>1. manifest' \in {manifest, view[p]} /\ checkpoint' \in {checkpoint, heads[p]}
    BY <1>5 DEF Acts, Begin, Retry, Acquire, Step, PutSupport, PutTarget, CheckTargets,
       Decide, Audit, AppendLineage, DeriveManifest, WriteManifest, Release, Collect, CollectClimb,
       Recheck, RecheckClimb,
       PutCheckpoint, WriteCheckpoint, Open, OpenRead, OpenWrite, Crash, Restart, stored
  <2>2. \A lengths \in {manifest, view[p], checkpoint, heads[p]} : Seen(lengths)
    BY <1>1, SeenNow DEF TypeOK
  <2>3. QED
    BY <2>1, <2>2 DEF Seen, Within
<1>6. CASE /\ AppendOperational \/ AppendClimb \/ PutDecision \/ UNCHANGED vars
           /\ UNCHANGED <<pc, lock, request, outcome, view, heads>>
  BY <1>1, <1>2, <1>6 DEF TypeOK, AppendOperational, AppendClimb, PutDecision, stored, vars
<1>7. CASE \E p \in Processes : Acts(p)
  BY <1>3, <1>4, <1>5, <1>7 DEF TypeOK
<1>8. QED
  BY <1>1, <1>6, <1>7, StepCases

LEMMA RequestsStep == Base /\ [Next]_vars => RequestsFormed'
<1> SUFFICES ASSUME Base, [Next]_vars, NEW p \in Processes
             PROVE  /\ request'[p] = None \/ Formed(request'[p])
                    /\ pc'[p] = "wait" => Formed(request'[p]) /\ request'[p].op # "open"
                    /\ pc'[p] \in InTransaction => Formed(request'[p]) /\ request'[p].op \in Transactional
                    /\ pc'[p] \in {"put", "child"} => request'[p].op \in {"commit", "freeze"}
  BY DEF RequestsFormed
<1>1. TypeOK /\ RequestsFormed
  BY DEF Base
<1>2. CASE Rests(p)
  BY <1>1, <1>2 DEF Rests, RequestsFormed
<1>3. ASSUME NEW task \in Tasks[WorkspaceId], Begin(p, task)
      PROVE  /\ Formed(request'[p]) /\ pc'[p] \in {"wait", "open"}
             /\ pc'[p] = "wait" => request'[p].op # "open"
  <2>1. PICK event \in Intents(p, task) : request' = [request EXCEPT ![p] = [op |-> task.op, event |-> event]]
    BY <1>3 DEF Begin
  <2>2. request'[p] = [op |-> task.op, event |-> event]
    BY <1>1, <2>1 DEF TypeOK
  <2>3. Formed([op |-> task.op, event |-> event])
    BY IntentsAreFormed
  <2>4. pc'[p] = IF task.op = "open" THEN "open" ELSE "wait"
    BY <1>1, <1>3 DEF Begin, TypeOK
  <2>5. QED
    BY <2>2, <2>3, <2>4
<1>4. CASE Retry(p)
  BY <1>1, <1>4 DEF Retry, RequestsFormed, TypeOK, InTransaction, Transactional
<1>5. CASE Acquire(p)
  BY <1>1, <1>5 DEF Acquire, FirstStep, Goto, RequestsFormed, TypeOK, InTransaction, Formed,
     Operations, Transactional
<1>6. CASE PutSupport(p) \/ PutTarget(p) \/ CheckTargets(p)
  BY <1>1, <1>6 DEF PutSupport, PutTarget, CheckTargets, Goto, Leave, locals, RequestsFormed,
     TypeOK, InTransaction
<1>7. CASE Decide(p) \/ Audit(p) \/ AppendLineage(p)
  BY <1>1, <1>7 DEF Decide, Audit, AppendLineage, Goto, Leave, RequestsFormed, TypeOK, InTransaction
<1>8. CASE DeriveManifest(p) \/ WriteManifest(p) \/ Release(p)
  BY <1>1, <1>8 DEF DeriveManifest, WriteManifest, Release, Goto, locals, RequestsFormed, TypeOK, InTransaction
<1>9. CASE Collect(p) \/ CollectClimb(p) \/ Recheck(p) \/ RecheckClimb(p)
       \/ PutCheckpoint(p) \/ WriteCheckpoint(p)
  BY <1>1, <1>9 DEF Collect, CollectClimb, Recheck, RecheckClimb,
       PutCheckpoint, WriteCheckpoint, Goto, Leave, RequestsFormed,
     TypeOK, InTransaction, locals
<1>10. CASE Open(p) \/ OpenRead(p) \/ OpenWrite(p) \/ Crash(p) \/ Restart(p)
  BY <1>1, <1>10 DEF Open, OpenRead, OpenWrite, Crash, Restart, Goto, locals, RequestsFormed, TypeOK, InTransaction
<1>11. QED
  BY <1>1, <1>2, <1>3, <1>4, <1>5, <1>6, <1>7, <1>8, <1>9, <1>10, ActsOrRests DEF Acts, Step, InTransaction

LEMMA BaseStep == Base /\ [Next]_vars => Base'
<1> SUFFICES ASSUME Base, [Next]_vars PROVE Base'
  OBVIOUS
<1>1. TargetsAreDrafts'
  <2>1. CASE UNCHANGED lineage
    BY <2>1 DEF Base, TargetsAreDrafts
  <2>2. ASSUME NEW p \in Processes, AppendLineage(p) PROVE TargetsAreDrafts'
    <3>1. lineage' = Append(lineage, request[p].event) /\ pc[p] = "append"
      BY <2>2 DEF AppendLineage
    <3>2. request[p].event.type \in Moves => request[p].event.target.kind = "draft"
      BY <3>1 DEF Base, RequestsFormed, InTransaction, Formed, Intended
    <3>3. /\ DOMAIN lineage' = 1..(Len(lineage) + 1) /\ DOMAIN lineage = 1..Len(lineage)
          /\ Len(lineage) \in Nat
          /\ \A i \in 1..Len(lineage) : lineage'[i] = lineage[i]
          /\ lineage'[Len(lineage) + 1] = request[p].event
      BY <3>1, LongerLog, LogFacts DEF Base, LogsOK
    <3>4. QED
      BY <3>2, <3>3 DEF Base, TargetsAreDrafts
  <2>3. QED
    BY <2>1, <2>2, LineageChanges
<1>2. QED
  BY <1>1, TypeStep, RequestsStep, LogsStep DEF Base

-----------------------------------------------------------------------------
(* The lock, and what is known and decided under it *)

LEMMA LockStep == Base /\ LockHeld /\ [Next]_vars => LockHeld'
<1> SUFFICES ASSUME Base, LockHeld, [Next]_vars, NEW q \in Processes, pc'[q] \in UnderLock
             PROVE  lock' = q
  BY DEF LockHeld
<1>1. TypeOK /\ q # None
  BY ProcessesAssumption DEF Base
<1>2. CASE Acts(q)
  BY <1>1, <1>2 DEF LockHeld, UnderLock, InTransaction, TypeOK, Acts, Begin, Retry, Acquire, Step,
     PutSupport, PutTarget, CheckTargets, Decide, Audit, AppendLineage, DeriveManifest, WriteManifest,
     Release, Collect, CollectClimb, Recheck, RecheckClimb,
       PutCheckpoint, WriteCheckpoint, Open, OpenRead, OpenWrite, Crash, Restart, Goto, Leave
<1>3. ASSUME Rests(q), NEW p \in Processes, p # q, Acts(p) PROVE lock' = q
  <2>1. lock = q /\ lock # p /\ lock # None
    BY <1>1, <1>3 DEF Rests, LockHeld
  <2>2. pc[p] \notin UnderLock
    BY <2>1 DEF LockHeld
  <2>3. QED
    BY <1>3, <2>1, <2>2 DEF UnderLock, InTransaction, Acts, Begin, Retry, Acquire, Step,
       PutSupport, PutTarget, CheckTargets, Decide, Audit, AppendLineage, DeriveManifest, WriteManifest,
       Release, Collect, CollectClimb, Recheck, RecheckClimb,
       PutCheckpoint, WriteCheckpoint, Open, OpenRead, OpenWrite, Crash, Restart
<1>4. CASE UNCHANGED <<pc, lock>>
  BY <1>4 DEF LockHeld
<1>5. QED
  BY <1>1, <1>2, <1>3, <1>4, StepCases, OthersRest

\* Two processes are never under the lock.
LEMMA OneUnderLock ==
    ASSUME LockHeld, NEW p \in Processes, NEW q \in Processes,
           pc[p] \in UnderLock, pc[q] \in UnderLock
    PROVE  p = q
BY DEF LockHeld

\* While a process is under the lock and rests, the lineage does not move.
LEMMA LineageRests ==
    ASSUME Base, LockHeld, [Next]_vars, NEW q \in Processes, Rests(q), pc[q] \in UnderLock
    PROVE  UNCHANGED lineage
<1>1. ASSUME NEW p \in Processes, AppendLineage(p) PROVE FALSE
  <2>1. pc[p] = "append" /\ pc'[p] = "derive"
    BY <1>1 DEF AppendLineage, Goto, Base, TypeOK
  <2>2. p = q
    BY <2>1, OneUnderLock DEF UnderLock, InTransaction
  <2>3. QED
    BY <2>1, <2>2 DEF Rests
<1>2. QED
  BY <1>1, LineageChanges

LEMMA HeadKnownStep == Base /\ LockHeld /\ HeadKnown /\ [Next]_vars => HeadKnown'
<1> SUFFICES ASSUME Base, LockHeld, HeadKnown, [Next]_vars, NEW q \in Processes, pc'[q] \in InTransaction
             PROVE  view'[q].lineage = Len(lineage')
  BY DEF HeadKnown
<1>1. TypeOK /\ RequestsFormed
  BY DEF Base
<1>2. CASE Rests(q)
  BY <1>2, LineageRests DEF Rests, HeadKnown, UnderLock
<1>3. CASE Acquire(q)
  <2>1. request[q].op \in Transactional
    BY <1>1, <1>3 DEF Acquire, FirstStep, Goto, TypeOK, RequestsFormed, Formed, Operations,
       InTransaction, Transactional
  <2>2. QED
    BY <1>1, <1>3, <2>1 DEF Acquire, TypeOK, Derived, journals
<1>4. CASE PutSupport(q) \/ PutTarget(q) \/ CheckTargets(q) \/ Decide(q) \/ Audit(q)
  BY <1>1, <1>4 DEF PutSupport, PutTarget, CheckTargets, Decide, Audit, Goto, Leave, TypeOK,
     HeadKnown, InTransaction, journals, locals
<1>5. CASE Acts(q) /\ ~ (Acquire(q) \/ PutSupport(q) \/ PutTarget(q) \/ CheckTargets(q) \/ Decide(q) \/ Audit(q))
  BY <1>1, <1>5 DEF Acts, Step, Begin, Retry, AppendLineage, DeriveManifest, WriteManifest,
     Release, Collect, CollectClimb, Recheck, RecheckClimb,
       PutCheckpoint, WriteCheckpoint, Open, OpenRead, OpenWrite, Crash, Restart,
     Goto, Leave, TypeOK, InTransaction
<1>6. QED
  BY <1>1, <1>2, <1>3, <1>4, <1>5, ActsOrRests

\* The head a process compares with is the head the journal has.
LEMMA HeadInViewIsHead ==
    ASSUME Base, HeadKnown, NEW p \in Processes, pc[p] \in InTransaction, NEW branch
    PROVE  HeadInView(p, branch) = BranchHead(lineage, branch)
BY WholeLog DEF Base, LogsOK, HeadKnown, HeadInView

LEMMA DecisionStep == Base /\ LockHeld /\ HeadKnown /\ DecisionStands /\ [Next]_vars => DecisionStands'
<1> SUFFICES ASSUME Base, LockHeld, HeadKnown, DecisionStands, [Next]_vars, NEW q \in Processes,
                    pc'[q] \in {"append", "audit"}
             PROVE  /\ ~ HasKey(lineage', request'[q].event.key)
                    /\ pc'[q] = "append" =>
                         BranchHead(SubSeq(lineage', 1, view'[q].lineage), request'[q].event.branch)
                           = request'[q].event.expected
  BY DEF DecisionStands, HeadInView
<1>1. TypeOK
  BY DEF Base
<1>2. CASE Rests(q)
  <2>1. UNCHANGED lineage
    BY <1>2, LineageRests DEF Rests, UnderLock, InTransaction
  <2>2. QED
    BY <1>2, <2>1 DEF Rests, DecisionStands, HeadInView
<1>3. CASE Decide(q)
  <2>1. UNCHANGED <<lineage, request, view>>
    BY <1>3 DEF Decide, journals
  <2>2. ~ HasKey(lineage, request[q].event.key)
    BY <1>1, <1>3 DEF Decide, Verdict, Goto, Leave, TypeOK
  <2>3. pc'[q] = "append" => HeadInView(q, request[q].event.branch) = request[q].event.expected
    BY <1>1, <1>3 DEF Decide, Stale, Verdict, Goto, Leave, TypeOK
  <2>4. QED
    BY <2>1, <2>2, <2>3 DEF HeadInView
<1>4. CASE Acts(q) /\ ~ Decide(q)
  BY <1>1, <1>4 DEF Acts, Step, Begin, Retry, Acquire, FirstStep, PutSupport, PutTarget, CheckTargets,
     Audit, AppendLineage, DeriveManifest, WriteManifest, Release, Collect, CollectClimb, Recheck,
     RecheckClimb,
       PutCheckpoint, WriteCheckpoint, Open, OpenRead, OpenWrite, Crash, Restart, Goto, Leave, TypeOK, Base, RequestsFormed, Formed,
     Operations, Transactional
<1>5. QED
  BY <1>1, <1>2, <1>3, <1>4, ActsOrRests

-----------------------------------------------------------------------------
(* Properties of the lineage *)

LEMMA MovesStep ==
    Base /\ HeadKnown /\ DecisionStands /\ EveryMoveSawItsHead /\ [Next]_vars => EveryMoveSawItsHead'
<1> SUFFICES ASSUME Base, HeadKnown, DecisionStands, EveryMoveSawItsHead, [Next]_vars
             PROVE  EveryMoveSawItsHead'
  OBVIOUS
<1>1. CASE UNCHANGED lineage
  BY <1>1 DEF EveryMoveSawItsHead
<1>2. ASSUME NEW p \in Processes, AppendLineage(p) PROVE EveryMoveSawItsHead'
  <2> DEFINE event == request[p].event
  <2>1. lineage' = Append(lineage, event) /\ pc[p] = "append" /\ IsLog(lineage)
    BY <1>2 DEF AppendLineage, Base, LogsOK
  <2>2. event.type = "branch_created" => event.expected = None
    BY <2>1 DEF Base, RequestsFormed, InTransaction, Formed, Intended
  <2>3. BranchHead(lineage, event.branch) = event.expected
    <3>1. HeadInView(p, event.branch) = BranchHead(lineage, event.branch)
      BY <2>1, HeadInViewIsHead DEF InTransaction
    <3>2. QED
      BY <2>1, <3>1 DEF DecisionStands
  <2> HIDE DEF event
  <2>4. /\ Len(lineage) \in Nat
        /\ DOMAIN lineage = 1..Len(lineage) /\ DOMAIN lineage' = 1..(Len(lineage) + 1)
        /\ \A i \in 1..Len(lineage) : lineage'[i] = lineage[i]
        /\ lineage'[Len(lineage) + 1] = event
    BY <2>1, LogFacts, LongerLog
  <2>5. SUFFICES ASSUME NEW i \in 1..(Len(lineage) + 1), lineage'[i].type # "workspace_created"
                 PROVE  BranchHead(SubSeq(lineage', 1, i - 1), lineage'[i].branch) =
                          IF lineage'[i].type = "branch_created" THEN None ELSE lineage'[i].expected
    BY <2>4 DEF EveryMoveSawItsHead
  <2>6. SubSeq(lineage', 1, i - 1) = SubSeq(lineage, 1, i - 1)
    <3>1. i - 1 \in 0..Len(lineage)
      BY <2>4
    <3>2. QED
      BY <2>1, <3>1, PrefixOfLonger
  <2>7. CASE i \in 1..Len(lineage)
    BY <2>4, <2>5, <2>6, <2>7 DEF EveryMoveSawItsHead
  <2>8. CASE i = Len(lineage) + 1
    <3>1. SubSeq(lineage', 1, i - 1) = lineage
      BY <2>1, <2>4, <2>6, <2>8, WholeLog
    <3>2. lineage'[i] = event
      BY <2>4, <2>8
    <3>3. QED
      BY <2>2, <2>3, <3>1, <3>2
  <2>9. QED
    BY <2>4, <2>7, <2>8
<1>3. QED
  BY <1>1, <1>2, LineageChanges

\* An operation under a key the lineage does not have keeps its keys unique.
LEMMA NewKey ==
    ASSUME NEW log, IsLog(log), NEW event, KeysUnique(log), ~ HasKey(log, event.key)
    PROVE  KeysUnique(Append(log, event))
<1>1. /\ Len(log) \in Nat /\ DOMAIN log = 1..Len(log)
      /\ DOMAIN Append(log, event) = 1..(Len(log) + 1)
      /\ \A i \in 1..Len(log) : Append(log, event)[i] = log[i]
      /\ Append(log, event)[Len(log) + 1] = event
  BY LogFacts, LongerLog
<1>2. SUFFICES ASSUME NEW i \in 1..(Len(log) + 1), NEW j \in 1..(Len(log) + 1),
                      Append(log, event)[i].key = Append(log, event)[j].key
               PROVE  i = j
  BY <1>1 DEF KeysUnique
<1>3. CASE i \in 1..Len(log) /\ j \in 1..Len(log)
  BY <1>1, <1>2, <1>3 DEF KeysUnique
<1>4. CASE i = Len(log) + 1 /\ j \in 1..Len(log)
  BY <1>1, <1>2, <1>4 DEF HasKey
<1>5. CASE i \in 1..Len(log) /\ j = Len(log) + 1
  BY <1>1, <1>2, <1>5 DEF HasKey
<1>6. QED
  BY <1>1, <1>3, <1>4, <1>5

LEMMA OnceStep == Base /\ DecisionStands /\ OperationOnce /\ [Next]_vars => OperationOnce'
<1> SUFFICES ASSUME Base, DecisionStands, OperationOnce, [Next]_vars PROVE OperationOnce'
  OBVIOUS
<1>1. CASE UNCHANGED lineage
  BY <1>1 DEF OperationOnce
<1>2. ASSUME NEW p \in Processes, AppendLineage(p) PROVE OperationOnce'
  <2>1. lineage' = Append(lineage, request[p].event) /\ IsLog(lineage)
        /\ ~ HasKey(lineage, request[p].event.key)
    BY <1>2 DEF AppendLineage, Base, LogsOK, DecisionStands
  <2>2. QED
    BY <2>1, NewKey DEF OperationOnce
<1>3. QED
  BY <1>1, <1>2, LineageChanges

-----------------------------------------------------------------------------
(* What is named is stored *)

LEMMA ObjectsStay == [Next]_vars => objects \subseteq objects'
BY DEF Next, vars, Begin, Retry, Acquire, Step, PutSupport, PutTarget, CheckTargets,
       Decide, Audit, AppendLineage, DeriveManifest, WriteManifest, Release, Collect, CollectClimb,
       Recheck, RecheckClimb,
       PutCheckpoint, WriteCheckpoint, Open, OpenRead, OpenWrite, Crash, Restart, AppendOperational, AppendClimb,
       PutDecision, stored

LEMMA DraftNames ==
    ASSUME NEW parents, NEW data
    PROVE  RefsIn(Draft(parents, data)) =
             {parents[i] : i \in DOMAIN parents} \cup {Support(data)}
BY DEF RefsIn, Draft

LEMMA CandidateNames ==
    ASSUME NEW draft
    PROVE  RefsIn(Candidate(draft)) = {draft, Support(draft.data)}
BY DEF RefsIn, Candidate

LEMMA SupportNames ==
    /\ RefsIn(Decision) = {}
    /\ \A data : RefsIn(Support(data)) = {}
    /\ \A lengths : RefsIn(Checkpoint(lengths)) = {}
BY DEF RefsIn, Support, Decision, Checkpoint

LEMMA NamedStep ==
    Base /\ NamedIsStored /\ EvidenceResolves /\ [Next]_vars => NamedIsStored'
<1> SUFFICES ASSUME Base, NamedIsStored, EvidenceResolves, [Next]_vars, NEW q \in Processes
             PROVE  LET event == request'[q].event IN
                    /\ pc'[q] = "child" => /\ RefsIn(event.target) \subseteq objects'
                                           /\ event.refs \subseteq objects' \cup {event.target}
                    /\ pc'[q] \in {"decide", "append"} => event.refs \subseteq objects'
  BY DEF NamedIsStored
<1>1. TypeOK /\ objects \subseteq objects'
  BY ObjectsStay DEF Base
<1>2. CASE Rests(q)
  BY <1>1, <1>2 DEF Rests, NamedIsStored
<1>3. CASE PutSupport(q)
  <2> DEFINE event == request[q].event
  <2>1. pc'[q] \in {"child", "release"} /\ request'[q] = request[q]
    BY <1>1, <1>3 DEF PutSupport, Goto, Leave, TypeOK
  <2>2. request[q].op \in {"commit", "freeze"} /\ Intended(request[q].op, event)
    BY <1>3 DEF PutSupport, Base, RequestsFormed, InTransaction, Formed, Transactional
  <2>3. CASE request[q].op = "commit" /\ pc'[q] = "child"
    <3>1. /\ event.target = Draft(event.target.parents, event.target.data)
          /\ event.refs = {event.target} \cup RefsIn(event.target)
      BY <2>2, <2>3 DEF Intended
    <3>2. /\ Support(event.target.data) \in objects'
          /\ \A i \in DOMAIN event.target.parents : event.target.parents[i] \in objects
      BY <1>1, <1>3, <2>3 DEF PutSupport, Goto, Leave, TypeOK
    <3>3. RefsIn(event.target) = {event.target.parents[i] : i \in DOMAIN event.target.parents}
                                    \cup {Support(event.target.data)}
      BY <3>1, DraftNames
    <3>4. QED
      BY <1>1, <2>1, <2>3, <3>1, <3>2, <3>3
  <2>4. CASE request[q].op = "freeze" /\ pc'[q] = "child"
    <3>1. /\ event.target = Candidate(event.expected) /\ event.expected.kind = "draft"
          /\ event.refs = {event.expected, event.target}
      BY <2>2, <2>4 DEF Intended
    <3>2. event.expected \in objects
      BY <1>1, <1>3, <2>4 DEF PutSupport, Goto, Leave, TypeOK
    <3>3. Support(event.expected.data) \in objects
      BY <3>1, <3>2 DEF EvidenceResolves, RefsIn
    <3>4. QED
      BY <1>1, <2>1, <2>4, <3>1, <3>2, <3>3, CandidateNames
  <2>5. QED
    BY <2>1, <2>2, <2>3, <2>4
<1>4. CASE PutTarget(q)
  BY <1>1, <1>4 DEF PutTarget, Goto, TypeOK, locals, NamedIsStored
<1>5. CASE CheckTargets(q) \/ Decide(q)
  BY <1>1, <1>5 DEF CheckTargets, Decide, Goto, Leave, TypeOK, NamedIsStored, stored
<1>6. CASE Acts(q) /\ ~ (PutSupport(q) \/ PutTarget(q) \/ CheckTargets(q) \/ Decide(q))
  BY <1>1, <1>6 DEF Acts, Step, Begin, Retry, Acquire, FirstStep,
     Audit, AppendLineage, DeriveManifest, WriteManifest, Release, Collect, CollectClimb, Recheck,
     RecheckClimb,
       PutCheckpoint, WriteCheckpoint, Open, OpenRead, OpenWrite, Crash, Restart, Goto, Leave, TypeOK, Base, RequestsFormed, Formed,
     Operations, Transactional
<1>7. QED
  BY <1>1, <1>2, <1>3, <1>4, <1>5, <1>6, ActsOrRests

LEMMA EvidenceStep ==
    Base /\ NamedIsStored /\ EvidenceResolves /\ [Next]_vars => EvidenceResolves'
<1> SUFFICES ASSUME Base, NamedIsStored, EvidenceResolves, [Next]_vars PROVE EvidenceResolves'
  OBVIOUS
<1>1. objects \subseteq objects'
  BY ObjectsStay
<1>2. \A i \in DOMAIN lineage' : lineage'[i].refs \subseteq objects'
  <2>1. CASE UNCHANGED lineage
    BY <1>1, <2>1 DEF EvidenceResolves
  <2>2. ASSUME NEW p \in Processes, AppendLineage(p), NEW i \in DOMAIN lineage'
        PROVE  lineage'[i].refs \subseteq objects'
    <3>1. /\ lineage' = Append(lineage, request[p].event) /\ IsLog(lineage)
          /\ request[p].event.refs \subseteq objects
      BY <2>2 DEF AppendLineage, Base, LogsOK, NamedIsStored
    <3>2. /\ Len(lineage) \in Nat
          /\ DOMAIN lineage = 1..Len(lineage) /\ DOMAIN lineage' = 1..(Len(lineage) + 1)
          /\ \A j \in 1..Len(lineage) : lineage'[j] = lineage[j]
          /\ lineage'[Len(lineage) + 1] = request[p].event
      BY <3>1, LogFacts, LongerLog
    <3>3. QED
      BY <1>1, <2>2, <3>1, <3>2 DEF EvidenceResolves
  <2>3. QED
    BY <2>1, <2>2, LineageChanges
<1>3. \A object \in objects' : RefsIn(object) \subseteq objects'
  <2>1. CASE UNCHANGED objects
    BY <2>1 DEF EvidenceResolves
  <2>2. CASE PutDecision
    BY <1>1, <2>2, SupportNames DEF PutDecision, EvidenceResolves
  <2>3. ASSUME NEW p \in Processes, PutSupport(p)
        PROVE  \A object \in objects' : RefsIn(object) \subseteq objects'
    <3>1. UNCHANGED objects \/ objects' = objects \cup {Support(request[p].event.target.data)}
      BY <2>3 DEF PutSupport
    <3>2. QED
      BY <1>1, <3>1, SupportNames DEF EvidenceResolves
  <2>4. ASSUME NEW p \in Processes, PutTarget(p)
        PROVE  \A object \in objects' : RefsIn(object) \subseteq objects'
    BY <1>1, <2>4 DEF PutTarget, NamedIsStored, EvidenceResolves
  <2>5. ASSUME NEW p \in Processes, PutCheckpoint(p)
        PROVE  \A object \in objects' : RefsIn(object) \subseteq objects'
    BY <1>1, <2>5, SupportNames DEF PutCheckpoint, EvidenceResolves
  <2>6. QED
    BY <2>1, <2>2, <2>3, <2>4, <2>5 DEF Next, vars, Begin, Retry, Acquire, Step, CheckTargets,
       Decide, Audit, AppendLineage, DeriveManifest, WriteManifest, Release, Collect, CollectClimb,
       Recheck, RecheckClimb, WriteCheckpoint, Open, OpenRead, OpenWrite, Crash, Restart, AppendOperational, AppendClimb, stored
<1>4. QED
  BY <1>2, <1>3 DEF EvidenceResolves

-----------------------------------------------------------------------------
(* Rejections *)

LEMMA OperationalGrows ==
    ASSUME Base, [Next]_vars
    PROVE  /\ Len(operational) \in Nat /\ Len(operational') \in Nat
           /\ Len(operational) <= Len(operational')
           /\ DOMAIN operational = 1..Len(operational) /\ DOMAIN operational' = 1..Len(operational')
           /\ \A i \in 1..Len(operational) : operational'[i] = operational[i]
BY JournalsGrow, GrownLog DEF Base, LogsOK

LEMMA RejectionStep == Base /\ RejectionAudited /\ [Next]_vars => RejectionAudited'
<1> SUFFICES ASSUME Base, RejectionAudited, [Next]_vars, NEW q \in Processes,
                    outcome'[q] = "rejected", request'[q].op # "branch"
             PROVE  \E i \in DOMAIN operational' :
                      /\ operational'[i].key[1] = "rejected"
                      /\ operational'[i].key[2] = request'[q].event.key
                      /\ operational'[i].key[3] = request'[q].event.expected
  BY DEF RejectionAudited
<1>1. TypeOK
  BY DEF Base
<1>2. ASSUME outcome[q] = "rejected", request'[q] = request[q] PROVE
        \E i \in DOMAIN operational' :
          /\ operational'[i].key[1] = "rejected"
          /\ operational'[i].key[2] = request'[q].event.key
          /\ operational'[i].key[3] = request'[q].event.expected
  <2>1. PICK i \in DOMAIN operational :
          /\ operational[i].key[1] = "rejected"
          /\ operational[i].key[2] = request[q].event.key
          /\ operational[i].key[3] = request[q].event.expected
    BY <1>2 DEF RejectionAudited
  <2>2. i \in DOMAIN operational' /\ operational'[i] = operational[i]
    BY OperationalGrows
  <2>3. QED
    BY <1>2, <2>1, <2>2
<1>3. CASE Rests(q)
  BY <1>2, <1>3 DEF Rests
<1>4. CASE Audit(q)
  <2> DEFINE audit == AuditEvent(q)
  <2>1. /\ audit.key[1] = "rejected" /\ audit.key[2] = request[q].event.key
        /\ audit.key[3] = request[q].event.expected
    BY DEF AuditEvent
  <2>2. request'[q] = request[q]
    BY <1>4 DEF Audit
  <2>3. /\ operational' = IF HasKey(operational, audit.key) THEN operational ELSE Append(operational, audit)
        /\ IsLog(operational)
    BY <1>1, <1>4 DEF Audit, Leave, Base, LogsOK, TypeOK
  <2> HIDE DEF audit
  <2>4. CASE HasKey(operational, audit.key)
    BY <2>1, <2>2, <2>3, <2>4 DEF HasKey
  <2>5. CASE ~ HasKey(operational, audit.key)
    <3>1. operational'[Len(operational) + 1] = audit /\ Len(operational) + 1 \in DOMAIN operational'
      BY <2>3, <2>5, LongerLog, LogFacts
    <3>2. QED
      BY <2>1, <2>2, <3>1
  <2>6. QED
    BY <2>4, <2>5
<1>5. CASE Decide(q)
  <2>1. UNCHANGED request /\ pc[q] = "decide"
    BY <1>5 DEF Decide
  <2>2. CASE outcome'[q] = outcome[q]
    BY <1>2, <2>1, <2>2
  <2>3. CASE outcome'[q] # outcome[q]
    BY <1>1, <1>5, <2>1, <2>3 DEF Decide, Verdict, Goto, Leave, TypeOK
  <2>4. QED
    BY <2>2, <2>3
<1>6. CASE Acts(q) /\ ~ (Audit(q) \/ Decide(q))
  <2>1. outcome[q] = "rejected" /\ request'[q] = request[q]
    BY <1>1, <1>6 DEF Acts, Step, Begin, Retry, Acquire, PutSupport, PutTarget, CheckTargets,
       AppendLineage, DeriveManifest, WriteManifest, Release, Collect, CollectClimb, Recheck,
       RecheckClimb,
       PutCheckpoint, WriteCheckpoint, Open, OpenRead, OpenWrite, Crash, Restart, Goto, Leave, TypeOK, locals
  <2>2. QED
    BY <1>2, <2>1
<1>7. QED
  BY <1>1, <1>3, <1>4, <1>5, <1>6, ActsOrRests

-----------------------------------------------------------------------------
(* A process that works alone *)

LEMMA AloneStep == Base /\ Alone /\ [Next]_vars => Alone'
<1> SUFFICES ASSUME Base, Alone, [Next]_vars PROVE Alone'
  OBVIOUS
<1>1. TypeOK /\ WorkspaceId' = WorkspaceId
  <2>1. lineage # << >> /\ lineage'[1] = lineage[1]
    BY JournalsGrow, GrownLog DEF Base, LogsOK
  <2>2. QED
    BY <2>1 DEF Base, WorkspaceId
<1>2. ASSUME NEW q \in Processes \ Workers[WorkspaceId] PROVE pc'[q] = "idle" /\ request'[q] = None
  <2>1. pc[q] = "idle" /\ request[q] = None
    BY DEF Alone
  <2>2. CASE Acts(q)
    BY <2>1, <2>2 DEF Acts, Step, Begin, Retry, Acquire, PutSupport, PutTarget, CheckTargets, Decide,
       Audit, AppendLineage, DeriveManifest, WriteManifest, Release, Collect, CollectClimb, Recheck,
       RecheckClimb,
       PutCheckpoint, WriteCheckpoint, Open, OpenRead, OpenWrite, Crash, Restart
  <2>3. CASE Rests(q)
    BY <2>1, <2>3 DEF Rests
  <2>4. QED
    BY <1>1, <2>2, <2>3, ActsOrRests
<1>3. ASSUME NEW p \in Processes, Workers[WorkspaceId] = {p}
      PROVE  /\ pc'[p] \notin {"derive", "write", "open", "open_read", "open_write", "dead"} =>
                  manifest'.lineage = Len(lineage')
             /\ pc'[p] \in {"write", "open_read", "open_write"} => view'[p].lineage = Len(lineage')
             /\ outcome'[p] = "opened" => pc'[p] = "idle" /\ view'[p].lineage = Len(lineage')
  <2>1. /\ pc[p] \notin {"derive", "write", "open", "open_read", "open_write", "dead"} =>
             manifest.lineage = Len(lineage)
        /\ pc[p] \in {"write", "open_read", "open_write"} => view[p].lineage = Len(lineage)
        /\ outcome[p] = "opened" => pc[p] = "idle" /\ view[p].lineage = Len(lineage)
    BY <1>3 DEF Alone
  <2>2. CASE \E q \in Processes : q # p /\ Acts(q)
    <3>1. PICK q \in Processes : q # p /\ Acts(q)
      BY <2>2
    <3>2. q \in Processes \ Workers[WorkspaceId]
      BY <1>3, <3>1
    <3>3. pc[q] = "idle" /\ request[q] = None
      BY <3>2 DEF Alone
    <3>4. FALSE
      BY <3>1, <3>2, <3>3 DEF Acts, Step, Begin, Retry, Acquire, PutSupport, PutTarget, CheckTargets, Decide,
         Audit, AppendLineage, DeriveManifest, WriteManifest, Release, Collect, CollectClimb, Recheck,
         RecheckClimb,
       PutCheckpoint, WriteCheckpoint, Open, OpenRead, OpenWrite, Crash, Restart
    <3>5. QED
      BY <3>4
  <2>3. CASE (\E task \in Tasks[WorkspaceId] : Begin(p, task)) \/ Retry(p)
    BY <1>1, <2>1, <2>3 DEF Begin, Retry, TypeOK, journals, stored
  <2>4. CASE Acquire(p)
    BY <1>1, <2>1, <2>4 DEF Acquire, FirstStep, Goto, TypeOK, journals, stored, Base, RequestsFormed, Formed,
       Operations, Transactional
  <2>5. CASE PutSupport(p) \/ PutTarget(p) \/ CheckTargets(p) \/ Decide(p) \/ Audit(p)
    BY <1>1, <2>1, <2>5 DEF PutSupport, PutTarget, CheckTargets, Decide, Verdict, Audit, Goto, Leave, TypeOK,
       journals, stored, locals
  <2>6. CASE AppendLineage(p) \/ DeriveManifest(p) \/ WriteManifest(p) \/ Release(p)
    BY <1>1, <2>1, <2>6 DEF AppendLineage, DeriveManifest, WriteManifest, Release, Derived, Goto, TypeOK,
       journals, stored, locals
  <2>7. CASE Collect(p) \/ CollectClimb(p) \/ Recheck(p) \/ RecheckClimb(p)
       \/ PutCheckpoint(p) \/ WriteCheckpoint(p)
    BY <1>1, <2>1, <2>7 DEF Collect, CollectClimb, Recheck, RecheckClimb,
       PutCheckpoint, WriteCheckpoint, Goto, Leave, TypeOK,
       journals, stored, locals
  <2>8. CASE Open(p) \/ OpenRead(p) \/ OpenWrite(p) \/ Crash(p) \/ Restart(p)
    BY <1>1, <2>1, <2>8 DEF Open, OpenRead, OpenWrite, Crash, Restart, Derived, Goto, TypeOK, journals, stored, locals
  <2>9. CASE /\ AppendOperational \/ AppendClimb \/ PutDecision \/ UNCHANGED vars
             /\ UNCHANGED <<pc, lock, request, outcome, view, heads>>
    BY <2>1, <2>9 DEF AppendOperational, AppendClimb, PutDecision, vars, stored, journals
  <2>10. QED
    BY <1>1, <2>2, <2>3, <2>4, <2>5, <2>6, <2>7, <2>8, <2>9, StepCases DEF Acts, Step
<1>4. QED
  BY <1>1, <1>2, <1>3 DEF Alone

-----------------------------------------------------------------------------
(* Checkpoints *)

LEMMA ClimbGrows ==
    ASSUME Base, [Next]_vars
    PROVE  /\ Len(climb) \in Nat /\ Len(climb') \in Nat /\ Len(climb) <= Len(climb')
           /\ DOMAIN climb = 1..Len(climb) /\ DOMAIN climb' = 1..Len(climb')
           /\ \A i \in 1..Len(climb) : climb'[i] = climb[i]
BY JournalsGrow, GrownLog DEF Base, LogsOK

\* What is appended to one journal knows the length of the other.
Knowing(log, next, other) == next = log \/ \E e : e.knows = Len(other) /\ next = Append(log, e)

LEMMA AppendsKnow ==
    ASSUME [Next]_vars
    PROVE  Knowing(operational, operational', climb) /\ Knowing(climb, climb', operational)
<1>1. CASE UNCHANGED <<operational, climb>>
  BY <1>1 DEF Knowing
<1>2. ASSUME NEW p \in Processes, Audit(p)
      PROVE  Knowing(operational, operational', climb) /\ Knowing(climb, climb', operational)
  BY <1>2 DEF Audit, AuditEvent, Knowing
<1>3. CASE AppendOperational
  BY <1>3 DEF AppendOperational, Knowing
<1>4. CASE AppendClimb
  BY <1>4 DEF AppendClimb, Knowing
<1>5. QED
  BY <1>1, <1>2, <1>3, <1>4 DEF Next, vars, Begin, Retry, Acquire, Step, PutSupport, PutTarget,
     CheckTargets, Decide, AppendLineage, DeriveManifest, WriteManifest, Release, Collect, CollectClimb,
     Recheck, RecheckClimb,
       PutCheckpoint, WriteCheckpoint, Open, OpenRead, OpenWrite, Crash, Restart, PutDecision, journals

\* One journal as far as another's events know it.
KnowsWithin(log, other) == \A i \in DOMAIN log : log[i].knows \in Nat /\ log[i].knows <= Len(other)

LEMMA KnowingGrows ==
    ASSUME NEW log, IsLog(log), NEW next, NEW other, IsLog(other), NEW another,
           Knowing(log, next, other), KnowsWithin(log, other),
           Len(another) \in Nat, Len(other) <= Len(another)
    PROVE  KnowsWithin(next, another)
<1>1. Len(log) \in Nat /\ Len(other) \in Nat /\ DOMAIN log = 1..Len(log)
  BY LogFacts
<1>2. CASE next = log
  BY <1>1, <1>2 DEF KnowsWithin
<1>3. ASSUME NEW e, e.knows = Len(other), next = Append(log, e) PROVE KnowsWithin(next, another)
  <2>1. /\ DOMAIN next = 1..(Len(log) + 1)
        /\ \A i \in 1..Len(log) : next[i] = log[i]
        /\ next[Len(log) + 1] = e
    BY <1>3, LongerLog
  <2>2. QED
    BY <1>1, <1>3, <2>1 DEF KnowsWithin
<1>4. QED
  BY <1>2, <1>3 DEF Knowing

LEMMA KnowsStep == Base /\ KnowsThePast /\ [Next]_vars => KnowsThePast'
<1> SUFFICES ASSUME Base, KnowsThePast, [Next]_vars PROVE KnowsThePast'
  OBVIOUS
<1>1. IsLog(operational) /\ IsLog(climb)
  BY DEF Base, LogsOK
<1>2. KnowsWithin(operational, climb) /\ KnowsWithin(climb, operational)
  BY DEF KnowsThePast, KnowsWithin
<1>3. KnowsWithin(operational', climb')
  BY <1>1, <1>2, AppendsKnow, ClimbGrows, KnowingGrows
<1>4. KnowsWithin(climb', operational')
  BY <1>1, <1>2, AppendsKnow, OperationalGrows, KnowingGrows
<1>5. QED
  BY <1>3, <1>4 DEF KnowsThePast, KnowsWithin

\* A consistent cut of the journals stays one.
LEMMA CutStays ==
    ASSUME Base, [Next]_vars, NEW lengths, Within(lengths), ConsistentCut(lengths)
    PROVE  ConsistentCut(lengths)'
<1>1. /\ \A i \in 1..lengths.climb : climb'[i] = climb[i]
      /\ \A i \in 1..lengths.operational : operational'[i] = operational[i]
  BY OperationalGrows, ClimbGrows DEF Within, Lengths
<1>2. QED
  BY <1>1 DEF ConsistentCut

\* Heads nobody has moved on from: everything they leave out came later.
LEMMA CurrentCut ==
    ASSUME Base, KnowsThePast, NEW lengths \in Lengths,
           lengths.operational <= Len(operational), lengths.climb = Len(climb),
           lengths.operational = Len(operational)
    PROVE  ConsistentCut(lengths)
<1>1. /\ Len(climb) \in Nat /\ DOMAIN climb = 1..Len(climb)
      /\ Len(operational) \in Nat /\ DOMAIN operational = 1..Len(operational)
  BY LogFacts DEF Base, LogsOK
<1>2. QED
  BY <1>1 DEF KnowsThePast, ConsistentCut

LEMMA CutsStep == Base /\ KnowsThePast /\ Cuts /\ [Next]_vars => Cuts'
<1> SUFFICES ASSUME Base, KnowsThePast, Cuts, [Next]_vars PROVE Cuts'
  OBVIOUS
<1>1. TypeOK
  BY DEF Base
<1>2. \A lengths : Within(lengths) /\ ConsistentCut(lengths) => ConsistentCut(lengths)'
  BY CutStays
<1>3. ASSUME NEW q \in Processes
      PROVE  /\ pc'[q] = "recheck" /\ heads'[q].operational = Len(operational') => ConsistentCut(heads[q])'
             /\ pc'[q] \in Rechecked => ConsistentCut(heads[q])'
  <2>1. Within(heads[q])
    BY <1>1 DEF TypeOK
  <2>2. CASE heads'[q] = heads[q] /\ pc'[q] = pc[q]
    <3>1. Len(operational) \in Nat /\ Len(operational') \in Nat /\ Len(operational) <= Len(operational')
      BY OperationalGrows
    <3>2. heads[q].operational \in Nat /\ heads[q].operational <= Len(operational)
      BY <2>1 DEF Within, Lengths
    <3>3. pc[q] = "recheck" /\ heads[q].operational = Len(operational') => ConsistentCut(heads[q])
      BY <3>1, <3>2 DEF Cuts
    <3>4. pc[q] \in Rechecked => ConsistentCut(heads[q])
      BY DEF Cuts
    <3>5. ConsistentCut(heads[q]) => (\A i \in 1..heads[q].climb : climb'[i].knows <= heads[q].operational)
                                     /\ (\A i \in 1..heads[q].operational : operational'[i].knows <= heads[q].climb)
      BY <1>2, <2>1 DEF ConsistentCut
    <3>6. QED
      BY <2>2, <3>3, <3>4, <3>5 DEF ConsistentCut
  <2>3. CASE CollectClimb(q)
    <3>1. /\ pc'[q] = "recheck" /\ heads'[q] = [heads[q] EXCEPT !.climb = Len(climb)]
          /\ UNCHANGED <<operational, climb>>
      BY <1>1, <2>3 DEF CollectClimb, Goto, TypeOK, journals
    <3>2. Len(climb) \in Nat
      BY LogFacts DEF Base, LogsOK
    <3>3. /\ heads'[q] \in Lengths /\ heads'[q].climb = Len(climb)
          /\ heads'[q].operational = heads[q].operational /\ heads[q].operational <= Len(operational)
      BY <2>1, <3>1, <3>2 DEF Within, Lengths
    <3>4. heads'[q].operational = Len(operational) => ConsistentCut(heads'[q])
      BY <3>3, CurrentCut
    <3>5. QED
      BY <3>1, <3>4 DEF ConsistentCut, Rechecked
  <2>4. CASE Recheck(q)
    <3>1. /\ heads'[q] = heads[q] /\ UNCHANGED <<operational, climb>>
          /\ pc[q] = "recheck" /\ pc'[q] \in {"recheck_climb", "release"}
          /\ pc'[q] = "recheck_climb" => heads[q].operational = Len(operational)
      BY <1>1, <2>4 DEF Recheck, Goto, Leave, TypeOK, journals
    <3>2. pc'[q] = "recheck_climb" => ConsistentCut(heads[q])
      BY <3>1 DEF Cuts
    <3>3. QED
      BY <3>1, <3>2 DEF ConsistentCut, Rechecked
  <2>5. CASE pc'[q] \notin {"recheck"} \cup Rechecked
    BY <2>5
  <2>6. CASE Rests(q)
    BY <2>2, <2>6 DEF Rests
  <2>7. CASE RecheckClimb(q) \/ PutCheckpoint(q)
    <3>1. /\ pc[q] \in Rechecked /\ pc'[q] # "recheck" /\ heads'[q] = heads[q]
          /\ UNCHANGED <<operational, climb>>
      BY <1>1, <2>7 DEF RecheckClimb, PutCheckpoint, Goto, Leave, TypeOK, Rechecked, journals, locals
    <3>2. ConsistentCut(heads[q])
      BY <3>1 DEF Cuts
    <3>3. QED
      BY <3>1, <3>2 DEF ConsistentCut
  <2>8. CASE Acts(q) /\ ~ (CollectClimb(q) \/ Recheck(q) \/ RecheckClimb(q) \/ PutCheckpoint(q))
    <3>1. pc'[q] \notin {"recheck"} \cup Rechecked
      BY <1>1, <2>8 DEF Acts, Step, Begin, Retry, Acquire, FirstStep, PutSupport, PutTarget, CheckTargets,
         Decide, Audit, AppendLineage, DeriveManifest, WriteManifest, Release, Collect, Rechecked,
         WriteCheckpoint, Open, OpenRead, OpenWrite, Crash, Restart, Goto, Leave, TypeOK, Base, RequestsFormed, Formed,
         Operations, Transactional
    <3>2. QED
      BY <2>5, <3>1
  <2>9. QED
    BY <1>1, <2>3, <2>4, <2>6, <2>7, <2>8, ActsOrRests
<1>4. ConsistentCut(checkpoint)'
  <2>1. checkpoint' = checkpoint \/ \E p \in Processes : WriteCheckpoint(p) /\ checkpoint' = heads[p]
    BY DEF Next, vars, Begin, Retry, Acquire, Step, PutSupport, PutTarget,
       CheckTargets, Decide, Audit, AppendLineage, DeriveManifest, WriteManifest, Release, Collect, CollectClimb,
       Recheck, RecheckClimb,
       PutCheckpoint, WriteCheckpoint, Open, OpenRead, OpenWrite, Crash, Restart, AppendOperational, AppendClimb, PutDecision, stored
  <2>2. PICK lengths : checkpoint' = lengths /\ Within(lengths) /\ ConsistentCut(lengths)
    BY <1>1, <2>1 DEF TypeOK, Cuts, WriteCheckpoint, Rechecked
  <2>3. ConsistentCut(lengths)'
    BY <1>2, <2>2
  <2>4. QED
    BY <2>2, <2>3 DEF ConsistentCut
<1>5. QED
  BY <1>3, <1>4 DEF Cuts

-----------------------------------------------------------------------------
(* The theorems *)

IInv ==
    /\ Base
    /\ LockHeld /\ HeadKnown /\ NamedIsStored /\ DecisionStands
    /\ EveryMoveSawItsHead /\ OperationOnce /\ EvidenceResolves /\ RejectionAudited
    /\ Alone /\ KnowsThePast /\ Cuts

LEMMA InitIInv == Init => IInv
<1> SUFFICES ASSUME Init PROVE IInv
  OBVIOUS
<1>1. PICK id \in Workspaces : lineage = <<Created(id)>>
  BY DEF Init
<1>2. /\ Len(lineage) = 1 /\ DOMAIN lineage = {1} /\ lineage[1] = Created(id) /\ lineage # << >>
      /\ operational = << >> /\ climb = << >> /\ Len(operational) = 0 /\ Len(climb) = 0
      /\ DOMAIN operational = {} /\ DOMAIN climb = {}
  BY <1>1 DEF Init
<1>3. IsLog(lineage) /\ IsLog(operational) /\ IsLog(climb)
  <2>1. << >> \in Seq({}) /\ <<Created(id)>> \in Seq({Created(id)})
    OBVIOUS
  <2>2. QED
    BY <1>1, <1>2, <2>1, SeqIsLog
<1>4. Created(id).type = "workspace_created" /\ Created(id).key = id /\ Created(id).refs = {}
  BY DEF Created
<1>5. LogsOK
  BY <1>1, <1>2, <1>3, <1>4 DEF LogsOK, WorkspaceId
<1>6. TypeOK
  BY <1>2 DEF Init, TypeOK, Within, Lengths, Derived, Nothing, Labels, Outcomes
<1>7. RequestsFormed /\ TargetsAreDrafts
  BY <1>2, <1>4 DEF Init, RequestsFormed, InTransaction, TargetsAreDrafts, Moves
<1>8. LockHeld /\ HeadKnown /\ NamedIsStored /\ DecisionStands
  BY DEF Init, LockHeld, HeadKnown, NamedIsStored, DecisionStands, UnderLock, InTransaction
<1>9. EveryMoveSawItsHead /\ OperationOnce /\ EvidenceResolves /\ RejectionAudited
  BY <1>2, <1>4 DEF Init, EveryMoveSawItsHead, OperationOnce, KeysUnique, EvidenceResolves, RejectionAudited
<1>10. Alone
  BY <1>2 DEF Init, Alone, Derived
<1>11. KnowsThePast /\ Cuts
  BY <1>2 DEF Init, KnowsThePast, Cuts, ConsistentCut, Nothing, Rechecked
<1>12. QED
  BY <1>5, <1>6, <1>7, <1>8, <1>9, <1>10, <1>11 DEF IInv, Base

LEMMA NextIInv == IInv /\ [Next]_vars => IInv'
BY BaseStep, LockStep, HeadKnownStep, NamedStep, DecisionStep, MovesStep, OnceStep, EvidenceStep,
   RejectionStep, AloneStep, KnowsStep, CutsStep DEF IInv

LEMMA SpecIInv == Spec => []IInv
BY InitIInv, NextIInv, PTL DEF Spec

\* Every variable of the Workspace model keeps its type, and every view,
\* manifest and checkpoint is a cut of journals there are.
THEOREM TypeCorrect == Spec => []TypeOK
<1>1. IInv => TypeOK
  BY DEF IInv, Base
<1>2. QED
  BY <1>1, SpecIInv, PTL

\* No lost update (commit_draft, create_branch, select_revision and
\* freeze_candidate under workspace.lock).
THEOREM NoLostUpdate == Spec => []EveryMoveSawItsHead
<1>1. IInv => EveryMoveSawItsHead
  BY DEF IInv
<1>2. QED
  BY <1>1, SpecIInv, PTL

\* An operation that is retried under its key after a crash happens once.
THEOREM OperationsHappenOnce == Spec => []OperationOnce
<1>1. IInv => OperationOnce
  BY DEF IInv
<1>2. QED
  BY <1>1, SpecIInv, PTL

\* The lineage never names an object that is not stored, nor does an object.
THEOREM EvidenceAlwaysResolves == Spec => []EvidenceResolves
<1>1. IInv => EvidenceResolves
  BY DEF IInv
<1>2. QED
  BY <1>1, SpecIInv, PTL

\* A caller told that it lost a race finds the audit event (_audit_rejection).
THEOREM RejectionsAreAudited == Spec => []RejectionAudited
<1>1. IInv => RejectionAudited
  BY DEF IInv
<1>2. QED
  BY <1>1, SpecIInv, PTL

\* A process that works alone finds the whole lineage in the manifest between its
\* operations, and after opening what a crash left (Workspace.__init__).
THEOREM OpeningAlwaysRecovers == Spec => []OpeningRecovers
<1>1. IInv => OpeningRecovers
  BY DEF IInv, Alone, OpeningRecovers
<1>2. QED
  BY <1>1, SpecIInv, PTL

\* create_checkpoint pins a consistent cut of journals it does not lock.
THEOREM CheckpointsAreConsistent == Spec => []CheckpointConsistent
<1>1. IInv => CheckpointConsistent
  BY DEF IInv, Cuts, ConsistentCut, CheckpointConsistent
<1>2. QED
  BY <1>1, SpecIInv, PTL

\* A retry of an operation that happened is never told that it lost a race.
THEOREM DoneIsNeverRejected == Spec => DoneIsNotRejected
<1>1. IInv /\ [Next]_vars =>
        [\A p \in Processes : outcome[p] # "rejected" /\ outcome'[p] = "rejected" =>
            ~ HasKey(lineage, request[p].event.key)]_vars
  <2> SUFFICES ASSUME IInv, [Next]_vars, NEW p \in Processes,
                      outcome[p] # "rejected", outcome'[p] = "rejected"
               PROVE  ~ HasKey(lineage, request[p].event.key)
    OBVIOUS
  <2>1. TypeOK /\ DecisionStands
    BY DEF IInv, Base
  <2>2. Acts(p)
    BY <2>1, ActsOrRests DEF Rests
  <2>3. CASE Audit(p)
    BY <2>1, <2>3 DEF Audit, DecisionStands
  <2>4. CASE Decide(p)
    BY <2>1, <2>4 DEF Decide, Verdict, Leave, Goto, TypeOK
  <2>5. CASE ~ (Audit(p) \/ Decide(p))
    BY <2>1, <2>2, <2>5 DEF Acts, Step, Begin, Retry, Acquire, PutSupport, PutTarget, CheckTargets,
       AppendLineage, DeriveManifest, WriteManifest, Release, Collect, CollectClimb, Recheck,
       RecheckClimb,
       PutCheckpoint, WriteCheckpoint, Open, OpenRead, OpenWrite, Crash, Restart, Goto, Leave, TypeOK, locals
  <2>6. QED
    BY <2>3, <2>4, <2>5
<1>2. QED
  BY <1>1, SpecIInv, PTL DEF Spec, DoneIsNotRejected
==============================================================================
