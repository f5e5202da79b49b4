# Verification of narrative-game

TLA+ modules, model-checking configurations and machine-checked proofs for the `narrative_game`
library (`src/src/narrative_game`). Paths below are relative to that directory.

The library keeps everything it knows in a *Workspace* directory: immutable objects under their
digests, append-only journals with idempotency keys, and a few projections that can be rebuilt.
Over it run *Sessions* (one play of one game), an *arena* that lets agents play, a *climb* (build,
review, measure, select), a *generation coordinator* that drives climbs without people, and
analyses of difficulty and of human playtests. What can go wrong is mostly a matter of order:
several processes share the files, any of them may die between two writes, callers retry, and what
a step finds on disk may be older or newer than what its caller saw. The rest are long pure
functions (validators, compilers, verifiers, schedulers), where two passes over the same data must
agree.

## 1. Inventory

| Part | State it keeps | Operations | Interacts with | Hard behaviour |
|---|---|---|---|---|
| durable file replacement (`workspace/io.py`) | a file, its `.tmp`, a lock file | `file_mutex`, `atomic_write` | everything that writes | two writers share one temporary name; death before or after the rename |
| object store (`workspace/store.py`) | objects by digest | `put_bytes`, `read`, `verify`, `refs_in` | io | looks, then writes, without a lock |
| journal (`workspace/journal.py`) | a file of chained events | `append`, `event_for_key`, `verify` | io | retries, racing writers, power loss between rename and fsync |
| workspace (`workspace/workspace.py`) | six journals, `workspace.json`, checkpoints | `commit_draft`, `create_branch`, `select_revision`, `freeze_candidate`, `create_checkpoint`, `rebuild_indexes`, opening | journals, store; called by all parts below | a transaction is many writes under one lock; opening and the operational and climb appends are outside it |
| evidence (`workspace/evidence.py`) | claim manifests, capsules | packing, verifying | workspace, analysis | what a claim rests on must be reached from its own capsule, at a checkpoint of journals that grow |
| session runtime (`runtime/`) | the history of a Session, receipts | `create_session`, `fork_session`, 13 Commands of `apply_command`, `replay` | release data | Commands repeated, reordered, built on an old snapshot; actors replaced meanwhile; forks |
| arena (`simulation/`) | a Session, the turn, a trace | `reset`, `observe`, `step`, `archive`, `verify_episode`, `evaluate_episode` | session runtime | one tool call is up to two Commands; violations end the episode |
| climb (`climb/`) | the climb journal of typed records | `record_*`, `apply_approved_transition`, model and human receipts, `decide_selection`, planning, blind trials | workspace | two writers; validation before an unlocked append; calls before their receipts |
| experiment (`experiment/`) | plans, panels, standing, efficiency plans, rungs | `bind_package`, `measure_*_panel`, `propose_revision`, `apply_review`, `select`, ... | climb, workspace, drivers | each is several records; one judge of several fails; projections written after events |
| generation coordinator (`generation/`) | events in the operational journal | `run` | experiment | interrupted anywhere, resumed from records only |
| difficulty analysis (`difficulty/`, `experiment/difficulty.py`) | three journals of a Workspace, claims | `run_analysis_assignment`, `run_analysis_lineage` | workspace, evidence, drivers | retries of two kinds; what one analyst answers another must not see; two processes on one lineage |
| difficulty values (`difficulty/`) | what callers thread through | `schedule_diagnostic_work`, suites, sealed cohorts, the Failure Atlas, `run_hardening_demonstration` | analysis | shared budgets, single use, order of gates |
| playtest (`playtest/`) | records of the climb journal | protocols, Runs, comparisons, Standing, ingestion, review | climb, experiment | many records per call, of which the last may be refused |
| games and their Releases (`narrative/`, `kernel/`, `compiler/`) | none | `validate_*`, `freeze_candidate`, `compile_candidate`, `load_release`, projections | session, physical | one rule ensures what another pass over the same data relies on |
| blind trials (`physical/`, `climb/trial.py`) | archives | `export_physical`, `prepare_blind_trial`, `load_blind_trial`, `verify_trial_quote` | compiler, climb | what is printed for one audience must not reach another |
| public release (`release.py`) | none | `qualify_public_release` | the ledger of an Experiment | what qualified earlier may be undone by what is recorded later |
| experience, contracts, adapters, blueprints, `narrative_game_prime` | none or fixed data | rendering, encoding, parsing, calls of providers | | conversion and I/O |

What makes each part correct:

- **files**: a reader sees a whole file or the previous whole file; a write that returned is there.
- **store**: no reader sees a torn object.
- **journal**: a key is recorded once; what `append` returned survives crashes and power loss; a
  writer never rewrites what another wrote.
- **workspace**: no lost update on a branch; an operation retried after a crash happens once; a
  caller told that it lost a race can find that in the audit; one whose operation happened is never
  told so; named objects exist; the manifest agrees with the journals when nobody is at work;
  checkpoints are consistent cuts; the lock always comes free.
- **session**: an accepted Command acted on the state its sender saw, once; nothing is told to a
  seat before its Phase; only the actor who holds a seat acts for it; one resolution.
- **arena**: whatever policies answer, the trace verifies and accounts for the Session; an answer
  counts only with evidence that was earned; an episode ends, for a reason the Session agrees with.
- **climb, experiment, playtest**: the ledger names nothing that is not in it; no identity judges
  blindly twice; the Draft moves only by approvals; refused calls leave nothing, repeated ones add
  nothing, interrupted ones can be completed; efficiency plans replay from their events.
- **coordinator**: the Draft moves only with an approval or by evidence; rounds chain; what
  completes has passed; calls are never paid twice or beyond the budget; `run` ends; and an
  interrupted `run` can be resumed (it cannot always, see section 5).
- **analysis**: analysts see what their contracts allow; one answer of each assignment stands;
  retries are bounded; every claim verifies from its own capsule.
- **games, Releases, trials**: a game without Findings can be solved, by every supported cast, not
  before its Resolution Phase; what a seat is told is what it may know; a Release or a trial loads as
  it was made and no other way.

`PROJECT.json` lists the hazards of this code line by line, with the property that would catch each.

## 2. Modules

    AtomicFile ── ObjectStore                              files, objects
    JournalLog ── Journal  ──implements── DurableLog       one journal
        ├──────── Workspace ── MCWorkspace                 transactions
        ├──────── Evidence ── AnalysisRules ── Analysis ── MCAnalysis
        │             and, as values: MCDiagnostics (Hardening over Diagnostics)
        └── ClimbRecords ── ClimbValidation ─┐
                             ClimbPlanning ──┴── ClimbCalls ── PlaytestCalls ─┐
                                  └───────────── Qualification ──── Experiment ── MCExperiment
                      and, as values: PublicRelease over the ledger, MCReleases (Releases over
                      CharacterPrograms over Games), MCBlindTrial (BlindTrial)
    SessionLog ── Session  ──implements── ExactlyOnce
                     ├──────── MCSession
                     └──────── Arena ── MCArena            episodes
    Coordinator ── MCCoordinator
    JournalProofs (Journal and AtomicFile); over LogLemmas: WorkspaceProofs, ArenaProofs (with
    the proofs about Session), CoordinatorProofs, ExperimentProofs ── RepeatProofs, AnalysisProofs

The layers are used one on top of the other. *AtomicFile* shows that a locked replacement of a
file is whole; *Journal* then replaces its file in one step (and keeps the fsync of the directory
as a step of its own). *Journal* implements *DurableLog*; *Workspace*, *Analysis* and *Experiment*
then append in one step, with the operator `Verdict` of *JournalLog* that all use. *Experiment* and
*Coordinator* take the transactions of the Workspace as steps with keys.

A name after `Mutant:` in a module is a variant of the definition after it, with a plausible bug.
It is used by nothing in the specification; it documents which mistake each property catches.

**AtomicFile** (`workspace/io.py`). Variables are the inode behind the file's name, the inode
behind `<file>.tmp`, the bodies of inodes, the mutex, and per writer the open descriptor and what
it writes. Steps are the system calls: `OpenTemporary` (O_TRUNC creates or empties the shared
temporary), `WriteTemporary` (through the descriptor, whatever the name now means), `Replace`
(`os.replace`, which fails if another writer renamed the temporary away), `Crash`. Writers in
`Locked` hold the mutex, the others do not, because the code has both.
**ObjectStore** adds the look of `put_bytes` before it writes (`Look`), and what a returned
reference promises. One object is modelled: objects share nothing.

**Journal** (`workspace/journal.py`). `file` is what the running machine sees and `disk` what a
power loss would leave. `Read` decides under the lock with `Verdict` (the key known with the same
intent: return the event; with another: conflict; head not the expected one: conflict; else
append). `Die` is the death of a process, `PowerLoss` keeps or drops a rename whose directory was
not flushed.

**Workspace** (`workspace/workspace.py`). Three of the journals are enough for what the operations
read and write: `lineage` (under the lock), `operational` (audit events and generation events, by
both), `climb` (no lock). A transaction is `Acquire`, the `put_*` steps, the retry and head
checks of `Decide`, on a lost race the `Audit`, `AppendLineage`, `DeriveManifest`,
`WriteManifest`, `Leave`. `Collect`/`Recheck` are the two passes of `create_checkpoint` over the
heads, `PutCheckpoint` and `WriteCheckpoint` its object and its file. What a manifest says is a
function of the lengths of the journals it was derived from, so those lengths stand for it. `Crash` may come after any step. `Workspace.__init__` is `Open`, which
derives, `OpenRead`, which compares with the file, and `OpenWrite`. `Audit` is refused where the key
of a rejection was recorded for another operation or branch; that takes three writers, so the runs,
which have two, never see it, and only the proofs do.

**Session** (`runtime/runtime.py`, `runtime/model.py`). A Session History is the sequence of
events; each Command has an action with the guards of its branch in `apply_command` and the event
it appends; `Current` is the check of sender, revision and command id before them, `Answer` the
receipt. A refused Command appends nothing and leaves a refused receipt. `Fork` copies a prefix
without the receipts, as `fork_session` does. **SessionLog** holds what is read off a history
(the binding of a seat, the Phase, disclosures).

**Arena** (`simulation/environment.py`, `runner.py`, `verification.py`) adds four variables to those
of *Session*: `events` (the arena's events; one that records a call also carries what the
trajectory keeps of it: the observation, the revision before it, the Session events it caused),
`turn` (an index into `Schedule`), `submitted` and `ended` (`_termination_reason`). There is one
action per tool, and each conjoins the Session's own action, so a refusal of the Session Authority
is a refusal here. The two Commands of `submit_resolution` are two steps, `Submit` and `Record`,
and `submitted` is the call between them; nothing else of the episode can be seen there. Before a
tool come the checks of `step` in their order: whose turn (`OutOfTurn`), which tool
(`UnauthorizedTool`), then what `_execute` raises (`OutOfBounds`, `Malformed`). Each of the first
two looks at no more of the call than that, so it records one call for all. `Verifies` is
`_trace_findings` over the archive and scans it as that code does, with operators of its own;
`Rewarded` is the product of the gates of `evaluate_episode`.

**Coordinator** (`generation/coordinator.py` over `experiment/api.py` and `climb/`). The climb
journal is split by the kind of its records; `lineage` holds the moves of the branch with their
keys; `operational` the generation events; `run` is the Python stack of the call under way, and is
lost when it ends, dies or raises. Each write is a step. Model calls are `Builder`, `Review` and
`AskPanel`, then one step of `Answers` per receipt in the order of the Plan, as
`execute_model_tasks_concurrently` persists them. Every action that follows a call first finds
the records an earlier run may have left, as the code does.

**Experiment** (`experiment/api.py`, `climb/ledger.py`, `playtest/`, `experiment/efficiency.py`,
`experiment/standing.py`). Operators run scripts of calls, one or two at a time. A call that is a
command of its own begins with `Open` (a new process constructs the spine, which writes
current-standing.json from the journals it reads) and `OpenActive` (active-experiment.json, the
standing again, and the one plan there must be); then come stages. `Stage` reads the
journals, asks the drivers, and works out which records the stage registers; each record then takes
`CheckRecord` (the whole ledger is validated with it), `AppendRecord`, `Index` and, for an
efficiency event or a rung, `Project`. `Crash` may come anywhere, and the operator repeats the call
from its beginning. What a stage does is a function of the ledger, by file: **ClimbRecords** is the
records and the arithmetic of scores (`climb/model.py`, `selection.py`), **ClimbValidation** has one
predicate per kind of record of `validate_climb_bundle`, **ClimbCalls** the calls of an Experiment
and the model and human receipts under them, **PlaytestCalls** the human side (protocols, Runs,
comparisons, issued and finalized Standing), **ClimbPlanning** and **Qualification** efficiency
plans, preflights, boundaries and selected rungs. A record stands for its own id, since an id is a
digest of content.

**Analysis** (`experiment/difficulty.py`). A process goes through the twelve assignments of
`Roster`: `View` builds what the analyst is shown, `Invoke` asks the model, `Record` journals the
exposures and stores the attempt's receipt, and `Complete` or `GiveUp` ends the assignment;
then `Freeze`, the two passes over the heads (`ReadHeads`, `Recheck`) and `Claim`. Each write is a
step. **AnalysisRules** has the contracts of the assignments, what a view must be, which
outputs are valid and when a lineage is eligible (`difficulty/instrument.py`); **Evidence** the
typed objects, their closure, checkpoints, claim manifests and capsules (`workspace/evidence.py`).

**Values.** Some parts are operations on values that callers thread through, with no state of their
own. They are operators, and the MC modules next to them say what must hold over sets of inputs.
**Diagnostics**: the scheduler, suites and sealed cohorts, Atlas revisions. **Hardening**: routing
and the thirteen transitions of a demonstration. **BlindTrial**: the plan of copies, the renditions,
the trial made of them, its archive and quotes. **Games**: the Findings of the Kernel and of the
facilitated investigation, truth, claims and available evidence. **CharacterPrograms**: Dossiers, the
Findings against them, what of them is shown in a Phase and printed on a sheet. **Releases**:
freezing, compiling, loading and the projections. **PublicRelease**: the twelve gates, over the
ledger of *Experiment*.

## 3. Runs

| Run | Question | Bounds |
|---|---|---|
| `object_store_locked` | Are locked writes atomic and lasting? | 3 writers, all may crash, 2 contents, 3 inodes |
| `object_store_torn` | Does `atomic_write` replace atomically for every caller? **No** | 3 unlocked writers |
| `journal_faults` | Is `Journal.append` a durable log with idempotent keys? | 2 processes, 3 operations over 2 keys, process deaths and power loss |
| `workspace_working` | Are updates lost, repeated or wrongly refused when writers race, die and retry? Do named objects exist and projections recover; are checkpoints consistent; does the lock come free? | 3 Workspaces: 2 processes with 2 commits on one branch and 9 lineage events; 1 process that commits, merges, branches, selects, freezes and names an unknown parent over 5; 1 process with checkpoints and rebuilds beside unlocked appends of others over 3 |
| `workspace_opening` | Is the manifest current when all calls have returned? **No** | 2 processes, one only opens |
| `session_playing` | Do events follow what their sender saw; is nothing told early; one resolution? | 1 Session, 2 seats, 2 Phases, 15 requests, 6 events |
| `session_forking` | Exactly-once Commands and seats through replacements and forks? | a Session and a fork, 9 requests, 4 events each |
| `arena_playing` | Does every archive verify and account for its Session; is a resolution earned, reported and rewarded alike; does every episode end? | a host and 2 seats, 2 Phases, 3 resources, 2 theories with a path each, 19 calls, 6 steps |
| `coordinator_climbing` | Are moves authorized, rungs chained, completions earned, calls budgeted; does `run` end? | 2 judges, 2 dimensions, 2 rounds, 12 calls, crashes, driver and build failures at every step |
| `coordinator_resuming` | Can an interrupted run be resumed? **No** | one judge raises in the second round |
| `experiment_recording` | Is the ledger closed, are judges fresh and moves approved; do refused calls leave nothing, repeated ones add nothing, interrupted ones land; do plans replay? | 8 scripts of 3 to 26 calls, 2 operators in three of them, a crash at any step in four |
| `analysis_lineage` | Do analysts see only what they may; does one answer stand; are retries bounded; do claims verify? | 6 scenarios of one or two lineages of 12 assignments, 2 processes in one, a crash at any step in one, several answers of up to two assignments in each |

*Why the bounds are enough to be interesting.* Two writers and a third show every order of open,
write and rename of one temporary; the third matters only for a writer that waits while another
dies. Two journal processes with three operations give a retry of the same operation, a reuse of
its key for another one and an unrelated append; expected heads are none or the present one, read
before the lock is taken. The workspace tasks contain for each operation one that succeeds, one
that loses a race and one that names what does not exist. The Session requests are chosen so that
each Command is accepted and refused, ids are reused, and bindings end and come back: `expected`
takes every revision there is, so old snapshots are sent too. The six steps of the arena
are two rounds of host and seats, the shortest that resolve: open the Session, open a resource at
each seat, advance, share, submit. There is a call of each tool, and calls that are refused,
forbidden or malformed. The two rounds of the coordinator
give a round after a retained baseline and one after a selected child, which is where resumption
is hard; the marks make a candidate that fails, one that passes, and one between. The bound
`MaxBadBuilds` limits invalid first Blueprints to what the stop policy allows plus those of a
resumed run; `Usages` of 0 and more than the budget make tokens run out after any receipt.

The scripts of `experiment_recording` are each one line of legal and illegal calls. *climbing* is a
whole climb, with a gate that fails, a judge reused and a call repeated; *failing* has every way an
answer can break its contract, a rejected proposal and an agent's review without a receipt;
*attesting* has two panels, a Standing reviewer who has judged, one who has not, one who builds
afterwards, and signers of a release who do the same; *playing* has Runs without consent, with a
repeated cast, with people who review their own Standing; *qualifying* takes an efficiency plan from
a preflight to a formal measurement and a rung, with every call also made too early or twice. The
three with two operators are short, because every interleaving of their steps is explored:
two panels, two bindings, two observations at once. In *climbing*, *failing*, *playing* and
*qualifying* process `p1` dies once, anywhere, and repeats the call. The scenarios of
`analysis_lineage` let models fail, break the schema, cite what they were not shown and give a
different answer when asked again: at the first assignments, in the middle and at the last ones,
in one process, after a crash, and in two processes at once.

*Laws.* `DerivationLaws` of `experiment_recording` and of `analysis_lineage` state what the value
modules ensure, over the sets of inputs of MCExperiment, MCReleases, MCBlindTrial and
MCDiagnostics. They do not change, so they are evaluated in the initial states only, except that a
public release is looked at on every ledger of the script *attesting*. Inputs are edits of a sound
one, so that each rule decides somewhere alone, and combinations of those where rules interact
(budgets shared by packages; resources, reveals and grants; histories of observations).

A behaviour of *Workspace* is about one Workspace, the one its `workspace_created` event names, and
`Tasks`, `Workers`, `MaxLineage` and `MaxElsewhere` say of each id what its callers ask for, who they
are and how far it goes. It has three ids for three kinds of question, because all orders of all
tasks together are too many.

*Deadlock* is checked where a system without work can always begin another operation. It is
switched off for `workspace_working`, the Session runs, `experiment_recording` and
`analysis_lineage`, whose bounded histories and scripts really end. In the arena it is on: an episode
stops only where it has ended, and `Archive` is the step that remains.

*Two operators at once.* An Experiment is used by one operator at a time; only the journals are
protected against more. Properties that the code cannot keep when calls overlap say `~mixed` (no two
calls have been in flight at once) or `~raced` (no record was appended between the validation of
another and its append). What still holds then, that what a record names is in the ledger, is said
without it. Analysis lineages have no such premise.

*Fairness.* `AtomicFile`, `ObjectStore`, `Workspace` and `Coordinator` assume weak fairness of the
steps inside an operation: a process that is in an operation goes on, or dies, which frees its
flock (the kernel does that). Nobody is assumed to begin an operation, to open the Workspace or to
call `run` again. Waiting for a lock has weak fairness too, and no stronger: `LockComesFree` speaks
of the owner, not of the waiters, since flock promises no order. `RunsEnd`
assumes that drivers answer or raise. `Arena` assumes that the policy whose turn it is answers with
some call, as the loop of the runner waits for nothing else, and that a call that has submitted goes
on to record; a policy out of turn need not speak. `Experiment` and `Analysis` state no fairness:
their properties are about what was recorded, however far a call came.

## 4. Proofs

TLAPS checks these for all values of the constants that satisfy the named assumptions.

- **JournalProofs**, first of the journal: `TypeCorrect`, `KeyRecordedOnceHolds`, `AppendedSurvivesHolds`,
  `HistoryOnlyGrowsHolds` and `JournalImplementsDurableLog` (refinement with the file as the log
  and the length on disk as its safe part). The invariant says that the owner of the lock is the
  only one past it, that what it staged is the present file plus its event (`StagedIsCurrent`), and
  that what was answered is in both files.
- **JournalProofs**, then of the replacement of its file, assuming every writer is `Locked`. `LockedWritesAreAtomic`: readers see
  whole files and the temporary is never missing. `LockedWriteLands`: a finished call has installed
  its own bytes. Type correctness is not inductive by itself; the invariant adds that whoever is past
  the lock is the owner (`FileOwnerHolds`), that the owner's descriptor is the inode behind the temporary's
  name with the right content (`OwnTemporary`), and that this inode is never the one behind the file
  (`Apart`), which is what keeps readers away from a half-written body. (`AtomicFile` has names of its
  own for the lock, the places and the steps so that one module can state theorems of both.)
- **LogLemmas** has what the five modules below need of logs: a log is a sequence of whatever was
  appended to it, known by its length and its entries, so that no proof needs the set the entries are
  from; what `Append`, concatenation and prefixes do to it; and how a set of positions grows.
- **WorkspaceProofs**, for any processes, workers, openers, retries and crashes: `TypeCorrect`,
  `NoLostUpdate`, `OperationsHappenOnce`, `EvidenceAlwaysResolves`, `RejectionsAreAudited`,
  `OpeningAlwaysRecovers`, `CheckpointsAreConsistent`, `DoneIsNeverRejected`. The invariant adds to
  these properties what the processes know at their places: the lock is held wherever the code is
  inside it (`LockHeld`), so the manifest a transaction has read shows the present head
  (`HeadKnown`); what it will name is stored by the time it names it (`NamedIsStored`); what
  `Decide` found stays true until the append (`DecisionStands`). A worker that never crashes inside
  somebody else's work and has no neighbour is `Alone`, which is what makes a manifest current again
  at every opening. The two passes of `create_checkpoint` give consistency because the journals
  outside the lock only grow: the heads of the first pass bound those of the second (`KnowsThePast`,
  `Cuts`). The climb journal's second look is not needed for consistency, only to be current.
- **CoordinatorProofs**, for any panel, Marks, floors, budgets and drivers: `MovesAlwaysAuthorized`,
  `RungsAlwaysChain`, `CompletionIsEarned`, `CallsAlwaysBudgeted`, `CallsWithinPlan`. Nothing in
  `run()` is remembered when it dies, so the invariant has two parts. `Records` says what the journals
  prove by themselves: a Review has the decision of its receipt, a Proposal was made on what the
  round before selected, the moves of the branch alternate between approved children and returns
  to what was selected, every round but the last has its evaluation and Selection, a completed
  generation has a passing evaluation. `Run` says what each place of the call under way may take for
  granted of them: which round it is in, that the baseline and the measured Draft have the
  evaluations it found. The proof of a step is then the one record it adds, against everything the
  places before it established. `MovesAreAuthorized` alone is not inductive: a move is checked
  against a Proposal that an earlier, dead run may have made.
- **ArenaProofs**, first of the Sessions, for every game, cast and set of requests: `TypeCorrect`, `CommandsActOnWhatWasSeen`, `NothingIsToldEarly`,
  `ActorsActWhileSeated`, `LiveSessionsAreHuman`, `SessionsResolveOnce`. One invariant for all: types
  and sizes, receipts that agree with the events they name, and for each history that Phases rise,
  grants were revealed in their Phase, events of actors follow a prefix in which they are seated,
  and resolutions follow submissions. Each is proved for the event that one Command appends and for
  the prefix a fork copies. `SeatsAreSeparate` adds a second invariant, `GoodSeats`: after every event
  of a history, not only the last, each seat has one latest binding and no two of them are one
  actor's, and an id binds once. A fork may start anywhere, so the present alone is not inductive.
  `SessionImplementsExactlyOnce` maps what a Session applied after its fork point, and its receipts,
  to the abstract Session: creation and forks are stutters, an accepted Command appends its id.
- **ArenaProofs**, then of the episodes on them, for any cast, policies, seats and proof paths: `ArchivesVerify` (the verifier
  finds nothing in the archive of an honest episode, at any step of it) and `OutcomesAreEarned`.
  `TraceVerifies` scans the whole archive again and says nothing of how the next event will fit. The
  invariant is `TraceHolds`: each event fits the events before it. Its observation is the projection
  at the revision it was taken (`View`), a share is of what the sharer had opened, an inspection
  of what was disclosed, a resolution cites what was opened or told; and the calls, in their order,
  account for the Session's events one after the other (`Tiles`), except a submission that waits
  to be recorded (`Accounted`, `PendingHolds`). From the Session it needs that only the first event
  seats anybody and that what is told has been revealed (`GameHolds`). The assumptions are those of an
  episode's configuration: the cast's actors differ (`AgentCast` checks it), the answers of different
  submissions differ, a policy has some call.

- **ExperimentProofs**, for any operators, scripts and crashes: `LedgerAlwaysClosed`,
  `MovesAlwaysApproved`, `JudgesAlwaysFresh`, `QualificationAlwaysReplays`. The only assumption on
  what is called is that a call has what its signature says (`ScriptAssumption`): a create brings a
  plan with an instrument, people are Authorities. One invariant for each. `LedgerInv`: a ledger closed for good stays so when it is
  joined with more records (`ClosedForGoodJoins`), so a record that was validated against a prefix of
  the ledger (`Checked`) is still allowed when it is appended, whoever was quicker; the kinds that a
  later record can invalidate are those `raced` is about. `MovesInv`: Proposals, Reviews and
  Transitions are unique by their keys, so the Proposal and the Review that `apply` read are still the
  ones it means; what each process is about to write (its `todo`) is allowed by the ledger it read;
  the first two entries of the lineage are those of `create`. `FreshInv`: while no two calls have
  been in flight at once, whoever works is alone, and what it has left to write is at most one panel
  whose judges were apart from every panel in the ledger; its own crash leaves a ledger that the
  repeated call reads again. `EfficiencyInv`, on top of `FoundedInv` (an Experiment that any
  call but create works on has its experiment plan, so the process that repeats a call can open it),
  says three things while one operator works at a time: the operational journal replays
  (`JournalReplays`); what a process is about to append fits the journal as it is (`Recording`); and
  once a plan is recorded, active-experiment.json either says what the journal says (`Current`) or
  some process still has its projection to write or its call to repeat (`Behind`). That the state of
  a plan after one more event is the state before it, advanced by that event (`StateAdvances`), is a
  fact about a fold over a sequence; it is proved by least counterexample, with a set of natural
  numbers in place of the induction theorem. The projection between a crash and the repeated call
  may be older than the journal, so the property leaves that time out: `Experiment.__init__` writes
  it again when the process that repeats the call opens.

- **RepeatProofs**, over ExperimentProofs, for every script and any interleaving of operators and crashes:
  `RepeatsAlwaysAddNothing`. Nobody remembers that a call succeeded but the journals. `Written` is
  everything they hold; it only grows. `Done(E, call)` says of a set of what is written that it has a key for
  each record, event and Draft move that the call would write if it were made again: of a builder's
  proposal the task under its key, the two exposures, the builder's output and the Proposal; of a
  finalisation the comparison of a protocol, an evaluation and Runs that are in the ledger, with the
  reviewer who stands and the acceptance. Since all of them only ask that something is in the set, what
  is done stays done (`Lasting`). The invariant `RepeatInv` has for each result "done" that its call is
  `Done`, and for each call under way what its stages so far have left (`Reached`) and what its `todo`
  will add. The other half shows for each operation that what it computes from a ledger in
  which it is `Done`, of however many processes, is only what is keyed there (`Repeating`): `Verdict`
  then answers "existing" or a conflict, and either way no journal moves. Where several records fit what
  a call names (an evaluation by its key, a Run by its name, requirements by the text of a finding), the
  proof shows first that only one can (`Labelled`), or that any will do. `RunsAreNamed` in
  `ScriptAssumption` says that two Runs of a script with one name are one Run: the model names a Run by
  its `key`, the `run_key` `record_run` takes (`playtest/program.py:92`) and sets in the Run's content,
  where the code goes on by `run_id`, the identity of that content.
  `ExperimentsStayOpenable`, of `CreatedOpens`, the second half of `InterruptedCallsLand`: an Experiment opens
  only from a ledger with exactly one plan over a lineage with a root, and only if its operational journal
  replays. A call that is through with its stages has a plan in the ledger (`Founded`, of ExperimentProofs),
  the key of a plan is one in the ledger, the lineage is never empty under a ledger that is not, and the
  journal replays as long as one operator works at a time (`EfficiencyInv`); `OpenInv` adds that what
  was found when a call ended is still so, and that no stage of a call is the one that says it cannot be opened.
  Then what values are, for any values: no constants, no state. *Changes and Releases* -
  `NothingChangedIsCarriedOver`; `OneBundleOfEachRelease` and `CompiledReleasesLoad`, which take a bundle for a
  set of pairs of a path and its content, whose manifest has an id and a core, and names for parts of a path
  that are not empty and not ".." (`IsName`). *Blind trials* - `JudgesSeeNothingOfTheHost` compares two
  games that agree on what each seat is told (`SeatsAgree`) and in nothing else, and follows copies, containers,
  renditions and the schedule from one to the other; `PackagesLoadAsMade` shows that the paths of all the files
  of a package differ, by the word each kind of path begins with; `OneArchiveOfEachManifest`. They are about printable games (`IsPrintable`: materials do not share a
  print, what is granted is there, no seat's container bears the name of the host's) with finitely many grants.
  *Games without Findings*, read from sequences with orders that are whole numbers (`IsRead`) -
  `SoundGamesCanBeSolved`: for no single piece of evidence is on every accepted proof, and each accepted proof is
  of evidence that each cast is shown in time (`SoundProofs`, `ReachedIs`), one is left whatever is
  overlooked; and a cast that knew all of a proof in an earlier Phase would have completed it before the
  resolution (`FiniteBounds`: the least and greatest of finitely many orders). `SoundDossiersAreDiscreet`: each
  text has no Findings (`SoundTexts`), what a Program makes public, grants and keeps for the host do not overlap,
  and an Arc that is the only one of its Phase is both the one checked and the one shown (`OnlyArcs`; with two
  Arcs it does not hold, see section 5).

- **AnalysisProofs**, for any processes, applications, answers and crashes: `AnalystsAlwaysIsolated`,
  `OneAnswerAlwaysStands`, `AttemptsAlwaysBounded`, `ClaimsAlwaysStand`. What an analyst sees is built from what the run
  before it was given, which the journals do not show, so the invariant `LineageInv` follows each
  grant to its source (`GrantFits`): material the operator supplied, the frozen answer of an earlier
  assignment, a bundle of the answers of the sweeps or of the attributions, a bundle of receipts. The
  allowed categories then decide (`ContractFacts`, a table of twelve assignments), and `ViewHolds` is
  what they leave. An answer counts when the journal has it under the key of its assignment
  (`IsAnswer`); a process whose append is refused never gets to use its own, which is why a second
  process, or the same one after a crash, cannot show anybody another answer. `RunHolds` carries the
  attempts of the assignment under way with the two counters beside them (`Open`, `Answered`,
  `Spent`). The one assumption about what is supplied is `MaterialAssumption`: an object is material of
  one category and not itself analysts' work. An operator's fixture writes the category into each object
  (`stage_difficulty_live.py:92-128`); `EvidenceGrant` takes the operator's word for it, so an operator who
  supplied one object under two names would not be stopped by this code.
  A claim stands for two reasons, and `ClaimInv` has one part for each. What a checkpoint pins is how the
  journals begin (`Pins`), and journals only grow, so its prefixes verify in whatever they become and, by
  themselves, in the capsule; that the lineage was frozen before the heads were read is carried from
  `Freeze` to the claim (`Says`, `PinsFrozen`). And the closure of its roots is closed: `Closure` follows ten
  references, and no evidence nests deeper. `RunNests` counts: an
  analyst's view is at most five deep, its receipt six, the bundle of receipts seven, so the reviewer's view
  eight, its receipt nine and the lineage ten; `ClosureSteps` unfolds the ten steps. Hence `NestingAssumption`: what an
  operator supplies nests at most four deep. It belongs to the model's bound; `transitive_object_closure`
  has none.
  Then of the values that the analysis works with, for any values. `SchedulingIsOnePass`: of a finite queue of
  packages with distinct ids and vectors of one length, `GoesFirst` is transitive and total, so the scheduler's
  choice exists and is what it says; spending is within what `Affordable` found, and since budgets only shrink and
  handles are only used up, what could not be taken never can be. `SuitesStaySeparate`: an invariant of registries
  (`SuitesAreSeparate`), true of the empty one and kept by each operation; its hypothesis only says that no binding
  is `None`. `OneRevisionOfEachParent` says of any published revision, whatever its eligibility and review, that it
  has the proposed parent, keeps every class and leaves no room for another on that parent; of those that the
  code made of that very proposal, that it is promoted, has every gate and was accepted by somebody who neither
  curated nor contributed. It, `MoreEvidenceHardens` and `DemonstrationsStopAtTheFirstFault` unfold the rules of the Atlas, of `route_failure` and of the thirteen transitions, for all evidence instead of the cases of
  MCDiagnostics.

Where a set operator follows a UNION, the modules that proofs reach put the UNION in parentheses: TLC
and tlapm bind it differently, and without them a proof would be about another set than a run.

The inductive invariant of each module was checked by TLC on the instance of its run before it was
proved (that of the Arena with the 23,681 states of `arena_playing`, that of the Coordinator on the
climbing instance with 413,718, those of the Experiment, `RepeatInv`
with them, on the 96,261 states of its run, those of the Analysis on the 24,172 of `analysis_lineage`).

`TypeCorrect` of *JournalProofs* and of the Sessions (*ArenaProofs*), `HistoryOnlyGrowsHolds` and
`LiveSessionsAreHuman` are proved and no longer run: the proofs cover every instance.

What is only model-checked:

- `RefusedCallsLeaveNothing`. It holds of the scripts that are run and not of all that `ScriptAssumption`
  admits: `record_run` looks for its people before it registers them one by one
  (`playtest/program.py:309-314`), and an Authority that is in the ledger under another idempotency key
  passes that look and is refused at its own append (`climb/ledger.py:340-395`), after those before it were
  registered. In this code only `record_run` registers the three roles, so it needs an outside ledger record;
  and a call that reuses another's key for other content is refused as late.
- The first half of `InterruptedCallsLand`: that a call is not refused for ever after its crash needs, beyond
  what was done, that nobody has used its keys for something else since; a script may. (The second
  half is `ExperimentsStayOpenable`.)
- `DerivationLaws` as a whole, over the small inputs the two MC modules list. Most of its laws are now also
  theorems for all values (the last paragraphs on RepeatProofs and AnalysisProofs). Left to the runs are the
  laws of folds (histories of preflight observations), which flaw fails which gate of a public release, which
  transition finds a fault placed anywhere in a demonstration, quotes from blind packages, that a
  game compiles exactly if it is sound, and what validation does not ensure (`Unprotected`).
- All liveness: `LockComesFree`, `RunsEnd`, `EpisodeEnds` and the other leads-to properties need fairness
  and ENABLED, which TLAPS does not reason about here.

No recursive operator is used; sums, medians, replays and schedules are
folds over sets and sequences. What they compute is left to TLC, since the induction theorems of
the library take an operator as a parameter and no installed prover can instantiate one; the proofs
use folds only through what surrounds them, and where a fold mattered (the score of an evaluation,
the tokens used up) they hold whatever it returns. The exception is the state of an efficiency plan,
whose fold is unfolded step by step (`StateBegins`, `StateAdvances`).

## 5. Where the code and its documentation disagree

With a run that finds a counterexample:

1. `object_store_torn`: `put_bytes` (`workspace/store.py:133`) calls `atomic_write` without a lock;
   two puts of one object share the temporary name, and one can rename into place what the other
   has just truncated. "Replace one file atomically" does not hold for it.
2. `workspace_opening`: `Workspace.__init__` (`workspace/workspace.py:79`) replaces the manifest
   without the lock by one derived earlier; `verify()` then fails though no call was interrupted.
3. `coordinator_resuming`: `_align_selected_draft` (`generation/coordinator.py:604`) uses one
   idempotency key for every move of one Selection. After a round that kept its baseline, an
   interruption of the next round makes the move necessary again, and it is refused for ever.
   The same property fails in two more ways that the model also has: after a crash between the
   first measurement of the first child and its Selection, the baseline is taken to be the child
   ("distinct Candidates", line 848), if it failed; and an interruption after a child was applied
   can end in "resumed revision is not the current development Draft" (line 940).

Met while modelling, in the models, and without a run of their own:

- `generation/coordinator.py:327`: the first builder's context holds the remaining token budget, so
  its own receipt changes it, and a run interrupted before that Blueprint is applied asks for a
  receipt of other inputs and is refused in every later run.
- A first round that passed and was interrupted before its Selection completes in the next run with
  no Selection recorded, because `run` looks at the current Draft's last Evaluation only.
- `climb/validation.py:722`: the reviewer of an accepted Standing is compared with the people of its
  Runs by authority id. A participant registered again as a reviewer attests the Standing of their own
  play; `docs/public-release-qualification.md:30-31` asks for distinct principals.
- `release.py:255`: the independence of reviewers is checked against the judges of the Evaluations
  that the Standing names. Someone who judged the same Candidate on another panel may review or sign.
  A release that qualified no longer does when the signer's principal builds afterwards, and nothing
  refuses that Proposal.
- The ledger keeps a record under the key of its call, and validates before it appends. Two operators
  who register the same record at once under two keys leave it twice, and no later record is accepted
  by a ledger with duplicates. Two panels prepared at the same time may share a judge.
- `adapters/codex_analysis.py:260`: the Codex driver's timeout is a `subprocess.TimeoutExpired`, not
  an `AnalysisTransportError`; it is not retried, and its attempt has no receipt, although
  `docs/analysis-instrument-v1.md:304` speaks of every attempt.
- `difficulty/atlas.py:316`: `publish_atlas_revision` does not ask whether the review and the
  eligibility it is given are those of the proposal. `difficulty/hardening.py` does not bind the panels
  of a comparison, the contributors of a review or the generation's builder to the evidence beside them.
- `physical/exporter.py:521`: a container is named seat, dash, condition; two of them may get one name
  if a seat's id contains a dash. A print path that contains the word "host" makes a trial impossible.
- `narrative/characters.py:538`: of two Arcs for one Phase the last is validated and the first is
  shown (line 658), so a move for later evidence may be asked for now. A Dossier's private chronology
  is not validated, and the summaries of host-only events it names are printed on the seat's sheet;
  beliefs about host-only propositions are in the seat's projection. The library's `README.md:958-960`
  says the validator blocks host-only knowledge and future-phase moves.
- `kernel/validation.py` accepts a seat that no cast uses and no Character occupies; the game has no
  Finding and `compiler/projections.py:17` raises StopIteration when it is compiled.
- Phases whose orders leave gaps are accepted, and `advance-phase` (`runtime/runtime.py:519`) wants
  the next order. An empty list of acceptable proofs or of casts makes `narrative/validation.py:384`
  raise instead of reporting a Finding.

The four gaps of games are stated in `Unprotected` (MCReleases), as what validation does not ensure.

## 6. Abstractions

- Digests are the values they are digests of; canonical JSON is injective. References are well formed.
- Session: the contents of objectives, beliefs and snapshots are left out, as are the refusals of
  `verify_history` for histories nobody appended. A Command's text is one of a few items. The kind of an
  Actor follows from its id (`Humans`), so no two bindings give one id two kinds; an update of Character
  state names its Move, and its objective, belief and direction are left out.
- Kernel access policies in `available_evidence` follow from `narrative/validation.py:314-319`.
- Arena: tool schema v2 and rewards v2/v3. The ids of tool calls differ from call to call, as those
  of the provider adapter (`adapters/harbor_agent.py`) do. Events and observations are compared as
  values; the hash chain over them, the bytes of evidence and the texts of speech are left out. An
  observation keeps what the verifier derives again: revision, status, Phase, disclosed resources,
  inspected and shared resources, dialogue, and how many calls came before; labels, options and
  interventions in a snapshot are fixed by the Release or by those. Diagnostics of the reward and the
  experiment plan over many episodes are left out.
- Coordinator: one process at a time, as documented for `run`; a Draft and its Candidate share a
  name, and builders do not return the same Blueprint twice; authorities, exposures and
  requirements are written with fixed keys and read by no branch of the control, and are left out;
  the requirement translator is deterministic; the overall score is the weighted sum, without the
  division by the total weight; hard gates hold for every bound Candidate (`bind_package` refuses
  others). Validation of receipts against role assignments is taken to succeed.
- Experiment: a stage decides on the journals as they are when it starts; what its records contain is
  fixed then, and each is validated against the ledger of its own moment. Reading of journals, sealing
  of objects and the content of prompts are left out; a text is the set of spans it contains, a
  print the number of its pages. `Workspace.verify` is left out of `Experiment.verify`.
  `EfficiencyController.write_projection` replaces active-experiment.json and then
  current-standing.json; `Project` and `OpenActive` do both in one step, since the second file is
  written again by whoever opens next and no property relates the two.
- Analysis: an output says which version of an answer it is, whether it is complete and what it cites;
  its `id` stands for what the provider says of the response (`provider_response_id`, `usage`), which the
  receipt keeps and the structured output does not. The `request_ref` of a receipt is left out: it follows
  from the view and the earlier attempts of the assignment, and whatever names the receipt of an attempt
  names theirs. An Application says for which assignments another model or endpoint is requested than the
  Definition pins; that it names the Definition is left out, as `build_analysis_view` has refused it before.
  What the runner writes as a constant into a lineage (no denied exposures, no mutated proposal, no waived
  gate) is a constant here.
  A category of material has one object. The stores before a journal event are part of its step:
  nothing names them before the event.
- Games: identifiers are well formed and texts are not blank; a Finding is its code and what it quotes;
  a text of a Dossier is what it cites; a path of a file is the sequence of its parts.
- Public release: the stage, owner and wording of gates are left out; a version is one or it is a pin.

Not modelled:

- `experience/`, the wording and layout of sheets, prints and reports: rendering of data that the
  models have.
- `contracts/`, `blueprint.py`, `authoring.py`, `profiles/`: encoding, parsing and translation of an
  author's document into a game; the game they produce is what *Games* validates.
- `adapters/`, `narrative_game_prime`, `playtest/codex_driver.py`, `climb/drivers.py`: the boundary to
  providers and containers. What they may answer is in `Answers`, `outputs` and `Marks`.
- `stage*.py`, `examples/`: fixtures that call the parts above with fixed inputs.
- Of modelled parts: archives of whole Workspaces and migration; difficulty profiles, discovery,
  falsifiers, attribution and the operator's view, which derive reports from recorded evidence;
  tool schema v1 of the arena; the recording of a Session as a Run.

## 7. Plan

1. Files, store, journal, Workspace transactions, Session, Coordinator - done.
2. Arena over the Session operators, with the trace verifier - done, but for the experiment plan
   over episodes.
3. The climb ledger under two writers, the rules of its validation, planning - done.
4. Efficiency plans, standing, human panels and playtest programs - done.
5. The analysis instrument with its retries; scheduling, suites, Atlas, hardening - done.
6. Evidence, claims and capsules - done. Left: archives and migration of Workspaces.
7. Games, compilation, blind trials, public release - done. Left: blueprints and authoring.
8. Proofs of the file, journal, Workspace, Session, Arena, Coordinator and Analysis layers, of
   the Experiment's ledger, moves, judges, efficiency journal, repeated calls and opening, and of what
   scheduling, suites, Atlas, hardening, Releases, blind trials and games without Findings promise - done. Left:
   what interrupted and refused calls of an Experiment leave, for the scripts of which it is true.
9. Left: profiles, discovery, falsifiers and attribution as functions over recorded evidence.
