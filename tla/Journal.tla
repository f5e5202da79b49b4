------------------------------ MODULE Journal -------------------------------
(***************************************************************************)
(* workspace/journal.py: Journal.append by several processes on one file,  *)
(* under file_mutex of the journal's own lock file, with the durability of *)
(* io.atomic_write (AtomicFile shows that a locked replacement is whole and *)
(* installs its own bytes; here it is the step Write, and the fsync of the *)
(* directory that makes the rename itself durable is the step Sync).       *)
(* Processes may die at any step, and the machine may lose power.          *)
(***************************************************************************)
EXTENDS JournalLog, SequencesExt

CONSTANTS
    Processes,
    Operations,     \* operations that may be appended: records with key, intent
    Faults,         \* {"process", "power"}: which failures happen
    None

ASSUME ProcessesAssumption == None \notin Processes
ASSUME OperationsAssumption == Unset \notin Seq(Operations)
ASSUME FaultsAssumption == Faults \subseteq {"process", "power"}

VARIABLES
    file,           \* the journal's file as the running machine sees it
    disk,           \* the journal's file as a restart after a power loss finds it
    mutex,          \* owner of the journal's lock
    pc,
    request,        \* each process's call: operation and expected head
    staged,         \* the whole file the process is about to install
    answer,         \* how the call of each process ended, until it returns
    appended        \* prefixes whose last event was returned by the call that wrote it

vars == <<file, disk, mutex, pc, request, staged, answer, appended>>

Requests == [operation : Operations, expected : Seq(Operations) \cup {Unset}]
Answers == {"none", "appended", "existing", "idempotency_conflict", "concurrency_conflict"}

TypeOK ==
    /\ file \in Seq(Operations)
    /\ disk \in Seq(Operations)
    /\ mutex \in Processes \cup {None}
    /\ pc \in [Processes -> {"idle", "wait", "read", "write", "sync", "release"}]
    /\ request \in [Processes -> Requests \cup {None}]
    /\ \A p \in Processes : pc[p] # "idle" => request[p] \in Requests
    /\ staged \in [Processes -> Seq(Operations)]
    /\ answer \in [Processes -> Answers]
    /\ appended \subseteq Seq(Operations)

Init ==
    /\ file = << >>
    /\ disk = << >>
    /\ mutex = None
    /\ pc = [p \in Processes |-> "idle"]
    /\ request = [p \in Processes |-> None]
    /\ staged = [p \in Processes |-> << >>]
    /\ answer = [p \in Processes |-> "none"]
    /\ appended = {}

-----------------------------------------------------------------------------
\* The calls of the processes in ps are over: their local state is gone.
Forget(ps) ==
    /\ pc' = [p \in Processes |-> IF p \in ps THEN "idle" ELSE pc[p]]
    /\ request' = [p \in Processes |-> IF p \in ps THEN None ELSE request[p]]
    /\ staged' = [p \in Processes |-> IF p \in ps THEN << >> ELSE staged[p]]
    /\ answer' = [p \in Processes |-> IF p \in ps THEN "none" ELSE answer[p]]

\* A caller decides what to append; if it expects a head, it is the one it
\* read (without the lock) a moment ago.
Call(p, operation, expected) ==
    /\ pc[p] = "idle"
    /\ pc' = [pc EXCEPT ![p] = "wait"]
    /\ request' = [request EXCEPT
         ![p] = [operation |-> operation, expected |-> expected]]
    /\ UNCHANGED <<file, disk, mutex, staged, answer, appended>>

\* Mutant: the lock is taken for the replacement of the file only by its name.
AcquireAnyway(p) ==
    /\ pc[p] = "wait"
    /\ mutex' = p
    /\ pc' = [pc EXCEPT ![p] = "read"]
    /\ UNCHANGED <<file, disk, request, staged, answer, appended>>

Acquire(p) ==
    /\ pc[p] = "wait"
    /\ mutex = None
    /\ mutex' = p
    /\ pc' = [pc EXCEPT ![p] = "read"]
    /\ UNCHANGED <<file, disk, request, staged, answer, appended>>

\* events = self.read(), and what append decides from them.
Read(p) ==
    /\ pc[p] = "read"
    /\ LET operation == request[p].operation
           verdict == Verdict(file, operation, request[p].expected)
       IN IF verdict = "append"
          THEN /\ staged' = [staged EXCEPT ![p] = Append(file, operation)]
               /\ pc' = [pc EXCEPT ![p] = "write"]
               /\ UNCHANGED answer
          ELSE /\ answer' = [answer EXCEPT ![p] = verdict]
               /\ pc' = [pc EXCEPT ![p] = "release"]
               /\ UNCHANGED staged
    /\ UNCHANGED <<file, disk, mutex, request, appended>>

\* atomic_write up to os.replace.
Write(p) ==
    /\ pc[p] = "write"
    /\ file' = staged[p]
    /\ pc' = [pc EXCEPT ![p] = "sync"]
    /\ UNCHANGED <<disk, mutex, request, staged, answer, appended>>

\* Mutant: atomic_write returns without the fsync of the directory.
SyncNothing(p) ==
    /\ pc[p] = "sync"
    /\ answer' = [answer EXCEPT ![p] = "appended"]
    /\ appended' = appended \cup {staged[p]}
    /\ pc' = [pc EXCEPT ![p] = "release"]
    /\ UNCHANGED <<file, disk, mutex, request, staged>>

\* os.fsync(directory); append returns the event.
Sync(p) ==
    /\ pc[p] = "sync"
    /\ disk' = file
    /\ answer' = [answer EXCEPT ![p] = "appended"]
    /\ appended' = appended \cup {staged[p]}
    /\ pc' = [pc EXCEPT ![p] = "release"]
    /\ UNCHANGED <<file, mutex, request, staged>>

Release(p) ==
    /\ pc[p] = "release"
    /\ mutex' = None
    /\ Forget({p})
    /\ UNCHANGED <<file, disk, appended>>

\* The process dies and its flock with it.  What it renamed stays visible.
Die(p) ==
    /\ "process" \in Faults
    /\ pc[p] # "idle"
    /\ mutex' = IF mutex = p THEN None ELSE mutex
    /\ Forget({p})
    /\ UNCHANGED <<file, disk, appended>>

\* The machine stops: a rename whose directory was not flushed may or may not
\* have reached the disk.
PowerLoss ==
    /\ "power" \in Faults
    /\ file' \in {file, disk}
    /\ disk' = file'
    /\ mutex' = None
    /\ Forget(Processes)
    /\ UNCHANGED appended

Next ==
    \/ \E p \in Processes :
         \/ \E operation \in Operations, expected \in {Unset, HeadOf(file)} :
              Call(p, operation, expected)
         \/ Acquire(p)
         \/ Read(p)
         \/ Write(p)
         \/ Sync(p)
         \/ Release(p)
         \/ Die(p)
    \/ PowerLoss

Spec == Init /\ [][Next]_vars

-----------------------------------------------------------------------------
(* Properties *)

\* An idempotency key names one event, in the file and in the file a restart
\* finds, however many callers retry it at once: Journal.verify never reports
\* "repeats an idempotency key".
KeyRecordedOnce == KeysUnique(file) /\ KeysUnique(disk)

\* An event returned by the append that wrote it is never lost again, neither
\* overwritten by a concurrent writer nor taken away by a crash or power loss.
AppendedSurvives == \A e \in appended : IsPrefix(e, file) /\ IsPrefix(e, disk)

\* No running writer rewrites history: except at a power loss, the file only
\* grows, by whole events, whatever each writer had read before.
HistoryOnlyGrows ==
    [][IsPrefix(file, file') \/ (file' = disk /\ mutex' = None)]_vars

\* The journal is a durable log: locking, staging and crashes are invisible.
Durable == INSTANCE DurableLog WITH entries <- file, safe <- Len(disk)
ImplementsDurableLog == Durable!Spec
=============================================================================
