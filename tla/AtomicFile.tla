----------------------------- MODULE AtomicFile -----------------------------
(***************************************************************************)
(* workspace/io.py: file_mutex and atomic_write, at the level of directory *)
(* entries and inodes.  Every writer of one file uses the same temporary   *)
(* name, path.name + ".tmp", opened with O_CREAT | O_TRUNC; the finished   *)
(* temporary is renamed over the file.  Journals and the manifest of a     *)
(* transaction are written inside file_mutex (the writers in Locked);      *)
(* ObjectStore.put_bytes and Workspace.__init__ write without it.          *)
(***************************************************************************)
EXTENDS Naturals, FiniteSets

CONSTANTS
    Writers,     \* threads and processes that write this one file
    Locked,      \* those that hold file_mutex around the write
    Contents,    \* the complete contents a writer may want the file to have
    Inodes,      \* file bodies the file system can hand out
    Empty,       \* the body of a truncated file
    Mixed,       \* a body that no single writer wrote
    Nothing,     \* no inode, no owner, no value
    Crashable    \* writers whose process may die half-way

ASSUME LockedAssumption == Locked \subseteq Writers /\ Crashable \subseteq Writers
ASSUME ContentsAssumption == Empty \notin Contents /\ Mixed \notin Contents
ASSUME NothingAssumption == Nothing \notin Inodes /\ Nothing \notin Writers

VARIABLES
    path,        \* inode the file's name refers to
    temporary,   \* inode the name <file>.tmp refers to
    content,     \* body of each inode
    fileMutex,   \* holder of file_mutex: the thread lock and the flock together
    filePc,      \* where each writer is
    descriptor,  \* inode behind the descriptor a writer has open
    value,       \* what the writer's current call writes
    outcome      \* how the writer's last call ended

atomicVars == <<path, temporary, content, fileMutex, filePc, descriptor, value, outcome>>
fileVars == <<path, temporary, content>>

PC == {"idle", "wait", "look", "open", "write", "replace", "release"}
Outcomes == {"none", "ok", "missing", "corrupt"}

FileTypeOK ==
    /\ path \in Inodes \cup {Nothing}
    /\ temporary \in Inodes \cup {Nothing}
    /\ content \in [Inodes -> Contents \cup {Empty, Mixed}]
    /\ fileMutex \in Writers \cup {Nothing}
    /\ filePc \in [Writers -> PC]
    /\ descriptor \in [Writers -> Inodes \cup {Nothing}]
    /\ value \in [Writers -> Contents \cup {Nothing}]
    /\ \A w \in Writers : filePc[w] # "idle" => value[w] \in Contents
    /\ outcome \in [Writers -> Outcomes]

FileInit ==
    /\ path = Nothing
    /\ temporary = Nothing
    /\ content = [i \in Inodes |-> Empty]
    /\ fileMutex = Nothing
    /\ filePc = [w \in Writers |-> "idle"]
    /\ descriptor = [w \in Writers |-> Nothing]
    /\ value = [w \in Writers |-> Nothing]
    /\ outcome = [w \in Writers |-> "none"]

-----------------------------------------------------------------------------

\* A writer is called with the bytes to store; `entry` is the first step of
\* the write proper (atomic_write itself, or the look of put_bytes).
Begin(w, v, entry) ==
    /\ filePc[w] = "idle"
    /\ filePc' = [filePc EXCEPT ![w] = IF w \in Locked THEN "wait" ELSE entry]
    /\ value' = [value EXCEPT ![w] = v]
    /\ outcome' = [outcome EXCEPT ![w] = "none"]
    /\ UNCHANGED <<fileVars, fileMutex, descriptor>>

\* Mutant: the mutex file is opened but flock is never called.
LockFileUnguarded(w, entry) ==
    /\ filePc[w] = "wait"
    /\ fileMutex' = w
    /\ filePc' = [filePc EXCEPT ![w] = entry]
    /\ UNCHANGED <<fileVars, descriptor, value, outcome>>

\* file_mutex: the in-process lock of the path and flock(LOCK_EX) on it.
LockFile(w, entry) ==
    /\ filePc[w] = "wait"
    /\ fileMutex = Nothing
    /\ fileMutex' = w
    /\ filePc' = [filePc EXCEPT ![w] = entry]
    /\ UNCHANGED <<fileVars, descriptor, value, outcome>>

\* An inode nothing refers to can back a newly created name.
Free(i) ==
    /\ i \notin {path, temporary}
    /\ \A w \in Writers : descriptor[w] # i

\* Mutant: the file itself is opened and truncated, not a temporary.
OpenInPlace(w) ==
    /\ filePc[w] = "open"
    /\ \E i \in Inodes :
         /\ IF path # Nothing THEN i = path ELSE Free(i)
         /\ path' = i
         /\ content' = [content EXCEPT ![i] = Empty]
         /\ temporary' = i
         /\ descriptor' = [descriptor EXCEPT ![w] = i]
    /\ filePc' = [filePc EXCEPT ![w] = "write"]
    /\ UNCHANGED <<fileMutex, value, outcome>>

\* os.open(temporary, O_WRONLY | O_CREAT | O_TRUNC): an existing temporary,
\* another writer's included, is truncated and shared.
OpenTemporary(w) ==
    /\ filePc[w] = "open"
    /\ \E i \in Inodes :
         /\ IF temporary # Nothing THEN i = temporary ELSE Free(i)
         /\ temporary' = i
         /\ content' = [content EXCEPT ![i] = Empty]
         /\ descriptor' = [descriptor EXCEPT ![w] = i]
    /\ filePc' = [filePc EXCEPT ![w] = "write"]
    /\ UNCHANGED <<path, fileMutex, value, outcome>>

\* Writing v from offset 0 over a body another writer has filled mixes both.
Overlay(old, v) == IF old \in {Empty, v} THEN {v} ELSE {v, Mixed}

\* stream.write, flush, fsync, os.close: the bytes go to the open inode,
\* whatever name it has by now.
WriteTemporary(w) ==
    /\ filePc[w] = "write"
    /\ \E b \in Overlay(content[descriptor[w]], value[w]) :
         content' = [content EXCEPT ![descriptor[w]] = b]
    /\ descriptor' = [descriptor EXCEPT ![w] = Nothing]
    /\ filePc' = [filePc EXCEPT ![w] = "replace"]
    /\ UNCHANGED <<path, temporary, fileMutex, value, outcome>>

AfterWrite(w) == IF w \in Locked THEN "release" ELSE "idle"

\* os.replace(temporary, path): FileNotFoundError when another writer has
\* renamed the shared temporary away.
Replace(w) ==
    /\ filePc[w] = "replace"
    /\ IF temporary = Nothing
       THEN /\ outcome' = [outcome EXCEPT ![w] = "missing"]
            /\ UNCHANGED <<path, temporary>>
       ELSE /\ path' = temporary
            /\ temporary' = Nothing
            /\ outcome' = [outcome EXCEPT ![w] = "ok"]
    /\ filePc' = [filePc EXCEPT ![w] = AfterWrite(w)]
    /\ UNCHANGED <<content, fileMutex, descriptor, value>>

UnlockFile(w) ==
    /\ filePc[w] = "release"
    /\ fileMutex' = Nothing
    /\ filePc' = [filePc EXCEPT ![w] = "idle"]
    /\ UNCHANGED <<fileVars, descriptor, value, outcome>>

\* The process dies: the kernel closes its descriptors and drops its flock;
\* the temporary it leaves behind stays.
Crash(w) ==
    /\ w \in Crashable
    /\ filePc[w] # "idle"
    /\ filePc' = [filePc EXCEPT ![w] = "idle"]
    /\ fileMutex' = IF fileMutex = w THEN Nothing ELSE fileMutex
    /\ descriptor' = [descriptor EXCEPT ![w] = Nothing]
    /\ UNCHANGED <<fileVars, value, outcome>>

FileStep(w) == OpenTemporary(w) \/ WriteTemporary(w) \/ Replace(w) \/ UnlockFile(w)

FileNext ==
    \E w \in Writers :
        \/ \E v \in Contents : Begin(w, v, "open")
        \/ LockFile(w, "open")
        \/ FileStep(w)
        \/ Crash(w)

\* A running process goes on with its write; only the call itself and the
\* crash are left to the environment.
FileSpec ==
    /\ FileInit
    /\ [][FileNext]_atomicVars
    /\ \A w \in Writers : WF_atomicVars(FileStep(w))

-----------------------------------------------------------------------------
(* Properties *)

\* Whoever reads the file, at any time, finds bytes that one call of
\* atomic_write wrote whole ("Replace one file atomically after flushing its
\* content"), never the truncated or half-filled temporary.
ReadersSeeWhole == path # Nothing => content[path] \in Contents

\* A call that returns without an error has installed its own bytes, not the
\* ones another writer left under the shared temporary name.
WriteLands ==
    [][\A w \in Writers :
         filePc[w] = "replace" /\ outcome'[w] = "ok" => content'[path'] = value[w]]_atomicVars

\* The rename of a writer inside file_mutex always finds its temporary.
TemporaryIsThere == \A w \in Writers : outcome[w] # "missing"
=============================================================================
