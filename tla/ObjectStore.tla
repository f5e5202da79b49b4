---------------------------- MODULE ObjectStore -----------------------------
(***************************************************************************)
(* workspace/store.py: ObjectStore.put_bytes beside the plain atomic_write *)
(* of journals and manifests.  The path of an object is its digest, so     *)
(* every writer of it wants the same bytes; put_bytes first looks whether  *)
(* the path exists, and otherwise calls atomic_write.  The store takes no  *)
(* lock of its own: the writers in Locked are the ones that call it inside *)
(* a Workspace transaction.                                                *)
(***************************************************************************)
EXTENDS AtomicFile

VARIABLE object     \* the bytes whose digest names the path, or Nothing for a plain file

putVars == <<atomicVars, object>>

PutInit == FileInit /\ object \in Contents \cup {Nothing}

Entry == IF object = Nothing THEN "open" ELSE "look"
Values == IF object = Nothing THEN Contents ELSE {object}

\* put_bytes: an existing file is compared with the value, byte for byte.
Look(w) ==
    /\ filePc[w] = "look"
    /\ IF path = Nothing
       THEN /\ filePc' = [filePc EXCEPT ![w] = "open"]
            /\ UNCHANGED outcome
       ELSE /\ filePc' = [filePc EXCEPT ![w] = AfterWrite(w)]
            /\ outcome' = [outcome EXCEPT
                 ![w] = IF content[path] = value[w] THEN "ok" ELSE "corrupt"]
    /\ UNCHANGED <<fileVars, fileMutex, descriptor, value>>

PutStep(w) == (Look(w) \/ FileStep(w)) /\ UNCHANGED object

PutNext ==
    \E w \in Writers :
        \/ /\ \/ \E v \in Values : Begin(w, v, Entry)
              \/ LockFile(w, Entry)
              \/ Crash(w)
           /\ UNCHANGED object
        \/ PutStep(w)

\* A running process goes on with its call; only the call itself and the crash
\* are left to the environment.
PutSpec == PutInit /\ [][PutNext]_putVars /\ \A w \in Writers : WF_putVars(PutStep(w))

-----------------------------------------------------------------------------
(* Properties *)

\* "Replace one file atomically": whoever reads an object finds it whole, also
\* when its writers hold no lock.
ObjectReadersSeeWhole == object # Nothing => ReadersSeeWhole
=============================================================================
