----------------------------- MODULE JournalLog -----------------------------
(***************************************************************************)
(* workspace/journal.py: what a journal's file says and what Journal.append *)
(* decides about it.  A file is the sequence of the operations it records;  *)
(* each operation carries its idempotency key and its other intent fields   *)
(* (event_type, actor, payload, object_refs).  The sequence number,          *)
(* previous_hash and event_hash of an event are functions of what precedes  *)
(* it: event_hash digests previous_hash, so two events have one hash only   *)
(* when everything up to them is equal.  The head hash of a journal is       *)
(* therefore modelled by the whole sequence, and None by the empty one.     *)
(***************************************************************************)
EXTENDS Sequences, Naturals

CONSTANT Unset        \* append's default expected_head: no expectation

\* Journal.head: the hash of the last event.
HeadOf(log) == log

HasKey(log, key) == \E i \in DOMAIN log : log[i].key = key

\* Journal.event_for_key: the first event recorded under the key.
EventForKey(log, key) ==
    log[CHOOSE i \in DOMAIN log :
          /\ log[i].key = key
          /\ \A j \in DOMAIN log : log[j].key = key => i <= j]

\* Mutant: a retried key is not looked up.
VerdictIgnoringKey(log, operation, expected) ==
    IF expected # Unset /\ expected # HeadOf(log) THEN "concurrency_conflict"
    ELSE "append"

\* Journal.append under its lock: an exact retry returns the recorded event, a
\* key that names another operation is refused, then a stale expected head.
Verdict(log, operation, expected) ==
    IF HasKey(log, operation.key)
    THEN IF EventForKey(log, operation.key) = operation
         THEN "existing" ELSE "idempotency_conflict"
    ELSE IF expected # Unset /\ expected # HeadOf(log)
         THEN "concurrency_conflict"
         ELSE "append"

\* Journal.verify, the part a file written by append could fail: no key twice.
KeysUnique(log) == \A i, j \in DOMAIN log : log[i].key = log[j].key => i = j
=============================================================================
