----------------------------- MODULE DurableLog -----------------------------
(***************************************************************************)
(* What a Workspace journal promises, without locks, processes or files:    *)
(* one log that only grows by operations with new keys, a prefix of which   *)
(* is safe; a power failure may take away only what is not yet safe.        *)
(***************************************************************************)
EXTENDS Naturals, Sequences

CONSTANT Operations      \* records with a key

VARIABLES
    entries,             \* the operations recorded so far, in order
    safe                 \* how many of them no failure takes away

Init == entries = << >> /\ safe = 0

Fresh(operation) == \A i \in 1..Len(entries) : entries[i].key # operation.key

Record(operation) ==
    /\ Fresh(operation)
    /\ entries' = Append(entries, operation)
    /\ UNCHANGED safe

Secure ==
    /\ safe' = Len(entries)
    /\ UNCHANGED entries

Lose ==
    /\ entries' = SubSeq(entries, 1, safe)
    /\ UNCHANGED safe

Next == (\E operation \in Operations : Record(operation)) \/ Secure \/ Lose

Spec == Init /\ [][Next]_<<entries, safe>>
=============================================================================
