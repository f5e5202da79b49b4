----------------------------- MODULE ExactlyOnce ------------------------------
(***************************************************************************)
(* What Session Authority promises its callers, whatever they repeat,      *)
(* reorder or send twice: in each Session a request gets one answer for    *)
(* ever, and a command id is applied at most once.                         *)
(***************************************************************************)
EXTENDS Sequences

CONSTANTS SessionIds, Requests

VARIABLES
    applied,    \* the ids of the commands that took effect, in order
    answers     \* set of [request, accepted]

Init ==
    /\ applied = [s \in SessionIds |-> << >>]
    /\ answers = [s \in SessionIds |-> {}]

Unanswered(s, request) == \A a \in answers[s] : a.request # request

Accept(s, request) ==
    /\ Unanswered(s, request)
    /\ \A a \in answers[s] : a.request.id # request.id
    /\ applied' = [applied EXCEPT ![s] = Append(@, request.id)]
    /\ answers' = [answers EXCEPT ![s] = @ \cup {[request |-> request, accepted |-> TRUE]}]

Refuse(s, request) ==
    /\ Unanswered(s, request)
    /\ answers' = [answers EXCEPT ![s] = @ \cup {[request |-> request, accepted |-> FALSE]}]
    /\ UNCHANGED applied

Next == \E s \in SessionIds, request \in Requests : Accept(s, request) \/ Refuse(s, request)

Spec == Init /\ [][Next]_<<applied, answers>>
=============================================================================
