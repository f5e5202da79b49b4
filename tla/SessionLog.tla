----------------------------- MODULE SessionLog ------------------------------
(***************************************************************************)
(* runtime/runtime.py, replay: what a Session History says.  The state of  *)
(* a Session is nothing but a reading of its event log.  A Phase is named  *)
(* by its order.                                                           *)
(***************************************************************************)
EXTENDS Integers, Sequences

CONSTANTS
    Seats,
    Actors,
    BindingIds,
    Phases,         \* the orders of the game's Phases
    Reveals,        \* who may get which resource from which Phase on
    None

Binding == [id : BindingIds, actor : Actors]
Grant == [seat : Seats, resource : STRING]

ASSUME PhasesAssumption ==
    Phases \subseteq Int /\ \E opening \in Phases : \A phase \in Phases : opening <= phase
ASSUME RevealsAssumption == Reveals \subseteq [phase : Phases, seat : Seats, resource : STRING]

\* The authority a command comes with: a viewer, or an actor under a binding.
Viewer(principal) == [kind |-> "viewer", principal |-> principal, binding |-> None]
Bound(actor, binding) == [kind |-> "actor", principal |-> actor, binding |-> binding]

\* state["phase_id"]: every event says in which Phase it happened, and the one
\* that advances the Phase says the new one.
PhaseOf(log) == log[Len(log)].phase

\* state["status"]: a Session is opened while created and resolved while active.
StatusOf(log) ==
    CASE \E i \in DOMAIN log : log[i].type = "resolution-recorded" -> "resolved"
      [] \A i \in DOMAIN log : log[i].type \notin {"session-opened", "resolution-recorded"} -> "created"
      [] OTHER -> "active"

\* The last event that put an actor into the seat.
SeatedAt(log, seat) ==
    CHOOSE i \in DOMAIN log :
        /\ seat \in DOMAIN log[i].bindings
        /\ \A j \in DOMAIN log : seat \in DOMAIN log[j].bindings => j <= i

\* state["bindings"]
BindingOf(log, seat) == log[SeatedAt(log, seat)].bindings[seat]

\* The ids in state["binding_history"].
BindingIdsIn(log) ==
    UNION {{log[i].bindings[seat].id : seat \in DOMAIN log[i].bindings} : i \in DOMAIN log}

\* Mutant: a binding in the binding history is good enough.
SeatsEverOf(log, by) ==
    IF by.kind # "actor" THEN {}
    ELSE {seat \in Seats : \E i \in DOMAIN log :
            /\ seat \in DOMAIN log[i].bindings
            /\ log[i].bindings[seat] = [id |-> by.binding, actor |-> by.principal]}

\* _actor_binding: the seats the authority controls now (there is at most one).
SeatsOf(log, by) ==
    IF by.kind # "actor" THEN {}
    ELSE {seat \in Seats : /\ BindingOf(log, seat).id = by.binding
                           /\ BindingOf(log, seat).actor = by.principal}

\* state["disclosures"]
DisclosedTo(log, seat) ==
    {grant.resource : grant \in
        {g \in UNION {log[i].grants : i \in DOMAIN log} : g.seat = seat}}

\* Mutant: a disclosure only checks that the seat may get the resource some day.
RevealedEver(phase, grant) ==
    \E reveal \in Reveals : reveal.seat = grant.seat /\ reveal.resource = grant.resource

\* A Reveal at this Phase or before covers the pair (available_evidence, _disclosures).
Revealed(phase, grant) ==
    \E reveal \in Reveals :
        /\ reveal.phase <= phase
        /\ reveal.seat = grant.seat
        /\ reveal.resource = grant.resource
=============================================================================
