------------------------------ MODULE MCSession ------------------------------
(* Session for TLC: a game of two seats, two Phases and two resources, and   *)
(* sets of requests, each chosen for one question.                           *)
EXTENDS Session

Host == Viewer("host")
Ann == Bound("ann", "b1")
Ben == Bound("ben", "b2")
Bot == Bound("bot", "b3")

TwoCasts == {[seat \in Seats |-> IF seat = "s1" THEN [id |-> "b1", actor |-> "ann"]
                                 ELSE [id |-> "b2", actor |-> "ben"]],
             [seat \in Seats |-> [id |-> "b1", actor |-> "ann"]],
             [seat \in Seats |-> IF seat = "s1" THEN [id |-> "b1", actor |-> "ann"]
                                 ELSE [id |-> "b3", actor |-> "bot"]]}

MCReveals == {[phase |-> 1, seat |-> "s1", resource |-> "r1"],
              [phase |-> 2, seat |-> "s1", resource |-> "r2"],
              [phase |-> 2, seat |-> "s2", resource |-> "r2"]}
MCInterventions == [i \in {"help"} |-> [phase |-> 1, resources |-> {"r2"}]]
MCMoves == {[seat |-> "s1", phase |-> 1, move |-> "m1"], [seat |-> "s2", phase |-> 2, move |-> "m2"]}

Ask(id, session, action, by, args) ==
    [id |-> id, session |-> session, action |-> action, by |-> by, args |-> args, expected |-> 0]

\* One Session from its opening to its resolution.
PlayingRequests ==
    {Ask("c1", "main", "open-session", Host, NoArgs),
     Ask("c2", "main", "advance-phase", Host, [NoArgs EXCEPT !.phase = 2]),
     Ask("c3", "main", "advance-phase", Host, [NoArgs EXCEPT !.phase = 3]),
     Ask("c3", "main", "disclose-resource", Host, [NoArgs EXCEPT !.seats = {"s1", "s2"}, !.resources = {"r2"}]),
     Ask("c4", "main", "deliver-intervention", Host, [NoArgs EXCEPT !.seats = {"s2"}, !.item = "help"]),
     Ask("c5", "main", "record-exceptional-intervention", Host, [NoArgs EXCEPT !.seats = {"s1"}, !.resources = {"r2"}]),
     Ask("c6", "main", "submit-resolution", Ann, [NoArgs EXCEPT !.item = "right"]),
     Ask("c7", "main", "submit-resolution", Ben, [NoArgs EXCEPT !.item = "wrong"]),
     Ask("c8", "main", "record-resolution", Host, [NoArgs EXCEPT !.submission = 4]),
     Ask("c8", "main", "record-resolution", Host, [NoArgs EXCEPT !.submission = 5]),
     Ask("c9", "main", "add-private-note", Ann, [NoArgs EXCEPT !.item = "note"]),
     Ask("c9", "main", "request-hint", Ann, NoArgs),
     Ask("c10", "main", "request-evidence", Ben, [NoArgs EXCEPT !.item = "r2"]),
     Ask("c11", "main", "share-claim", Ben, [NoArgs EXCEPT !.item = "claim"]),
     Ask("c12", "main", "update-character-state", Ann, [NoArgs EXCEPT !.item = "m1"])}

\* A Session and a fork of it go on side by side, under the same command ids.
ForkingRequests ==
    {Ask("c1", "main", "open-session", Host, NoArgs),
     Ask("c2", "main", "submit-resolution", Ann, [NoArgs EXCEPT !.item = "right"]),
     Ask("c2", "fork", "submit-resolution", Ann, [NoArgs EXCEPT !.item = "wrong"]),
     Ask("c1", "fork", "replace-actor", Host, [NoArgs EXCEPT !.seat = "s2", !.binding = [id |-> "b3", actor |-> "bot"]]),
     Ask("c1", "main", "replace-actor", Host, [NoArgs EXCEPT !.seat = "s2", !.binding = [id |-> "b3", actor |-> "bot"]]),
     Ask("c4", "main", "replace-actor", Host, [NoArgs EXCEPT !.seat = "s1", !.binding = [id |-> "b4", actor |-> "ann"]]),
     Ask("c4", "main", "replace-actor", Host, [NoArgs EXCEPT !.seat = "s2", !.binding = [id |-> "b4", actor |-> "ann"]]),
     Ask("c5", "fork", "replace-actor", Host, [NoArgs EXCEPT !.seat = "s2", !.binding = [id |-> "b1", actor |-> "bot"]]),
     Ask("c3", "fork", "record-resolution", Host, [NoArgs EXCEPT !.submission = 3])}
=============================================================================
