------------------------------- MODULE MCArena -------------------------------
(* Arena for TLC: two Seats, two Phases, three resources, two theories.      *)
EXTENDS Arena

MCCast == [seat \in Seats |-> IF seat = "s1" THEN [id |-> "b1", actor |-> "ann"]
                              ELSE [id |-> "b2", actor |-> "ben"]]
OneCast == {MCCast}
MCOrder == <<"s1", "s2">>
MCReveals == {[phase |-> 1, seat |-> "s1", resource |-> "r1"],
              [phase |-> 1, seat |-> "s2", resource |-> "r2"],
              [phase |-> 2, seat |-> "s1", resource |-> "r3"]}
MCInterventions == [i \in {"help"} |-> [phase |-> 1, resources |-> {"r1"}]]
MCMoves == {[seat |-> "s1", phase |-> 1, move |-> "m1"]}
MCPaths == <<[hypothesis |-> "theft", resources |-> {"r1", "r2"}],
             [hypothesis |-> "fraud", resources |-> {"r2"}]>>
MCSubmissions ==
    [answer \in Hypotheses \X DOMAIN MCPaths |->
       IF answer[1] = "theft" THEN <<"theft1", "theft2">>[answer[2]] ELSE <<"fraud1", "fraud2">>[answer[2]]]

Ask(tool, args) ==
    [tool |-> tool, args |-> args, hypothesis |-> None, cited |-> {}, malformed |-> FALSE]
About(tool, item) == Ask(tool, [NoArgs EXCEPT !.item = item])
Answering(hypothesis, cited) ==
    [Ask("submit_resolution", NoArgs) EXCEPT !.hypothesis = hypothesis, !.cited = cited]

MCCalls ==
    {Ask("open_session", NoArgs),
     Ask("advance_phase", [NoArgs EXCEPT !.phase = 2]),
     Ask("disclose_resource", [NoArgs EXCEPT !.seats = {"s1"}, !.resources = {"r3"}]),
     Ask("deliver_intervention", [NoArgs EXCEPT !.seats = {"s1"}, !.item = "help"]),
     Ask("broadcast", NoArgs),
     About("end_session", "safety_failure"),
     About("inspect_evidence", "r1"), About("inspect_evidence", "r2"),
     About("share_evidence", "r1"),
     Ask("say", NoArgs),
     Ask("message", [NoArgs EXCEPT !.seat = "s2"]),
     About("request_evidence", "r3"), Ask("request_hint", NoArgs), About("share_claim", "claim"),
     About("update_character_state", "m1"),
     Answering("theft", {"r1", "r2"}), Answering("theft", {"r2"}), Answering(None, {"r2"}),
     [Ask("say", NoArgs) EXCEPT !.malformed = TRUE]}
=============================================================================
