----------------------------- MODULE MCBlindTrial -----------------------------
(* Games of two seats and the host, the trials made of them, and their laws. *)
EXTENDS BlindTrial

Ada == <<"ada">>
Ben == <<"ben">>
Letter == <<"letter">>
Map == <<"map">>
Truth == <<"truth">>

Grantees == {{Host}, {Seat(Ada)}, {Seat(Ada), Seat(Ben)}, {Host, Seat(Ben)},
             {[kind |-> "viewer", id |-> <<"referee">>]}}
Game(letter, map, reveals, media, key, hostly, phrase) ==
    [resources |-> (Letter :> [media |-> "text/markdown", text |-> {"dear", "both"}]
                    @@ Map :> [media |-> media, text |-> {"north", "both"}]
                    @@ Truth :> [media |-> "text/plain", text |-> {phrase}]),
     dossiers |-> Letter :> Ada,
     policies |-> {[resource |-> Letter, grantees |-> letter],
                   [resource |-> Map, grantees |-> map],
                   [resource |-> Truth, grantees |-> {Host}]},
     reveals |-> reveals, order |-> <<"one">> :> 1 @@ <<"two">> :> 2,
     projections |-> Ada :> {key} @@ Ben :> {"seat"}, hostly |-> hostly]
Reveal(resource, seats, phase) == [resource |-> resource, seats |-> seats, phase |-> phase]
Reveals ==
    {{}, {Reveal(Letter, {Ada}, <<"two">>), Reveal(Letter, {Ada, Ben}, <<"one">>)},
     {Reveal(Map, {Ben}, <<"two">>)}}
Games ==
    {Game(letter, map, reveals, media, key, hostly, "culprit") :
        letter \in Grantees, map \in Grantees, reveals \in Reveals,
        media \in {"application/pdf", "text/plain", "image/png"}, key \in {"seat", "truth_model"},
        hostly \in {{"host"}, {"host", "map"}}}
TrialOf(game) ==
    LET physical == Export(game)
    IN IF physical = Refused THEN Refused ELSE Prepare(game, physical, {"evening"})

\* What some seat may have, and when it gets it.
Due(game) ==
    {<<p.resource, g.id, Delivery(game, p.resource, g.id)>> :
        <<p, g>> \in {pg \in game.policies \X UNION {q.grantees : q \in game.policies} :
                        pg[2] \in pg[1].grantees /\ pg[2].kind = "seat"}}
ResourcesDue(game) == {d[1] : d \in Due(game)}

\* One file dropped, one added, one changed, one under a host-only path.
Tampered(archive) ==
    {archive \ {e} : e \in archive}
    \cup {archive \cup {<<<<"trial", "note">>, Text({"hint"})>>}}
    \cup {(archive \ {e}) \cup {<<e[1], Text({"hint"})>>} : e \in archive \ {
            f \in archive : f[1] = ManifestPath}}
    \cup {(archive \ {e}) \cup {<<<<"trusted">> \o e[1], e[2]>>} : e \in archive}

\* A trial holds, of what each seat is due, the source and one checked print under
\* the seat's delivery; nothing else of the game changes it, so it says nothing of
\* what is the host's alone; its archive loads as it was made, and no other does.
TrialHolds ==
    /\ \A game \in Games :
          LET trial == TrialOf(game)
              schedule == ScheduleOf(trial)
          IN IF trial = Refused
             THEN \/ ResourcesDue(game) = {}
                  \/ game.resources[Map].media = "image/png"
                  \/ game.projections[Ada] = {"truth_model"}
                  \/ "map" \in game.hostly /\ Map \in ResourcesDue(game)
             ELSE /\ {<<c.resource, c.audience.id, c.condition>> : c \in schedule.copies} = Due(game)
                  /\ \A c \in schedule.copies, q \in {"dear", "north", "both", "culprit"} :
                        q \in game.resources[c.resource].text
                          <=> /\ QuoteStands(trial, c.material, q)
                              /\ QuoteStands(trial, c.print, q)
                  /\ \A c \in schedule.copies :
                        [audience |-> c.audience, condition |-> c.condition] \in schedule.containers
                  /\ schedule.checks = {PrintPath(r) : r \in ResourcesDue(game)}
                  /\ ~\E f \in trial.files : QuoteStands(trial, f.path, "culprit")
                  /\ TrialOf([game EXCEPT !.resources[Truth].text = {"other"},
                                          !.policies = @ \cup {[resource |-> Letter,
                                                                grantees |-> {Host}]}])
                       = trial
                  /\ Load(trial.archive, game.hostly) = trial
                  /\ \A other \in Tampered(trial.archive) : Load(other, game.hostly) = Refused
    /\ \E game \in Games : TrialOf(game) # Refused /\ Cardinality(Due(game)) = 3
=============================================================================
