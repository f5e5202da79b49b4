CONSTANTS
    SessionIds = {"main"}
    Seats = {"s1", "s2"}
    Actors = {"ann", "ben", "bot"}
    Humans = {"ann", "ben"}
    Hosts = {"host"}
    BindingIds = {"b1", "b2", "b3", "b4"}
    Phases = {1, 2}
    ResolutionPhase = 2
    Resources = {"r1", "r2"}
    Propositions = {"claim"}
    Items = {"r1", "r2", "claim", "help", "m1", "m2", "right", "wrong", "correct", "incorrect", "note"}
    Casts <- TwoCasts
    Reveals <- MCReveals
    Interventions <- MCInterventions
    Moves <- MCMoves
    Answers = {"right", "wrong"}
    Correct = {"right"}
    Requests <- PlayingRequests
    MaxSequence = 6
    MaxRefusals = 1
    None = None
SPECIFICATION Spec
CHECK_DEADLOCK FALSE
INVARIANTS AcceptedOnWhatWasSeen NothingEarly ResolvedOnce
