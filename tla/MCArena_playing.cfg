CONSTANTS
    SessionIds = {"table"}
    Seats = {"s1", "s2"}
    Actors = {"ann", "ben"}
    Humans = {}
    Hosts = {"host"}
    BindingIds = {"b1", "b2"}
    Phases = {1, 2}
    ResolutionPhase = 2
    Resources = {"r1", "r2", "r3"}
    Propositions = {"claim"}
    Items = {"r1", "r2", "r3", "claim", "m1", "help", "theft1", "theft2", "fraud1", "fraud2", "safety_failure", "correct", "incorrect"}
    Casts <- OneCast
    Reveals <- MCReveals
    Interventions <- MCInterventions
    Moves <- MCMoves
    Answers = {"theft1", "theft2", "fraud1", "fraud2"}
    Correct = {"theft1"}
    Requests = {}
    MaxSequence = 20
    MaxRefusals = 20
    Table = "table"
    Host = "host"
    Cast <- MCCast
    SeatOrder <- MCOrder
    Dossiers = {"s1"}
    PrivateMessages = TRUE
    MaxSteps = 6
    Hypotheses = {"theft", "fraud"}
    ProofPaths <- MCPaths
    Submissions <- MCSubmissions
    Calls <- MCCalls
    None = None
SPECIFICATION Episode
INVARIANTS TraceVerifies OutcomeEarned
PROPERTIES EpisodeEnds
