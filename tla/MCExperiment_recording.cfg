CONSTANTS
    p1 = p1
    p2 = p2
    Operators = {p1, p2}
    Crashable = {p1}
    Scenarios = {"climbing", "failing", "attesting", "playing", "qualifying", "panels", "bindings",
                 "observations"}
    Script <- Selected
    MaxCrashes <- Crashes
    Unset = Unset
    None = None
    Refused = Refused
SPECIFICATION Spec
INVARIANT LedgerClosed
INVARIANT JudgesAreFresh
INVARIANT MovesAreApproved
INVARIANT RefusedCallsLeaveNothing
INVARIANT RepeatsAddNothing
INVARIANT InterruptedCallsLand
INVARIANT QualificationReplays
INVARIANT DerivationLaws
CHECK_DEADLOCK FALSE
