-------------------------- MODULE CoordinatorProofs --------------------------
(* What run() guarantees for any panel, budget and policy, however often it   *)
(* is interrupted: who moved the branch, how rungs follow one another, and    *)
(* what a completed generation means.                                         *)
EXTENDS Coordinator, LogLemmas, FiniteSetTheorems

-----------------------------------------------------------------------------
(* The records *)

Builds == {"initial", "revision"} \X (Nat \ {0})
Rev(n) == <<"revision", n>>
Count == Len(selections)

\* The Draft of the brief, and the one round n starts from.
FirstDraft == lineage[1].to
StartedAt(n) == IF n = 1 THEN FirstDraft ELSE selections[n - 1].selected

RecordsFormed ==
    /\ DOMAIN run = DOMAIN Idle
    /\ IsLog(lineage) /\ IsLog(evaluations) /\ IsLog(selections)
    /\ \A p \in proposals : p = [stage |-> p.stage, parent |-> p.parent]

Finite == IsFiniteSet(operational) /\ IsFiniteSet(receipts)

KeysDiffer == \A r, s \in receipts : r.key = s.key => r = s

\* A Review says what the receipt of the reviewer says.
ReviewsHold ==
    \A v \in reviews : <<"reviewer", v.stage>> \in Keys(receipts) /\ v.decision = Decision(v.stage)

\* A revision is proposed for the next round, on what the last one selected.
ProposalsHold ==
    \A p \in proposals :
        \/ Initial(p.stage) /\ p.parent = Brief
        \/ evaluations # << >> /\ \E n \in 1..(Count + 1) : p.stage = Rev(n) /\ p.parent = StartedAt(n)

\* The first move is to a first Draft, and before a Selection there is at most the
\* one of the first round.
LineageHolds ==
    /\ \A i \in DOMAIN lineage : lineage[i].to \in Builds
    /\ lineage # << >> => lineage[1].key = <<"apply", FirstDraft>> /\ Initial(FirstDraft)
    /\ Count = 0 => Len(lineage) <= 1 \/ (Len(lineage) = 2 /\ Current = Rev(1))
    /\ evaluations = << >> => Count = 0 /\ Len(lineage) <= 1
    /\ evaluations # << >> => lineage # << >>

\* The first Evaluation is of the first Draft, the others are of a round: of its
\* child, or of what it started from when the branch was moved back in between.
EvaluationsHold ==
    /\ evaluations # << >> => evaluations[1].round = 0 /\ evaluations[1].candidate = FirstDraft
    /\ \A i \in DOMAIN evaluations : i > 1 =>
          \E n \in 1..(Count + 1) :
              /\ evaluations[i].round = n
              /\ evaluations[i].candidate \in {Rev(n), StartedAt(n)}
              /\ n = 1 => evaluations[i].candidate = Rev(1)

\* What is selected was measured, and is the first Draft or a child of an earlier round.
SelectionsHold ==
    \A n \in DOMAIN selections :
        /\ Measured(selections[n].selected) # {} /\ selections[n].selected \in Builds
        /\ Initial(selections[n].selected) \/ \E m \in 1..n : selections[n].selected = Rev(m)

\* Who climbs has failed first.
FirstFails == Len(lineage) >= 2 \/ Count >= 1 => ~Passes(evaluations[1])

Completed == \E e \in operational : e[1] = "completed"
CompletedHolds ==
    \A e \in operational : e[1] = "completed" =>
        /\ Current = e[2] /\ Selected = e[2]
        /\ Measured(e[2]) # {} /\ Passes(Latest(e[2]))

Records ==
    /\ RecordsFormed /\ Finite /\ KeysDiffer /\ ReviewsHold /\ ProposalsHold /\ LineageHolds
    /\ EvaluationsHold /\ SelectionsHold /\ FirstFails /\ CompletedHolds
    /\ MovesAreAuthorized /\ RungsChain

-----------------------------------------------------------------------------
(* The run *)

\* Where the run is, or is going when the answers have come.
Place == IF At("answers") THEN run.then ELSE run.at

Proposing == {"builder", "built"}
Reviewing == {"review", "reviewed", "decided", "apply", "transition"}
Building == {"build", "bind event", "measure"}
Judging == {"panel", "judged"}
Aligning == {"align", "aligned"}
Finishing == {"measured", "select"}
Working == Proposing \cup Reviewing \cup Building \cup Judging \cup Finishing

Drafting == Initial(run.stage)
Revising == Revision(run.stage)
Standing == run.stage = Brief
InRound == Revising /\ Place \in Working

\* What is asked is what is missing.
AnswersHold ==
    /\ ~At("answers") => run.pending = {}
    /\ At("answers") =>
        /\ \/ run.then = "built" /\ run.asked = <<<<"builder", run.stage>>>>
           \/ run.then = "reviewed" /\ run.asked = <<<<"reviewer", run.stage>>>>
           \/ run.then = "judged" /\ run.asked = PanelKeys(run.round)
        /\ run.pending \subseteq DOMAIN run.asked
        /\ \A i \in run.pending : run.asked[i] \notin Keys(receipts)
        /\ ~run.failed => \A i \in DOMAIN run.asked \ run.pending : run.asked[i] \in Keys(receipts)

ReceiptsHold ==
    /\ At("built") => <<"builder", run.stage>> \in Keys(receipts)
    /\ At("reviewed") => <<"reviewer", run.stage>> \in Keys(receipts)
    /\ At("judged") => \A i \in DOMAIN Panel : PanelKeys(run.round)[i] \in Keys(receipts)

StageHolds ==
    /\ Place \in Proposing \cup Reviewing \cup {"applied"} => run.stage \in Builds
    /\ Place \in Building \cup Judging \cup Finishing => Standing \/ (run.stage \in Builds /\ Revising)
    /\ Place = "select" => ~Standing
    /\ Place = "applied" => Drafting
    /\ Place \in {"outcome", "complete"} => Standing
    /\ Place \in Reviewing => \E p \in proposals : p.stage = run.stage
    /\ Place = "apply" => [stage |-> run.stage, decision |-> "approved"] \in reviews

\* A first Blueprint is built on the brief.
DraftingHolds ==
    Drafting /\ Place \in (Proposing \cup Reviewing) \ {"transition"} => lineage = << >>

\* A round starts from the Draft and an Evaluation of what was selected; its child
\* is current once it is applied, unless the branch was moved back in between.
RoundHolds ==
    InRound =>
        /\ run.round = Count + 1 /\ run.stage = Rev(Count + 1)
        /\ evaluations # << >> /\ ~Completed
        /\ run.baseline \in Range(evaluations)
        /\ Count = 0 => /\ run.baseline.candidate \in {FirstDraft, Rev(1)}
                        /\ ~Passes(evaluations[1])
                        /\ Place \notin (Proposing \cup Reviewing) \ {"transition"} => Current = Rev(1)
        /\ Count >= 1 => /\ run.baseline.candidate = Selected
                         /\ Current \in {Selected, Rev(Count + 1)}
        /\ Place \notin Proposing => \E p \in proposals : p.stage = run.stage
        /\ Place \in Finishing => run.measured \in Range(evaluations) /\ run.measured.round = run.round

Climbing == Place \in {"climb", "rung"} \/ (Place \in Aligning /\ run.then \in {"climb", "rung"})
Ending == Place = "rung" \/ (Place \in Aligning /\ run.then = "rung")
ClimbingHolds ==
    /\ Place \in Aligning => run.then \in {"draft", "climb", "rung"}
    /\ Climbing => ~Completed /\ evaluations # << >> /\ ~Passes(evaluations[1])
    /\ Ending => Count >= 1

\* Past the alignment with the last Selection.
AlignmentHolds ==
    /\ Count >= 1
    /\ Place \in Working \cup {"aligned", "draft", "climb", "rung", "applied", "outcome", "complete"}
    /\ ~InRound
    => Current = Selected

\* No Draft is measured on its own but the one run() started from.
StandingHolds ==
    Standing /\ Place \in Building \cup Judging \cup {"measured", "outcome", "complete"} =>
        /\ lineage # << >>
        /\ Count = 0 => run.started = Current
        /\ Place \in Judging \cup {"measured"} => Count = 0 /\ run.round = 0
        /\ Place \in Judging => Measured(Current) = {}
        /\ Place \in {"measured", "outcome"} =>
              \/ Measured(Current) # {} /\ run.measured = Latest(Current)
              \/ /\ Count = 0 /\ Measured(Current) = {} /\ evaluations # << >>
                 /\ run.measured = evaluations[1] /\ ~Passes(evaluations[1])
        /\ Place = "complete" => Measured(Current) # {} /\ Passes(Latest(Current))

\* A panel is asked once.
PanelHolds == Place = "judged" => Evaluated(run.round) = {}

Run ==
    /\ AnswersHold /\ ReceiptsHold /\ StageHolds /\ DraftingHolds /\ RoundHolds
    /\ ClimbingHolds /\ AlignmentHolds /\ StandingHolds /\ PanelHolds

IInv == Records /\ Run

-----------------------------------------------------------------------------
(* What steps leave alone *)

\* The records the invariant is about stay.
Still ==
    /\ UNCHANGED <<receipts, proposals, reviews, lineage, evaluations, selections>>
    /\ {e \in operational' : e[1] = "completed"} = {e \in operational : e[1] = "completed"}

\* What was found out in a run.
Fields == <<run.stage, run.round, run.baseline, run.measured, run.started>>

LEMMA StillFrame ==
    ASSUME Still
    PROVE  /\ Current' = Current /\ Selected' = Selected /\ Count' = Count
           /\ FirstDraft' = FirstDraft
           /\ Measured(Current)' = Measured(Current) /\ Latest(Current)' = Latest(Current)
           /\ Completed' = Completed /\ Keys(receipts)' = Keys(receipts)
<1>1. /\ Current' = Current /\ Selected' = Selected /\ Count' = Count
      /\ FirstDraft' = FirstDraft /\ Keys(receipts)' = Keys(receipts)
  BY DEF Still, Current, Selected, Count, FirstDraft, Keys
<1>2. Measured(Current)' = Measured(Current)
  BY <1>1 DEF Still, Measured
<1>3. Latest(Current)' = Latest(Current)
  BY <1>2 DEF Still, Latest
<1>4. Completed' = Completed
  BY DEF Still, Completed
<1>5. QED
  BY <1>1, <1>2, <1>3, <1>4

LEMMA EventStill ==
    ASSUME UNCHANGED <<climb, lineage>>, NEW type, NEW key, type # "completed", Event(type, key)
    PROVE  Still
BY DEF climb, Event, Still

LEMMA NoEventStill ==
    ASSUME UNCHANGED <<climb, lineage, operational>>
    PROVE  Still
BY DEF climb, Still

\* A run that stops or ends promises nothing.
LEMMA Leaving ==
    ASSUME run'.at \in {"idle", "stop"}, run'.pending = {}
    PROVE  Run'
<1>1. Place' = run'.at /\ ~At("answers")'
  BY DEF Place, At
<1>2. (AnswersHold /\ ReceiptsHold)'
  BY <1>1 DEF AnswersHold, ReceiptsHold, At
<1>3. (StageHolds /\ DraftingHolds /\ PanelHolds /\ StandingHolds /\ ClimbingHolds)'
  BY <1>1 DEF StageHolds, DraftingHolds, PanelHolds, StandingHolds, ClimbingHolds, Climbing, Ending,
     Aligning, Proposing, Reviewing, Building, Judging, Finishing
<1>4. (RoundHolds /\ AlignmentHolds)'
  BY <1>1 DEF RoundHolds, AlignmentHolds, InRound, Working, Proposing, Reviewing, Building, Judging, Finishing
<1>5. QED
  BY <1>2, <1>3, <1>4 DEF Run

LEMMA Ended ==
    ASSUME NEW result, Ends(result)
    PROVE  run'.at = "idle" /\ run'.pending = {} /\ DOMAIN run' = DOMAIN Idle
BY DEF Ends, Idle

LEMMA StopsStill ==
    ASSUME NEW reason, Stop(reason), IInv, ~At("answers")
    PROVE  Still /\ Run' /\ DOMAIN run' = DOMAIN Idle
<1>1. run' = [run EXCEPT !.at = "stop", !.then = reason] /\ Still
  BY NoEventStill DEF Stop, GotoThen
<1>2. run'.at = "stop" /\ run'.pending = run.pending /\ DOMAIN run' = DOMAIN Idle
  BY <1>1 DEF IInv, Records, RecordsFormed, Idle
<1>3. run.pending = {}
  BY DEF IInv, Run, AnswersHold
<1>4. QED
  BY <1>1, <1>2, <1>3, Leaving

LEMMA RaisesStill ==
    ASSUME NEW result, Raise(result)
    PROVE  Still /\ Run' /\ DOMAIN run' = DOMAIN Idle
<1>1. Still /\ Ends(result)
  BY NoEventStill DEF Raise
<1>2. QED
  BY <1>1, Ended, Leaving

\* The frame of a step that only moves on.
LEMMA GoesOn ==
    ASSUME IInv, Still, run'.pending = {}, run'.at # "answers", Place' = run'.at,
           NEW p, Place = p, Fields' = Fields
    PROVE  (Drafting' <=> Drafting) /\ (Revising' <=> Revising) /\ (Standing' <=> Standing)
BY DEF Fields, Drafting, Revising, Standing, Initial, Revision

-----------------------------------------------------------------------------
(* The run, step by step.  The names of places are spelled out from here on. *)

USE DEF At, Place, Working, Aligning, Proposing, Reviewing, Building, Judging, Finishing,
        Drafting, Revising, Standing, InRound, Climbing, Ending, Initial, Revision, Rev, Brief

LEMMA Modes ==
    /\ Standing => ~Drafting /\ ~Revising
    /\ Drafting => ~Revising
OBVIOUS

\* A step to another place that finds out nothing.
Lands(place) ==
    /\ Still /\ run'.at = place /\ run'.then = run.then /\ Fields' = Fields
    /\ run'.pending = {} /\ DOMAIN run' = DOMAIN Idle

LEMMA GotoLands ==
    ASSUME IInv, Still, ~At("answers"), NEW place, Goto(place)
    PROVE  Lands(place)
BY DEF Lands, Goto, IInv, Records, RecordsFormed, Run, AnswersHold, Idle, Fields

\* Steps that go on with what the run knows, and what each adds to it.
Onward(from, to) ==
    \/ from = "builder" /\ to = "built" /\ <<"builder", run.stage>> \in Keys(receipts)
    \/ from = "review" /\ to = "reviewed" /\ <<"reviewer", run.stage>> \in Keys(receipts)
    \/ from = "decided" /\ to = "apply" /\ [stage |-> run.stage, decision |-> "approved"] \in reviews
    \/ from = "apply" /\ to \in {"transition", "build"} /\ Revising /\ (Count = 0 => Current = Rev(1))
    \/ from = "transition" /\ to = "applied" /\ Drafting
    \/ from = "transition" /\ to = "build" /\ Revising
    \/ from = "applied" /\ to = "draft"
    \/ from = "build" /\ to \in {"build", "bind event", "measure"}
    \/ from = "bind event" /\ to = "measure"
    \/ from = "measured" /\ to = "outcome" /\ Standing
    \/ from = "measured" /\ to = "select" /\ ~Standing
    \/ from = "outcome" /\ to = "complete" /\ Passes(run.measured)

LEMMA GoingOn ==
    ASSUME IInv, NEW from, NEW to, run.at = from, from # "answers", Lands(to), Onward(from, to)
    PROVE  Run'
<1>1. /\ run'.at = to /\ to # "answers" /\ run'.pending = {} /\ run'.then = run.then
      /\ run'.stage = run.stage /\ run'.round = run.round /\ run'.baseline = run.baseline
      /\ run'.measured = run.measured /\ run'.started = run.started
      /\ UNCHANGED <<reviews, proposals, evaluations, lineage>>
  BY DEF Lands, Still, Fields, Onward
<1>2. Still
  BY DEF Lands
<1>3. /\ Current' = Current /\ Selected' = Selected /\ Count' = Count
      /\ Measured(Current)' = Measured(Current)
  BY <1>2, StillFrame
<1>4. (Drafting' <=> Drafting) /\ (Revising' <=> Revising) /\ (Standing' <=> Standing)
  BY <1>1
<1>5. AnswersHold' /\ PanelHolds'
  BY <1>1 DEF AnswersHold, PanelHolds, Onward
<1>6. ReceiptsHold'
  BY <1>1, <1>2, StillFrame DEF ReceiptsHold, Onward
<1>7. StageHolds'
  BY <1>1 DEF IInv, Run, StageHolds, Onward
<1>8. DraftingHolds'
  BY <1>1 DEF IInv, Run, DraftingHolds, Onward
<1>9. RoundHolds'
  BY <1>1, <1>2, StillFrame DEF IInv, Run, RoundHolds, Onward
<1>10. ClimbingHolds'
  BY <1>1 DEF ClimbingHolds, Onward
<1>11. AlignmentHolds'
  <2>1. Count >= 1 /\ to \in Working \cup {"applied", "draft", "outcome", "complete"} /\ ~(Revising /\ to \in Working)
        => Current = Selected
    BY Modes DEF IInv, Run, StageHolds, AlignmentHolds, Onward
  <2>2. QED
    BY <1>1, <1>3, <2>1 DEF AlignmentHolds, Onward
<1>12. StandingHolds'
  <2>1. CASE to = "complete"
    <3>1. Standing /\ StandingHolds /\ Passes(run.measured) /\ run.at = "outcome"
      BY <2>1 DEF IInv, Run, StageHolds, Onward
    <3>2. /\ lineage # << >> /\ (Count = 0 => run.started = Current)
          /\ Measured(Current) # {} /\ Passes(Latest(Current))
      BY <3>1 DEF StandingHolds
    <3>3. QED
      BY <1>1, <1>2, <2>1, <3>2, StillFrame DEF StandingHolds
  <2>2. CASE to = "outcome"
    <3>1. Standing /\ StandingHolds /\ run.at = "measured"
      BY <2>2 DEF IInv, Run, StageHolds, Onward
    <3>3. QED
      BY <1>1, <1>2, <2>2, <3>1, StillFrame DEF StandingHolds
  <2>3. CASE to \notin {"outcome", "complete"}
    <3>1. Standing /\ to \in Building \cup Judging \cup {"measured"} =>
             /\ StandingHolds /\ to \in Building /\ run.at \in Building
      BY <2>3, Modes DEF IInv, Run, StandingHolds, Onward
    <3>2. QED
      BY <1>1, <1>3, <2>3, <3>1 DEF StandingHolds
  <2>4. QED
    BY <2>1, <2>2, <2>3
<1>13. QED
  BY <1>5, <1>6, <1>7, <1>8, <1>9, <1>10, <1>11, <1>12 DEF Run

Settled == Still /\ Run' /\ DOMAIN run' = DOMAIN Idle

\* Every step that leaves the records as they are keeps what holds of the run.
LEMMA Goes ==
    ASSUME IInv, NEW from, NEW to, At(from), from # "answers", Still, Goto(to), Onward(from, to)
    PROVE  Settled
<1>1. Lands(to)
  BY GotoLands
<1>2. QED
  BY <1>1, GoingOn DEF Settled, Lands

LEMMA BeginSettled == ASSUME IInv, Begin PROVE Settled
<1>1. /\ Still /\ run'.at = "align" /\ run'.then = "draft" /\ run'.pending = {} /\ run'.stage = Brief
      /\ DOMAIN run' = DOMAIN Idle
  BY NoEventStill DEF Begin, Idle
<1>2. Run'
  BY <1>1 DEF Run, AnswersHold, ReceiptsHold, StageHolds, DraftingHolds, RoundHolds, ClimbingHolds,
     AlignmentHolds, StandingHolds, PanelHolds
<1>3. QED
  BY <1>1, <1>2 DEF Settled

\* Steps that end the run or stop it.
LEMMA EndsSettled ==
    ASSUME IInv,
           Interrupt \/ Stopped \/ InvalidRevision \/ OverspentBuild \/ ReviewStopped \/ BuildFails
           \/ InvalidJudgement
    PROVE  Settled
<1>1. CASE \E result : Raise(result)
  BY <1>1, RaisesStill DEF Settled
<1>2. CASE Stopped
  <2>1. Still /\ Ends("stopped")
    BY <1>2, EventStill DEF Stopped
  <2>2. QED
    BY <2>1, Ended, Leaving DEF Settled
<1>3. CASE ~At("answers") /\ \E reason : Stop(reason)
  BY <1>3, StopsStill DEF Settled
<1>4. QED
  BY <1>1, <1>2, <1>3 DEF Interrupt, InvalidRevision, OverspentBuild, ReviewStopped, BuildFails, InvalidJudgement

\* Steps that go on with what the run knows.
LEMMA MovesSettled ==
    ASSUME IInv,
           Decided \/ ResumeApplied \/ RecordTransition \/ InitialApplied \/ AlreadyBuilt
           \/ Materialize \/ Bind \/ BindEvent \/ MeasuredEvent
    PROVE  Settled
<1>1. CASE Decided
  <2>1. CASE [stage |-> run.stage, decision |-> "approved"] \in reviews
    BY <1>1, <2>1, NoEventStill, Goes DEF Decided, Onward
  <2>2. CASE [stage |-> run.stage, decision |-> "approved"] \notin reviews
    BY <1>1, <2>2, StopsStill DEF Decided, Settled
  <2>3. QED
    BY <2>1, <2>2
<1>2. CASE ResumeApplied
  <2>1. CASE Current = run.stage
    <3>1. Revising /\ At("apply")
      BY <1>2 DEF ResumeApplied
    <3>2. Count = 0 => Current = Rev(1)
      BY <2>1, <3>1 DEF IInv, Run, RoundHolds
    <3>3. QED
      BY <1>2, <2>1, <3>1, <3>2, NoEventStill, Goes DEF ResumeApplied, Onward
  <2>2. CASE Current # run.stage
    BY <1>2, <2>2, RaisesStill DEF ResumeApplied, Settled
  <2>3. QED
    BY <2>1, <2>2
<1>3. CASE RecordTransition
  <2>1. Still /\ At("transition") /\ run.stage \in Builds
    BY <1>3 DEF RecordTransition, Still, IInv, Run, StageHolds
  <2>2. Drafting \/ Revising
    BY <2>1 DEF Builds
  <2>3. CASE Drafting
    BY <1>3, <2>1, <2>3, Goes DEF RecordTransition, Onward
  <2>4. CASE ~Drafting /\ Revising
    BY <1>3, <2>1, <2>4, Goes DEF RecordTransition, Onward
  <2>5. QED
    BY <2>2, <2>3, <2>4
<1>4. CASE InitialApplied
  BY <1>4, EventStill, Goes DEF InitialApplied, Onward
<1>5. CASE AlreadyBuilt
  BY <1>5, NoEventStill, Goes DEF AlreadyBuilt, Onward
<1>6. CASE Materialize
  <2>1. Still /\ run' = run /\ At("build")
    BY <1>6, EventStill DEF Materialize
  <2>2. Lands("build")
    BY <2>1 DEF Lands, Fields, IInv, Run, AnswersHold, Records, RecordsFormed
  <2>3. QED
    BY <2>1, <2>2, GoingOn DEF Onward, Lands, Settled
<1>7. CASE Bind
  <2>1. Still /\ At("build") /\ Goto("bind event")
    BY <1>7 DEF Bind, Still
  <2>2. QED
    BY <2>1, Goes DEF Onward
<1>8. CASE BindEvent
  BY <1>8, EventStill, Goes DEF BindEvent, Onward
<1>9. CASE MeasuredEvent
  <2>1. CASE Overspent
    BY <1>9, <2>1, StopsStill DEF MeasuredEvent, Settled
  <2>2. CASE ~Overspent /\ Standing
    BY <1>9, <2>2, EventStill, Goes DEF MeasuredEvent, Onward
  <2>3. CASE ~Overspent /\ ~Standing
    BY <1>9, <2>3, EventStill, Goes DEF MeasuredEvent, Onward
  <2>4. QED
    BY <2>1, <2>2, <2>3
<1>10. QED
  BY <1>1, <1>2, <1>3, <1>4, <1>5, <1>6, <1>7, <1>8, <1>9

\* Alignment goes where it was asked to go.
LEMMA ReturnSettled ==
    ASSUME IInv, At("align") \/ At("aligned"), Still, Return, Current = Selected
    PROVE  Settled
<1>1. /\ run'.at = run.then /\ run'.then = run.then /\ run'.pending = {} /\ DOMAIN run' = DOMAIN Idle
      /\ run'.stage = run.stage /\ run'.measured = run.measured
      /\ run.then \in {"draft", "climb", "rung"}
  BY DEF Return, IInv, Records, RecordsFormed, Run, AnswersHold, ClimbingHolds, Idle
<1>2. /\ Current' = Current /\ Selected' = Selected /\ Count' = Count /\ Completed' = Completed
      /\ evaluations' = evaluations
  BY StillFrame DEF Still
<1>3. /\ AnswersHold' /\ ReceiptsHold' /\ StageHolds' /\ DraftingHolds' /\ RoundHolds'
      /\ StandingHolds' /\ PanelHolds'
  BY <1>1 DEF AnswersHold, ReceiptsHold, StageHolds, DraftingHolds, RoundHolds, StandingHolds, PanelHolds
<1>4. ClimbingHolds' /\ AlignmentHolds'
  BY <1>1, <1>2 DEF ClimbingHolds, AlignmentHolds, IInv, Run
<1>5. QED
  BY <1>1, <1>3, <1>4 DEF Run, Settled

LEMMA AlignSettled == ASSUME IInv, Align \/ AlignEvent PROVE Settled
<1>1. CASE Align
  BY <1>1, NoEventStill, ReturnSettled DEF Align, Aligned
<1>2. CASE AlignEvent
  <2>1. At("aligned") /\ Return /\ Still
    BY <1>2, EventStill DEF AlignEvent
  <2>2. Count >= 1 => Current = Selected
    BY <2>1 DEF IInv, Run, AlignmentHolds
  <2>3. Count < 1 => Current = Selected
    BY LogFacts DEF IInv, Records, RecordsFormed, Selected, Count
  <2>4. QED
    BY <2>1, <2>2, <2>3, ReturnSettled, LogFacts DEF IInv, Records, RecordsFormed, Count
<1>3. QED
  BY <1>1, <1>2

\* The Draft of the brief is current while no move was made.
LEMMA AtBrief == ASSUME Records, Current = Brief PROVE lineage = << >>
<1>1. SUFFICES ASSUME lineage # << >> PROVE FALSE
  OBVIOUS
<1>2. Current \in Builds
  BY <1>1, LogFacts DEF Current, Last, Records, RecordsFormed, LineageHolds
<1>3. QED
  BY <1>2 DEF Builds

LEMMA DraftSettled == ASSUME IInv, Draft PROVE Settled
<1>1. Still /\ At("draft") /\ run.pending = {} /\ DOMAIN run = DOMAIN Idle
  BY NoEventStill DEF Draft, IInv, Run, AnswersHold, Records, RecordsFormed
<1>2. /\ Current' = Current /\ Selected' = Selected /\ Count' = Count /\ lineage' = lineage
  BY <1>1, StillFrame DEF Still
<1>3. Count >= 1 => Current = Selected
  BY <1>1 DEF IInv, Run, AlignmentHolds
<1>4. CASE Current = Brief
  <2>1. /\ run'.at = "builder" /\ run'.stage = <<"initial", Attempt>> /\ run'.pending = {}
        /\ DOMAIN run' = DOMAIN Idle
    BY <1>1, <1>4 DEF Draft, Idle
  <2>2. lineage = << >> /\ Attempt \in Nat \ {0}
    <3>1. IsFiniteSet({e \in operational : e[1] = "invalid"})
      BY FS_Subset DEF IInv, Records, Finite
    <3>2. Cardinality({e \in operational : e[1] = "invalid"}) \in Nat
      BY <3>1, FS_CardinalityType
    <3>3. QED
      BY <1>4, <3>2, AtBrief DEF IInv, Attempt
  <2>3. /\ AnswersHold' /\ ReceiptsHold' /\ StageHolds' /\ ClimbingHolds' /\ PanelHolds'
        /\ DraftingHolds' /\ RoundHolds' /\ StandingHolds'
    BY <1>2, <2>1, <2>2 DEF AnswersHold, ReceiptsHold, StageHolds, ClimbingHolds, PanelHolds,
       DraftingHolds, RoundHolds, StandingHolds, Builds
  <2>4. AlignmentHolds'
    BY <1>2, <1>3, <2>1 DEF AlignmentHolds
  <2>5. QED
    BY <1>1, <2>1, <2>3, <2>4 DEF Run, Settled
<1>5. CASE Current # Brief
  <2>1. /\ run'.at = "build" /\ run'.stage = Brief /\ run'.started = Current /\ run'.pending = {}
        /\ DOMAIN run' = DOMAIN Idle
    BY <1>1, <1>5 DEF Draft, Idle
  <2>2. lineage # << >>
    BY <1>5 DEF Current
  <2>3. /\ AnswersHold' /\ ReceiptsHold' /\ StageHolds' /\ ClimbingHolds' /\ PanelHolds'
        /\ DraftingHolds' /\ RoundHolds'
    BY <2>1 DEF AnswersHold, ReceiptsHold, StageHolds, ClimbingHolds, PanelHolds, DraftingHolds, RoundHolds
  <2>4. AlignmentHolds' /\ StandingHolds'
    BY <1>2, <1>3, <2>1, <2>2 DEF AlignmentHolds, StandingHolds
  <2>5. QED
    BY <1>1, <2>1, <2>3, <2>4 DEF Run, Settled
<1>6. QED
  BY <1>4, <1>5

\* The Evaluations of a Candidate, and the last one.
LEMMA LatestFacts ==
    ASSUME RecordsFormed, NEW candidate, Measured(candidate) # {}
    PROVE  Latest(candidate) \in Range(evaluations) /\ Latest(candidate).candidate = candidate
<1>1. Measured(candidate) \in SUBSET (1..Len(evaluations)) /\ Len(evaluations) \in Nat
  BY LogFacts DEF Measured, RecordsFormed
<1>2. Max(Measured(candidate)) \in Measured(candidate)
  BY <1>1, LargestIndex
<1>3. QED
  BY <1>2 DEF Latest, Measured, Range

LEMMA ClimbSettled == ASSUME IInv, Climb PROVE Settled
<1>1. CASE Count + 1 > MaxRounds
  BY <1>1, StopsStill DEF Climb, Count, Settled
<1>2. CASE ~(Count + 1 > MaxRounds)
  <2>1. Still /\ At("climb") /\ run.pending = {} /\ DOMAIN run = DOMAIN Idle /\ RecordsFormed
    BY <1>2, NoEventStill DEF Climb, Count, IInv, Run, AnswersHold, Records, RecordsFormed
  <2>2. /\ run'.at = "builder" /\ run'.stage = Rev(Count + 1) /\ run'.round = Count + 1
        /\ run'.baseline = Baseline /\ run'.pending = {} /\ DOMAIN run' = DOMAIN Idle
    BY <1>2, <2>1 DEF Climb, Count, Idle
  <2>3. /\ Current' = Current /\ Selected' = Selected /\ Count' = Count /\ FirstDraft' = FirstDraft
        /\ Completed' = Completed /\ evaluations' = evaluations
    BY <2>1, StillFrame DEF Still
  <2>4. /\ Count >= 1 => Current = Selected
        /\ ~Completed /\ evaluations # << >> /\ ~Passes(evaluations[1]) /\ Count \in Nat
    BY <2>1, LogFacts DEF IInv, Run, AlignmentHolds, ClimbingHolds, RecordsFormed, Count
  <2>5. Count = 0 => Baseline \in Range(evaluations) /\ Baseline.candidate \in {FirstDraft, Rev(1)}
    <3> SUFFICES ASSUME Count = 0 PROVE Baseline \in Range(evaluations) /\ Baseline.candidate \in {FirstDraft, Rev(1)}
      OBVIOUS
    <3>1. Baseline = Last(evaluations)
      BY <2>1, LogFacts DEF Baseline, Count, RecordsFormed
    <3>2. /\ Len(evaluations) \in DOMAIN evaluations /\ Baseline = evaluations[Len(evaluations)]
          /\ Len(evaluations) \in Nat
      BY <2>1, <2>4, <3>1, LogFacts DEF RecordsFormed, Last
    <3>3. CASE Len(evaluations) = 1
      BY <2>4, <3>2, <3>3 DEF IInv, Records, EvaluationsHold, Range
    <3>4. CASE Len(evaluations) > 1
      <4>1. PICK n \in 1..(Count + 1) :
               /\ evaluations[Len(evaluations)].candidate \in {Rev(n), StartedAt(n)}
               /\ n = 1 => evaluations[Len(evaluations)].candidate = Rev(1)
        BY <3>2, <3>4 DEF IInv, Records, EvaluationsHold
      <4>2. n = 1
        BY <2>4
      <4>3. QED
        BY <3>2, <4>1, <4>2 DEF Range
    <3>5. Len(evaluations) = 1 \/ Len(evaluations) > 1
      <4>1. Len(evaluations) \in Nat /\ Len(evaluations) >= 1
        BY <2>1, <2>4, LogFacts DEF RecordsFormed
      <4>2. QED
        BY <4>1
    <3>6. QED
      BY <3>3, <3>4, <3>5
  <2>6. Count >= 1 => Baseline \in Range(evaluations) /\ Baseline.candidate = Selected
    <3> SUFFICES ASSUME Count >= 1 PROVE Baseline \in Range(evaluations) /\ Baseline.candidate = Selected
      OBVIOUS
    <3>1. Baseline = Latest(Selected) /\ Selected = selections[Len(selections)].selected
          /\ Len(selections) \in DOMAIN selections
      BY <2>1, LogFacts DEF Baseline, Count, RecordsFormed, Selected, Last
    <3>2. Measured(Selected) # {}
      BY <3>1 DEF IInv, Records, SelectionsHold
    <3>3. QED
      BY <2>1, <3>1, <3>2, LatestFacts
  <2>7. Baseline \in Range(evaluations)
    BY <2>4, <2>5, <2>6
  <2>8. /\ AnswersHold' /\ ReceiptsHold' /\ StageHolds' /\ ClimbingHolds' /\ PanelHolds'
        /\ DraftingHolds' /\ StandingHolds' /\ AlignmentHolds'
    BY <2>2, <2>4 DEF AnswersHold, ReceiptsHold, StageHolds, ClimbingHolds, PanelHolds, DraftingHolds,
       StandingHolds, AlignmentHolds, Builds
  <2>9. RoundHolds'
    BY <2>2, <2>3, <2>4, <2>5, <2>6, <2>7 DEF RoundHolds
  <2>10. QED
    BY <2>1, <2>2, <2>8, <2>9 DEF Run, Settled
<1>3. QED
  BY <1>1, <1>2

\* A call of the drivers waits for what has no receipt.
LEMMA InvokeHolds ==
    ASSUME Still, DOMAIN run = DOMAIN Idle, NEW keys, NEW then, Invoke(keys, then)
    PROVE  /\ run'.at = "answers" /\ run'.then = then /\ run'.asked = keys
           /\ run'.failed = FALSE /\ Fields' = Fields /\ DOMAIN run' = DOMAIN Idle
           /\ run'.pending \subseteq DOMAIN keys
           /\ \A i \in run'.pending : keys[i] \notin Keys(receipts)'
           /\ \A i \in DOMAIN keys \ run'.pending : keys[i] \in Keys(receipts)'
<1>1. Keys(receipts)' = Keys(receipts)
  BY StillFrame
<1>2. QED
  BY <1>1 DEF Invoke, Missing, Fields, Idle

LEMMA TaskSettled ==
    ASSUME IInv, NEW from, NEW role, NEW then,
           \/ from = "builder" /\ role = "builder" /\ then = "built"
           \/ from = "review" /\ role = "reviewer" /\ then = "reviewed",
           At(from), ModelTask(<<role, run.stage>>, then)
    PROVE  Settled
<1> DEFINE key == <<role, run.stage>>
<1>1. Still /\ DOMAIN run = DOMAIN Idle
  BY NoEventStill DEF ModelTask, IInv, Records, RecordsFormed
<1>2. CASE \E result : Ends(result)
  BY <1>1, <1>2, Ended, Leaving DEF Settled
<1>3. CASE key \in Keys(receipts) /\ Goto(then)
  BY <1>1, <1>3, Goes DEF Onward
<1>4. CASE GotoThen("stop", "budget")
  <2>1. run'.at = "stop" /\ run'.pending = run.pending /\ DOMAIN run' = DOMAIN Idle /\ run.pending = {}
    BY <1>1, <1>4 DEF GotoThen, IInv, Run, AnswersHold, Idle
  <2>2. QED
    BY <1>1, <2>1, Leaving DEF Settled
<1>5. CASE Invoke(<<key>>, then)
  <2>1. /\ run'.at = "answers" /\ run'.then = then /\ run'.asked = <<key>>
        /\ run'.failed = FALSE /\ Fields' = Fields /\ DOMAIN run' = DOMAIN Idle
        /\ run'.pending \subseteq DOMAIN <<key>>
        /\ \A i \in run'.pending : <<key>>[i] \notin Keys(receipts)'
        /\ \A i \in DOMAIN <<key>> \ run'.pending : <<key>>[i] \in Keys(receipts)'
    BY <1>1, <1>5, InvokeHolds
  <2>2. /\ run'.stage = run.stage /\ run'.round = run.round /\ run'.baseline = run.baseline
        /\ run'.measured = run.measured /\ run'.started = run.started
    BY <2>1 DEF Fields
  <2>3. /\ Current' = Current /\ Selected' = Selected /\ Count' = Count /\ FirstDraft' = FirstDraft
        /\ Completed' = Completed /\ evaluations' = evaluations /\ lineage' = lineage
        /\ proposals' = proposals
    BY <1>1, StillFrame DEF Still
  <2>4. AnswersHold' /\ ReceiptsHold' /\ PanelHolds'
    BY <2>1, <2>2 DEF AnswersHold, ReceiptsHold, PanelHolds
  <2>5. StageHolds' /\ DraftingHolds' /\ ClimbingHolds'
    BY <2>1, <2>2, <2>3 DEF IInv, Run, StageHolds, DraftingHolds, ClimbingHolds
  <2>6. RoundHolds'
    BY <2>1, <2>2, <2>3 DEF IInv, Run, RoundHolds
  <2>7. AlignmentHolds' /\ StandingHolds'
    BY <2>1, <2>2, <2>3 DEF IInv, Run, AlignmentHolds, StandingHolds
  <2>8. QED
    BY <1>1, <2>1, <2>4, <2>5, <2>6, <2>7 DEF Run, Settled
<1>6. QED
  BY <1>2, <1>3, <1>4, <1>5 DEF ModelTask

LEMMA TasksSettled == ASSUME IInv, Builder \/ Review PROVE Settled
BY TaskSettled DEF Builder, Review

\* Awaiting answers is being where they are awaited for.
LEMMA AwaitingHolds ==
    ASSUME IInv, At("answers"), Fields' = Fields, Place' = run.then, DOMAIN run' = DOMAIN Idle,
           UNCHANGED <<proposals, reviews, lineage, evaluations, selections, operational>>,
           run'.then = run.then
    PROVE  (StageHolds /\ DraftingHolds /\ RoundHolds /\ ClimbingHolds /\ AlignmentHolds
            /\ StandingHolds /\ PanelHolds)'
<1>1. run.then \in {"built", "reviewed", "judged"}
  BY DEF IInv, Run, AnswersHold
<1>2. /\ run'.stage = run.stage /\ run'.round = run.round /\ run'.baseline = run.baseline
      /\ run'.measured = run.measured /\ run'.started = run.started
  BY DEF Fields
<1>3. /\ Current' = Current /\ Selected' = Selected /\ Count' = Count /\ FirstDraft' = FirstDraft
      /\ Completed' = Completed
  BY DEF Current, Selected, Count, FirstDraft, Completed
<1>4. Measured(Current)' = Measured(Current) /\ Evaluated(run.round)' = Evaluated(run.round)
  BY <1>2, <1>3 DEF Measured, Evaluated
<1>5. StageHolds' /\ DraftingHolds' /\ ClimbingHolds'
  BY <1>1, <1>2, <1>3 DEF IInv, Run, StageHolds, DraftingHolds, ClimbingHolds
<1>6. RoundHolds'
  BY <1>1, <1>2, <1>3 DEF IInv, Run, RoundHolds
<1>7. AlignmentHolds' /\ StandingHolds' /\ PanelHolds'
  BY <1>1, <1>2, <1>3, <1>4 DEF IInv, Run, AlignmentHolds, StandingHolds, PanelHolds
<1>8. QED
  BY <1>5, <1>6, <1>7

\* What is awaited next.
LEMMA AwaitedFacts ==
    ASSUME IInv, At("answers"), run.pending # {}
    PROVE  /\ Min(run.pending) \in run.pending /\ Min(run.pending) \in DOMAIN run.asked
           /\ Awaited = run.asked[Min(run.pending)] /\ Awaited \notin Keys(receipts)
           /\ Received = run.pending \ {Min(run.pending)}
           /\ \A i \in DOMAIN run.asked : run.asked[i] = Awaited => i = Min(run.pending)
<1>1. run.pending \subseteq DOMAIN run.asked /\ \A i \in run.pending : run.asked[i] \notin Keys(receipts)
  BY DEF IInv, Run, AnswersHold
<1>2. \E n \in Nat : DOMAIN run.asked = 1..n
  <2>1. DOMAIN Panel = 1..Len(Panel) /\ Len(Panel) \in Nat
    BY PanelAssumption, LenProperties
  <2>2. DOMAIN PanelKeys(run.round) = DOMAIN Panel
    BY DEF PanelKeys
  <2>3. \A x : DOMAIN <<x>> = 1..1
    OBVIOUS
  <2>4. QED
    BY <2>1, <2>2, <2>3 DEF IInv, Run, AnswersHold
<1>3. Min(run.pending) \in run.pending
  BY <1>1, <1>2, SmallestIndex
<1>4. \A i, j \in DOMAIN run.asked : run.asked[i] = run.asked[j] => i = j
  <2>1. \A i, j \in DOMAIN PanelKeys(run.round) :
          PanelKeys(run.round)[i] = PanelKeys(run.round)[j] => i = j
    BY PanelAssumption DEF PanelKeys, IsInjective
  <2>2. \A x : \A i, j \in DOMAIN <<x>> : i = j
    OBVIOUS
  <2>3. QED
    BY <2>1, <2>2 DEF IInv, Run, AnswersHold
<1>5. QED
  BY <1>1, <1>3, <1>4 DEF Awaited, Received

LEMMA AnswersSettled ==
    ASSUME IInv, Answers, receipts' = receipts
    PROVE  Settled
<1>1. At("answers") /\ DOMAIN run = DOMAIN Idle
  BY DEF Answers, IInv, Records, RecordsFormed
<1>2. CASE run.pending # {}
  <2>1. DriverRaises
    <3>1. ASSUME NEW output, NEW tokens, Answer(output, tokens) PROVE FALSE
      <4>1. Awaited \notin Keys(receipts)
        BY <1>1, <1>2, AwaitedFacts
      <4>2. \E r \in receipts' : r.key = Awaited
        <5>1. [key |-> Awaited, context |-> Context(Awaited), output |-> output, tokens |-> tokens] \in receipts'
          BY <3>1 DEF Answer
        <5>2. QED
          BY <5>1
      <4>3. QED
        BY <4>1, <4>2 DEF Keys
    <3>2. QED
      BY <1>1, <1>2, <3>1 DEF Answers
  <2>2. /\ run'.at = "answers" /\ run'.then = run.then /\ run'.asked = run.asked /\ run'.failed = TRUE
        /\ Fields' = Fields /\ run'.pending = Received /\ DOMAIN run' = DOMAIN Idle /\ Still
    BY <1>1, <2>1, NoEventStill DEF DriverRaises, Idle, Fields
  <2>3. AnswersHold' /\ ReceiptsHold'
    <3>1. Received \subseteq run.pending
      BY DEF Received
    <3>2. run'.stage = run.stage /\ run'.round = run.round /\ Keys(receipts)' = Keys(receipts)
      BY <2>2, StillFrame DEF Fields
    <3>3. QED
      BY <1>1, <2>2, <3>1, <3>2 DEF IInv, Run, AnswersHold, ReceiptsHold, PanelKeys
  <2>4. QED
    BY <1>1, <2>1, <2>2, <2>3, AwaitingHolds DEF DriverRaises, climb, Run, Settled
<1>3. CASE run.pending = {} /\ run.failed
  BY <1>1, <1>3, RaisesStill DEF Answers, Settled
<1>4. CASE run.pending = {} /\ ~run.failed
  <2>1. /\ run'.at = run.then /\ run'.then = run.then /\ Fields' = Fields
        /\ run'.pending = {} /\ DOMAIN run' = DOMAIN Idle /\ UNCHANGED <<climb, lineage, operational>>
    BY <1>1, <1>4 DEF Answers, Idle, Fields
  <2>2. run.then \in {"built", "reviewed", "judged"} /\ \A i \in DOMAIN run.asked : run.asked[i] \in Keys(receipts)
    BY <1>1, <1>4 DEF IInv, Run, AnswersHold
  <2>3. AnswersHold' /\ ReceiptsHold'
    <3>1. /\ run'.stage = run.stage /\ run'.round = run.round /\ Keys(receipts)' = Keys(receipts)
          /\ PanelKeys(run.round)' = PanelKeys(run.round)
      BY <2>1, StillFrame, NoEventStill DEF Fields, PanelKeys
    <3>2. run.asked = PanelKeys(run.round) => DOMAIN run.asked = DOMAIN Panel
      BY DEF PanelKeys
    <3>3. \A x : 1 \in DOMAIN <<x>> /\ <<x>>[1] = x
      OBVIOUS
    <3>4. QED
      BY <1>1, <2>1, <2>2, <3>1, <3>2, <3>3 DEF IInv, Run, AnswersHold, ReceiptsHold
  <2>4. QED
    BY <1>1, <2>1, <2>2, <2>3, AwaitingHolds, NoEventStill DEF climb, Run, Settled
<1>5. QED
  BY <1>2, <1>3, <1>4

LEMMA InvalidOutputSettled == ASSUME IInv, InvalidOutput PROVE Settled
<1>1. Still /\ At("built") /\ Drafting /\ run.pending = {} /\ DOMAIN run = DOMAIN Idle
  BY EventStill DEF InvalidOutput, IInv, Run, AnswersHold, Records, RecordsFormed
<1>2. CASE GotoThen("stop", "invalid outputs")
  <2>1. run'.at = "stop" /\ run'.pending = {} /\ DOMAIN run' = DOMAIN Idle
    BY <1>1, <1>2 DEF GotoThen, Idle
  <2>2. QED
    BY <1>1, <2>1, Leaving DEF Settled
<1>3. CASE Goto("draft")
  <2>1. /\ run'.at = "draft" /\ run'.pending = {} /\ DOMAIN run' = DOMAIN Idle
    BY <1>1, <1>3 DEF Goto, Idle
  <2>2. lineage = << >> /\ Count = 0
    BY <1>1 DEF IInv, Run, DraftingHolds, Records, LineageHolds
  <2>3. Count' = 0
    BY <1>1, <2>2, StillFrame
  <2>4. Run'
    BY <2>1, <2>3 DEF Run, AnswersHold, ReceiptsHold, StageHolds, DraftingHolds, RoundHolds, ClimbingHolds,
       AlignmentHolds, StandingHolds, PanelHolds
  <2>5. QED
    BY <1>1, <2>1, <2>4 DEF Settled
<1>4. QED
  BY <1>2, <1>3 DEF InvalidOutput

\* The child of the round is current as soon as a move to it is recorded, while
\* nothing has been selected yet.
LEMMA MovedToChild ==
    ASSUME Records, Count = 0, <<"apply", Rev(1)>> \in Keys(Range(lineage))
    PROVE  Current = Rev(1)
<1>1. PICK i \in DOMAIN lineage : lineage[i].key = <<"apply", Rev(1)>>
  BY DEF Keys, Range
<1>2. DOMAIN lineage = 1..Len(lineage) /\ Len(lineage) \in Nat
  BY LogFacts DEF Records, RecordsFormed
<1>3. lineage # << >>
  BY <1>1, <1>2
<1>4. i # 1
  BY <1>1, <1>3 DEF Records, LineageHolds
<1>5. Len(lineage) > 1
  BY <1>1, <1>2, <1>4
<1>6. QED
  BY <1>2, <1>5 DEF Records, LineageHolds

LEMMA ApplySettled == ASSUME IInv, Apply, lineage' = lineage PROVE Settled
<1>1. At("apply") /\ run.stage \in Builds
  BY DEF Apply, IInv, Run, StageHolds
<1>2. CASE ApplyKey \in Keys(Range(lineage))
  <2>1. Goto("transition") /\ Still
    BY <1>2, NoEventStill DEF Apply
  <2>2. Revising
    <3>1. lineage # << >>
      BY <1>2 DEF Keys, Range
    <3>2. ~Drafting
      BY <1>1, <3>1 DEF IInv, Run, DraftingHolds
    <3>3. QED
      BY <1>1, <3>2 DEF Builds
  <2>3. Count = 0 => Current = Rev(1)
    BY <1>1, <1>2, <2>2, MovedToChild DEF IInv, Run, RoundHolds, ApplyKey
  <2>4. QED
    BY <1>1, <2>1, <2>2, <2>3, Goes DEF Onward
<1>3. CASE ApplyKey \notin Keys(Range(lineage))
  <2>1. ASSUME lineage' = Append(lineage, [key |-> ApplyKey, from |-> Current, to |-> run.stage])
        PROVE  FALSE
    <3>1. Len(lineage') = Len(lineage) + 1 /\ Len(lineage) \in Nat
      BY <2>1, LongerLog, LogFacts DEF IInv, Records, RecordsFormed
    <3>2. QED
      BY <3>1
  <2>2. \E result : Raise(result)
    BY <1>3, <2>1 DEF Apply
  <2>3. QED
    BY <2>2, RaisesStill DEF Settled
<1>4. QED
  BY <1>2, <1>3

LEMMA MeasureSettled == ASSUME IInv, Measure PROVE Settled
<1>1. Still /\ At("measure") /\ run.pending = {} /\ DOMAIN run = DOMAIN Idle /\ Records
  BY NoEventStill DEF Measure, IInv, Run, AnswersHold, Records, RecordsFormed
<1>2. /\ Current' = Current /\ Selected' = Selected /\ Count' = Count /\ FirstDraft' = FirstDraft
      /\ Measured(Current)' = Measured(Current) /\ Latest(Current)' = Latest(Current)
      /\ Completed' = Completed /\ evaluations' = evaluations /\ lineage' = lineage
      /\ proposals' = proposals
  BY <1>1, StillFrame DEF Still
<1>3. Standing \/ (run.stage \in Builds /\ Revising)
  BY <1>1 DEF IInv, Run, StageHolds
<1>4. CASE ~Standing
  <2>1. /\ run'.at = "panel" /\ run'.stage = run.stage /\ run'.round = run.round
        /\ run'.baseline = run.baseline /\ run'.pending = {} /\ DOMAIN run' = DOMAIN Idle
    BY <1>1, <1>4 DEF Measure, Idle
  <2>2. RoundHolds /\ Revising
    BY <1>3, <1>4 DEF IInv, Run
  <2>3. RoundHolds'
    BY <1>1, <1>2, <2>1, <2>2 DEF RoundHolds
  <2>4. /\ AnswersHold' /\ ReceiptsHold' /\ StageHolds' /\ DraftingHolds' /\ ClimbingHolds'
        /\ AlignmentHolds' /\ StandingHolds' /\ PanelHolds'
    BY <1>3, <1>4, <2>1 DEF AnswersHold, ReceiptsHold, StageHolds, DraftingHolds, ClimbingHolds,
       AlignmentHolds, StandingHolds, PanelHolds
  <2>5. QED
    BY <1>1, <2>1, <2>3, <2>4 DEF Run, Settled
<1>5. CASE Standing
  <2>1. /\ Count >= 1 => Current = Selected
        /\ lineage # << >> /\ (Count = 0 => run.started = Current)
    BY <1>1, <1>5 DEF IInv, Run, AlignmentHolds, StandingHolds
  <2>2. /\ run'.at = IF Measured(Current) = {} THEN "panel" ELSE "outcome"
        /\ run'.stage = Brief /\ run'.started = run.started
        /\ Measured(Current) = {} => run'.round = 0
        /\ Measured(Current) # {} => run'.measured = Latest(Current)
        /\ run'.pending = {} /\ DOMAIN run' = DOMAIN Idle
    BY <1>1, <1>5 DEF Measure, Idle
  <2>3. Measured(Current) = {} => Count = 0
    <3>1. Len(selections) \in Nat /\ DOMAIN selections = 1..Len(selections)
      BY <1>1, LogFacts DEF Records, RecordsFormed
    <3>2. ASSUME Count >= 1 PROVE Measured(Current) # {}
      <4>1. selections # << >> /\ Len(selections) \in DOMAIN selections
        BY <3>1, <3>2 DEF Count
      <4>2. Current = selections[Len(selections)].selected
        BY <2>1, <3>2, <4>1 DEF Selected, Last
      <4>3. QED
        BY <1>1, <4>1, <4>2 DEF Records, SelectionsHold
    <3>3. QED
      BY <3>1, <3>2 DEF Count
  <2>4. /\ AnswersHold' /\ ReceiptsHold' /\ StageHolds' /\ DraftingHolds' /\ ClimbingHolds'
        /\ RoundHolds' /\ PanelHolds'
    BY <2>2 DEF AnswersHold, ReceiptsHold, StageHolds, DraftingHolds, ClimbingHolds, RoundHolds, PanelHolds
  <2>5. AlignmentHolds'
    BY <1>2, <2>1, <2>2 DEF AlignmentHolds
  <2>6. StandingHolds'
    BY <1>2, <2>1, <2>2, <2>3 DEF StandingHolds
  <2>7. QED
    BY <1>1, <2>2, <2>4, <2>5, <2>6 DEF Run, Settled
<1>6. QED
  BY <1>4, <1>5

LEMMA RungSettled == ASSUME IInv, Rung PROVE Settled
<1>1. Still /\ At("rung") /\ run.pending = {} /\ DOMAIN run = DOMAIN Idle /\ Records
  BY EventStill DEF Rung, IInv, Run, AnswersHold, Records, RecordsFormed
<1>2. /\ Current' = Current /\ Selected' = Selected /\ Count' = Count
      /\ Measured(Current)' = Measured(Current) /\ Latest(Current)' = Latest(Current)
      /\ lineage' = lineage
  BY <1>1, StillFrame DEF Still
<1>3. /\ run'.at = "outcome" /\ run'.stage = Brief /\ run'.measured = Latest(Selected)
      /\ run'.pending = {} /\ DOMAIN run' = DOMAIN Idle
  BY <1>1 DEF Rung, Idle
<1>4. Count >= 1 /\ evaluations # << >> /\ Current = Selected
  BY <1>1 DEF IInv, Run, ClimbingHolds, AlignmentHolds
<1>5. Measured(Current) # {} /\ lineage # << >>
  <2>1. selections # << >> /\ Len(selections) \in DOMAIN selections
    BY <1>1, <1>4, LogFacts DEF Records, RecordsFormed, Count
  <2>2. Current = selections[Len(selections)].selected
    BY <1>4, <2>1 DEF Selected, Last
  <2>3. QED
    BY <1>1, <1>4, <2>1, <2>2 DEF Records, SelectionsHold, LineageHolds
<1>6. /\ AnswersHold' /\ ReceiptsHold' /\ StageHolds' /\ DraftingHolds' /\ ClimbingHolds'
      /\ RoundHolds' /\ PanelHolds'
  BY <1>3 DEF AnswersHold, ReceiptsHold, StageHolds, DraftingHolds, ClimbingHolds, RoundHolds, PanelHolds
<1>7. AlignmentHolds' /\ StandingHolds'
  BY <1>2, <1>3, <1>4, <1>5 DEF AlignmentHolds, StandingHolds
<1>8. QED
  BY <1>1, <1>3, <1>6, <1>7 DEF Run, Settled

\* Who goes on to climb has failed, and nothing was completed before.
LEMMA OutcomeSettled == ASSUME IInv, Outcome PROVE Settled
<1>1. /\ Still /\ At("outcome") /\ run.pending = {} /\ DOMAIN run = DOMAIN Idle /\ Records
      /\ Standing /\ StandingHolds
  BY NoEventStill DEF Outcome, IInv, Run, AnswersHold, StageHolds, Records, RecordsFormed
<1>2. CASE Passes(run.measured)
  BY <1>1, <1>2, Goes DEF Outcome, Onward
<1>3. CASE ~Passes(run.measured)
  <2>1. /\ run'.at = "align" /\ run'.then = "climb" /\ run'.stage = run.stage
        /\ run'.pending = {} /\ DOMAIN run' = DOMAIN Idle
    BY <1>1, <1>3 DEF Outcome, GotoThen, Idle
  <2>2. ~Completed
    <3>1. SUFFICES ASSUME NEW e \in operational, e[1] = "completed" PROVE FALSE
      BY DEF Completed
    <3>2. Current = e[2] /\ Measured(e[2]) # {} /\ Passes(Latest(e[2]))
      BY <1>1, <3>1 DEF Records, CompletedHolds
    <3>3. Measured(Current) # {} /\ Passes(Latest(Current))
      BY <3>2
    <3>4. QED
      BY <1>1, <1>3, <3>3 DEF StandingHolds
  <2>3. evaluations # << >>
    <3>1. \A c : evaluations = << >> => Measured(c) = {}
      BY DEF Measured
    <3>2. QED
      BY <1>1, <3>1 DEF StandingHolds
  <2>4. ~Passes(evaluations[1])
    <3>1. CASE Count >= 1 \/ Len(lineage) >= 2
      BY <1>1, <3>1 DEF Records, FirstFails
    <3>2. CASE ~(Count >= 1) /\ ~(Len(lineage) >= 2)
      <4>1. Len(lineage) = 1 /\ Count = 0
        <5>1. IsLog(lineage) /\ IsLog(selections) /\ lineage # << >>
          BY <1>1 DEF StandingHolds, Records, RecordsFormed
        <5>2. Len(lineage) \in Nat /\ Len(lineage) >= 1 /\ Len(selections) \in Nat
          BY <5>1, LogFacts
        <5>3. ~(Len(selections) >= 1)
          BY <3>2 DEF Count
        <5>4. Len(lineage) = 1
          BY <3>2, <5>2, OneLong, Zenon
        <5>5. QED
          BY <5>2, <5>3, <5>4 DEF Count
      <4>2. Current = FirstDraft /\ Initial(FirstDraft)
        BY <1>1, <4>1 DEF Current, FirstDraft, Last, StandingHolds, Records, LineageHolds
      <4>3. CASE run.measured = evaluations[1]
        BY <1>3, <4>3
      <4>4. CASE Measured(Current) # {} /\ run.measured = Latest(Current)
        <5>1. run.measured \in Range(evaluations) /\ run.measured.candidate = FirstDraft
          BY <1>1, <4>2, <4>4, LatestFacts DEF Records
        <5>2. PICK i \in DOMAIN evaluations : run.measured = evaluations[i]
          BY <5>1 DEF Range
        <5>3. i \in Nat /\ i >= 1
          BY <1>1, LogFacts DEF Records, RecordsFormed
        <5>4. ~(i > 1)
          <6>1. SUFFICES ASSUME i > 1 PROVE FALSE
            OBVIOUS
          <6>2. PICK n \in 1..(Count + 1) : n = 1 => evaluations[i].candidate = Rev(1)
            BY <1>1, <5>2, <6>1 DEF Records, EvaluationsHold
          <6>3. FirstDraft = Rev(1)
            BY <4>1, <5>1, <5>2, <6>2
          <6>4. QED
            BY <4>2, <6>3
        <5>5. QED
          BY <1>3, <5>2, <5>3, <5>4
      <4>5. QED
        BY <1>1, <4>3, <4>4 DEF StandingHolds
    <3>3. QED
      BY <3>1, <3>2
  <2>5. /\ AnswersHold' /\ ReceiptsHold' /\ StageHolds' /\ DraftingHolds' /\ AlignmentHolds'
        /\ RoundHolds' /\ StandingHolds' /\ PanelHolds'
    BY <2>1 DEF AnswersHold, ReceiptsHold, StageHolds, DraftingHolds, AlignmentHolds, RoundHolds,
       StandingHolds, PanelHolds
  <2>6. ClimbingHolds'
    BY <1>1, <2>1, <2>2, <2>3, <2>4, StillFrame DEF ClimbingHolds, Still
  <2>7. QED
    BY <1>1, <2>1, <2>5, <2>6 DEF Run, Settled
<1>4. QED
  BY <1>2, <1>3

\* The panel is asked for a Candidate, or its Evaluation is found.
LEMMA PanelSettled == ASSUME IInv, AskPanel PROVE Settled
<1> DEFINE keys == PanelKeys(run.round)
<1>1. Still /\ At("panel") /\ run.pending = {} /\ DOMAIN run = DOMAIN Idle /\ Records
  BY NoEventStill DEF AskPanel, Still, Stop, Raise, Invoke, IInv, Run, AnswersHold, Records, RecordsFormed, climb
<1>2. /\ Current' = Current /\ Selected' = Selected /\ Count' = Count /\ FirstDraft' = FirstDraft
      /\ Measured(Current)' = Measured(Current) /\ Latest(Current)' = Latest(Current)
      /\ Completed' = Completed /\ evaluations' = evaluations /\ lineage' = lineage
      /\ proposals' = proposals
  BY <1>1, StillFrame DEF Still
<1>3. CASE \E reason : Stop(reason)
  BY <1>1, <1>3, StopsStill DEF Settled
<1>4. CASE \E result : Raise(result)
  BY <1>1, <1>4, RaisesStill DEF Settled
<1>5. Standing \/ (run.stage \in Builds /\ Revising)
  BY <1>1 DEF IInv, Run, StageHolds
<1>6. CASE /\ Evaluated(run.round) # {}
           /\ run' = [run EXCEPT !.at = "measured", !.measured = evaluations[Min(Evaluated(run.round))]]
  <2> DEFINE found == Min(Evaluated(run.round))
  <2>1. found \in DOMAIN evaluations /\ evaluations[found].round = run.round
    <3>1. Evaluated(run.round) \in SUBSET (1..Len(evaluations)) /\ Len(evaluations) \in Nat
      BY <1>1, LogFacts DEF Evaluated, Records, RecordsFormed
    <3>2. found \in Evaluated(run.round)
      BY <1>6, <3>1, SmallestIndex
    <3>3. QED
      BY <3>2 DEF Evaluated
  <2> HIDE DEF found
  <2>2. /\ run'.at = "measured" /\ run'.stage = run.stage /\ run'.round = run.round
        /\ run'.baseline = run.baseline /\ run'.started = run.started
        /\ run'.measured = evaluations[found] /\ run'.pending = {} /\ DOMAIN run' = DOMAIN Idle
    BY <1>1, <1>6 DEF Idle, found
  <2>3. /\ AnswersHold' /\ ReceiptsHold' /\ StageHolds' /\ DraftingHolds' /\ ClimbingHolds' /\ PanelHolds'
    BY <1>5, <2>2 DEF AnswersHold, ReceiptsHold, StageHolds, DraftingHolds, ClimbingHolds, PanelHolds
  <2>4. RoundHolds'
    BY <1>1, <1>2, <2>1, <2>2 DEF RoundHolds, IInv, Run, Range
  <2>5. AlignmentHolds'
    BY <1>1, <1>2, <2>2 DEF AlignmentHolds, IInv, Run
  <2>6. StandingHolds'
    <3>1. CASE ~Standing
      BY <2>2, <3>1 DEF StandingHolds
    <3>2. CASE Standing
      <4>1. /\ lineage # << >> /\ Count = 0 /\ run.started = Current /\ run.round = 0
            /\ Measured(Current) = {}
        BY <1>1, <3>2 DEF IInv, Run, StandingHolds
      <4>2. evaluations # << >> /\ found \in Nat /\ found >= 1
        BY <1>1, <2>1, LogFacts DEF Records, RecordsFormed
      <4>3. found = 1
        <5>1. SUFFICES ASSUME found > 1 PROVE FALSE
          BY <4>2
        <5>2. QED
          BY <1>1, <2>1, <4>1, <5>1 DEF Records, EvaluationsHold, Count
      <4>4. Len(lineage) >= 2
        <5>2. Len(lineage) \in Nat /\ Len(lineage) >= 1
          BY <1>1, <4>1, LogFacts DEF Records, RecordsFormed
        <5>1. ASSUME ~(Len(lineage) >= 2) PROVE FALSE
          <6>1. Len(lineage) = 1
            BY <5>1, <5>2, OneLong, Zenon
          <6>2. Current = FirstDraft
            BY <4>1, <6>1 DEF Current, FirstDraft, Last
          <6>3. evaluations[1].candidate = FirstDraft
            BY <1>1, <4>2 DEF Records, EvaluationsHold
          <6>4. 1 \in Measured(Current)
            BY <2>1, <4>3, <6>2, <6>3 DEF Measured
          <6>5. QED
            BY <4>1, <6>4
        <5>3. QED
          BY <5>1
      <4>5. ~Passes(evaluations[1])
        BY <1>1, <4>4 DEF Records, FirstFails
      <4>6. QED
        BY <1>2, <2>2, <3>2, <4>1, <4>2, <4>3, <4>5 DEF StandingHolds
    <3>3. QED
      BY <3>1, <3>2
  <2>7. QED
    BY <1>1, <2>2, <2>3, <2>4, <2>5, <2>6 DEF Run, Settled
<1>7. CASE Evaluated(run.round) = {} /\ Invoke(keys, "judged")
  <2>1. /\ run'.at = "answers" /\ run'.then = "judged" /\ run'.asked = keys
        /\ run'.failed = FALSE /\ Fields' = Fields /\ DOMAIN run' = DOMAIN Idle
        /\ run'.pending \subseteq DOMAIN keys
        /\ \A i \in run'.pending : keys[i] \notin Keys(receipts)'
        /\ \A i \in DOMAIN keys \ run'.pending : keys[i] \in Keys(receipts)'
    BY <1>1, <1>7, InvokeHolds
  <2>2. /\ run'.stage = run.stage /\ run'.round = run.round /\ run'.baseline = run.baseline
        /\ run'.measured = run.measured /\ run'.started = run.started
    BY <2>1 DEF Fields
  <2>3. PanelKeys(run.round)' = keys /\ Evaluated(run.round)' = Evaluated(run.round)
    BY <1>2, <2>2 DEF PanelKeys, Evaluated
  <2>4. AnswersHold' /\ ReceiptsHold' /\ PanelHolds'
    BY <1>7, <2>1, <2>2, <2>3 DEF AnswersHold, ReceiptsHold, PanelHolds
  <2>5. StageHolds' /\ DraftingHolds' /\ ClimbingHolds'
    BY <1>5, <2>1, <2>2 DEF StageHolds, DraftingHolds, ClimbingHolds
  <2>6. RoundHolds'
    BY <1>1, <1>2, <2>1, <2>2 DEF IInv, Run, RoundHolds
  <2>7. AlignmentHolds' /\ StandingHolds'
    BY <1>1, <1>2, <2>1, <2>2 DEF IInv, Run, AlignmentHolds, StandingHolds
  <2>8. QED
    BY <1>1, <2>1, <2>4, <2>5, <2>6, <2>7 DEF Run, Settled
<1>8. QED
  BY <1>3, <1>4, <1>6, <1>7 DEF AskPanel

-----------------------------------------------------------------------------
(* The records, step by step *)

\* Steps that change a record the invariant is about.
Recording ==
    \/ At("answers") /\ run.pending # {} /\ \E output \in Outputs(Awaited), tokens \in Usages : Answer(output, tokens)
    \/ Propose \/ RecordReview \/ Evaluate \/ Select \/ Complete
    \/ AlignMove /\ lineage' # lineage
    \/ Apply /\ lineage' # lineage

LEMMA QuietSteps == ASSUME IInv, Next PROVE Settled \/ Recording
<1>1. CASE Answers
  <2>1. CASE receipts' = receipts
    BY <1>1, <2>1, AnswersSettled
  <2>2. CASE receipts' # receipts
    <3>1. ~DriverRaises /\ ~(\E result : Raise(result))
      BY <2>2 DEF DriverRaises, Raise, climb
    <3>2. QED
      BY <1>1, <2>2, <3>1 DEF Answers, Recording, climb
  <2>3. QED
    BY <2>1, <2>2
<1>2. CASE AlignMove
  <2>1. CASE lineage' = lineage
    <3>1. ASSUME lineage' = Append(lineage, [key |-> SelectKey, from |-> Current, to |-> Selected])
          PROVE  FALSE
      <4>1. Len(lineage') = Len(lineage) + 1 /\ Len(lineage) \in Nat
        BY <3>1, LongerLog, LogFacts DEF IInv, Records, RecordsFormed
      <4>2. QED
        BY <2>1, <4>1
    <3>2. QED
      BY <1>2, <3>1, RaisesStill DEF AlignMove, Settled
  <2>2. QED
    BY <1>2, <2>1 DEF Recording
<1>3. CASE Apply
  BY <1>3, ApplySettled DEF Recording
<1>4. CASE Propose \/ RecordReview \/ Evaluate \/ Select \/ Complete
  BY <1>4 DEF Recording
<1>5. CASE Begin \/ Interrupt \/ Stopped \/ InvalidRevision \/ OverspentBuild \/ ReviewStopped \/ BuildFails
           \/ InvalidJudgement
  BY <1>5, BeginSettled, EndsSettled
<1>6. CASE Decided \/ ResumeApplied \/ RecordTransition \/ InitialApplied \/ AlreadyBuilt
           \/ Materialize \/ Bind \/ BindEvent \/ MeasuredEvent
  BY <1>6, MovesSettled
<1>7. CASE Align \/ AlignEvent \/ Draft \/ Climb \/ Builder \/ Review
  BY <1>7, AlignSettled, DraftSettled, ClimbSettled, TasksSettled
<1>8. CASE InvalidOutput \/ Measure \/ AskPanel \/ Rung \/ Outcome
  BY <1>8, InvalidOutputSettled, MeasureSettled, PanelSettled, RungSettled, OutcomeSettled
<1>9. QED
  BY <1>1, <1>2, <1>3, <1>4, <1>5, <1>6, <1>7, <1>8 DEF Next, Step

LEMMA FiniteStep == ASSUME IInv, Next PROVE Finite'
<1>1. IsFiniteSet(operational) /\ IsFiniteSet(receipts)
  BY DEF IInv, Records, Finite
<1>2. CASE Stopped \/ AlignEvent \/ InvalidOutput \/ InitialApplied \/ Materialize \/ BindEvent
           \/ MeasuredEvent \/ Rung \/ Complete
  <2>1. receipts' = receipts
    BY <1>2 DEF climb, Stopped, AlignEvent, InvalidOutput, InitialApplied, Materialize, BindEvent,
       MeasuredEvent, Stop, Rung, Complete
  <2>2. (\E type, key : Event(type, key)) \/ operational' = operational
    BY <1>2 DEF Stopped, AlignEvent, InvalidOutput, InitialApplied, Materialize, BindEvent,
       MeasuredEvent, Stop, Rung, Complete
  <2>3. QED
    BY <1>1, <2>1, <2>2, FS_AddElement DEF Finite, Event
<1>3. CASE Answers
  <2>1. operational' = operational /\ (receipts' = receipts \/ \E r : receipts' = receipts \cup {r})
    BY <1>3 DEF Answers, Answer, DriverRaises, Raise, climb
  <2>2. QED
    BY <1>1, <2>1, FS_AddElement DEF Finite
<1>4. CASE Begin \/ Interrupt \/ Align \/ AlignMove \/ Draft \/ Climb \/ Builder \/ InvalidRevision
           \/ OverspentBuild \/ Review \/ ReviewStopped \/ Decided \/ ResumeApplied \/ Apply
           \/ AlreadyBuilt \/ BuildFails \/ Measure \/ InvalidJudgement \/ Outcome
  <2>1. UNCHANGED <<operational, receipts>>
    BY <1>4 DEF climb, Raise, Stop, ModelTask, Begin, Interrupt, Align, AlignMove, Draft, Climb, Builder,
       InvalidRevision, OverspentBuild, Review, ReviewStopped, Decided, ResumeApplied, Apply,
       AlreadyBuilt, BuildFails, Measure, InvalidJudgement, Outcome
  <2>2. QED
    BY <1>1, <2>1 DEF Finite
<1>5. CASE Propose \/ RecordReview \/ RecordTransition \/ Bind \/ AskPanel \/ Evaluate \/ Select
  <2>1. UNCHANGED <<operational, receipts>>
    BY <1>5 DEF climb, Raise, Stop, Propose, RecordReview, RecordTransition, Bind, AskPanel, Evaluate, Select
  <2>2. QED
    BY <1>1, <2>1 DEF Finite
<1>6. QED
  BY <1>2, <1>3, <1>4, <1>5 DEF Next, Step

\* Where the branch, the Evaluations and the Selections stay, so does what they say.
LEMMA HistoryStays ==
    ASSUME Records, UNCHANGED <<lineage, evaluations, selections>>, proposals \subseteq proposals',
           {e \in operational' : e[1] = "completed"} = {e \in operational : e[1] = "completed"}
    PROVE  /\ LineageHolds' /\ EvaluationsHold' /\ FirstFails' /\ SelectionsHold' /\ CompletedHolds'
           /\ RungsChain' /\ Current' = Current /\ Selected' = Selected /\ Count' = Count
           /\ FirstDraft' = FirstDraft /\ Completed' = Completed
           /\ Measured(Current)' = Measured(Current) /\ Latest(Current)' = Latest(Current)
<1>1. Current' = Current /\ Selected' = Selected /\ Count' = Count /\ FirstDraft' = FirstDraft
  BY DEF Current, Selected, Count, FirstDraft
<1>2. LineageHolds' /\ EvaluationsHold' /\ FirstFails'
  BY <1>1 DEF Records, LineageHolds, EvaluationsHold, FirstFails, StartedAt, FirstDraft
<1>3. SelectionsHold'
  BY DEF Records, SelectionsHold, Measured
<1>4. CompletedHolds'
  <2>1. ASSUME NEW e \in operational', e[1] = "completed"
        PROVE  /\ Current' = e[2] /\ Selected' = e[2]
               /\ Measured(e[2])' # {} /\ Passes(Latest(e[2]))'
    <3>1. e \in operational
      BY <2>1
    <3>2. /\ Current = e[2] /\ Selected = e[2]
          /\ Measured(e[2]) # {} /\ Passes(Latest(e[2]))
      BY <2>1, <3>1 DEF Records, CompletedHolds
    <3>3. Measured(e[2])' = Measured(e[2])
      BY DEF Measured
    <3>4. Latest(e[2])' = Latest(e[2])
      BY <3>3 DEF Latest
    <3>5. QED
      BY <1>1, <3>2, <3>3, <3>4
  <2>2. QED
    BY <2>1 DEF CompletedHolds
<1>5. RungsChain'
  BY DEF Records, RungsChain
<1>6. Completed' = Completed
  BY DEF Completed
<1>7. Measured(Current)' = Measured(Current)
  BY <1>1 DEF Measured
<1>8. Latest(Current)' = Latest(Current)
  BY <1>7 DEF Latest
<1>9. QED
  BY <1>1, <1>2, <1>3, <1>4, <1>5, <1>6, <1>7, <1>8

LEMMA RecordsStay == ASSUME IInv, Next, Settled PROVE Records'
<1>1. /\ UNCHANGED <<receipts, proposals, reviews, lineage, evaluations, selections>>
      /\ {e \in operational' : e[1] = "completed"} = {e \in operational : e[1] = "completed"}
      /\ Records /\ DOMAIN run' = DOMAIN Idle
  BY DEF Settled, Still, IInv
<1>2. /\ LineageHolds' /\ EvaluationsHold' /\ FirstFails' /\ SelectionsHold' /\ CompletedHolds'
      /\ RungsChain' /\ Count' = Count /\ FirstDraft' = FirstDraft
  BY <1>1, HistoryStays
<1>3. RecordsFormed' /\ Finite' /\ KeysDiffer'
  BY <1>1, FiniteStep DEF Records, RecordsFormed, KeysDiffer
<1>4. ReviewsHold'
  BY <1>1 DEF Records, ReviewsHold, Keys, Decision, Verdict, Receipt
<1>5. ProposalsHold'
  BY <1>1, <1>2 DEF Records, ProposalsHold, StartedAt, FirstDraft
<1>6. MovesAreAuthorized'
  BY <1>1 DEF Records, MovesAreAuthorized, Authorized, Decision, Verdict, Receipt
<1>7. QED
  BY <1>2, <1>3, <1>4, <1>5, <1>6 DEF Records

\* A new receipt has a new key, so what the others say stays.
LEMMA AnswerKeeps ==
    ASSUME IInv, NEW output, NEW tokens, At("answers"), Answer(output, tokens), run.pending # {},
           Next
    PROVE  IInv'
<1> DEFINE new == [key |-> Awaited, context |-> Context(Awaited), output |-> output, tokens |-> tokens]
<1>1. /\ receipts' = receipts \cup {new} /\ new.key = Awaited
      /\ run' = [run EXCEPT !.pending = Received]
      /\ UNCHANGED <<tasks, proposals, reviews, transitions, bindings, evaluations, selections,
                     lineage, operational>>
  BY DEF Answer
<1> HIDE DEF new
<1>2. Records /\ DOMAIN run = DOMAIN Idle
  BY DEF IInv, Records, RecordsFormed
<1>3. /\ Min(run.pending) \in run.pending /\ Min(run.pending) \in DOMAIN run.asked
      /\ Awaited = run.asked[Min(run.pending)] /\ Awaited \notin Keys(receipts)
      /\ Received = run.pending \ {Min(run.pending)}
      /\ \A i \in DOMAIN run.asked : run.asked[i] = Awaited => i = Min(run.pending)
  BY AwaitedFacts
<1>4. Keys(receipts)' = Keys(receipts) \cup {Awaited}
  BY <1>1 DEF Keys
<1>5. /\ run'.at = "answers" /\ run'.then = run.then /\ run'.asked = run.asked
      /\ run'.failed = run.failed /\ run'.stage = run.stage /\ run'.round = run.round
      /\ run'.pending = Received /\ Fields' = Fields /\ DOMAIN run' = DOMAIN Idle
  BY <1>1, <1>2 DEF Idle, Fields
<1>6. AnswersHold' /\ ReceiptsHold'
  <2>1. AnswersHold
    BY DEF IInv, Run
  <2>2. \A i \in Received : run.asked[i] \notin Keys(receipts)'
    BY <1>3, <1>4, <2>1 DEF AnswersHold
  <2>3. ~run.failed => \A i \in DOMAIN run.asked \ Received : run.asked[i] \in Keys(receipts)'
    BY <1>3, <1>4, <2>1 DEF AnswersHold
  <2>4. PanelKeys(run.round)' = PanelKeys(run.round)
    BY <1>5 DEF PanelKeys
  <2>5. QED
    BY <1>3, <1>5, <2>1, <2>2, <2>3, <2>4 DEF AnswersHold, ReceiptsHold
<1>7. Run'
  BY <1>1, <1>5, <1>6, AwaitingHolds DEF Run
<1>8. KeysDiffer'
  BY <1>1, <1>2, <1>3 DEF KeysDiffer, Records, Keys
<1>9. \A key \in Keys(receipts) : Receipt(key)' = Receipt(key)
  <2>1. TAKE key \in Keys(receipts)
  <2>2. PICK r \in receipts : r.key = key
    BY DEF Keys
  <2>3. Receipt(key) = r
    BY <1>2, <2>2 DEF Receipt, Records, KeysDiffer
  <2>4. Receipt(key)' = r
    BY <1>1, <1>8, <2>2 DEF Receipt, KeysDiffer
  <2>5. QED
    BY <2>3, <2>4
<1>10. ReviewsHold'
  BY <1>1, <1>2, <1>4, <1>9 DEF ReviewsHold, Records, Decision, Verdict
<1>11. MovesAreAuthorized'
  <2>1. ASSUME NEW stage, [stage |-> stage, decision |-> "approved"] \in reviews, Decision(stage) = "approved"
        PROVE  Decision(stage)' = "approved"
    <3>1. <<"reviewer", stage>> \in Keys(receipts)
      BY <1>2, <2>1 DEF Records, ReviewsHold
    <3>2. QED
      BY <1>9, <2>1, <3>1 DEF Decision, Verdict
  <2>2. QED
    BY <1>1, <1>2, <2>1 DEF MovesAreAuthorized, Authorized, Records
<1>12. /\ LineageHolds' /\ EvaluationsHold' /\ FirstFails' /\ SelectionsHold' /\ CompletedHolds'
       /\ RungsChain' /\ Count' = Count /\ FirstDraft' = FirstDraft
  BY <1>1, <1>2, HistoryStays
<1>13. ProposalsHold'
  BY <1>1, <1>2, <1>12 DEF Records, ProposalsHold, StartedAt, FirstDraft
<1>14. RecordsFormed' /\ Finite'
  BY <1>1, <1>2, <1>5, FiniteStep DEF Records, RecordsFormed
<1>15. QED
  BY <1>7, <1>8, <1>10, <1>11, <1>12, <1>13, <1>14 DEF IInv, Records

LEMMA ProposeKeeps == ASSUME IInv, Propose, Next PROVE IInv'
<1> DEFINE new == [stage |-> run.stage, parent |-> Current]
<1>1. /\ proposals \subseteq proposals' /\ proposals' \subseteq proposals \cup {new}
      /\ UNCHANGED <<receipts, reviews, lineage, evaluations, selections, operational>>
      /\ At("built")
  BY DEF Propose
<1>2. \E p \in proposals' : p.stage = run.stage
  <2>1. CASE \E p \in proposals : p.stage = run.stage
    BY <1>1, <2>1
  <2>2. CASE ~ \E p \in proposals : p.stage = run.stage
    <3>1. new \in proposals'
      BY <2>2 DEF Propose
    <3>2. QED
      BY <3>1
  <2>3. QED
    BY <2>1, <2>2
<1>3. Records /\ DOMAIN run = DOMAIN Idle /\ run.pending = {}
  BY <1>1 DEF IInv, Records, RecordsFormed, Run, AnswersHold
<1>4. /\ LineageHolds' /\ EvaluationsHold' /\ FirstFails' /\ SelectionsHold' /\ CompletedHolds'
      /\ RungsChain' /\ Count' = Count /\ FirstDraft' = FirstDraft /\ Current' = Current
      /\ Selected' = Selected /\ Completed' = Completed
  BY <1>1, <1>3, HistoryStays
<1>5. \/ run' = [run EXCEPT !.at = "stop", !.then = "tokens"]
      \/ run' = [run EXCEPT !.at = "review"]
  BY DEF Propose, Goto, GotoThen
<1>6. /\ DOMAIN run' = DOMAIN Idle /\ run'.pending = {} /\ run'.at \in {"stop", "review"}
      /\ Fields' = Fields
  BY <1>3, <1>5 DEF Idle, Fields
<1>7. run.stage \in Builds /\ (Drafting \/ Revising)
  BY <1>1 DEF IInv, Run, StageHolds, Builds
<1>8. Drafting => lineage = << >>
  BY <1>1 DEF IInv, Run, DraftingHolds
<1>9. Revising => RoundHolds
  BY DEF IInv, Run
<1>10. Run'
  <2>1. CASE run'.at = "stop"
    BY <1>6, <2>1, Leaving
  <2>2. CASE run'.at = "review"
    <3>1. /\ run'.stage = run.stage /\ run'.round = run.round /\ run'.baseline = run.baseline
          /\ (Drafting' <=> Drafting) /\ (Revising' <=> Revising) /\ (Standing' <=> Standing)
      BY <1>6 DEF Fields
    <3>2. AnswersHold' /\ ReceiptsHold' /\ ClimbingHolds' /\ PanelHolds' /\ StandingHolds'
      BY <1>6, <2>2 DEF AnswersHold, ReceiptsHold, ClimbingHolds, PanelHolds, StandingHolds
    <3>3. StageHolds' /\ DraftingHolds'
      BY <1>1, <1>2, <1>7, <1>8, <2>2, <3>1 DEF StageHolds, DraftingHolds
    <3>4. RoundHolds'
      BY <1>1, <1>2, <1>4, <1>9, <2>2, <3>1 DEF RoundHolds
    <3>5. AlignmentHolds'
      BY <1>1, <1>4, <2>2, <3>1 DEF AlignmentHolds, IInv, Run
    <3>6. QED
      BY <3>2, <3>3, <3>4, <3>5 DEF Run
  <2>3. QED
    BY <1>6, <2>1, <2>2
\* A revision is proposed on the selected Draft, unless it was before.
<1>11. ProposalsHold'
  <2>1. ASSUME NEW p \in proposals' PROVE
           \/ Initial(p.stage) /\ p.parent = Brief
           \/ evaluations # << >> /\ \E n \in 1..(Count + 1) : p.stage = Rev(n) /\ p.parent = StartedAt(n)
    <3>1. CASE p \in proposals
      BY <1>3, <3>1 DEF Records, ProposalsHold
    <3>2. CASE p \notin proposals
      <4>1. p = new /\ ~ (\E q \in proposals : q.stage = run.stage)
        BY <1>1, <2>1, <3>2 DEF Propose
      <4>2. CASE Drafting
        BY <1>8, <4>1, <4>2 DEF Current
      <4>3. CASE Revising
        <5>1. run.stage = Rev(Count + 1) /\ evaluations # << >>
          BY <1>1, <1>9, <4>3 DEF RoundHolds
        <5>2. /\ lineage # << >> /\ Len(lineage) \in Nat /\ Len(lineage) >= 1
              /\ DOMAIN lineage = 1..Len(lineage) /\ Current = lineage[Len(lineage)].to
          BY <1>3, <5>1, LogFacts DEF Records, RecordsFormed, LineageHolds, Current, Last
        <5>3. Count \in Nat /\ DOMAIN selections = 1..Count
          BY <1>3, LogFacts DEF Records, RecordsFormed, Count
        <5>4. Current # Rev(Count + 1)
          <6>1. SUFFICES ASSUME Current = Rev(Count + 1) PROVE FALSE
            OBVIOUS
          <6> DEFINE move == lineage[Len(lineage)]
          <6>2. Len(lineage) \in DOMAIN lineage
            BY <5>2
          <6>3. \/ [stage |-> move.to, parent |-> move.from] \in proposals
                \/ \E n \in DOMAIN selections : move.to = selections[n].selected
            BY <1>3, <6>2 DEF Records, MovesAreAuthorized, Authorized
          <6>4. CASE [stage |-> move.to, parent |-> move.from] \in proposals
            BY <4>1, <5>1, <5>2, <6>1, <6>4
          <6>5. ASSUME NEW n \in DOMAIN selections, move.to = selections[n].selected PROVE FALSE
            <7>1. Initial(selections[n].selected) \/ \E m \in 1..n : selections[n].selected = Rev(m)
              BY <1>3 DEF Records, SelectionsHold
            <7>2. selections[n].selected = Rev(Count + 1)
              BY <5>2, <6>1, <6>5
            <7>3. QED
              BY <5>3, <7>1, <7>2
          <6>6. QED
            BY <6>3, <6>4, <6>5
        <5>5. Current = StartedAt(Count + 1)
          <6>1. CASE Count >= 1
            <7>1. Current = Selected /\ selections # << >>
              BY <1>1, <1>9, <4>3, <5>3, <5>4, <6>1 DEF RoundHolds
            <7>2. QED
              BY <5>3, <6>1, <7>1 DEF Selected, StartedAt, Last, Count
          <6>2. CASE Count = 0
            <7>1. ~ (Len(lineage) >= 2)
              BY <1>3, <5>2, <5>4, <6>2 DEF Records, LineageHolds
            <7>2. Len(lineage) = 1
              BY <5>2, <7>1, OneLong, Zenon
            <7>3. QED
              BY <5>2, <6>2, <7>2 DEF StartedAt, FirstDraft
          <6>3. QED
            BY <5>3, <6>1, <6>2
        <5>6. QED
          BY <4>1, <5>1, <5>3, <5>5
      <4>4. QED
        BY <1>7, <4>2, <4>3
    <3>3. QED
      BY <3>1, <3>2
  <2>2. QED
    BY <1>1, <1>4, <2>1 DEF ProposalsHold, StartedAt, FirstDraft
<1>12. \A stage : Decision(stage)' = Decision(stage)
  BY <1>1 DEF Decision, Verdict, Receipt
<1>13. MovesAreAuthorized' /\ ReviewsHold'
  BY <1>1, <1>3, <1>12 DEF Records, MovesAreAuthorized, Authorized, ReviewsHold, Keys
<1>14. RecordsFormed' /\ Finite' /\ KeysDiffer'
  BY <1>1, <1>3, <1>6, FiniteStep DEF Records, RecordsFormed, KeysDiffer
<1>15. QED
  BY <1>4, <1>10, <1>11, <1>13, <1>14 DEF IInv, Records

\* A Review is recorded as the reviewer's receipt says.
LEMMA ReviewKeeps == ASSUME IInv, RecordReview, Next PROVE IInv'
<1> DEFINE new == [stage |-> run.stage, decision |-> Decision(run.stage)]
<1>1. /\ reviews' = reviews \cup {new}
      /\ UNCHANGED <<receipts, proposals, lineage, evaluations, selections, operational>>
      /\ At("reviewed") /\ Goto("decided")
  BY DEF RecordReview
<1>2. Records /\ DOMAIN run = DOMAIN Idle /\ run.pending = {} /\ <<"reviewer", run.stage>> \in Keys(receipts)
  BY <1>1 DEF IInv, Records, RecordsFormed, Run, AnswersHold, ReceiptsHold
<1>3. /\ LineageHolds' /\ EvaluationsHold' /\ FirstFails' /\ SelectionsHold' /\ CompletedHolds'
      /\ RungsChain' /\ Count' = Count /\ FirstDraft' = FirstDraft /\ Current' = Current
      /\ Selected' = Selected /\ Completed' = Completed
  BY <1>1, <1>2, HistoryStays
<1>4. /\ run'.at = "decided" /\ run'.pending = {} /\ DOMAIN run' = DOMAIN Idle
      /\ run'.stage = run.stage /\ run'.round = run.round /\ run'.baseline = run.baseline
  BY <1>1, <1>2 DEF Goto, Idle
<1>5. AnswersHold' /\ ReceiptsHold' /\ ClimbingHolds' /\ PanelHolds' /\ StandingHolds'
  <2>1. run.stage \in Builds
    BY <1>1 DEF IInv, Run, StageHolds
  <2>2. QED
    BY <1>4, <2>1 DEF AnswersHold, ReceiptsHold, ClimbingHolds, PanelHolds, StandingHolds, Builds
<1>6. StageHolds' /\ DraftingHolds' /\ RoundHolds'
  BY <1>1, <1>3, <1>4 DEF StageHolds, DraftingHolds, RoundHolds, IInv, Run
<1>7. AlignmentHolds'
  BY <1>1, <1>3, <1>4 DEF AlignmentHolds, IInv, Run
<1>8. \A stage : Decision(stage)' = Decision(stage)
  BY <1>1 DEF Decision, Verdict, Receipt
<1>9. ReviewsHold'
  BY <1>1, <1>2, <1>8 DEF Records, ReviewsHold, Keys
<1>10. MovesAreAuthorized'
  BY <1>1, <1>2, <1>8 DEF Records, MovesAreAuthorized, Authorized
<1>11. ProposalsHold'
  BY <1>1, <1>2, <1>3 DEF Records, ProposalsHold, StartedAt, FirstDraft
<1>12. RecordsFormed' /\ Finite' /\ KeysDiffer'
  BY <1>1, <1>2, <1>4, FiniteStep DEF Records, RecordsFormed, KeysDiffer
<1>13. QED
  BY <1>3, <1>5, <1>6, <1>7, <1>9, <1>10, <1>11, <1>12 DEF IInv, Records, Run

\* A move of the branch from where it is.
LEMMA MoveKeeps ==
    ASSUME Records, NEW move, lineage' = Append(lineage, move), move.from = Current,
           Authorized(move),
           UNCHANGED <<receipts, proposals, reviews, evaluations, selections>>
    PROVE  /\ Current' = move.to /\ lineage' # << >> /\ IsLog(lineage') /\ Len(lineage') = Len(lineage) + 1
           /\ lineage # << >> => FirstDraft' = FirstDraft
           /\ lineage = << >> => FirstDraft' = move.to
           /\ MovesAreAuthorized'
<1>1. IsLog(lineage) /\ Len(lineage) \in Nat /\ DOMAIN lineage = 1..Len(lineage)
  BY LogFacts DEF Records, RecordsFormed
<1>2. /\ IsLog(lineage') /\ lineage' # << >>
      /\ Len(lineage') = Len(lineage) + 1
      /\ DOMAIN lineage' = 1..(Len(lineage) + 1)
      /\ \A i \in 1..Len(lineage) : lineage'[i] = lineage[i]
      /\ lineage'[Len(lineage) + 1] = move
  BY <1>1, LongerLog
<1>3. Current' = move.to
  BY <1>2 DEF Current, Last
<1>4. lineage # << >> => FirstDraft' = FirstDraft
  BY <1>1, <1>2, LogFacts DEF FirstDraft
<1>5. lineage = << >> => FirstDraft' = move.to
  BY <1>1, <1>2 DEF FirstDraft
<1>6. \A stage : Decision(stage)' = Decision(stage)
  BY DEF Decision, Verdict, Receipt
<1>7. \A m : Authorized(m) => Authorized(m)'
  BY <1>6 DEF Authorized
<1>8. ASSUME NEW i \in DOMAIN lineage'
      PROVE  /\ lineage'[i].from = (IF i = 1 THEN Brief ELSE lineage'[i - 1].to)
             /\ Authorized(lineage[i])'
  <2>1. CASE i \in DOMAIN lineage
    <3>1. lineage'[i] = lineage[i] /\ (i # 1 => lineage'[i - 1] = lineage[i - 1])
      BY <1>1, <1>2, <2>1
    <3>2. Authorized(lineage[i]) /\ lineage[i].from = (IF i = 1 THEN Brief ELSE lineage[i - 1].to)
      BY <2>1 DEF Records, MovesAreAuthorized
    <3>3. QED
      BY <1>7, <3>1, <3>2
  <2>2. CASE i \notin DOMAIN lineage
    <3>1. i = Len(lineage) + 1 /\ lineage'[i] = move
      BY <1>1, <1>2, <2>2
    <3>2. move.from = (IF i = 1 THEN Brief ELSE lineage'[i - 1].to)
      <4>1. CASE lineage = << >>
        BY <3>1, <4>1 DEF Current
      <4>2. CASE lineage # << >>
        <5>1. Len(lineage) \in 1..Len(lineage) /\ i # 1 /\ i - 1 = Len(lineage)
          BY <1>1, <3>1, <4>2, LogFacts
        <5>2. QED
          BY <1>2, <4>2, <5>1 DEF Current, Last
      <4>3. QED
        BY <4>1, <4>2
    <3>3. QED
      BY <1>7, <3>1, <3>2
  <2>3. QED
    BY <2>1, <2>2
<1>9. MovesAreAuthorized'
  BY <1>8 DEF MovesAreAuthorized
<1>10. QED
  BY <1>2, <1>3, <1>4, <1>5, <1>9

\* The branch goes back to the selected Draft.
LEMMA AlignMoveKeeps == ASSUME IInv, AlignMove, lineage' # lineage, Next PROVE IInv'
<1> DEFINE move == [key |-> SelectKey, from |-> Current, to |-> Selected]
<1>1. /\ lineage' = Append(lineage, move) /\ Goto("aligned") /\ At("align") /\ Current # Selected
      /\ UNCHANGED <<receipts, proposals, reviews, evaluations, selections, operational>>
  BY DEF AlignMove, Raise, climb, Aligned
<1>2. Records /\ DOMAIN run = DOMAIN Idle /\ run.pending = {}
  BY <1>1 DEF IInv, Records, RecordsFormed, Run, AnswersHold
<1>3. /\ selections # << >> /\ Count \in Nat /\ Count >= 1 /\ DOMAIN selections = 1..Count
      /\ Selected = selections[Count].selected
  BY <1>1, <1>2, LogFacts DEF Selected, Records, RecordsFormed, Count, Last
<1>4. /\ Count' = Count /\ Selected' = Selected
  BY <1>1, <1>3 DEF Count, Selected
<1>5. evaluations # << >> /\ lineage # << >>
  BY <1>2, <1>3 DEF Records, LineageHolds
<1>6. Authorized(move)
  BY <1>3 DEF Authorized, SelectKey, Count
<1>7. /\ Current' = Selected /\ lineage' # << >> /\ IsLog(lineage') /\ Len(lineage') = Len(lineage) + 1
      /\ FirstDraft' = FirstDraft /\ MovesAreAuthorized'
  BY <1>1, <1>2, <1>5, <1>6, MoveKeeps
<1>8. /\ run'.at = "aligned" /\ run'.then = run.then /\ run'.pending = {} /\ DOMAIN run' = DOMAIN Idle
      /\ run'.stage = run.stage
  BY <1>1, <1>2 DEF Goto, Idle
<1>9. ~Completed
  BY <1>1, <1>2 DEF Completed, Records, CompletedHolds
<1>10. ~Completed'
  BY <1>1, <1>9 DEF Completed
<1>11. Run'
  <2>1. /\ AnswersHold' /\ ReceiptsHold' /\ StageHolds' /\ DraftingHolds' /\ RoundHolds' /\ StandingHolds'
        /\ PanelHolds'
    BY <1>8 DEF AnswersHold, ReceiptsHold, StageHolds, DraftingHolds, RoundHolds, StandingHolds, PanelHolds
  <2>2. ClimbingHolds'
    BY <1>1, <1>3, <1>4, <1>8, <1>10 DEF ClimbingHolds, IInv, Run
  <2>3. AlignmentHolds'
    BY <1>4, <1>7, <1>8 DEF AlignmentHolds
  <2>4. QED
    BY <2>1, <2>2, <2>3 DEF Run
<1>12. LineageHolds'
  <2>1. /\ DOMAIN lineage = 1..Len(lineage) /\ Len(lineage) \in Nat /\ Len(lineage) >= 1
    BY <1>2, <1>5, LogFacts DEF Records, RecordsFormed
  <2>2. /\ DOMAIN lineage' = 1..(Len(lineage) + 1)
        /\ \A i \in 1..Len(lineage) : lineage'[i] = lineage[i]
        /\ lineage'[Len(lineage) + 1] = move
    BY <1>1, <1>2, LongerLog DEF Records, RecordsFormed
  <2>3. Selected \in Builds
    BY <1>2, <1>3 DEF Records, SelectionsHold
  <2>4. \A i \in DOMAIN lineage' : lineage'[i].to \in Builds
    BY <1>2, <2>1, <2>2, <2>3 DEF Records, LineageHolds
  <2>5. lineage'[1].key = <<"apply", FirstDraft'>> /\ Initial(FirstDraft')
    BY <1>2, <1>5, <1>7, <2>1, <2>2 DEF Records, LineageHolds
  <2>6. QED
    BY <1>1, <1>3, <1>4, <1>5, <1>7, <2>4, <2>5 DEF LineageHolds
<1>13. /\ EvaluationsHold' /\ FirstFails' /\ SelectionsHold' /\ ProposalsHold' /\ ReviewsHold'
  BY <1>1, <1>2, <1>3, <1>4, <1>7 DEF Records, EvaluationsHold, FirstFails, SelectionsHold, ProposalsHold,
     ReviewsHold, StartedAt, Measured, Keys, Decision, Verdict, Receipt
<1>14. CompletedHolds'
  BY <1>10 DEF Completed, CompletedHolds
<1>15. RungsChain'
  BY <1>1, <1>2 DEF Records, RungsChain
<1>16. RecordsFormed' /\ Finite' /\ KeysDiffer'
  BY <1>1, <1>2, <1>7, <1>8, FiniteStep DEF Records, RecordsFormed, KeysDiffer
<1>17. QED
  BY <1>7, <1>11, <1>12, <1>13, <1>14, <1>15, <1>16 DEF IInv, Records

\* The branch moves to an approved child.
LEMMA ApplyKeeps == ASSUME IInv, Apply, lineage' # lineage, Next PROVE IInv'
<1> DEFINE move == [key |-> ApplyKey, from |-> Current, to |-> run.stage]
<1>1. /\ lineage' = Append(lineage, move) /\ Goto("transition") /\ At("apply")
      /\ Parent(run.stage) = Current
      /\ UNCHANGED <<receipts, proposals, reviews, evaluations, selections, operational>>
  BY DEF Apply, Raise, climb
<1>2. Records /\ DOMAIN run = DOMAIN Idle /\ run.pending = {} /\ StageHolds /\ DraftingHolds /\ RoundHolds
  BY <1>1 DEF IInv, Records, RecordsFormed, Run, AnswersHold
<1>3. run.stage \in Builds /\ (Drafting \/ Revising)
  BY <1>1, <1>2 DEF StageHolds, Builds
<1>4. Authorized(move)
  <2>1. PICK p \in proposals : p.stage = run.stage /\ p.parent = Current
    <3>1. \E p \in proposals : p.stage = run.stage
      BY <1>1, <1>2 DEF StageHolds
    <3>2. QED
      BY <1>1, <3>1 DEF Parent
  <2>2. p = [stage |-> run.stage, parent |-> Current]
    BY <1>2, <2>1 DEF Records, RecordsFormed
  <2>3. [stage |-> run.stage, decision |-> "approved"] \in reviews
    BY <1>1, <1>2 DEF StageHolds
  <2>4. Decision(run.stage) = "approved"
    BY <1>2, <2>3 DEF Records, ReviewsHold
  <2>5. QED
    BY <2>1, <2>2, <2>3, <2>4 DEF Authorized, ApplyKey
<1>5. /\ Current' = run.stage /\ lineage' # << >> /\ IsLog(lineage') /\ Len(lineage') = Len(lineage) + 1
      /\ lineage # << >> => FirstDraft' = FirstDraft
      /\ lineage = << >> => FirstDraft' = run.stage
      /\ MovesAreAuthorized'
  BY <1>1, <1>2, <1>4, MoveKeeps
<1>6. /\ run'.at = "transition" /\ run'.then = run.then /\ run'.pending = {} /\ DOMAIN run' = DOMAIN Idle
      /\ run'.stage = run.stage /\ run'.round = run.round /\ run'.baseline = run.baseline
  BY <1>1, <1>2 DEF Goto, Idle
<1>7. Count' = Count /\ Count \in Nat
  BY <1>1, <1>2, LogFacts DEF Count, Records, RecordsFormed
<1>8. Drafting => lineage = << >> /\ Count = 0 /\ evaluations = << >>
  BY <1>1, <1>2 DEF DraftingHolds, Records, LineageHolds
<1>9. Revising => /\ run.round = Count + 1 /\ run.stage = Rev(Count + 1) /\ evaluations # << >>
                  /\ lineage # << >>
  BY <1>1, <1>2 DEF RoundHolds, Records, LineageHolds
\* A revision was proposed on what its round starts from.
<1>10. Revising => Current = StartedAt(Count + 1)
  <2> SUFFICES ASSUME Revising PROVE Current = StartedAt(Count + 1)
    OBVIOUS
  <2>1. PICK p \in proposals : p.stage = run.stage /\ p.parent = Current
    <3>1. \E p \in proposals : p.stage = run.stage
      BY <1>1, <1>2 DEF StageHolds
    <3>2. QED
      BY <1>1, <3>1 DEF Parent
  <2>2. PICK n \in 1..(Count + 1) : p.stage = Rev(n) /\ p.parent = StartedAt(n)
    BY <1>2, <2>1 DEF Records, ProposalsHold
  <2>3. n = Count + 1
    BY <1>7, <1>9, <2>1, <2>2
  <2>4. QED
    BY <2>1, <2>2, <2>3
<1>11. ~Completed
  <2>1. CASE Revising
    BY <1>1, <1>2, <2>1 DEF RoundHolds
  <2>2. CASE Drafting
    <3>1. \A c : Measured(c) = {}
      BY <1>8, <2>2 DEF Measured
    <3>2. QED
      BY <1>2, <3>1 DEF Completed, Records, CompletedHolds
  <2>3. QED
    BY <1>3, <2>1, <2>2
<1>12. ~Completed'
  BY <1>1, <1>11 DEF Completed
<1>13. Count >= 1 => Selected' = Selected
  BY <1>1, <1>2 DEF Selected, Count
<1>14. Run'
  <2>1. /\ AnswersHold' /\ ReceiptsHold' /\ DraftingHolds' /\ ClimbingHolds' /\ PanelHolds'
    BY <1>6 DEF AnswersHold, ReceiptsHold, DraftingHolds, ClimbingHolds, PanelHolds
  <2>2. StageHolds'
    BY <1>1, <1>2, <1>6 DEF StageHolds
  <2>3. StandingHolds'
    BY <1>6, <1>3 DEF StandingHolds
  <2>4. RoundHolds'
    <3> SUFFICES ASSUME Revising PROVE RoundHolds'
      BY <1>6 DEF RoundHolds
    <3>1. RoundHolds /\ InRound
      BY <1>1, <1>2
    <3>2. /\ run'.round = Count' + 1 /\ run'.stage = Rev(Count' + 1) /\ evaluations' # << >>
          /\ run'.baseline \in Range(evaluations')
      BY <1>1, <1>6, <1>7, <1>9, <3>1 DEF RoundHolds
    <3>3. Count' = 0 => /\ run'.baseline.candidate \in {FirstDraft', Rev(1)}
                        /\ ~Passes(evaluations[1])' /\ Current' = Rev(1)
      BY <1>1, <1>5, <1>6, <1>7, <1>9, <3>1 DEF RoundHolds
    <3>4. Count' >= 1 => run'.baseline.candidate = Selected' /\ Current' = Rev(Count' + 1)
      BY <1>5, <1>6, <1>7, <1>9, <1>13, <3>1 DEF RoundHolds
    <3>5. \E p \in proposals' : p.stage = run'.stage
      BY <1>1, <1>2, <1>6 DEF StageHolds
    <3>6. QED
      BY <1>6, <1>12, <3>2, <3>3, <3>4, <3>5 DEF RoundHolds
  <2>5. AlignmentHolds'
    BY <1>3, <1>6, <1>7, <1>8 DEF AlignmentHolds
  <2>6. QED
    BY <2>1, <2>2, <2>3, <2>4, <2>5 DEF Run
<1>15. LineageHolds'
  <2>1. DOMAIN lineage = 1..Len(lineage) /\ Len(lineage) \in Nat /\ (lineage # << >> => Len(lineage) >= 1)
    BY <1>2, LogFacts DEF Records, RecordsFormed
  <2>2. /\ DOMAIN lineage' = 1..(Len(lineage) + 1)
        /\ \A i \in 1..Len(lineage) : lineage'[i] = lineage[i]
        /\ lineage'[Len(lineage) + 1] = move
    BY <1>1, <1>2, LongerLog DEF Records, RecordsFormed
  <2>3. \A i \in DOMAIN lineage' : lineage'[i].to \in Builds
    BY <1>2, <1>3, <2>1, <2>2 DEF Records, LineageHolds
  <2>4. lineage'[1].key = <<"apply", FirstDraft'>> /\ Initial(FirstDraft')
    <3>1. CASE lineage = << >>
      <4>1. lineage'[1] = move /\ Drafting
        BY <1>3, <1>9, <2>2, <3>1
      <4>2. QED
        BY <1>5, <3>1, <4>1 DEF ApplyKey
    <3>2. CASE lineage # << >>
      BY <1>2, <1>5, <2>1, <2>2, <3>2 DEF Records, LineageHolds
    <3>3. QED
      BY <3>1, <3>2
  <2>5. lineage = << >> => Len(lineage) = 0
    BY EmptySeq
  <2>6. Drafting => Count' = 0 /\ Len(lineage') <= 1
    BY <1>5, <1>7, <1>8, <2>5
  <2>7. Revising /\ Count = 0 => Len(lineage') <= 1 \/ (Len(lineage') = 2 /\ Current' = Rev(1))
    <3> SUFFICES ASSUME Revising, Count = 0 PROVE Len(lineage') <= 1 \/ (Len(lineage') = 2 /\ Current' = Rev(1))
      OBVIOUS
    <3>1. Current = FirstDraft /\ Initial(FirstDraft) /\ Len(lineage) >= 1 /\ Current' = Rev(1)
      BY <1>2, <1>5, <1>9, <1>10, <2>1 DEF StartedAt, Records, LineageHolds
    <3>2. Len(lineage) <= 1
      BY <1>2, <3>1 DEF Records, LineageHolds
    <3>3. Len(lineage) + 1 = 2
      BY <2>1, <3>1, <3>2
    <3>4. QED
      BY <1>5, <3>1, <3>3
  <2>8. Revising => Current' = Rev(Count' + 1) /\ evaluations' # << >>
    BY <1>1, <1>5, <1>7, <1>9
  <2>9. Count' = 0 => Len(lineage') <= 1 \/ (Len(lineage') = 2 /\ Current' = Rev(1))
    BY <1>3, <1>7, <2>6, <2>7
  <2>10. evaluations' = << >> => Count' = 0 /\ Len(lineage') <= 1
    BY <1>3, <2>6, <2>8
  <2>11. QED
    BY <1>5, <2>3, <2>4, <2>9, <2>10 DEF LineageHolds
<1>16. EvaluationsHold'
  BY <1>1, <1>2, <1>5, <1>7, <1>8, <1>9, <1>3 DEF Records, EvaluationsHold, StartedAt
<1>17. FirstFails'
  <2>1. CASE Drafting
    BY <1>5, <1>7, <1>8, <2>1 DEF FirstFails
  <2>2. CASE Revising /\ Count = 0
    BY <1>1, <1>2, <2>2 DEF RoundHolds, FirstFails
  <2>3. CASE Revising /\ Count >= 1
    BY <1>1, <1>2, <2>3 DEF Records, FirstFails
  <2>4. QED
    BY <1>3, <1>7, <2>1, <2>2, <2>3
<1>18. SelectionsHold' /\ ReviewsHold' /\ RungsChain'
  <2>1. SelectionsHold'
    BY <1>1, <1>2 DEF Records, SelectionsHold, Measured
  <2>2. \A stage : Decision(stage)' = Decision(stage)
    BY <1>1 DEF Decision, Verdict, Receipt
  <2>3. ReviewsHold'
    BY <1>1, <1>2, <2>2 DEF Records, ReviewsHold, Keys
  <2>4. RungsChain'
    BY <1>1, <1>2 DEF Records, RungsChain
  <2>5. QED
    BY <2>1, <2>3, <2>4
<1>19. ProposalsHold'
  BY <1>1, <1>2, <1>3, <1>5, <1>7, <1>8, <1>9 DEF Records, ProposalsHold, StartedAt
<1>20. CompletedHolds'
  BY <1>12 DEF Completed, CompletedHolds
<1>21. RecordsFormed' /\ Finite' /\ KeysDiffer'
  BY <1>1, <1>2, <1>5, <1>6, FiniteStep DEF Records, RecordsFormed, KeysDiffer
<1>22. QED
  BY <1>5, <1>14, <1>15, <1>16, <1>17, <1>18, <1>19, <1>20, <1>21 DEF IInv, Records

\* The panel's Evaluation of the Draft that run() started from, or of the round's child.
LEMMA EvaluateKeeps == ASSUME IInv, Evaluate, Next PROVE IInv'
<1> DEFINE e == [round |-> run.round, candidate |-> Current, scores |-> Aggregate(Given(run.round))]
<1>1. /\ evaluations' = Append(evaluations, e) /\ At("judged")
      /\ run' = [run EXCEPT !.at = "measured", !.measured = e]
      /\ UNCHANGED <<receipts, proposals, reviews, lineage, selections, operational>>
  BY DEF Evaluate
<1>2. e.round = run.round /\ e.candidate = Current
  OBVIOUS
<1> HIDE DEF e
<1>3. Records /\ DOMAIN run = DOMAIN Idle /\ run.pending = {} /\ IsLog(evaluations) /\ IsLog(lineage)
  BY <1>1 DEF IInv, Records, RecordsFormed, Run, AnswersHold
<1>4. /\ run'.at = "measured" /\ run'.pending = {} /\ DOMAIN run' = DOMAIN Idle
      /\ run'.stage = run.stage /\ run'.round = run.round /\ run'.baseline = run.baseline
      /\ run'.started = run.started /\ run'.measured = e
  BY <1>1, <1>3 DEF Idle
<1>5. /\ Current' = Current /\ Selected' = Selected /\ Count' = Count /\ Count \in Nat
      /\ DOMAIN selections = 1..Count /\ (Count >= 1 => selections # << >>) /\ FirstDraft' = FirstDraft
  BY <1>1, <1>3, LogFacts DEF Current, Selected, Count, FirstDraft, Records, RecordsFormed
<1>6. /\ Len(evaluations) \in Nat /\ DOMAIN evaluations = 1..Len(evaluations)
      /\ evaluations # << >> => Len(evaluations) >= 1
      /\ IsLog(evaluations') /\ evaluations' # << >>
      /\ DOMAIN evaluations' = 1..(Len(evaluations) + 1)
      /\ \A i \in 1..Len(evaluations) : evaluations'[i] = evaluations[i]
      /\ evaluations'[Len(evaluations) + 1] = e
  BY <1>1, <1>3, LogFacts, LongerLog
<1>7. evaluations # << >> => evaluations'[1] = evaluations[1]
  BY <1>6
<1>8. (Standing \/ (run.stage \in Builds /\ Revising)) /\ ~Drafting
  BY <1>1, Modes DEF IInv, Run, StageHolds
<1>9. Standing => /\ lineage # << >> /\ Count = 0 /\ run.round = 0 /\ run.started = Current
                  /\ evaluations = << >> /\ Current = FirstDraft
  <2> SUFFICES ASSUME Standing
               PROVE  /\ lineage # << >> /\ Count = 0 /\ run.round = 0 /\ run.started = Current
                      /\ evaluations = << >> /\ Current = FirstDraft
    OBVIOUS
  <2>1. lineage # << >> /\ Count = 0 /\ run.round = 0 /\ run.started = Current
    BY <1>1 DEF IInv, Run, StandingHolds
  <2>2. Evaluated(0) = {}
    BY <1>1, <2>1 DEF IInv, Run, PanelHolds
  <2>3. evaluations = << >>
    <3>1. SUFFICES ASSUME evaluations # << >> PROVE FALSE
      OBVIOUS
    <3>2. 1 \in DOMAIN evaluations /\ evaluations[1].round = 0
      BY <1>3, <1>6, <3>1 DEF Records, EvaluationsHold
    <3>3. QED
      BY <2>2, <3>2 DEF Evaluated
  <2>4. Len(lineage) \in Nat /\ Len(lineage) >= 1 /\ ~(Len(lineage) >= 2)
    BY <1>3, <2>1, <2>3, LogFacts DEF Records, LineageHolds
  <2>5. Len(lineage) = 1
    BY <2>4, OneLong, Zenon
  <2>6. QED
    BY <2>1, <2>3, <2>5 DEF Current, Last, FirstDraft
<1>10. Revising => /\ run.round = Count + 1 /\ run.stage = Rev(Count + 1) /\ evaluations # << >> /\ ~Completed
                   /\ lineage # << >>
                   /\ Count = 0 => Current = Rev(1)
                   /\ Count >= 1 => Current \in {Selected, Rev(Count + 1)}
  BY <1>1, <1>3 DEF IInv, Run, RoundHolds, Records, LineageHolds
<1>11. ~Completed /\ ~Completed'
  <2>1. CASE Standing
    <3>1. \A c : Measured(c) = {}
      BY <1>6, <1>9, <2>1 DEF Measured
    <3>2. QED
      BY <1>1, <1>3, <3>1 DEF Completed, Records, CompletedHolds
  <2>2. CASE Revising
    BY <1>1, <1>10, <2>2 DEF Completed
  <2>3. QED
    BY <1>8, <2>1, <2>2
<1>12. Run'
  <2>1. /\ AnswersHold' /\ ReceiptsHold' /\ ClimbingHolds' /\ PanelHolds' /\ DraftingHolds' /\ StageHolds'
    BY <1>4, <1>8 DEF AnswersHold, ReceiptsHold, ClimbingHolds, PanelHolds, DraftingHolds, StageHolds
  <2>2. AlignmentHolds'
    BY <1>4, <1>5, <1>8, <1>9 DEF AlignmentHolds
  <2>3. RoundHolds'
    <3> SUFFICES ASSUME Revising PROVE RoundHolds'
      BY <1>4 DEF RoundHolds
    <3>1. RoundHolds
      BY DEF IInv, Run
    <3>2. Range(evaluations) \subseteq Range(evaluations') /\ e \in Range(evaluations')
      BY <1>6 DEF Range
    <3>3. /\ run'.round = Count' + 1 /\ run'.stage = Rev(Count' + 1) /\ evaluations' # << >>
          /\ run'.baseline \in Range(evaluations')
      BY <1>1, <1>4, <1>5, <1>6, <1>10, <3>1, <3>2 DEF RoundHolds
    <3>4. Count' = 0 => /\ run'.baseline.candidate \in {FirstDraft', Rev(1)}
                        /\ ~Passes(evaluations[1])' /\ Current' = Rev(1)
      <4> SUFFICES ASSUME Count = 0
                   PROVE  /\ run'.baseline.candidate \in {FirstDraft', Rev(1)}
                          /\ ~Passes(evaluations[1])' /\ Current' = Rev(1)
        BY <1>5
      <4>1. run.baseline.candidate \in {FirstDraft, Rev(1)} /\ ~Passes(evaluations[1])
        BY <1>1, <3>1 DEF RoundHolds
      <4>2. Passes(evaluations[1])' = Passes(evaluations[1])
        BY <1>7, <1>10 DEF Passes
      <4>3. QED
        BY <1>4, <1>5, <1>10, <4>1, <4>2
    <3>5. Count' >= 1 => run'.baseline.candidate = Selected' /\ Current' \in {Selected', Rev(Count' + 1)}
      BY <1>1, <1>4, <1>5, <1>10, <3>1 DEF RoundHolds
    <3>6. \E p \in proposals' : p.stage = run'.stage
      BY <1>1, <1>4, <3>1 DEF RoundHolds
    <3>7. QED
      BY <1>2, <1>4, <1>11, <3>2, <3>3, <3>4, <3>5, <3>6 DEF RoundHolds
  <2>4. StandingHolds'
    <3> SUFFICES ASSUME Standing PROVE StandingHolds'
      BY <1>4 DEF StandingHolds
    <3>1. Len(evaluations) = 0
      BY <1>9, EmptySeq
    <3>2. Measured(Current)' \in SUBSET (1..1) /\ 1 \in Measured(Current)'
      BY <1>2, <1>5, <1>6, <3>1 DEF Measured
    <3>3. Max(Measured(Current)') \in Measured(Current)'
      BY <3>2, LargestIndex
    <3>4. Max(Measured(Current)') = 1
      BY <3>2, <3>3
    <3>5. Latest(Current)' = e
      BY <1>6, <3>1, <3>4 DEF Latest
    <3>6. QED
      BY <1>1, <1>4, <1>5, <1>9, <3>2, <3>5 DEF StandingHolds
  <2>5. QED
    BY <2>1, <2>2, <2>3, <2>4 DEF Run
<1>13. LineageHolds'
  <2>1. lineage # << >>
    BY <1>8, <1>9, <1>10
  <2>2. QED
    BY <1>1, <1>3, <1>5, <1>6, <2>1 DEF Records, LineageHolds
<1>14. \A n : StartedAt(n)' = StartedAt(n)
  BY <1>1, <1>5 DEF StartedAt
<1>15. EvaluationsHold'
  <2>1. evaluations'[1].round = 0 /\ evaluations'[1].candidate = FirstDraft'
    <3>1. CASE evaluations # << >>
      BY <1>3, <1>5, <1>7, <3>1 DEF Records, EvaluationsHold
    <3>2. CASE evaluations = << >>
      <4>1. Standing /\ Len(evaluations) = 0
        BY <1>8, <1>10, <3>2, EmptySeq
      <4>2. QED
        BY <1>2, <1>5, <1>6, <1>9, <4>1
    <3>3. QED
      BY <3>1, <3>2
  <2>2. ASSUME NEW i \in DOMAIN evaluations', i > 1
        PROVE  \E n \in 1..(Count' + 1) :
                  /\ evaluations'[i].round = n
                  /\ evaluations'[i].candidate \in {Rev(n), StartedAt(n)'}
                  /\ n = 1 => evaluations'[i].candidate = Rev(1)
    <3>1. CASE i \in DOMAIN evaluations
      <4>1. evaluations'[i] = evaluations[i]
        BY <1>6, <3>1
      <4>2. PICK n \in 1..(Count + 1) :
                  /\ evaluations[i].round = n
                  /\ evaluations[i].candidate \in {Rev(n), StartedAt(n)}
                  /\ n = 1 => evaluations[i].candidate = Rev(1)
        BY <1>3, <2>2, <3>1 DEF Records, EvaluationsHold
      <4>3. QED
        BY <1>5, <1>14, <4>1, <4>2
    <3>2. CASE i \notin DOMAIN evaluations
      <4>1. i = Len(evaluations) + 1 /\ evaluations'[i] = e /\ Len(evaluations) >= 1
        BY <1>6, <2>2, <3>2
      <4>2. Revising
        <5>1. ~Standing
          BY <1>9, <4>1, EmptySeq
        <5>2. QED
          BY <1>8, <5>1
      <4>3. PICK n \in 1..(Count' + 1) : n = Count + 1
        BY <1>5
      <4>4. Count >= 1 => StartedAt(n) = Selected
        BY <1>5, <4>3 DEF StartedAt, Selected, Last, Count
      <4>5. e.round = n /\ e.candidate \in {Rev(n), StartedAt(n)}
        BY <1>2, <1>5, <1>10, <4>2, <4>3, <4>4
      <4>6. n = 1 => e.candidate = Rev(1)
        BY <1>2, <1>5, <1>10, <4>2, <4>3
      <4>7. QED
        BY <1>14, <4>1, <4>5, <4>6
    <3>3. QED
      BY <3>1, <3>2
  <2>3. QED
    BY <2>1, <2>2 DEF EvaluationsHold
<1>16. SelectionsHold'
  <2>1. \A c : Measured(c) \subseteq Measured(c)'
    BY <1>6 DEF Measured
  <2>2. QED
    BY <1>1, <1>3, <2>1 DEF Records, SelectionsHold
<1>17. Len(lineage) >= 2 \/ Count >= 1 => evaluations # << >>
  BY <1>3, <1>5, LogFacts DEF Records, LineageHolds
<1>18. FirstFails'
  <2>1. evaluations # << >> => Passes(evaluations[1])' = Passes(evaluations[1])
    BY <1>7 DEF Passes
  <2>2. QED
    BY <1>1, <1>3, <1>5, <1>17, <2>1 DEF Records, FirstFails
<1>19. RungsChain'
  <2>1. CASE Count >= 1
    <3>1. evaluations'[1] = evaluations[1]
      BY <1>7, <1>17, <2>1
    <3>2. QED
      BY <1>1, <1>3, <3>1 DEF Records, RungsChain, Passes
  <2>2. CASE ~(Count >= 1)
    BY <1>1, <1>5, <2>2 DEF RungsChain
  <2>3. QED
    BY <2>1, <2>2
<1>20. \A stage : Decision(stage)' = Decision(stage)
  BY <1>1 DEF Decision, Verdict, Receipt
<1>21. ReviewsHold' /\ MovesAreAuthorized'
  BY <1>1, <1>3, <1>20 DEF Records, ReviewsHold, MovesAreAuthorized, Authorized, Keys
<1>22. ProposalsHold'
  BY <1>1, <1>3, <1>5, <1>6, <1>14 DEF Records, ProposalsHold
<1>23. CompletedHolds'
  BY <1>11 DEF Completed, CompletedHolds
<1>24. RecordsFormed' /\ Finite' /\ KeysDiffer'
  BY <1>1, <1>3, <1>4, <1>6, FiniteStep DEF Records, RecordsFormed, KeysDiffer
<1>25. QED
  BY <1>12, <1>13, <1>15, <1>16, <1>18, <1>19, <1>21, <1>22, <1>23, <1>24 DEF IInv, Records

\* A round selects: its baseline was what it started from, its child what it proposed.
LEMMA SelectKeeps == ASSUME IInv, Select, Next PROVE IInv'
<1> DEFINE baseline == run.baseline
           child == run.measured
           winner == IF ChildWins(baseline, child) THEN child ELSE baseline
           s == [baseline |-> baseline, child |-> child, selected |-> winner.candidate]
<1>1. CASE baseline.candidate = child.candidate
  <2>1. Settled
    BY <1>1, RaisesStill DEF Select, Settled
  <2>2. QED
    BY <2>1, RecordsStay DEF IInv, Settled
<1>2. CASE baseline.candidate # child.candidate
  <2>1. /\ selections' = Append(selections, s) /\ At("select") /\ GotoThen("align", "rung")
        /\ UNCHANGED <<receipts, proposals, reviews, evaluations, lineage, operational>>
    BY <1>2 DEF Select
  <2>2. /\ s.baseline = baseline /\ s.child = child
        /\ s.selected = winner.candidate
    OBVIOUS
  <2>3. \/ s.selected = baseline.candidate
        \/ /\ s.selected = child.candidate /\ Passes(child)
           /\ Overall(child.scores) > Overall(baseline.scores)
    BY <2>2 DEF ChildWins
  <2> HIDE DEF s
  <2>4. Records /\ DOMAIN run = DOMAIN Idle /\ run.pending = {} /\ IsLog(selections)
    BY <2>1 DEF IInv, Records, RecordsFormed, Run, AnswersHold
  <2>5. /\ run'.at = "align" /\ run'.then = "rung" /\ run'.pending = {} /\ DOMAIN run' = DOMAIN Idle
        /\ run'.stage = run.stage
    BY <2>1, <2>4 DEF GotoThen, Idle
  <2>6. /\ Count \in Nat /\ DOMAIN selections = 1..Count /\ (Count >= 1 => selections # << >>)
        /\ IsLog(selections') /\ selections' # << >>
        /\ Count' = Count + 1 /\ DOMAIN selections' = 1..(Count + 1)
        /\ \A i \in 1..Count : selections'[i] = selections[i]
        /\ selections'[Count + 1] = s
    BY <2>1, <2>4, LogFacts, LongerLog DEF Count
  <2>7. /\ run.stage = Rev(Count + 1) /\ evaluations # << >> /\ lineage # << >> /\ ~Completed /\ RoundHolds
        /\ baseline \in Range(evaluations) /\ child \in Range(evaluations) /\ child.round = Count + 1
        /\ \E p \in proposals : p.stage = run.stage
        /\ Count = 0 => baseline.candidate \in {FirstDraft, Rev(1)} /\ ~Passes(evaluations[1])
        /\ Count >= 1 => baseline.candidate = Selected
    <3>1. InRound /\ RoundHolds
      BY <2>1 DEF IInv, Run, StageHolds
    <3>2. QED
      BY <2>1, <2>4, <3>1 DEF RoundHolds, Records, LineageHolds
  <2>8. Current' = Current /\ FirstDraft' = FirstDraft /\ ~Completed'
    BY <2>1, <2>7 DEF Current, FirstDraft, Completed
  <2>9. Count >= 1 => Selected = StartedAt(Count + 1)
    BY <2>6 DEF Selected, StartedAt, Last, Count
  <2>10. Count = 0 => FirstDraft = StartedAt(Count + 1)
    BY DEF StartedAt
  <2>11. /\ child.candidate \in {Rev(Count + 1), StartedAt(Count + 1)}
         /\ Count = 0 => child.candidate = Rev(1)
    <3>1. PICK i \in DOMAIN evaluations : child = evaluations[i]
      BY <2>7 DEF Range
    <3>2. i \in Nat /\ i >= 1
      BY <2>4, LogFacts DEF Records, RecordsFormed
    <3>3. i # 1
      BY <2>4, <2>6, <2>7, <3>1 DEF Records, EvaluationsHold
    <3>4. PICK n \in 1..(Count + 1) :
             /\ child.round = n
             /\ child.candidate \in {Rev(n), StartedAt(n)}
             /\ n = 1 => child.candidate = Rev(1)
      BY <2>4, <3>1, <3>2, <3>3 DEF Records, EvaluationsHold
    <3>5. n = Count + 1
      BY <2>7, <3>4
    <3>6. QED
      BY <3>4, <3>5
  <2>12. baseline.candidate = StartedAt(Count + 1) /\ child.candidate = Rev(Count + 1)
    BY <1>2, <2>6, <2>7, <2>9, <2>10, <2>11
  <2>13. [stage |-> Rev(Count + 1), parent |-> StartedAt(Count + 1)] \in proposals
    <3>1. PICK p \in proposals : p.stage = Rev(Count + 1)
      BY <2>7
    <3>2. PICK n \in 1..(Count + 1) : p.stage = Rev(n) /\ p.parent = StartedAt(n)
      BY <2>4, <3>1 DEF Records, ProposalsHold
    <3>3. n = Count + 1
      BY <2>6, <3>1, <3>2
    <3>4. p = [stage |-> p.stage, parent |-> p.parent]
      BY <2>4 DEF Records, RecordsFormed
    <3>5. QED
      BY <3>1, <3>2, <3>3, <3>4
  <2>14. \A n \in 1..(Count + 1) : StartedAt(n)' = StartedAt(n)
    BY <2>6, <2>8 DEF StartedAt
  <2>15. StartedAt(1) = FirstDraft /\ FirstDraft = evaluations[1].candidate
    BY <2>4, <2>7 DEF StartedAt, Records, EvaluationsHold
  <2>16. /\ StartedAt(Count + 1) \in Builds
         /\ Initial(StartedAt(Count + 1)) \/ \E m \in 1..Count : StartedAt(Count + 1) = Rev(m)
    <3>1. CASE Count = 0
      <4>1. 1 \in DOMAIN lineage
        BY <2>4, <2>7, LogFacts DEF Records, RecordsFormed
      <4>2. FirstDraft \in Builds /\ Initial(FirstDraft)
        BY <2>4, <2>7, <4>1 DEF Records, LineageHolds, FirstDraft
      <4>3. QED
        BY <2>10, <3>1, <4>2
    <3>2. CASE Count >= 1
      <4>1. Count \in DOMAIN selections /\ StartedAt(Count + 1) = selections[Count].selected
        BY <2>6, <3>2 DEF StartedAt
      <4>2. QED
        BY <2>4, <4>1 DEF Records, SelectionsHold
    <3>3. QED
      BY <2>6, <3>1, <3>2
  <2>17. Run'
    <3>1. /\ AnswersHold' /\ ReceiptsHold' /\ StageHolds' /\ DraftingHolds' /\ RoundHolds' /\ StandingHolds'
          /\ PanelHolds' /\ AlignmentHolds'
      BY <2>5 DEF AnswersHold, ReceiptsHold, StageHolds, DraftingHolds, RoundHolds, StandingHolds, PanelHolds,
         AlignmentHolds
    <3>2. ~Passes(evaluations[1])
      BY <2>4, <2>6, <2>7 DEF Records, FirstFails
    <3>3. ClimbingHolds'
      BY <2>1, <2>5, <2>6, <2>7, <2>8, <3>2 DEF ClimbingHolds
    <3>4. QED
      BY <3>1, <3>3 DEF Run
  <2>18. LineageHolds'
    BY <2>1, <2>4, <2>6, <2>7, <2>8 DEF Records, LineageHolds
  <2>19. EvaluationsHold'
    <3>1. ASSUME NEW i \in DOMAIN evaluations, i > 1
          PROVE  \E n \in 1..(Count' + 1) :
                    /\ evaluations[i].round = n
                    /\ evaluations[i].candidate \in {Rev(n), StartedAt(n)'}
                    /\ n = 1 => evaluations[i].candidate = Rev(1)
      <4>1. PICK n \in 1..(Count + 1) :
                    /\ evaluations[i].round = n
                    /\ evaluations[i].candidate \in {Rev(n), StartedAt(n)}
                    /\ n = 1 => evaluations[i].candidate = Rev(1)
        BY <2>4, <3>1 DEF Records, EvaluationsHold
      <4>2. n \in 1..(Count' + 1)
        BY <2>6
      <4>3. QED
        BY <2>14, <4>1, <4>2
    <3>2. evaluations'[1].round = 0 /\ evaluations'[1].candidate = FirstDraft'
      BY <2>1, <2>4, <2>7, <2>8 DEF Records, EvaluationsHold
    <3>3. QED
      BY <2>1, <3>1, <3>2 DEF EvaluationsHold
  <2>20. ProposalsHold'
    <3>1. ASSUME NEW p \in proposals
          PROVE  \/ Initial(p.stage) /\ p.parent = Brief
                 \/ \E n \in 1..(Count' + 1) : p.stage = Rev(n) /\ p.parent = StartedAt(n)'
      <4>1. CASE Initial(p.stage) /\ p.parent = Brief
        BY <4>1
      <4>2. CASE ~(Initial(p.stage) /\ p.parent = Brief)
        <5>1. PICK n \in 1..(Count + 1) : p.stage = Rev(n) /\ p.parent = StartedAt(n)
          BY <2>4, <4>2 DEF Records, ProposalsHold
        <5>2. n \in 1..(Count' + 1)
          BY <2>6
        <5>3. QED
          BY <2>14, <5>1, <5>2
      <4>3. QED
        BY <4>1, <4>2
    <3>2. QED
      BY <2>1, <2>7, <3>1 DEF ProposalsHold
  <2>21. SelectionsHold'
    <3>1. \A c : Measured(c)' = Measured(c)
      BY <2>1 DEF Measured
    <3>2. Measured(baseline.candidate) # {} /\ Measured(child.candidate) # {}
      BY <2>7 DEF Measured, Range
    <3>3. /\ Measured(s.selected) # {} /\ s.selected \in Builds
          /\ Initial(s.selected) \/ \E m \in 1..(Count + 1) : s.selected = Rev(m)
      <4>1. CASE s.selected = baseline.candidate
        BY <2>6, <2>12, <2>16, <3>2, <4>1
      <4>2. CASE s.selected = child.candidate
        BY <2>6, <2>12, <3>2, <4>2 DEF Builds
      <4>3. QED
        BY <2>3, <4>1, <4>2
    <3>4. ASSUME NEW n \in DOMAIN selections'
          PROVE  /\ Measured(selections[n].selected)' # {} /\ selections'[n].selected \in Builds
                 /\ Initial(selections'[n].selected) \/ \E m \in 1..n : selections'[n].selected = Rev(m)
      <4>1. CASE n \in 1..Count
        <5>1. n \in DOMAIN selections /\ selections'[n] = selections[n]
          BY <2>6, <4>1
        <5>2. QED
          BY <2>4, <3>1, <5>1 DEF Records, SelectionsHold
      <4>2. CASE n \notin 1..Count
        <5>1. n = Count + 1 /\ selections'[n] = s
          BY <2>6, <4>2
        <5>2. QED
          BY <3>1, <3>3, <5>1
      <4>3. QED
        BY <4>1, <4>2
    <3>5. QED
      BY <3>4 DEF SelectionsHold
  <2>22. FirstFails'
    BY <2>1, <2>4, <2>6, <2>7 DEF Records, FirstFails
  <2>23. RungsChain'
    <3>1. ASSUME NEW n \in DOMAIN selections'
          PROVE  LET t == selections'[n]
                     started == IF n = 1 THEN evaluations'[1].candidate ELSE selections'[n - 1].selected
                 IN /\ t.baseline.candidate = started
                    /\ [stage |-> <<"revision", n>>, parent |-> started] \in proposals'
                    /\ t.child.candidate = <<"revision", n>>
                    /\ \/ t.selected = t.baseline.candidate
                       \/ /\ t.selected = t.child.candidate
                          /\ Passes(t.child)
                          /\ Overall(t.child.scores) > Overall(t.baseline.scores)
      <4>1. CASE n \in 1..Count
        <5>1. n \in DOMAIN selections /\ selections'[n] = selections[n]
              /\ (n # 1 => selections'[n - 1] = selections[n - 1])
          BY <2>6, <4>1
        <5>2. QED
          BY <2>1, <2>4, <5>1 DEF Records, RungsChain
      <4>2. CASE n \notin 1..Count
        <5>1. n = Count + 1 /\ selections'[n] = s
          BY <2>6, <4>2
        <5>2. StartedAt(n) = IF n = 1 THEN evaluations'[1].candidate ELSE selections'[n - 1].selected
          <6>1. n # 1 => selections'[n - 1] = selections[n - 1]
            BY <2>6, <5>1
          <6>2. QED
            BY <2>1, <2>15, <6>1 DEF StartedAt
        <5>3. QED
          BY <2>1, <2>2, <2>3, <2>12, <2>13, <5>1, <5>2
      <4>3. QED
        BY <4>1, <4>2
    <3>2. QED
      BY <3>1 DEF RungsChain
  <2>24. \A stage : Decision(stage)' = Decision(stage)
    BY <2>1 DEF Decision, Verdict, Receipt
  <2>25. ReviewsHold'
    BY <2>1, <2>4, <2>24 DEF Records, ReviewsHold, Keys
  <2>26. MovesAreAuthorized'
    <3>1. \A move : Authorized(move) => Authorized(move)'
      BY <2>1, <2>6, <2>24 DEF Authorized
    <3>2. QED
      BY <2>1, <2>4, <3>1 DEF Records, MovesAreAuthorized
  <2>27. CompletedHolds'
    BY <2>8 DEF Completed, CompletedHolds
  <2>28. RecordsFormed' /\ Finite' /\ KeysDiffer'
    BY <2>1, <2>4, <2>5, <2>6, FiniteStep DEF Records, RecordsFormed, KeysDiffer
  <2>29. QED
    BY <2>17, <2>18, <2>19, <2>20, <2>21, <2>22, <2>23, <2>25, <2>26, <2>27, <2>28 DEF IInv, Records
<1>3. QED
  BY <1>1, <1>2

\* generation_completed is written of the Draft that is current and selected.
LEMMA CompleteKeeps == ASSUME IInv, Complete, Next PROVE IInv'
<1>1. /\ operational' = operational \cup {<<"completed", IF selections = << >> THEN run.started ELSE Selected>>}
      /\ Ends("completed") /\ At("complete")
      /\ UNCHANGED <<receipts, proposals, reviews, evaluations, lineage, selections>>
  BY DEF Complete, Event, climb
<1>2. Records /\ Standing
  BY <1>1 DEF IInv, Run, StageHolds
<1>3. /\ Measured(Current) # {} /\ Passes(Latest(Current))
      /\ Count = 0 => run.started = Current
  BY <1>1, <1>2 DEF IInv, Run, StandingHolds
<1>4. Count >= 1 => Current = Selected
  BY <1>1, <1>2, Modes DEF IInv, Run, AlignmentHolds
<1>5. /\ Count \in Nat /\ (Count = 0 <=> selections = << >>) /\ (selections = << >> => Selected = Current)
  <2>1. Len(selections) \in Nat /\ (selections # << >> => Len(selections) >= 1)
    BY <1>2, LogFacts DEF Records, RecordsFormed
  <2>2. Len(<< >>) = 0
    BY EmptySeq
  <2>3. QED
    BY <2>1, <2>2 DEF Count, Selected
<1>6. Selected = Current /\ operational' = operational \cup {<<"completed", Current>>}
  BY <1>1, <1>3, <1>4, <1>5
<1>7. /\ Current' = Current /\ Selected' = Selected /\ Count' = Count /\ FirstDraft' = FirstDraft
      /\ \A c : Measured(c)' = Measured(c)
  BY <1>1 DEF Current, Selected, Count, FirstDraft, Measured
<1>8. CompletedHolds'
  <2>1. ASSUME NEW e \in operational', e[1] = "completed"
        PROVE  /\ Current' = e[2] /\ Selected' = e[2]
               /\ Measured(e[2])' # {} /\ Passes(Latest(e[2]))'
    <3>1. /\ Current = e[2] /\ Selected = e[2]
          /\ Measured(e[2]) # {} /\ Passes(Latest(e[2]))
      <4>1. CASE e \in operational
        BY <1>2, <2>1, <4>1 DEF Records, CompletedHolds
      <4>2. CASE e \notin operational
        BY <1>3, <1>6, <4>2
      <4>3. QED
        BY <4>1, <4>2
    <3>2. Latest(e[2])' = Latest(e[2])
      <4>1. Measured(e[2])' = Measured(e[2])
        BY <1>1 DEF Measured
      <4>2. QED
        BY <1>1, <4>1 DEF Latest
    <3>3. Measured(e[2])' = Measured(e[2])
      BY <1>1 DEF Measured
    <3>4. QED
      BY <1>7, <3>1, <3>2, <3>3
  <2>2. QED
    BY <2>1 DEF CompletedHolds
<1>9. LineageHolds' /\ EvaluationsHold' /\ FirstFails' /\ ProposalsHold'
  BY <1>1, <1>2, <1>7 DEF Records, LineageHolds, EvaluationsHold, FirstFails, ProposalsHold, StartedAt, FirstDraft
<1>10. SelectionsHold' /\ RungsChain'
  BY <1>1, <1>2, <1>7 DEF Records, SelectionsHold, RungsChain
<1>11. \A stage : Decision(stage)' = Decision(stage)
  BY <1>1 DEF Decision, Verdict, Receipt
<1>12. ReviewsHold' /\ MovesAreAuthorized'
  BY <1>1, <1>2, <1>11 DEF Records, ReviewsHold, MovesAreAuthorized, Authorized, Keys
<1>13. Run' /\ DOMAIN run' = DOMAIN Idle
  BY <1>1, Ended, Leaving
<1>14. RecordsFormed' /\ Finite' /\ KeysDiffer'
  BY <1>1, <1>2, <1>13, FiniteStep DEF Records, RecordsFormed, KeysDiffer
<1>15. QED
  BY <1>8, <1>9, <1>10, <1>12, <1>13, <1>14 DEF IInv, Records

-----------------------------------------------------------------------------
(* The inductive invariant *)

LEMMA InitIInv == Init => IInv
<1> SUFFICES ASSUME Init PROVE IInv
  OBVIOUS
<1>1. /\ receipts = {} /\ proposals = {} /\ reviews = {} /\ evaluations = << >> /\ selections = << >>
      /\ lineage = << >> /\ operational = {} /\ run = Idle
  BY DEF Init
<1>2. IsLog(<< >>) /\ Len(<< >>) = 0 /\ DOMAIN << >> = {}
  <2>1. << >> \in Seq({}) /\ Len(<< >>) = 0
    BY EmptySeq
  <2>2. IsLog(<< >>)
    BY <2>1, SeqIsLog
  <2>3. DOMAIN << >> = {}
    OBVIOUS
  <2>4. QED
    BY <2>1, <2>2, <2>3
<1>3. Count = 0
  BY <1>1, <1>2 DEF Count
<1>4. RecordsFormed /\ Finite /\ KeysDiffer /\ ReviewsHold /\ ProposalsHold
  BY <1>1, <1>2, FS_EmptySet DEF RecordsFormed, Finite, KeysDiffer, ReviewsHold, ProposalsHold
<1>5. LineageHolds /\ EvaluationsHold /\ SelectionsHold /\ FirstFails /\ CompletedHolds
  BY <1>1, <1>2, <1>3 DEF LineageHolds, EvaluationsHold, SelectionsHold, FirstFails, CompletedHolds
<1>6. MovesAreAuthorized /\ RungsChain
  BY <1>1, <1>2 DEF MovesAreAuthorized, RungsChain
<1>7. run.at = "idle" /\ run.pending = {}
  BY <1>1 DEF Idle
<1>8. Run
  BY <1>7 DEF Run, AnswersHold, ReceiptsHold, StageHolds, DraftingHolds, RoundHolds, ClimbingHolds,
     AlignmentHolds, StandingHolds, PanelHolds
<1>9. QED
  BY <1>4, <1>5, <1>6, <1>8 DEF IInv, Records

LEMMA StepIInv == IInv /\ [Next]_vars => IInv'
<1> SUFFICES ASSUME IInv, [Next]_vars PROVE IInv'
  OBVIOUS
<1>1. CASE Next /\ Settled
  BY <1>1, RecordsStay DEF IInv, Settled
<1>2. CASE Next /\ Recording
  BY <1>2, AnswerKeeps, ProposeKeeps, ReviewKeeps, EvaluateKeeps, SelectKeeps, CompleteKeeps, AlignMoveKeeps,
     ApplyKeeps DEF Recording
<1>3. CASE UNCHANGED vars
  <2>1. Still /\ run' = run /\ Records /\ Run
    BY <1>3 DEF vars, Still, IInv
  <2>2. /\ LineageHolds' /\ EvaluationsHold' /\ FirstFails' /\ SelectionsHold' /\ CompletedHolds'
        /\ RungsChain' /\ Current' = Current /\ Selected' = Selected /\ Count' = Count
        /\ FirstDraft' = FirstDraft /\ Completed' = Completed
        /\ Measured(Current)' = Measured(Current) /\ Latest(Current)' = Latest(Current)
    BY <2>1, HistoryStays DEF Still
  <2>3. RecordsFormed' /\ Finite' /\ KeysDiffer' /\ ProposalsHold'
    BY <1>3, <2>1, <2>2 DEF vars, Records, RecordsFormed, Finite, KeysDiffer, ProposalsHold, StartedAt, FirstDraft
  <2>4. \A stage : Decision(stage)' = Decision(stage)
    BY <1>3 DEF vars, Decision, Verdict, Receipt
  <2>5. ReviewsHold' /\ MovesAreAuthorized'
    BY <1>3, <2>1, <2>4 DEF vars, Records, ReviewsHold, MovesAreAuthorized, Authorized, Keys
  <2>6. AnswersHold' /\ ReceiptsHold' /\ PanelHolds'
    BY <1>3, <2>1 DEF vars, Run, AnswersHold, ReceiptsHold, PanelHolds, PanelKeys, Keys, Evaluated
  <2>7. StageHolds' /\ DraftingHolds' /\ ClimbingHolds'
    BY <1>3, <2>1, <2>2 DEF vars, Run, StageHolds, DraftingHolds, ClimbingHolds
  <2>8. RoundHolds' /\ AlignmentHolds'
    BY <1>3, <2>1, <2>2 DEF vars, Run, RoundHolds, AlignmentHolds
  <2>9. StandingHolds'
    <3>1. Passes(Latest(Current))' = Passes(Latest(Current)) /\ Passes(evaluations[1])' = Passes(evaluations[1])
      BY <1>3, <2>2 DEF vars, Passes
    <3>2. QED
      BY <1>3, <2>1, <2>2, <3>1 DEF vars, Run, StandingHolds
  <2>10. QED
    BY <2>2, <2>3, <2>5, <2>6, <2>7, <2>8, <2>9 DEF IInv, Records, Run
<1>4. QED
  BY <1>1, <1>2, <1>3, QuietSteps

LEMMA SpecIInv == Spec => []IInv
BY InitIInv, StepIInv, PTL DEF Spec

\* The branch moves to a Draft only from the parent its Proposal was built on and
\* with the receipted approval of another, and back only where evidence said
\* (climb_once, _align_selected_draft), however often the run was interrupted.
THEOREM MovesAlwaysAuthorized == Spec => []MovesAreAuthorized
<1>1. IInv => MovesAreAuthorized
  BY DEF IInv, Records
<1>2. QED
  BY <1>1, SpecIInv, PTL

\* Each round starts from what the round before selected and selects its child only
\* for a passing, better score (GenerationCoordinator.climb_once, select_revision).
THEOREM RungsAlwaysChain == Spec => []RungsChain
<1>1. IInv => RungsChain
  BY DEF IInv, Records
<1>2. QED
  BY <1>1, SpecIInv, PTL

\* generation_completed names the current Draft's Candidate, which passed a panel
\* of its own (run).
THEOREM CompletionIsEarned == Spec => []CompletedPassed
<1>1. ASSUME IInv PROVE CompletedPassed
  <2>1. ASSUME NEW candidate \in Stages, <<"completed", candidate>> \in operational
        PROVE  /\ Current = candidate
               /\ \E i \in DOMAIN evaluations : evaluations[i].candidate = candidate /\ Passes(evaluations[i])
    <3>1. /\ Current = candidate /\ Measured(candidate) # {} /\ Passes(Latest(candidate)) /\ RecordsFormed
      BY <1>1, <2>1 DEF IInv, Records, CompletedHolds
    <3>2. Latest(candidate) \in Range(evaluations) /\ Latest(candidate).candidate = candidate
      BY <3>1, LatestFacts
    <3>3. QED
      BY <3>1, <3>2 DEF Range
  <2>2. QED
    BY <2>1 DEF CompletedPassed
<1>2. QED
  BY <1>1, SpecIInv, PTL

-----------------------------------------------------------------------------
(* The budget *)

\* What a step asks the drivers for: what has no receipt, within the budget.
Asks ==
    \E keys, then :
        /\ Invoke(keys, then) /\ UNCHANGED receipts
        /\ IsLog(keys)
        /\ BudgetAllows(Cardinality(Missing(keys)))

LEMMA AsksOrNot == ASSUME IInv, Next, ~At("answers") PROVE (run'.pending = {} /\ receipts' = receipts) \/ Asks
<1>1. run.pending = {} /\ DOMAIN run = DOMAIN Idle
  BY DEF IInv, Records, RecordsFormed, Run, AnswersHold
<1>2. ASSUME NEW key, NEW then, ModelTask(key, then)
      PROVE  (run'.pending = {} /\ receipts' = receipts) \/ Asks
  <2>1. receipts' = receipts
    BY <1>2 DEF ModelTask, climb
  <2>2. CASE key \in Keys(receipts) \/ ~BudgetAllows(1)
    BY <1>1, <1>2, <2>1, <2>2 DEF ModelTask, Ends, Goto, GotoThen, Idle
  <2>3. CASE key \notin Keys(receipts) /\ BudgetAllows(1)
    <3>1. Invoke(<<key>>, then)
      BY <1>2, <2>3 DEF ModelTask
    <3>2. IsLog(<<key>>)
      <4>1. <<key>> \in Seq({key})
        OBVIOUS
      <4>2. QED
        BY <4>1, SeqIsLog
    <3>3. Missing(<<key>>) = {1}
      BY <2>3 DEF Missing
    <3>4. Cardinality(Missing(<<key>>)) = 1
      BY <3>3, FS_Singleton
    <3>5. QED
      BY <2>1, <2>3, <3>1, <3>2, <3>4 DEF Asks
  <2>4. QED
    BY <2>2, <2>3
<1>3. CASE Builder \/ Review
  BY <1>2, <1>3 DEF Builder, Review
<1>4. CASE AskPanel
  <2> DEFINE keys == PanelKeys(run.round)
  <2>1. receipts' = receipts
    BY <1>4 DEF AskPanel, Stop, Raise, climb
  <2>2. CASE Missing(keys) # {} /\ ~BudgetAllows(Cardinality(Missing(keys)))
    BY <1>1, <1>4, <2>1, <2>2 DEF AskPanel, Stop, GotoThen, Idle
  <2>3. CASE ~(Missing(keys) # {} /\ ~BudgetAllows(Cardinality(Missing(keys))))
    <3>1. CASE Invoke(keys, "judged")
      <4>1. IsLog(keys)
        <5>1. Panel \in Seq(Range(Panel))
          BY PanelAssumption
        <5>2. DOMAIN keys = 1..Len(Panel) /\ Len(Panel) \in Nat
          BY <5>1, LenProperties DEF PanelKeys
        <5>3. keys \in [1..Len(Panel) -> Range(keys)]
          BY <5>2 DEF PanelKeys, Range
        <5>4. QED
          BY <5>2, <5>3, SeqDef DEF IsLog
      <4>2. CASE Missing(keys) = {}
        BY <2>1, <3>1, <4>2, <1>1 DEF Invoke, Idle
      <4>3. CASE Missing(keys) # {}
        BY <2>1, <2>3, <3>1, <4>1, <4>3 DEF Asks
      <4>4. QED
        BY <4>2, <4>3
    <3>2. CASE ~Invoke(keys, "judged")
      BY <1>1, <1>4, <2>1, <2>3, <3>2 DEF AskPanel, Raise, Ends, Idle
    <3>3. QED
      BY <3>1, <3>2
  <2>4. QED
    BY <2>2, <2>3
<1>5. CASE Begin \/ Interrupt \/ Stopped \/ Align \/ AlignMove \/ AlignEvent \/ Draft \/ Climb
  BY <1>1, <1>5 DEF Begin, Interrupt, Stopped, Align, AlignMove, AlignEvent, Draft, Climb, Return, Goto, GotoThen,
     Stop, Raise, Ends, Idle, climb
<1>6. CASE InvalidOutput \/ InvalidRevision \/ OverspentBuild \/ Propose \/ ReviewStopped \/ RecordReview
           \/ Decided \/ ResumeApplied
  BY <1>1, <1>6 DEF InvalidOutput, InvalidRevision, OverspentBuild, Propose, ReviewStopped, RecordReview,
     Decided, ResumeApplied, Goto, GotoThen, Stop, Raise, Ends, Idle, climb
<1>7. CASE Apply \/ RecordTransition \/ InitialApplied \/ AlreadyBuilt \/ Materialize \/ Bind \/ BuildFails
           \/ BindEvent
  BY <1>1, <1>7 DEF Apply, RecordTransition, InitialApplied, AlreadyBuilt, Materialize, Bind, BuildFails,
     BindEvent, Goto, Raise, Ends, Idle, climb
<1>8. CASE Measure \/ InvalidJudgement \/ Evaluate \/ MeasuredEvent \/ Select \/ Rung \/ Outcome \/ Complete
  BY <1>1, <1>8 DEF Measure, InvalidJudgement, Evaluate, MeasuredEvent, Select, Rung, Outcome, Complete,
     Goto, GotoThen, Stop, Raise, Ends, Idle, climb
<1>9. CASE Answers
  BY <1>9 DEF Answers
<1>10. QED
  BY <1>3, <1>4, <1>5, <1>6, <1>7, <1>8, <1>9 DEF Next, Step

LEMMA MissingFinite ==
    ASSUME NEW keys, IsLog(keys)
    PROVE  IsFiniteSet(Missing(keys)) /\ Cardinality(Missing(keys)) \in Nat
<1>1. DOMAIN keys = 1..Len(keys) /\ Len(keys) \in Nat
  BY LogFacts
<1>2. IsFiniteSet(1..Len(keys)) /\ Missing(keys) \in SUBSET (1..Len(keys))
  BY <1>1, FS_Interval DEF Missing
<1>3. QED
  BY <1>2, FS_Subset, FS_CardinalityType

\* _check_budget is made before and apart from the calls, yet no driver is called
\* for what is receipted, none beyond the calls of the Plan and none once its tokens
\* are used up (execute_model_task, execute_model_tasks_concurrently).
THEOREM CallsAlwaysBudgeted == Spec => CallsAreBudgeted
<1>1. IInv /\ [Next]_vars =>
        [LET new == {run'.asked[i] : i \in run'.pending} IN
         ~At("answers") /\ new # {} => /\ new \cap Keys(receipts) = {}
                                       /\ Cardinality(receipts) + Cardinality(new) <= MaxCalls
                                       /\ Tokens < MaxTokens]_vars
  <2> DEFINE new == {run'.asked[i] : i \in run'.pending}
  <2> SUFFICES ASSUME IInv, Next, ~At("answers"), new # {}
               PROVE  /\ new \cap Keys(receipts) = {}
                      /\ Cardinality(receipts) + Cardinality(new) <= MaxCalls
                      /\ Tokens < MaxTokens
    OBVIOUS
  <2>1. Asks
    BY AsksOrNot
  <2>2. PICK keys, then : Invoke(keys, then) /\ IsLog(keys) /\ BudgetAllows(Cardinality(Missing(keys)))
    BY <2>1 DEF Asks
  <2>3. run'.asked = keys /\ run'.pending = Missing(keys)
    BY <2>2 DEF Invoke, IInv, Records, RecordsFormed, Idle
  <2>4. IsFiniteSet(Missing(keys)) /\ Cardinality(Missing(keys)) \in Nat
    BY <2>2, MissingFinite
  <2>5. IsFiniteSet(new) /\ Cardinality(new) <= Cardinality(Missing(keys))
    <3> DEFINE f == [i \in Missing(keys) |-> keys[i]]
    <3>1. f \in Surjection(Missing(keys), new)
      BY <2>3 DEF Surjection
    <3>2. QED
      BY <2>4, <3>1, FS_Surjection
  <2>6. Cardinality(new) \in Nat /\ Cardinality(receipts) \in Nat
    BY <2>5, FS_CardinalityType DEF IInv, Records, Finite
  <2>7. Cardinality(receipts) + Cardinality(Missing(keys)) <= MaxCalls /\ Tokens < MaxTokens
    BY <2>2 DEF BudgetAllows
  <2>8. new \cap Keys(receipts) = {}
    BY <2>3 DEF Missing
  <2>9. MaxCalls \in Nat
    BY BudgetAssumption
  <2>10. QED
    BY <2>4, <2>5, <2>6, <2>7, <2>8, <2>9
<1>2. QED
  BY <1>1, SpecIInv, PTL DEF Spec, CallsAreBudgeted

\* What is receipted and what the drivers still owe.
Counted == IsFiniteSet(run.pending) /\ Cardinality(receipts) + Cardinality(run.pending) <= MaxCalls

LEMMA AtAnswers == ASSUME Next, At("answers") PROVE Answers \/ Interrupt
<1>1. ~(Begin \/ Stopped \/ Align \/ AlignMove \/ AlignEvent \/ Draft \/ Climb \/ Builder \/ InvalidOutput
        \/ InvalidRevision \/ OverspentBuild \/ Propose \/ Review \/ ReviewStopped \/ RecordReview \/ Decided)
  BY DEF Begin, Stopped, Align, AlignMove, AlignEvent, Draft, Climb, Builder, InvalidOutput, InvalidRevision,
     OverspentBuild, Propose, Review, ReviewStopped, RecordReview, Decided
<1>2. ~(ResumeApplied \/ Apply \/ RecordTransition \/ InitialApplied \/ AlreadyBuilt \/ Materialize \/ Bind
        \/ BuildFails \/ BindEvent \/ Measure \/ AskPanel \/ InvalidJudgement \/ Evaluate \/ MeasuredEvent
        \/ Select \/ Rung \/ Outcome \/ Complete)
  BY DEF ResumeApplied, Apply, RecordTransition, InitialApplied, AlreadyBuilt, Materialize, Bind,
     BuildFails, BindEvent, Measure, AskPanel, InvalidJudgement, Evaluate, MeasuredEvent, Select, Rung, Outcome,
     Complete
<1>3. QED
  BY <1>1, <1>2 DEF Next, Step

LEMMA CountedStep == IInv /\ Counted /\ [Next]_vars => Counted'
<1> SUFFICES ASSUME IInv, Counted, [Next]_vars PROVE Counted'
  OBVIOUS
<1>1. /\ IsFiniteSet(receipts) /\ Cardinality(receipts) \in Nat /\ Cardinality(run.pending) \in Nat
      /\ IsFiniteSet({}) /\ Cardinality({}) = 0 /\ MaxCalls \in Nat /\ DOMAIN run = DOMAIN Idle
  BY FS_CardinalityType, FS_EmptySet, BudgetAssumption DEF IInv, Records, RecordsFormed, Finite, Counted
<1>2. CASE UNCHANGED vars
  BY <1>2 DEF vars, Counted
<1>3. CASE Next /\ ~At("answers")
  <2>1. CASE run'.pending = {} /\ receipts' = receipts
    BY <1>1, <2>1 DEF Counted
  <2>2. CASE Asks
    <3>1. PICK keys, then : /\ Invoke(keys, then) /\ UNCHANGED receipts /\ IsLog(keys)
                            /\ BudgetAllows(Cardinality(Missing(keys)))
      BY <2>2 DEF Asks
    <3>2. run'.pending = Missing(keys) /\ IsFiniteSet(Missing(keys))
      BY <1>1, <3>1, MissingFinite DEF Invoke, Idle
    <3>3. QED
      BY <3>1, <3>2 DEF Counted, BudgetAllows
  <2>3. QED
    BY <1>3, <2>1, <2>2, AsksOrNot
<1>4. CASE Next /\ At("answers")
  <2>1. CASE Interrupt
    BY <1>1, <2>1 DEF Interrupt, Raise, Ends, Idle, climb, Counted
  <2>2. CASE Answers /\ run.pending = {}
    BY <1>1, <2>2 DEF Answers, Raise, Ends, Idle, climb, Counted
  <2>3. CASE Answers /\ run.pending # {}
    <3>1. Min(run.pending) \in run.pending /\ Received = run.pending \ {Min(run.pending)}
      BY <1>4, <2>3, AwaitedFacts
    <3>2. IsFiniteSet(Received) /\ Cardinality(Received) = Cardinality(run.pending) - 1
      BY <3>1, FS_RemoveElement DEF Counted
    <3>3. run'.pending = Received /\ (receipts' = receipts \/ \E r : receipts' = receipts \cup {r})
      BY <1>1, <2>3 DEF Answers, Answer, DriverRaises, climb, Idle
    <3>4. Cardinality(receipts') \in Nat /\ Cardinality(receipts') <= Cardinality(receipts) + 1
      BY <1>1, <3>3, FS_AddElement
    <3>5. QED
      BY <1>1, <3>2, <3>3, <3>4 DEF Counted
  <2>4. QED
    BY <1>4, <2>1, <2>2, <2>3, AtAnswers
<1>5. QED
  BY <1>2, <1>3, <1>4

\* The climb journal never holds more receipts than the Plan allows calls, however
\* often the run was interrupted between the calls and their receipts (_check_budget).
THEOREM CallsWithinPlan == Spec => [](Cardinality(receipts) <= MaxCalls)
<1>1. Init => Counted
  BY FS_EmptySet, BudgetAssumption DEF Init, Idle, Counted
<1>2. IInv /\ Counted => Cardinality(receipts) <= MaxCalls
  <2> SUFFICES ASSUME IInv, Counted PROVE Cardinality(receipts) <= MaxCalls
    OBVIOUS
  <2>1. Cardinality(receipts) \in Nat /\ Cardinality(run.pending) \in Nat /\ MaxCalls \in Nat
    BY FS_CardinalityType, BudgetAssumption DEF IInv, Records, Finite, Counted
  <2>2. QED
    BY <2>1 DEF Counted
<1>3. QED
  BY <1>1, <1>2, CountedStep, SpecIInv, PTL DEF Spec
==============================================================================
