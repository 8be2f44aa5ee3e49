---------------------------- MODULE MatchFlowProofs ----------------------------
(***************************************************************************)
(* What MatchFlow guarantees for teams of any size, any deadlines and any  *)
(* number of spectators and adjustments.                                   *)
(***************************************************************************)
EXTENDS MatchFlow, FiniteSetTheorems, TLAPS

Decided == state \in {"awaiting_result_approvals", "finalized"}

\* The columns that the code reads in a state have been written by then: the
\* timing once there is a parent, the decision once the reports are counted,
\* the final result once the match is final.
StateShape ==
  /\ state = "waiting_for_parent" => parent = None /\ decidedAt = None
  /\ state # "waiting_for_parent" => parent \in Participants /\ decidedAt \in Nat
  /\ ~Decided => provisional = None /\ playerStates = None
  /\ Decided => /\ provisional \in MatchResult
                /\ playerStates \in [Participants -> PlayerState]
  /\ state # "finalized" => final = None
  /\ state = "finalized" => final \in FinalResult

\* The inductive invariant: each part is preserved with the help of the first two.
FlowInv ==
  /\ TypeOK
  /\ StateShape
  /\ PenaltiesAddUp
  /\ WaitsForSomebody
  /\ ResultIsTheDecision

-----------------------------------------------------------------------------
\* The rules return results, reasons and penalties and nothing else.
LEMMA RulesTyped ==
  ASSUME NEW ballots \in LatestReports, NEW tieBreaker
  PROVE  /\ DetermineMatchResult(ballots, tieBreaker).result \in MatchResult
         /\ \A tie : DetermineAdminReviewReasons(ballots, tie) \subseteq AdminReviewReason
         /\ \A p, r : DetermineReportStatus(ballots, p, r) \in ReportStatus
<1>1. \A p \in DOMAIN ballots : ballots[p] \in MatchResult
  BY DEF LatestReports
<1>2. Candidates(ballots) \subseteq MatchResult
  BY DEF Candidates
<1>3. ASSUME Cardinality(Candidates(ballots)) = 1
      PROVE  (CHOOSE r \in Candidates(ballots) : TRUE) \in MatchResult
  <2>1. Candidates(ballots) # {}
    BY <1>3, FS_EmptySet
  <2> QED
    BY <1>2, <2>1
<1>4. DetermineMatchResult(ballots, tieBreaker).result \in MatchResult
  <2>1. CASE DOMAIN ballots = {}
    BY <2>1 DEF DetermineMatchResult, MatchResult
  <2>2. CASE DOMAIN ballots # {} /\ Cardinality(Candidates(ballots)) = 1
    BY <2>2, <1>3 DEF DetermineMatchResult
  <2>3. CASE DOMAIN ballots # {} /\ Cardinality(Candidates(ballots)) # 1
    BY <2>3, <1>1 DEF DetermineMatchResult, MatchResult
  <2> QED
    BY <2>1, <2>2, <2>3
<1>5. \A tie : DetermineAdminReviewReasons(ballots, tie) \subseteq AdminReviewReason
  BY DEF DetermineAdminReviewReasons
<1>6. \A p, r : DetermineReportStatus(ballots, p, r) \in ReportStatus
  BY DEF DetermineReportStatus, ReportStatus
<1> QED
  BY <1>4, <1>5, <1>6

\* The automatic penalty is one of the two, or none.
LEMMA PenaltyTyped ==
  ASSUME NEW reportStatus \in ReportStatus, NEW approval \in ApprovalStatus
  PROVE  DetermineAutoPenaltyType(reportStatus, approval) \in PenaltyType \cup {None}
BY DEF DetermineAutoPenaltyType, ReportStatus, ApprovalStatus, PenaltyType

\* Closing the approvals leaves nobody PENDING.
LEMMA ClosedApprovals ==
  ASSUME NEW states \in [Participants -> PlayerState],
         NEW ballots \in LatestReports, NEW result
  PROVE  /\ CloseApprovals(states, ballots, result) \in [Participants -> PlayerState]
         /\ Pending(CloseApprovals(states, ballots, result)) = {}
<1>1. \A p, r : DetermineReportStatus(ballots, p, r) \in ReportStatus
  BY RulesTyped
<1>2. \A p \in Participants : states[p].approval \in ApprovalStatus
  BY DEF PlayerState
<1>3. CloseApprovals(states, ballots, result) \in [Participants -> PlayerState]
  BY <1>1, <1>2 DEF CloseApprovals, PlayerState, ApprovalStatus
<1>4. Pending(CloseApprovals(states, ballots, result)) = {}
  BY DEF CloseApprovals, Pending
<1> QED
  BY <1>3, <1>4

\* Replacing the automatic penalties of the match keeps the books balanced.
LEMMA BooksBalance ==
  ASSUME TypeOK, PenaltiesAddUp, UNCHANGED manual,
         NEW new \in [Participants -> PenaltyType \cup {None}],
         autoPenalty' = new, penaltyCount' = Repenalize(autoPenalty, new)
  PROVE  /\ penaltyCount' \in PenaltyTable
         /\ PenaltiesAddUp'
<1>1. \A p \in Participants, t \in PenaltyType :
        penaltyCount[p][t] \in Int /\ manual[p][t] \in Int
  BY DEF TypeOK, PenaltyTable
<1>2. \A p \in Participants, t \in PenaltyType :
        penaltyCount'[p][t] = penaltyCount[p][t] + (IF new[p] = t THEN 1 ELSE 0)
                                - (IF autoPenalty[p] = t THEN 1 ELSE 0)
  BY DEF Repenalize
<1>3. penaltyCount' \in PenaltyTable
  BY <1>1 DEF Repenalize, PenaltyTable
<1>4. PenaltiesAddUp'
  BY <1>1, <1>2 DEF PenaltiesAddUp
<1> QED
  BY <1>3, <1>4

\* What the players are told is an event.
LEMMA EventsTyped ==
  ASSUME NEW finalizedEvent \in Event, NEW penalties, NEW reasons
  PROVE  FinalizationEvents(finalizedEvent, penalties, reasons) \subseteq Event
BY DEF FinalizationEvents, EventAbout, Event, EventType, Cause

\* Whoever finalizes the match, the invariant holds afterwards.
LEMMA FinalizeMatchStep ==
  ASSUME FlowInv,
         NEW states \in [Participants -> PlayerState],
         NEW ballots \in LatestReports, NEW result \in MatchResult,
         NEW reasons \in SUBSET AdminReviewReason, NEW at \in Nat,
         NEW cause \in Cause, NEW announced \in SUBSET Event,
         FinalizeMatch(states, ballots, result, reasons, at, cause, announced),
         parent' \in Participants, decidedAt' \in Nat, reports' = ballots,
         reportingOpened' \in BOOLEAN, provisional' = result,
         provisional' = DetermineMatchResult(ballots, parent').result,
         reviewReasons' = reasons, approvalStartedAt' \in Nat \cup {None},
         UNCHANGED <<manual, clock>>
  PROVE  FlowInv'
<1> DEFINE settled == CloseApprovals(states, ballots, result)
           penalties == [p \in Participants |->
                           DetermineAutoPenaltyType(settled[p].report, settled[p].approval)]
<1>1. /\ state' = "finalized"
      /\ playerStates' = settled
      /\ final' = [result |-> result, ratedAt |-> at, finalizedAt |-> at, byAdmin |-> FALSE]
      /\ autoPenalty' = penalties
      /\ penaltyCount' = Repenalize(autoPenalty, penalties)
      /\ spectators' = {}
      /\ outbox' = announced \cup
           FinalizationEvents(EventAbout("match_finalized", cause), penalties, reasons)
  BY DEF FinalizeMatch
<1>2. settled \in [Participants -> PlayerState] /\ Pending(settled) = {}
  BY ClosedApprovals
<1>3. penalties \in [Participants -> PenaltyType \cup {None}]
  <2> SUFFICES ASSUME NEW p \in Participants
               PROVE  DetermineAutoPenaltyType(settled[p].report, settled[p].approval)
                        \in PenaltyType \cup {None}
    OBVIOUS
  <2>1. settled[p].report \in ReportStatus /\ settled[p].approval \in ApprovalStatus
    BY <1>2 DEF PlayerState
  <2> QED
    BY <2>1, PenaltyTyped
<1> HIDE DEF settled, penalties
<1>4. penaltyCount' \in PenaltyTable /\ PenaltiesAddUp'
  BY <1>1, <1>3, BooksBalance DEF FlowInv
<1>5. final' \in FinalResult /\ final'.result = result
  BY <1>1 DEF FinalResult
<1>6. outbox' \subseteq Event
  <2>1. EventAbout("match_finalized", cause) \in Event
    BY DEF EventAbout, Event, EventType
  <2> QED
    BY <1>1, <2>1, EventsTyped
<1>7. TypeOK'
  BY <1>1, <1>2, <1>3, <1>4, <1>5, <1>6 DEF FlowInv, TypeOK, BallotTypeOK, MatchState
<1>8. StateShape'
  BY <1>1, <1>2, <1>5 DEF StateShape, Decided
<1>9. WaitsForSomebody'
  <2>1. Pending(playerStates') = {}
    BY <1>1, <1>2
  <2> QED
    BY <1>1, <2>1 DEF WaitsForSomebody, Pending
<1>10. ResultIsTheDecision'
  BY <1>5 DEF ResultIsTheDecision
<1> QED
  BY <1>4, <1>7, <1>8, <1>9, <1>10 DEF FlowInv

\* Whoever starts the approval, the invariant holds afterwards, whether the
\* result is final at once or waits for approvals.
LEMMA StartApprovalStep ==
  ASSUME FlowInv, ~Decided,
         NEW ballots \in LatestReports, NEW tieBreaker \in Participants,
         NEW at \in Nat, NEW cause \in Cause, NEW announced \in SUBSET Event,
         StartApproval(ballots, tieBreaker, at, cause, announced),
         parent' = tieBreaker, decidedAt' \in Nat, reports' = ballots,
         reportingOpened' \in BOOLEAN, UNCHANGED <<manual, clock>>
  PROVE  FlowInv'
<1> DEFINE decided == DetermineMatchResult(ballots, tieBreaker)
           reasons == DetermineAdminReviewReasons(ballots, decided.unresolvedTie)
           status(p) == DetermineReportStatus(ballots, p, decided.result)
           states == [p \in Participants |->
                        [report   |-> status(p),
                         approval |-> IF status(p) = "correct" THEN "not_required"
                                      ELSE "pending"]]
<1>1. /\ decided.result \in MatchResult
      /\ reasons \in SUBSET AdminReviewReason
      /\ \A p \in Participants : status(p) \in ReportStatus
  BY RulesTyped
<1>2. states \in [Participants -> PlayerState]
  BY <1>1 DEF PlayerState, ApprovalStatus
<1>3. /\ provisional' = decided.result
      /\ reviewReasons' = reasons
      /\ \/ /\ approvalStartedAt' = None
            /\ FinalizeMatch(states, ballots, decided.result, reasons, at, cause, announced)
         \/ /\ Pending(states) # {}
            /\ approvalStartedAt' = at
            /\ state' = "awaiting_result_approvals"
            /\ playerStates' = states
            /\ outbox' = announced \cup {EventAbout("approval_requested", None)}
            /\ UNCHANGED <<outcome, spectators>>
  BY DEF StartApproval
<1>4. provisional' = DetermineMatchResult(ballots, parent').result
  BY <1>3
<1> HIDE DEF decided, reasons, status, states
<1>5. CASE /\ approvalStartedAt' = None
           /\ FinalizeMatch(states, ballots, decided.result, reasons, at, cause, announced)
  BY <1>1, <1>2, <1>3, <1>4, <1>5, FinalizeMatchStep
<1>6. CASE /\ Pending(states) # {}
           /\ approvalStartedAt' = at
           /\ state' = "awaiting_result_approvals"
           /\ playerStates' = states
           /\ outbox' = announced \cup {EventAbout("approval_requested", None)}
           /\ UNCHANGED <<outcome, spectators>>
  <2>1. EventAbout("approval_requested", None) \in Event
    BY DEF EventAbout, Event, EventType
  <2>2. TypeOK'
    BY <1>1, <1>2, <1>3, <1>6, <2>1 DEF FlowInv, TypeOK, BallotTypeOK, MatchState, outcome
  <2>3. final = None
    BY DEF FlowInv, StateShape, Decided
  <2>4. StateShape'
    BY <1>1, <1>2, <1>3, <1>6, <2>3 DEF StateShape, Decided, outcome
  <2>5. PenaltiesAddUp'
    BY <1>6 DEF FlowInv, PenaltiesAddUp, outcome
  <2>6. WaitsForSomebody'
    <3>1. Pending(playerStates') # {}
      BY <1>6
    <3> QED
      BY <1>6, <3>1 DEF WaitsForSomebody, Pending
  <2>7. ResultIsTheDecision'
    BY <1>4, <1>6, <2>3 DEF ResultIsTheDecision, outcome
  <2> QED
    BY <2>2, <2>4, <2>5, <2>6, <2>7 DEF FlowInv
<1> QED
  BY <1>3, <1>5, <1>6

-----------------------------------------------------------------------------
\* A parent is assigned, and with all reports in the approvals begin.
LEMMA AssignParentStep ==
  ASSUME FlowInv, state = "waiting_for_parent",
         NEW player \in Participants, NEW at \in Nat, NEW cause \in Cause,
         AssignParent(player, at, cause)
  PROVE  FlowInv'
<1> DEFINE announced == outbox \cup {EventAbout("parent_assigned", cause)}
<1>1. /\ parent' = player /\ decidedAt' = at /\ reportingOpened' = FALSE
      /\ UNCHANGED <<reports, manual, clock>>
  BY DEF AssignParent
<1>2. announced \in SUBSET Event
  BY DEF FlowInv, TypeOK, EventAbout, Event, EventType
<1>3. reports \in LatestReports /\ ~Decided
  BY DEF FlowInv, TypeOK, BallotTypeOK, Decided
<1>4. CASE StartApproval(reports, player, at, "all_reports", announced)
  <2>1. "all_reports" \in Cause
    BY DEF Cause
  <2> QED
    BY <1>1, <1>2, <1>3, <1>4, <2>1, StartApprovalStep
<1>5. CASE /\ state' = "waiting_for_result_reports"
           /\ outbox' = announced
           /\ UNCHANGED <<decision, outcome, spectators>>
  <2>1. UNCHANGED <<provisional, reviewReasons, approvalStartedAt, playerStates,
                    final, autoPenalty, penaltyCount, spectators>>
    BY <1>5 DEF decision, outcome
  <2>2. provisional = None /\ playerStates = None /\ final = None
    BY <1>3 DEF FlowInv, StateShape, Decided
  <2>3. TypeOK'
    BY <1>1, <1>2, <1>5, <2>1 DEF FlowInv, TypeOK, BallotTypeOK, MatchState
  <2>4. StateShape'
    BY <1>1, <1>5, <2>1, <2>2 DEF StateShape, Decided
  <2>5. PenaltiesAddUp'
    BY <1>1, <2>1 DEF FlowInv, PenaltiesAddUp
  <2>6. WaitsForSomebody' /\ ResultIsTheDecision'
    BY <2>1, <2>2 DEF WaitsForSomebody, ResultIsTheDecision
  <2> QED
    BY <2>3, <2>4, <2>5, <2>6 DEF FlowInv
<1> QED
  BY <1>4, <1>5 DEF AssignParent

\* A new report replaces the player's earlier one.
LEMMA ReportTaken ==
  ASSUME reports \in LatestReports, NEW player \in Participants, NEW input \in ReportInputResult
  PROVE  WithReport(reports, player, input) \in LatestReports
<1>1. NormalizeReportResult(player, input) \in MatchResult
  BY DEF NormalizeReportResult, ReportInputResult, MatchResult
<1>2. PICK S \in SUBSET Participants : reports \in [S -> MatchResult]
  BY DEF LatestReports
<1> DEFINE ballots == WithReport(reports, player, input)
<1>3. S \cup {player} \in SUBSET Participants /\ ballots \in [S \cup {player} -> MatchResult]
  BY <1>1, <1>2 DEF WithReport
<1> QED
  BY <1>3 DEF LatestReports

\* The last report ends the reports' time; any other is only recorded.
LEMMA SubmitReportStep ==
  ASSUME FlowInv, NEW player \in Participants, NEW input \in Inputs,
         NEW at \in Nat, SubmitReport(player, input, at)
  PROVE  FlowInv'
<1> DEFINE ballots == WithReport(reports, player, input)
<1>1. ballots \in LatestReports
  BY ReportTaken, FlowAssumption DEF FlowInv, TypeOK, BallotTypeOK
<1>2. /\ reports' = ballots
      /\ UNCHANGED <<parent, decidedAt, reportingOpened, manual, clock>>
      /\ ~Decided
  BY DEF SubmitReport, Reportable, timing, Decided
<1> HIDE DEF ballots
<1>3. CASE decidedAt # None /\ StartApproval(ballots, parent, at, "all_reports", outbox)
  <2>1. state # "waiting_for_parent"
    BY <1>3 DEF FlowInv, StateShape
  <2>2. parent \in Participants /\ decidedAt \in Nat
    BY <2>1 DEF FlowInv, StateShape
  <2>3. "all_reports" \in Cause /\ outbox \in SUBSET Event /\ reportingOpened \in BOOLEAN
    BY DEF Cause, FlowInv, TypeOK
  <2> QED
    BY <1>1, <1>2, <1>3, <2>2, <2>3, StartApprovalStep
<1>4. CASE UNCHANGED <<state, decision, outcome, spectators, outbox>>
  <2>1. UNCHANGED <<state, provisional, reviewReasons, approvalStartedAt, playerStates,
                    final, autoPenalty, penaltyCount, spectators, outbox>>
    BY <1>4 DEF decision, outcome
  <2>2. provisional = None /\ playerStates = None /\ final = None
    BY <1>2 DEF FlowInv, StateShape, Decided
  <2>3. TypeOK'
    BY <1>1, <1>2, <2>1 DEF FlowInv, TypeOK, BallotTypeOK
  <2>4. StateShape'
    BY <1>2, <2>1 DEF FlowInv, StateShape, Decided
  <2>5. PenaltiesAddUp'
    BY <1>2, <2>1 DEF FlowInv, PenaltiesAddUp
  <2>6. WaitsForSomebody' /\ ResultIsTheDecision'
    BY <2>1, <2>2 DEF WaitsForSomebody, ResultIsTheDecision
  <2> QED
    BY <2>3, <2>4, <2>5, <2>6 DEF FlowInv
<1> QED
  BY <1>3, <1>4 DEF SubmitReport, ballots

\* The reports' time is over, or the timer is late and changes nothing.
LEMMA ProcessReportDeadlineStep ==
  ASSUME FlowInv, NEW at \in Nat, ProcessReportDeadline(at)
  PROVE  FlowInv'
<1>1. /\ state = "waiting_for_result_reports"
      /\ StartApproval(reports, parent, ReportDeadlineAt, "report_deadline", outbox)
      /\ UNCHANGED <<reports, parent, decidedAt, reportingOpened, manual, clock>>
  BY DEF ProcessReportDeadline, ReportingOver, ballot, timing
<1>2. ~Decided /\ parent \in Participants /\ decidedAt \in Nat
  BY <1>1 DEF FlowInv, StateShape, Decided
<1>3. ReportDeadlineAt \in Nat
  BY <1>2, FlowAssumption DEF ReportDeadlineAt
<1>4. /\ reports \in LatestReports /\ outbox \in SUBSET Event
      /\ reportingOpened \in BOOLEAN /\ "report_deadline" \in Cause
  BY DEF FlowInv, TypeOK, BallotTypeOK, Cause
<1> QED
  BY <1>1, <1>2, <1>3, <1>4, StartApprovalStep

\* The last approval finalizes the match.
LEMMA ApproveProvisionalResultStep ==
  ASSUME FlowInv, NEW player \in Participants, NEW at \in Nat,
         ApproveProvisionalResult(player, at)
  PROVE  FlowInv'
<1> DEFINE states == [playerStates EXCEPT ![player].approval = "approved"]
<1>1. /\ state = "awaiting_result_approvals"
      /\ UNCHANGED <<reports, parent, decidedAt, reportingOpened, provisional,
                     reviewReasons, approvalStartedAt, manual, clock>>
      /\ \/ FinalizeMatch(states, reports, provisional, reviewReasons, at,
                          "all_approvals", outbox)
         \/ /\ Pending(states) # {}
            /\ playerStates' = states
            /\ UNCHANGED <<state, outcome, spectators, outbox>>
  BY DEF ApproveProvisionalResult, ballot, timing
<1>2. /\ parent \in Participants /\ decidedAt \in Nat
      /\ provisional \in MatchResult /\ final = None
      /\ playerStates \in [Participants -> PlayerState]
  BY <1>1 DEF FlowInv, StateShape, Decided
<1>3. states \in [Participants -> PlayerState]
  BY <1>2 DEF PlayerState, ApprovalStatus
<1>4. /\ reports \in LatestReports /\ reviewReasons \in SUBSET AdminReviewReason
      /\ outbox \in SUBSET Event /\ reportingOpened \in BOOLEAN
      /\ approvalStartedAt \in Nat \cup {None} /\ "all_approvals" \in Cause
  BY DEF FlowInv, TypeOK, BallotTypeOK, Cause
<1>5. provisional = DetermineMatchResult(reports, parent).result
  BY <1>2, FlowAssumption DEF FlowInv, ResultIsTheDecision
<1> HIDE DEF states
<1>6. CASE FinalizeMatch(states, reports, provisional, reviewReasons, at,
                         "all_approvals", outbox)
  BY <1>1, <1>2, <1>3, <1>4, <1>5, <1>6, FinalizeMatchStep
<1>7. CASE /\ Pending(states) # {}
           /\ playerStates' = states
           /\ UNCHANGED <<state, outcome, spectators, outbox>>
  <2>1. UNCHANGED <<state, final, autoPenalty, penaltyCount, spectators, outbox>>
    BY <1>7 DEF outcome
  <2>2. TypeOK'
    BY <1>1, <1>3, <1>7, <2>1 DEF FlowInv, TypeOK, BallotTypeOK
  <2>3. StateShape'
    BY <1>1, <1>3, <1>7, <2>1 DEF FlowInv, StateShape, Decided
  <2>4. PenaltiesAddUp' /\ ResultIsTheDecision'
    BY <1>1, <2>1 DEF FlowInv, PenaltiesAddUp, ResultIsTheDecision
  <2>5. WaitsForSomebody'
    <3>1. Pending(playerStates') # {}
      BY <1>7
    <3> QED
      BY <1>1, <2>1, <3>1 DEF WaitsForSomebody, Pending
  <2> QED
    BY <2>2, <2>3, <2>4, <2>5 DEF FlowInv
<1> QED
  BY <1>1, <1>6, <1>7

\* Who has not approved by now does not any more.
LEMMA ProcessApprovalDeadlineStep ==
  ASSUME FlowInv, NEW at \in Nat, ProcessApprovalDeadline(at)
  PROVE  FlowInv'
<1>1. /\ state = "awaiting_result_approvals"
      /\ FinalizeMatch(playerStates, reports, provisional, reviewReasons, at,
                       "approval_deadline", outbox)
      /\ UNCHANGED <<reports, parent, decidedAt, reportingOpened, provisional,
                     reviewReasons, approvalStartedAt, manual, clock>>
  BY DEF ProcessApprovalDeadline, ApprovalOver, ballot, timing
<1>2. /\ parent \in Participants /\ decidedAt \in Nat /\ provisional \in MatchResult
      /\ playerStates \in [Participants -> PlayerState]
  BY <1>1 DEF FlowInv, StateShape, Decided
<1>3. /\ reports \in LatestReports /\ reviewReasons \in SUBSET AdminReviewReason
      /\ outbox \in SUBSET Event /\ reportingOpened \in BOOLEAN
      /\ approvalStartedAt \in Nat \cup {None} /\ "approval_deadline" \in Cause
  BY DEF FlowInv, TypeOK, BallotTypeOK, Cause
<1>4. provisional = DetermineMatchResult(reports, parent).result
  BY <1>2, FlowAssumption DEF FlowInv, ResultIsTheDecision
<1> QED
  BY <1>1, <1>2, <1>3, <1>4, FinalizeMatchStep

\* An override finalizes an open match and corrects a final one.
LEMMA OverrideMatchResultStep ==
  ASSUME FlowInv, NEW result \in MatchResult, NEW at \in Nat,
         OverrideMatchResult(result, at)
  PROVE  FlowInv'
<1> DEFINE nobody == [p \in Participants |-> None]
           settled == CloseApprovals(playerStates, reports, result)
           announcement == [type |-> "match_finalized", about |-> "admin", at |-> at]
<1>1. /\ state = "finalized" /\ playerStates' = settled
      /\ final' = [final EXCEPT !.result = result, !.finalizedAt = at, !.byAdmin = TRUE]
      /\ autoPenalty' = nobody /\ penaltyCount' = Repenalize(autoPenalty, nobody)
      /\ spectators' = {}
      /\ outbox' = outbox \cup FinalizationEvents(announcement, nobody, reviewReasons)
      /\ UNCHANGED <<state, reports, parent, decidedAt, reportingOpened, provisional,
                     reviewReasons, approvalStartedAt, manual, clock>>
  BY DEF OverrideMatchResult, ballot, timing
<1>2. final \in FinalResult /\ playerStates \in [Participants -> PlayerState]
  BY <1>1 DEF FlowInv, StateShape, Decided
<1>3. reports \in LatestReports
  BY DEF FlowInv, TypeOK, BallotTypeOK
<1>4. settled \in [Participants -> PlayerState] /\ Pending(settled) = {}
  BY <1>2, <1>3, ClosedApprovals
<1>5. penaltyCount' \in PenaltyTable /\ PenaltiesAddUp'
  <2>1. nobody \in [Participants -> PenaltyType \cup {None}]
    OBVIOUS
  <2> QED
    BY <1>1, <2>1, BooksBalance DEF FlowInv
<1>6. final' \in FinalResult /\ final'.byAdmin
  BY <1>1, <1>2 DEF FinalResult
<1>7. outbox' \subseteq Event
  <2>1. announcement \in Event
    BY DEF Event, EventType, Cause
  <2> HIDE DEF announcement
  <2>2. FinalizationEvents(announcement, nobody, reviewReasons) \subseteq Event
    BY <2>1, EventsTyped
  <2> QED
    BY <1>1, <2>2 DEF FlowInv, TypeOK
<1> HIDE DEF settled
<1>8. TypeOK'
  BY <1>1, <1>4, <1>5, <1>6, <1>7 DEF FlowInv, TypeOK, BallotTypeOK
<1>9. StateShape'
  BY <1>1, <1>4, <1>6 DEF FlowInv, StateShape, Decided
<1>10. WaitsForSomebody'
  <2>1. Pending(playerStates') = {}
    BY <1>1, <1>4
  <2> QED
    BY <1>1, <2>1 DEF WaitsForSomebody, Pending
<1>11. ResultIsTheDecision'
  BY <1>1, <1>6 DEF FlowInv, ResultIsTheDecision
<1> QED
  BY <1>5, <1>8, <1>9, <1>10, <1>11 DEF FlowInv

\* A manual adjustment moves the counter and what is booked of it alike.
LEMMA AdjustPenaltyStep ==
  ASSUME FlowInv, NEW target \in ManualTargets, NEW delta \in {-1, 1},
         AdjustPenalty(target[1], target[2], delta)
  PROVE  FlowInv'
<1> DEFINE player == target[1]
           type == target[2]
<1>1. player \in Participants /\ type \in PenaltyType
  BY FlowAssumption
<1>2. penaltyCount \in PenaltyTable /\ manual \in PenaltyTable
  BY DEF FlowInv, TypeOK
<1>3. /\ penaltyCount' = [penaltyCount EXCEPT ![player][type] = @ + delta]
      /\ manual' = [manual EXCEPT ![player][type] = @ + delta]
      /\ UNCHANGED <<state, reports, parent, decidedAt, reportingOpened, provisional,
                     reviewReasons, approvalStartedAt, playerStates, final,
                     autoPenalty, spectators, outbox, clock>>
  BY DEF AdjustPenalty, ballot, timing, decision
<1> HIDE DEF player, type
<1>4. penaltyCount' \in PenaltyTable /\ manual' \in PenaltyTable
  BY <1>1, <1>2, <1>3 DEF PenaltyTable
<1>5. PenaltiesAddUp'
  BY <1>1, <1>2, <1>3 DEF FlowInv, PenaltiesAddUp, PenaltyTable
<1>6. TypeOK'
  BY <1>3, <1>4 DEF FlowInv, TypeOK, BallotTypeOK
<1>7. StateShape' /\ ResultIsTheDecision'
  BY <1>3 DEF FlowInv, StateShape, Decided, ResultIsTheDecision
<1>8. WaitsForSomebody'
  BY <1>3 DEF FlowInv, WaitsForSomebody, Pending
<1> QED
  BY <1>5, <1>6, <1>7, <1>8 DEF FlowInv

\* The steps that touch neither the decision nor the penalties.
LEMMA OtherSteps ==
  ASSUME FlowInv,
         \/ \E at \in Nat : ProcessReportOpen(at)
         \/ \E p \in Others : SpectateMatch(p)
         \/ Tick
         \/ UNCHANGED vars
  PROVE  FlowInv'
<1>1. /\ UNCHANGED <<state, reports, parent, decidedAt, provisional, reviewReasons,
                     approvalStartedAt, playerStates, final, autoPenalty, penaltyCount,
                     manual>>
      /\ reportingOpened' \in BOOLEAN
      /\ spectators' \subseteq Others
      /\ outbox' \subseteq Event
      /\ clock' \in Nat
  <2>1. /\ reportingOpened \in BOOLEAN /\ spectators \subseteq Others
        /\ outbox \subseteq Event /\ clock \in Nat
    BY DEF FlowInv, TypeOK
  <2>2. EventAbout("report_opened", None) \in Event
    BY DEF EventAbout, Event, EventType
  <2>3. CASE \E at \in Nat : ProcessReportOpen(at)
    BY <2>1, <2>2, <2>3 DEF ProcessReportOpen, ballot, timing, decision, outcome
  <2>4. CASE \E p \in Others : SpectateMatch(p)
    BY <2>1, <2>4 DEF SpectateMatch, ballot, timing, decision, outcome
  <2>5. CASE Tick
    BY <2>1, <2>5 DEF Tick, ballot, timing, decision, outcome
  <2>6. CASE UNCHANGED vars
    BY <2>1, <2>6 DEF vars, ballot, timing, decision, outcome
  <2> QED
    BY <2>3, <2>4, <2>5, <2>6
<1>2. TypeOK'
  BY <1>1 DEF FlowInv, TypeOK, BallotTypeOK
<1>3. StateShape' /\ ResultIsTheDecision'
  BY <1>1 DEF FlowInv, StateShape, Decided, ResultIsTheDecision
<1>4. PenaltiesAddUp'
  BY <1>1 DEF FlowInv, PenaltiesAddUp
<1>5. WaitsForSomebody'
  BY <1>1 DEF FlowInv, WaitsForSomebody, Pending
<1> QED
  BY <1>2, <1>3, <1>4, <1>5 DEF FlowInv

-----------------------------------------------------------------------------
\* The inductive invariant holds in every state of the match.
THEOREM FlowInvariant == Spec => []FlowInv
<1>1. Init => FlowInv
  <2> SUFFICES ASSUME Init PROVE FlowInv
    OBVIOUS
  <2>1. [p \in {} |-> "void"] \in LatestReports
    <3>1. [p \in {} |-> "void"] \in [{} -> MatchResult]
      OBVIOUS
    <3> QED
      BY <3>1 DEF LatestReports
  <2>2. TypeOK
    <3>1. /\ penaltyCount \in PenaltyTable /\ manual \in PenaltyTable
          /\ autoPenalty \in [Participants -> PenaltyType \cup {None}]
      BY DEF Init, PenaltyTable
    <3>2. reports \in LatestReports
      BY <2>1 DEF Init, BallotInit
    <3> QED
      BY <3>1, <3>2 DEF Init, BallotInit, TypeOK, BallotTypeOK, MatchState
  <2>3. PenaltiesAddUp
    BY FlowAssumption DEF Init, PenaltiesAddUp
  <2>4. StateShape /\ WaitsForSomebody /\ ResultIsTheDecision
    BY DEF Init, BallotInit, StateShape, Decided, WaitsForSomebody, ResultIsTheDecision
  <2> QED
    BY <2>2, <2>3, <2>4 DEF FlowInv
<1>2. FlowInv /\ [Next]_vars => FlowInv'
  <2> SUFFICES ASSUME FlowInv, [Next]_vars PROVE FlowInv'
    OBVIOUS
  <2>1. ASSUME NEW t \in TransactionTimes PROVE t \in Nat
    BY <2>1 DEF TransactionTimes, FlowInv, TypeOK
  <2>2. CASE PlayerStep
    <3>1. ASSUME NEW p \in Participants, NEW t \in TransactionTimes, VolunteerParent(p, t)
          PROVE  FlowInv'
      BY <2>1, <3>1, AssignParentStep DEF VolunteerParent, Cause
    <3>2. ASSUME NEW p \in Participants, NEW input \in Inputs,
                 NEW t \in TransactionTimes, SubmitReport(p, input, t)
          PROVE  FlowInv'
      BY <2>1, <3>2, SubmitReportStep
    <3>3. ASSUME NEW p \in Participants, NEW t \in TransactionTimes,
                 ApproveProvisionalResult(p, t)
          PROVE  FlowInv'
      BY <2>1, <3>3, ApproveProvisionalResultStep
    <3> QED
      BY <2>2, <3>1, <3>2, <3>3, OtherSteps DEF PlayerStep
  <2>3. CASE AdminStep
    <3>1. ASSUME NEW r \in MatchResult, NEW t \in TransactionTimes,
                 OverrideMatchResult(r, t)
          PROVE  FlowInv'
      BY <2>1, <3>1, OverrideMatchResultStep
    <3> QED
      BY <2>3, <3>1, AdjustPenaltyStep DEF AdminStep
  <2>4. CASE TimerStep
    <3> SUFFICES ASSUME NEW t \in TransactionTimes,
                        \/ ProcessParentDeadline(t)
                        \/ ProcessReportOpen(t)
                        \/ ProcessReportDeadline(t)
                        \/ ProcessApprovalDeadline(t)
                 PROVE  FlowInv'
      BY <2>4 DEF TimerStep
    <3>1. CASE ProcessParentDeadline(t)
      <4>1. ParentDeadlineAt \in Nat /\ "timeout" \in Cause
        BY FlowAssumption DEF ParentDeadlineAt, Cause
      <4> QED
        BY <3>1, <4>1, AssignParentStep DEF ProcessParentDeadline
    <3>2. CASE ProcessReportOpen(t)
      BY <2>1, <3>2, OtherSteps
    <3>3. CASE ProcessReportDeadline(t)
      BY <2>1, <3>3, ProcessReportDeadlineStep
    <3>4. CASE ProcessApprovalDeadline(t)
      BY <2>1, <3>4, ProcessApprovalDeadlineStep
    <3> QED
      BY <3>1, <3>2, <3>3, <3>4
  <2> QED
    BY <2>2, <2>3, <2>4, OtherSteps DEF Next
<1> QED
  BY <1>1, <1>2, PTL DEF Spec

\* Every column has its type, whoever acts and however late the timers fire.
THEOREM FlowTypeCorrect == Spec => []TypeOK
<1>1. FlowInv => TypeOK
  BY DEF FlowInv
<1> QED
  BY <1>1, FlowInvariant, PTL

\* No order of finalization, manual adjustments and corrections loses or
\* doubles a penalty.
THEOREM PenaltyBooks == Spec => []PenaltiesAddUp
<1>1. FlowInv => PenaltiesAddUp
  BY DEF FlowInv
<1> QED
  BY <1>1, FlowInvariant, PTL

\* No match hangs in the approval phase with nobody left to approve, and none
\* is final while somebody's approval is PENDING.
THEOREM ApprovalsAwaited == Spec => []WaitsForSomebody
<1>1. FlowInv => WaitsForSomebody
  BY DEF FlowInv
<1> QED
  BY <1>1, FlowInvariant, PTL

\* What is approved and what becomes final is what the rules make of the
\* latest reports.
THEOREM ReportsDecide == Spec => []ResultIsTheDecision
<1>1. FlowInv => ResultIsTheDecision
  BY DEF FlowInv
<1> QED
  BY <1>1, FlowInvariant, PTL

-----------------------------------------------------------------------------
(* What a step does to the outcome of the match, whichever action it is:   *)
(* the match becomes final, its approval opens, an admin overrules it, or  *)
(* it only proceeds. The next theorems rest on this.                       *)

\* The notices of the automatic finalization.
Announced(events) == {ev \in events : ev.type = "match_finalized" /\ ev.about # "admin"}

\* Whoever is not asked to approve reported the result that was decided.
OnlyCorrectExcused(states, ballots, result) ==
  \A p \in Participants :
    states[p].approval = "not_required" => p \in DOMAIN ballots /\ ballots[p] = result

\* Who is penalized has neither reported the result nor approved it.
Deserved(penalties, states, ballots, result) ==
  \A p \in Participants : penalties[p] # None =>
    /\ states[p].approval = "not_approved"
    /\ penalties[p] = "no_report" <=> p \notin DOMAIN ballots
    /\ p \in DOMAIN ballots => ballots[p] # result

BecomesFinal ==
  /\ state # "finalized" /\ state' = "finalized"
  /\ Decided => UNCHANGED <<reports, timing, provisional, reviewReasons>>
  /\ provisional' \in MatchResult
  /\ final' \in FinalResult /\ final'.result = provisional' /\ ~final'.byAdmin
  /\ spectators' = {}
  /\ Deserved(autoPenalty', playerStates', reports', provisional')
  /\ \E ev : Announced(outbox') = Announced(outbox) \cup {ev}

OpensApproval ==
  /\ ~Decided /\ state' = "awaiting_result_approvals"
  /\ provisional' \in MatchResult
  /\ OnlyCorrectExcused(playerStates', reports', provisional')
  /\ UNCHANGED <<final, autoPenalty, spectators>>
  /\ Announced(outbox') = Announced(outbox)

IsOverruled ==
  /\ state = "finalized" /\ state' = "finalized"
  /\ UNCHANGED <<reports, timing, provisional, reviewReasons>>
  /\ final' \in FinalResult /\ final'.byAdmin /\ final'.ratedAt = final.ratedAt
  /\ autoPenalty' = [p \in Participants |-> None]
  /\ spectators' = {}
  /\ Announced(outbox') = Announced(outbox)

Proceeds ==
  /\ state' = state \/ (~Decided /\ state' = "waiting_for_result_reports")
  /\ UNCHANGED <<provisional, final, autoPenalty>>
  /\ Decided => /\ UNCHANGED <<reports, timing, reviewReasons>>
                /\ \A p \in Participants :
                     playerStates'[p].approval = "not_required" =>
                       playerStates[p].approval = "not_required"
  /\ state = "finalized" => UNCHANGED playerStates
  /\ UNCHANGED spectators \/ (~Decided /\ \E p \in Others : SeatFor(p) /\ spectators' = spectators \cup {p})
  /\ Announced(outbox') = Announced(outbox)

Excused == state = "awaiting_result_approvals" => OnlyCorrectExcused(playerStates, reports, provisional)

\* Of the events of a finalization the match's own announcement is one.
LEMMA FinalizationAnnounced ==
  ASSUME NEW events, NEW ev, ev.type = "match_finalized", NEW penalties, NEW reasons
  PROVE  Announced(events \cup FinalizationEvents(ev, penalties, reasons))
           = Announced(events) \cup (IF ev.about = "admin" THEN {} ELSE {ev})
BY DEF Announced, FinalizationEvents, EventAbout

\* A finalization penalizes who deserves it, if only who is right was excused.
LEMMA FinalizeMatchOutcome ==
  ASSUME state # "finalized",
         NEW states \in [Participants -> PlayerState],
         NEW ballots \in LatestReports, NEW result \in MatchResult,
         NEW reasons, NEW at \in Nat, NEW cause \in Cause \ {"admin"}, NEW announced,
         OnlyCorrectExcused(states, ballots, result),
         FinalizeMatch(states, ballots, result, reasons, at, cause, announced),
         Announced(announced) = Announced(outbox),
         reports' = ballots, provisional' = result,
         Decided => UNCHANGED <<reports, timing, provisional, reviewReasons>>
  PROVE  BecomesFinal
<1> DEFINE settled == CloseApprovals(states, ballots, result)
           penalties == [p \in Participants |->
                           DetermineAutoPenaltyType(settled[p].report, settled[p].approval)]
<1>1. /\ state' = "finalized" /\ playerStates' = settled
      /\ final' = [result |-> result, ratedAt |-> at, finalizedAt |-> at, byAdmin |-> FALSE]
      /\ autoPenalty' = penalties
      /\ spectators' = {}
      /\ outbox' = announced \cup
           FinalizationEvents(EventAbout("match_finalized", cause), penalties, reasons)
  BY DEF FinalizeMatch
<1>2. Deserved(penalties, settled, ballots, result)
  <2> SUFFICES ASSUME NEW p \in Participants, penalties[p] # None
               PROVE  /\ settled[p].approval = "not_approved"
                      /\ penalties[p] = "no_report" <=> p \notin DOMAIN ballots
                      /\ p \in DOMAIN ballots => ballots[p] # result
    BY DEF Deserved
  <2>1. /\ settled[p].report = DetermineReportStatus(ballots, p, result)
        /\ settled[p].approval = IF states[p].approval = "pending" THEN "not_approved"
                                 ELSE states[p].approval
        /\ states[p].approval \in ApprovalStatus
    BY DEF CloseApprovals, PlayerState
  <2>2. /\ settled[p].approval # "approved"
        /\ settled[p].report # "correct"
        /\ penalties[p] = "no_report" <=> settled[p].report = "not_reported"
    BY <2>1 DEF DetermineAutoPenaltyType, DetermineReportStatus
  <2>3. /\ settled[p].report = "not_reported" <=> p \notin DOMAIN ballots
        /\ p \in DOMAIN ballots => ballots[p] # result
    BY <2>1, <2>2 DEF DetermineReportStatus
  <2>4. states[p].approval # "not_required"
    BY <2>3 DEF OnlyCorrectExcused
  <2> QED
    BY <2>1, <2>2, <2>3, <2>4 DEF ApprovalStatus
<1> HIDE DEF settled, penalties
<1>3. final' \in FinalResult /\ final'.result = result /\ ~final'.byAdmin
  BY <1>1 DEF FinalResult
<1>4. Announced(outbox') = Announced(outbox) \cup {EventAbout("match_finalized", cause)}
  <2>1. /\ EventAbout("match_finalized", cause).type = "match_finalized"
        /\ EventAbout("match_finalized", cause).about = cause
    BY DEF EventAbout
  <2> QED
    BY <1>1, <2>1, FinalizationAnnounced
<1> QED
  BY <1>1, <1>2, <1>3, <1>4 DEF BecomesFinal

Outcome == BecomesFinal \/ OpensApproval \/ IsOverruled \/ Proceeds

\* What the beginning of the approvals leads to: the approvals, or the end.
LEMMA StartApprovalOutcome ==
  ASSUME FlowInv, ~Decided,
         NEW ballots \in LatestReports, NEW tieBreaker \in Participants,
         NEW at \in Nat, NEW cause \in Cause \ {"admin"}, NEW announced,
         StartApproval(ballots, tieBreaker, at, cause, announced),
         Announced(announced) = Announced(outbox), reports' = ballots
  PROVE  BecomesFinal \/ OpensApproval
<1> DEFINE decided == DetermineMatchResult(ballots, tieBreaker)
           reasons == DetermineAdminReviewReasons(ballots, decided.unresolvedTie)
           status(p) == DetermineReportStatus(ballots, p, decided.result)
           states == [p \in Participants |->
                        [report   |-> status(p),
                         approval |-> IF status(p) = "correct" THEN "not_required"
                                      ELSE "pending"]]
<1>1. decided.result \in MatchResult /\ \A p \in Participants : status(p) \in ReportStatus
  BY RulesTyped
<1>2. states \in [Participants -> PlayerState]
  BY <1>1 DEF PlayerState, ApprovalStatus
<1>3. OnlyCorrectExcused(states, ballots, decided.result)
  BY DEF OnlyCorrectExcused, DetermineReportStatus
<1>4. /\ provisional' = decided.result
      /\ reviewReasons' = reasons
      /\ \/ FinalizeMatch(states, ballots, decided.result, reasons, at, cause, announced)
         \/ /\ state' = "awaiting_result_approvals"
            /\ playerStates' = states
            /\ outbox' = announced \cup {EventAbout("approval_requested", None)}
            /\ UNCHANGED <<outcome, spectators>>
  BY DEF StartApproval
<1> HIDE DEF decided, reasons, status, states
<1>5. CASE FinalizeMatch(states, ballots, decided.result, reasons, at, cause, announced)
  <2>1. state # "finalized"
    BY DEF Decided
  <2> QED
    BY <1>1, <1>2, <1>3, <1>4, <1>5, <2>1, FinalizeMatchOutcome
<1>6. CASE /\ state' = "awaiting_result_approvals"
           /\ playerStates' = states
           /\ outbox' = announced \cup {EventAbout("approval_requested", None)}
           /\ UNCHANGED <<outcome, spectators>>
  <2>1. Announced(outbox') = Announced(announced)
    BY <1>6 DEF Announced, EventAbout
  <2> QED
    BY <1>1, <1>3, <1>4, <1>6, <2>1 DEF OpensApproval, outcome
<1> QED
  BY <1>4, <1>5, <1>6

\* What the assignment of a parent leads to.
LEMMA AssignParentOutcome ==
  ASSUME FlowInv, state = "waiting_for_parent",
         NEW player \in Participants, NEW at \in Nat, NEW cause \in Cause,
         AssignParent(player, at, cause)
  PROVE  Outcome
<1> DEFINE announced == outbox \cup {EventAbout("parent_assigned", cause)}
<1>1. reports' = reports /\ reports \in LatestReports /\ ~Decided
  BY DEF AssignParent, FlowInv, TypeOK, BallotTypeOK, Decided
<1>2. Announced(announced) = Announced(outbox)
  BY DEF Announced, EventAbout
<1>3. CASE StartApproval(reports, player, at, "all_reports", announced)
  <2>1. "all_reports" \in Cause \ {"admin"}
    BY DEF Cause
  <2> QED
    BY <1>1, <1>2, <1>3, <2>1, StartApprovalOutcome DEF Outcome
<1>4. CASE /\ state' = "waiting_for_result_reports"
           /\ outbox' = announced
           /\ UNCHANGED <<decision, outcome, spectators>>
  BY <1>1, <1>2, <1>4 DEF Outcome, Proceeds, Decided, decision, outcome
<1> QED
  BY <1>3, <1>4 DEF AssignParent

\* What a report leads to.
LEMMA SubmitReportOutcome ==
  ASSUME FlowInv, NEW player \in Participants, NEW input \in Inputs,
         NEW at \in Nat, SubmitReport(player, input, at)
  PROVE  Outcome
<1> DEFINE ballots == WithReport(reports, player, input)
<1>1. reports' = ballots /\ ~Decided
  BY DEF SubmitReport, Reportable, Decided
<1>2. ballots \in LatestReports
  BY ReportTaken, FlowAssumption DEF FlowInv, TypeOK, BallotTypeOK
<1> HIDE DEF ballots
<1>3. CASE decidedAt # None /\ StartApproval(ballots, parent, at, "all_reports", outbox)
  <2>1. "all_reports" \in Cause \ {"admin"} /\ parent \in Participants
    BY <1>3 DEF Cause, FlowInv, StateShape
  <2> QED
    BY <1>1, <1>2, <1>3, <2>1, StartApprovalOutcome DEF Outcome
<1>4. CASE UNCHANGED <<state, decision, outcome, spectators, outbox>>
  BY <1>1, <1>4 DEF Outcome, Proceeds, Decided, decision, outcome
<1> QED
  BY <1>3, <1>4 DEF SubmitReport, ballots

\* What an approval leads to.
LEMMA ApproveOutcome ==
  ASSUME FlowInv, Excused, NEW player \in Participants, NEW at \in Nat,
         ApproveProvisionalResult(player, at)
  PROVE  Outcome
<1> DEFINE states == [playerStates EXCEPT ![player].approval = "approved"]
<1>1. /\ state = "awaiting_result_approvals"
      /\ UNCHANGED <<reports, timing, provisional, reviewReasons>>
      /\ \/ FinalizeMatch(states, reports, provisional, reviewReasons, at,
                          "all_approvals", outbox)
         \/ playerStates' = states /\ UNCHANGED <<state, outcome, spectators, outbox>>
  BY DEF ApproveProvisionalResult, ballot
<1>2. /\ playerStates \in [Participants -> PlayerState] /\ provisional \in MatchResult
      /\ reports \in LatestReports
  BY <1>1 DEF FlowInv, TypeOK, BallotTypeOK, StateShape, Decided
<1>3. /\ states \in [Participants -> PlayerState]
      /\ \A p \in Participants :
           states[p].approval = "not_required" => playerStates[p].approval = "not_required"
  BY <1>2 DEF PlayerState, ApprovalStatus
<1>4. OnlyCorrectExcused(states, reports, provisional)
  BY <1>1, <1>3 DEF Excused, OnlyCorrectExcused
<1> HIDE DEF states
<1>5. CASE FinalizeMatch(states, reports, provisional, reviewReasons, at,
                         "all_approvals", outbox)
  <2>1. "all_approvals" \in Cause \ {"admin"} /\ state # "finalized"
    BY <1>1 DEF Cause
  <2> QED
    BY <1>1, <1>2, <1>3, <1>4, <1>5, <2>1, FinalizeMatchOutcome DEF Outcome
<1>6. CASE playerStates' = states /\ UNCHANGED <<state, outcome, spectators, outbox>>
  BY <1>1, <1>3, <1>6 DEF Outcome, Proceeds, outcome
<1> QED
  BY <1>1, <1>5, <1>6

\* What the approvals' deadline leads to.
LEMMA ApprovalDeadlineOutcome ==
  ASSUME FlowInv, Excused, NEW at \in Nat, ProcessApprovalDeadline(at)
  PROVE  Outcome
<1>1. /\ state = "awaiting_result_approvals"
      /\ UNCHANGED <<reports, timing, provisional, reviewReasons>>
      /\ FinalizeMatch(playerStates, reports, provisional, reviewReasons, at,
                       "approval_deadline", outbox)
  BY DEF ProcessApprovalDeadline, ApprovalOver, ballot
<1>2. /\ playerStates \in [Participants -> PlayerState] /\ provisional \in MatchResult
      /\ reports \in LatestReports
  BY <1>1 DEF FlowInv, TypeOK, BallotTypeOK, StateShape, Decided
<1>3. "approval_deadline" \in Cause \ {"admin"} /\ state # "finalized"
  BY <1>1 DEF Cause
<1> QED
  BY <1>1, <1>2, <1>3, FinalizeMatchOutcome DEF Outcome, Excused

\* What an override leads to.
LEMMA OverrideOutcome ==
  ASSUME FlowInv, NEW result \in MatchResult, NEW at \in Nat,
         OverrideMatchResult(result, at)
  PROVE  Outcome
<1> DEFINE nobody == [p \in Participants |-> None]
           announcement == [type |-> "match_finalized", about |-> "admin", at |-> at]
<1>1. /\ state = "finalized" /\ state' = state
      /\ UNCHANGED <<reports, timing, provisional, reviewReasons>>
      /\ final' = [final EXCEPT !.result = result, !.finalizedAt = at, !.byAdmin = TRUE]
      /\ autoPenalty' = nobody /\ spectators' = {}
      /\ outbox' = outbox \cup FinalizationEvents(announcement, nobody, reviewReasons)
  BY DEF OverrideMatchResult, ballot
<1>2. final' \in FinalResult /\ final'.byAdmin /\ final'.ratedAt = final.ratedAt
  <2>1. final \in FinalResult
    BY <1>1 DEF FlowInv, StateShape
  <2> QED
    BY <1>1, <2>1 DEF FinalResult
<1>3. Announced(outbox') = Announced(outbox)
  <2> HIDE DEF nobody
  <2>1. Announced(outbox') = Announced(outbox) \cup {}
    BY <1>1, FinalizationAnnounced
  <2> QED
    BY <2>1
<1> QED
  BY <1>1, <1>2, <1>3 DEF Outcome, IsOverruled

\* Every step has one of the outcomes.
LEMMA StepOutcome ==
  ASSUME FlowInv, Excused, [Next]_vars
  PROVE  Outcome
<1>0. /\ \A t \in TransactionTimes : t \in Nat
      /\ parent \in Participants \cup {None} /\ reports \in LatestReports
  BY DEF TransactionTimes, FlowInv, TypeOK, BallotTypeOK
<1>1. CASE PlayerStep
  <2>1. CASE \E p \in Participants, t \in TransactionTimes : VolunteerParent(p, t)
    BY <1>0, <2>1, AssignParentOutcome DEF VolunteerParent, Cause
  <2>2. CASE \E p \in Participants, input \in Inputs, t \in TransactionTimes : SubmitReport(p, input, t)
    BY <1>0, <2>2, SubmitReportOutcome
  <2>3. CASE \E p \in Participants, t \in TransactionTimes : ApproveProvisionalResult(p, t)
    BY <1>0, <2>3, ApproveOutcome
  <2>4. CASE \E p \in Others : SpectateMatch(p)
    <3>1. ~Decided /\ UNCHANGED <<state, decision, outcome, outbox>>
      BY <2>4 DEF SpectateMatch, Decided
    <3> QED
      BY <2>4, <3>1 DEF SpectateMatch, Outcome, Proceeds, decision, outcome, Decided
  <2> QED
    BY <1>1, <2>1, <2>2, <2>3, <2>4 DEF PlayerStep
<1>2. CASE AdminStep
  <2>1. CASE \E r \in MatchResult, t \in TransactionTimes : OverrideMatchResult(r, t)
    BY <1>0, <2>1, OverrideOutcome
  <2>2. CASE \E target \in ManualTargets, delta \in {-1, 1} :
               AdjustPenalty(target[1], target[2], delta)
    BY <2>2 DEF AdjustPenalty, Outcome, Proceeds, ballot, decision
  <2> QED
    BY <1>2, <2>1, <2>2 DEF AdminStep
<1>3. CASE TimerStep
  <2> SUFFICES ASSUME NEW t \in TransactionTimes,
                      \/ ProcessParentDeadline(t)
                      \/ ProcessReportOpen(t)
                      \/ ProcessReportDeadline(t)
                      \/ ProcessApprovalDeadline(t)
               PROVE  Outcome
    BY <1>3 DEF TimerStep
  <2>1. CASE ProcessParentDeadline(t)
    <3>1. ParentDeadlineAt \in Nat /\ "timeout" \in Cause
      BY FlowAssumption DEF ParentDeadlineAt, Cause
    <3> QED
      BY <2>1, <3>1, AssignParentOutcome DEF ProcessParentDeadline
  <2>2. CASE ProcessReportOpen(t)
    <3>1. Announced(outbox') = Announced(outbox)
      BY <2>2 DEF ProcessReportOpen, Announced, EventAbout
    <3> QED
      BY <2>2, <3>1 DEF ProcessReportOpen, Outcome, Proceeds, ballot, decision, outcome
  <2>3. CASE ProcessReportDeadline(t)
    <3>1. /\ state = "waiting_for_result_reports" /\ reports' = reports
          /\ StartApproval(reports, parent, ReportDeadlineAt, "report_deadline", outbox)
      BY <2>3 DEF ProcessReportDeadline, ReportingOver, ballot
    <3>2. ~Decided /\ parent \in Participants /\ ReportDeadlineAt \in Nat
          /\ "report_deadline" \in Cause \ {"admin"}
      BY <3>1, FlowAssumption DEF FlowInv, StateShape, Decided, Cause, ReportDeadlineAt
    <3> QED
      BY <1>0, <3>1, <3>2, StartApprovalOutcome DEF Outcome
  <2>4. CASE ProcessApprovalDeadline(t)
    BY <1>0, <2>4, ApprovalDeadlineOutcome
  <2> QED
    BY <2>1, <2>2, <2>3, <2>4
<1>4. CASE Tick \/ UNCHANGED vars
  BY <1>4 DEF Tick, vars, Outcome, Proceeds, ballot, decision, outcome
<1> QED
  BY <1>1, <1>2, <1>3, <1>4 DEF Next

-----------------------------------------------------------------------------
\* The automatic finalization is announced when it happens and not again.
AnnouncedWhenFinal ==
  IF state = "finalized" THEN \E ev : Announced(outbox) = {ev} ELSE Announced(outbox) = {}

\* The second inductive invariant, which rests on the first one.
OutcomeInv ==
  /\ Excused
  /\ state # "finalized" => autoPenalty = [p \in Participants |-> None]
  /\ PenaltiesDeserved
  /\ SeatsRespected
  /\ AnnouncedWhenFinal

\* The number of seats is a number.
LEMMA RoomLeft == MaxSpectators \in Nat
<1>1. IsFiniteSet(Participants)
  BY TeamAssumption, FS_Union DEF Participants
<1>2. Cardinality(Participants) \in Nat
  BY <1>1, FS_CardinalityType
<1> QED
  BY <1>2, FlowAssumption DEF MaxSpectators

\* A spectator gets a seat only if there is one.
LEMMA SeatTaken ==
  ASSUME spectators \subseteq Others, NEW p \in Others, SeatFor(p),
         spectators' = spectators \cup {p}
  PROVE  Cardinality(spectators') <= MaxSpectators
<1>1. IsFiniteSet(spectators) /\ Cardinality(spectators) \in Nat
  BY FlowAssumption, FS_Subset, FS_CardinalityType
<1>2. Cardinality(spectators') = Cardinality(spectators) + 1
  BY <1>1, FS_AddElement DEF SeatFor
<1>3. MaxSpectators \in Nat
  BY RoomLeft
<1> QED
  BY <1>1, <1>2, <1>3 DEF SeatFor

\* Every step keeps the second invariant.
LEMMA OutcomeStep ==
  ASSUME FlowInv, FlowInv', OutcomeInv, [Next]_vars
  PROVE  OutcomeInv'
<1>1. Outcome
  BY StepOutcome DEF OutcomeInv
<1>2. state \in MatchState /\ state' \in MatchState
  BY DEF FlowInv, TypeOK
<1>3. Excused'
  <2>1. CASE Proceeds
    BY <2>1 DEF Proceeds, Decided, OutcomeInv, Excused, OnlyCorrectExcused
  <2> QED
    BY <1>1, <2>1 DEF Outcome, BecomesFinal, OpensApproval, IsOverruled, Excused
<1>4. (state # "finalized" => autoPenalty = [p \in Participants |-> None])'
  BY <1>1 DEF OutcomeInv, Outcome, BecomesFinal, OpensApproval, IsOverruled, Proceeds, Decided
<1>5. PenaltiesDeserved'
  <2>1. CASE BecomesFinal
    BY <2>1, FinalAssumption DEF BecomesFinal, Deserved, PenaltiesDeserved
  <2>2. CASE OpensApproval \/ IsOverruled
    BY <2>2 DEF OpensApproval, IsOverruled, OutcomeInv, Decided, PenaltiesDeserved
  <2>3. CASE Proceeds
    <3>1. CASE state = "finalized"
      BY <2>3, <3>1 DEF Proceeds, Decided, OutcomeInv, PenaltiesDeserved
    <3>2. CASE state # "finalized"
      BY <2>3, <3>2 DEF Proceeds, OutcomeInv, PenaltiesDeserved
    <3> QED
      BY <3>1, <3>2
  <2> QED
    BY <1>1, <2>1, <2>2, <2>3 DEF Outcome
<1>6. SeatsRespected'
  <2>1. MaxSpectators \in Nat /\ Cardinality({}) = 0 /\ MaxSpectators' = MaxSpectators
    BY RoomLeft, FS_EmptySet DEF MaxSpectators
  <2>2. CASE spectators' = {}
    BY <2>1, <2>2 DEF SeatsRespected
  <2>3. CASE UNCHANGED spectators /\ (state' = "finalized" => state = "finalized")
    BY <2>1, <2>3 DEF OutcomeInv, SeatsRespected
  <2>4. CASE Proceeds /\ ~UNCHANGED spectators
    BY <2>1, <2>4, SeatTaken DEF Proceeds, Decided, FlowInv, TypeOK, SeatsRespected
  <2> QED
    BY <1>1, <2>2, <2>3, <2>4 DEF Outcome, BecomesFinal, OpensApproval, IsOverruled, Proceeds
<1>7. AnnouncedWhenFinal'
  BY <1>1 DEF OutcomeInv, Outcome, BecomesFinal, OpensApproval, IsOverruled, Proceeds,
              Decided, AnnouncedWhenFinal
<1> QED
  BY <1>3, <1>4, <1>5, <1>6, <1>7 DEF OutcomeInv

\* The seats, the penalties and the announcement depend on each other's phase
\* of the match, and on who was excused from approving.
THEOREM OutcomeInvariant == Spec => []OutcomeInv
<1>1. Init => OutcomeInv
  <2> SUFFICES ASSUME Init PROVE OutcomeInv
    OBVIOUS
  <2>1. SeatsRespected
    BY RoomLeft, FS_EmptySet DEF Init, SeatsRespected
  <2> QED
    BY <2>1 DEF Init, OutcomeInv, Excused, PenaltiesDeserved, AnnouncedWhenFinal, Announced
<1> QED
  BY <1>1, OutcomeStep, FlowInvariant, PTL DEF Spec

\* The room is never overbooked and empty again once the match is final.
THEOREM SeatsEnough == Spec => []SeatsRespected
<1>1. OutcomeInv => SeatsRespected
  BY DEF OutcomeInv
<1> QED
  BY <1>1, OutcomeInvariant, PTL

\* Whoever is penalized deserves it, by the reports and the result on record.
THEOREM PenaltiesJust == Spec => []PenaltiesDeserved
<1>1. OutcomeInv => PenaltiesDeserved
  BY DEF OutcomeInv
<1> QED
  BY <1>1, OutcomeInvariant, PTL

\* The automatic finalization is announced exactly once.
THEOREM OneFinalization == Spec => []FinalizedOnce
<1>1. OutcomeInv => FinalizedOnce
  BY FS_EmptySet, FS_Singleton DEF OutcomeInv, AnnouncedWhenFinal, Announced, FinalizedOnce
<1> QED
  BY <1>1, OutcomeInvariant, PTL

\* Once there is a parent, nobody is made one again.
LEMMA ParentStays ==
  ASSUME FlowInv, [Next]_vars, parent # None
  PROVE  UNCHANGED timing
<1>1. state # "waiting_for_parent"
  BY DEF FlowInv, StateShape
<1> QED
  BY <1>1 DEF Next, PlayerStep, AdminStep, TimerStep, VolunteerParent, SubmitReport,
     ApproveProvisionalResult, SpectateMatch, OverrideMatchResult, AdjustPenalty,
     ProcessParentDeadline, ProcessReportOpen, ProcessReportDeadline,
     ProcessApprovalDeadline, Tick, vars, ballot

\* The parent, the reports behind a decision and the time that orders the
\* ratings are not decided anew, and nothing follows the final state.
THEOREM DecisionsStand == Spec => DecidedOnce
<1>1. FlowInv /\ FlowInv' /\ OutcomeInv /\ [Next]_vars =>
        [ /\ parent # None => UNCHANGED timing
          /\ provisional # None => UNCHANGED <<reports, provisional, reviewReasons>>
          /\ final # None => final'.ratedAt = final.ratedAt /\ state' = state ]_vars
  <2> SUFFICES ASSUME FlowInv, FlowInv', OutcomeInv, [Next]_vars
               PROVE  /\ parent # None => UNCHANGED timing
                      /\ provisional # None => UNCHANGED <<reports, provisional, reviewReasons>>
                      /\ final # None => final'.ratedAt = final.ratedAt /\ state' = state
    OBVIOUS
  <2>1. Outcome
    BY StepOutcome DEF OutcomeInv
  <2>2. provisional # None => Decided
    BY DEF FlowInv, StateShape
  <2>3. final # None => state = "finalized"
    BY DEF FlowInv, StateShape
  <2>4. parent # None => UNCHANGED timing
    BY ParentStays
  <2> QED
    BY <2>1, <2>2, <2>3, <2>4 DEF Outcome, BecomesFinal, OpensApproval, IsOverruled, Proceeds, Decided
<1> QED
  BY <1>1, FlowInvariant, OutcomeInvariant, PTL DEF Spec, DecidedOnce

\* The match keeps the promise of MatchLifecycle: it is decided once, what is
\* approved is what becomes final, and then only an admin changes the result.
THEOREM LifecycleKept == Spec => ImplementsLifecycle
<1>1. Init => Lifecycle!Init
  BY DEF Init, Lifecycle!Init
<1>2. FlowInv /\ FlowInv' /\ OutcomeInv /\ [Next]_vars => [Lifecycle!Next]_(Lifecycle!vars)
  <2> SUFFICES ASSUME FlowInv, FlowInv', OutcomeInv, [Next]_vars
               PROVE  Lifecycle!Next \/ UNCHANGED Lifecycle!vars
    OBVIOUS
  <2>1. final = None => state # "finalized"
    BY FinalAssumption DEF FlowInv, StateShape
  <2>2. final # None => state = "finalized"
    BY DEF FlowInv, StateShape
  <2>3. \A r \in FinalResult : r # None /\ r.result \in MatchResult
    BY FinalAssumption DEF FinalResult
  <2>4. final' = None => state' # "finalized"
    BY FinalAssumption DEF FlowInv, StateShape
  <2>5. final' # None => state' = "finalized"
    BY DEF FlowInv, StateShape
  <2>6. CASE BecomesFinal /\ ~Decided
    <3>1. Lifecycle!DecideUnanimously(provisional')
      BY <2>2, <2>3, <2>6 DEF BecomesFinal, Decided, Lifecycle!DecideUnanimously
    <3> QED
      BY <2>6, <3>1 DEF BecomesFinal, Lifecycle!Next
  <2>7. CASE BecomesFinal /\ Decided
    <3>1. Lifecycle!Settle
      BY <2>2, <2>3, <2>7 DEF BecomesFinal, Decided, Lifecycle!Settle
    <3> QED
      BY <3>1 DEF Lifecycle!Next
  <2>8. CASE OpensApproval
    <3>1. Lifecycle!Propose(provisional')
      BY <2>8 DEF OpensApproval, Decided, Lifecycle!Propose
    <3> QED
      BY <2>8, <3>1 DEF OpensApproval, Lifecycle!Next
  <2>9. CASE IsOverruled
    <3>1. Lifecycle!Overrule(final'.result)
      BY <2>1, <2>3, <2>9 DEF IsOverruled, Lifecycle!Overrule
    <3>2. final'.result \in MatchResult
      BY <2>3, <2>9 DEF IsOverruled
    <3> QED
      BY <3>1, <3>2 DEF Lifecycle!Next
  <2>10. CASE Proceeds
    BY <2>10 DEF Proceeds, Decided, Lifecycle!vars
  <2> QED
    BY <2>6, <2>7, <2>8, <2>9, <2>10, StepOutcome DEF Outcome, OutcomeInv
<1> QED
  BY <1>1, <1>2, FlowInvariant, OutcomeInvariant, PTL DEF Spec, ImplementsLifecycle, Lifecycle!Spec
-----------------------------------------------------------------------------
(* The ballot of the match: the reports and the parent alone, for teams of   *)
(* any size.                                                                 *)

\* A ballot assigns results to participants only, and there are finitely many.
LEMMA BallotShape ==
  ASSUME NEW rs \in LatestReports
  PROVE  /\ DOMAIN rs \subseteq Participants
         /\ \A p \in DOMAIN rs : rs[p] \in MatchResult
         /\ IsFiniteSet(DOMAIN rs)
<1>1. PICK S \in SUBSET Participants : rs \in [S -> MatchResult]
  BY DEF LatestReports
<1>2. IsFiniteSet(Participants)
  BY TeamAssumption, FS_Union DEF Participants
<1>3. IsFiniteSet(DOMAIN rs)
  BY <1>1, <1>2, FS_Subset
<1>4. QED
  BY <1>1, <1>3

\* Every count of votes is a number, and two different results share no voter.
LEMMA VotesCount ==
  ASSUME NEW rs \in LatestReports, NEW r \in MatchResult
  PROVE  /\ IsFiniteSet(Reporters(rs, r))
         /\ Votes(rs, r) \in Nat
         /\ Cardinality(DOMAIN rs) \in Nat
         /\ Reporters(rs, r) \subseteq DOMAIN rs
         /\ \A s \in MatchResult \ {r} :
              Votes(rs, s) + Votes(rs, r) <= Cardinality(DOMAIN rs)
<1>1. IsFiniteSet(DOMAIN rs)
  BY BallotShape
<1>2. \A s : Reporters(rs, s) \subseteq DOMAIN rs
  BY DEF Reporters
<1>3. \A s : /\ IsFiniteSet(Reporters(rs, s))
             /\ Votes(rs, s) \in Nat
  BY <1>1, <1>2, FS_Subset, FS_CardinalityType DEF Votes
<1>4. ASSUME NEW s \in MatchResult \ {r}
      PROVE  Votes(rs, s) + Votes(rs, r) <= Cardinality(DOMAIN rs)
  <2> DEFINE A == Reporters(rs, s)
             B == Reporters(rs, r)
  <2>1. A \cap B = {}
    BY DEF Reporters
  <2>2. Cardinality(A \cup B) = Cardinality(A) + Cardinality(B)
    <3>1. IsFiniteSet(A) /\ IsFiniteSet(B)
      BY <1>3
    <3>2. Cardinality(A \cup B) =
            Cardinality(A) + Cardinality(B) - Cardinality(A \cap B)
      BY <3>1, FS_Union
    <3>3. Cardinality(A \cap B) = 0
      BY <2>1, FS_EmptySet
    <3> QED
      BY <3>1, <3>2, <3>3, FS_CardinalityType
  <2>3. Cardinality(A \cup B) <= Cardinality(DOMAIN rs)
    BY <1>1, <1>2, FS_Subset
  <2> QED
    BY <2>2, <2>3 DEF Votes
<1>5. QED
  BY <1>1, <1>2, <1>3, <1>4, FS_CardinalityType

\* The result with more than half of the votes is the only candidate.
LEMMA MajorityIsSoleCandidate ==
  ASSUME NEW rs \in LatestReports, NEW r \in MatchResult,
         2 * Votes(rs, r) > Cardinality(DOMAIN rs)
  PROVE  /\ DOMAIN rs # {}
         /\ Candidates(rs) = {r}
<1>1. Votes(rs, r) \in Nat /\ Cardinality(DOMAIN rs) \in Nat
  BY VotesCount
<1>2. ASSUME NEW s \in MatchResult \ {r}
      PROVE  Votes(rs, s) < Votes(rs, r) /\ Votes(rs, s) \in Nat
  BY <1>1, VotesCount
<1>3. r \in Candidates(rs)
  BY <1>1, <1>2 DEF Candidates
<1>4. ASSUME NEW s \in Candidates(rs) \ {r}
      PROVE  FALSE
  BY <1>1, <1>2 DEF Candidates
<1>5. DOMAIN rs # {}
  <2>1. SUFFICES ASSUME DOMAIN rs = {} PROVE FALSE
    OBVIOUS
  <2>2. Reporters(rs, r) = {}
    BY <2>1 DEF Reporters
  <2> QED
    BY <2>1, <2>2, FS_EmptySet DEF Votes
<1>6. QED
  BY <1>3, <1>4, <1>5

-----------------------------------------------------------------------------
\* A result and its mirror image are mirror images of each other.
LEMMA MirrorTwice ==
  ASSUME NEW r \in MatchResult
  PROVE  Mirror(r) \in MatchResult /\ Mirror(Mirror(r)) = r
BY DEF Mirror, MatchResult

\* The ballot that reports the other side's win.
MirrorOf(rs) == [p \in DOMAIN rs |-> Mirror(rs[p])]

\* Whoever reports a result reports its mirror image on the mirrored ballot.
LEMMA MirroredVotes ==
  ASSUME NEW rs \in LatestReports, NEW r \in MatchResult
  PROVE  Votes(MirrorOf(rs), Mirror(r)) = Votes(rs, r)
<1>1. \A p \in DOMAIN rs : Mirror(rs[p]) = Mirror(r) <=> rs[p] = r
  BY BallotShape, MirrorTwice
<1>2. Reporters(MirrorOf(rs), Mirror(r)) = Reporters(rs, r)
  BY <1>1 DEF Reporters, MirrorOf
<1> QED
  BY <1>2 DEF Votes

\* The candidates are mirrored with the ballot.
LEMMA MirroredCandidates ==
  ASSUME NEW rs \in LatestReports, NEW r \in MatchResult
  PROVE  Mirror(r) \in Candidates(MirrorOf(rs)) <=> r \in Candidates(rs)
<1> DEFINE ms == MirrorOf(rs)
<1>1. \A t \in MatchResult : Votes(ms, Mirror(t)) = Votes(rs, t)
  BY MirroredVotes
<1>2. \A t \in MatchResult : Mirror(t) \in MatchResult /\ Mirror(Mirror(t)) = t
  BY MirrorTwice
<1> HIDE DEF ms
<1>3. (\A t \in MatchResult : Votes(ms, t) <= Votes(ms, Mirror(r)))
        <=> (\A t \in MatchResult : Votes(rs, t) <= Votes(rs, r))
  <2>1. ASSUME \A t \in MatchResult : Votes(ms, t) <= Votes(ms, Mirror(r)), NEW t \in MatchResult
        PROVE  Votes(rs, t) <= Votes(rs, r)
    <3>1. Votes(ms, Mirror(t)) <= Votes(ms, Mirror(r))
      BY <1>2, <2>1
    <3> QED
      BY <1>1, <3>1
  <2>2. ASSUME \A t \in MatchResult : Votes(rs, t) <= Votes(rs, r), NEW t \in MatchResult
        PROVE  Votes(ms, t) <= Votes(ms, Mirror(r))
    <3>1. Votes(rs, Mirror(t)) <= Votes(rs, r)
      BY <1>2, <2>2
    <3>2. Votes(ms, t) = Votes(rs, Mirror(t))
      BY <1>1, <1>2
    <3> QED
      BY <1>1, <3>1, <3>2
  <2> QED
    BY <2>1, <2>2
<1>4. Mirror(r) \in Candidates(ms) <=> r \in Candidates(rs)
  BY <1>2, <1>3 DEF Candidates
<1> QED
  BY <1>4 DEF ms

\* There is one candidate on both ballots or on neither.
LEMMA MirroredSole ==
  ASSUME NEW rs \in LatestReports
  PROVE  LET cs == Candidates(rs)
             ms == Candidates(MirrorOf(rs))
         IN  /\ Cardinality(cs) = 1 <=> Cardinality(ms) = 1
             /\ Cardinality(cs) = 1 =>
                  (CHOOSE r \in ms : TRUE) = Mirror(CHOOSE r \in cs : TRUE)
<1> DEFINE cs == Candidates(rs)
           ms == Candidates(MirrorOf(rs))
<1>1. cs \subseteq MatchResult /\ ms \subseteq MatchResult
  BY DEF Candidates
<1>2. \A r \in MatchResult : /\ Mirror(r) \in MatchResult /\ Mirror(Mirror(r)) = r
                             /\ Mirror(r) \in ms <=> r \in cs
  BY MirrorTwice, MirroredCandidates
<1>3. IsFiniteSet(cs) /\ IsFiniteSet(ms)
  <2>1. IsFiniteSet(MatchResult)
    <3>1. IsFiniteSet({"team_a_win"} \cup {"team_b_win"} \cup {"draw"} \cup {"void"})
      BY FS_Singleton, FS_Union
    <3>2. MatchResult = {"team_a_win"} \cup {"team_b_win"} \cup {"draw"} \cup {"void"}
      BY DEF MatchResult
    <3> QED
      BY <3>1, <3>2
  <2> QED
    BY <1>1, <2>1, FS_Subset
<1> HIDE DEF cs, ms
<1>4. ASSUME NEW r, cs = {r}
      PROVE  ms = {Mirror(r)}
  BY <1>1, <1>2, <1>4
<1>5. ASSUME NEW r, ms = {r}
      PROVE  cs = {Mirror(r)}
  BY <1>1, <1>2, <1>5
<1>6. /\ Cardinality(cs) = 1 <=> \E r : cs = {r}
      /\ Cardinality(ms) = 1 <=> \E r : ms = {r}
  BY <1>3, FS_Singleton
<1>7. Cardinality(cs) = 1 <=> Cardinality(ms) = 1
  BY <1>4, <1>5, <1>6
<1>8. Cardinality(cs) = 1 => (CHOOSE r \in ms : TRUE) = Mirror(CHOOSE r \in cs : TRUE)
  <2> SUFFICES ASSUME NEW r, cs = {r}
               PROVE  (CHOOSE x \in ms : TRUE) = Mirror(CHOOSE x \in cs : TRUE)
    BY <1>6
  <2>1. ms = {Mirror(r)}
    BY <1>4
  <2>2. (CHOOSE x \in {r} : TRUE) = r /\ (CHOOSE x \in {Mirror(r)} : TRUE) = Mirror(r)
    OBVIOUS
  <2> QED
    BY <2>1, <2>2
<1> QED
  BY <1>7, <1>8 DEF cs, ms

-----------------------------------------------------------------------------
\* Ballots stay ballots and the parent is a participant or not decided yet.
THEOREM BallotTypeCorrect == BallotSpec => []BallotTypeOK
<1>1. BallotInit => BallotTypeOK
  BY DEF BallotInit, BallotTypeOK, LatestReports
<1>2. ASSUME BallotTypeOK, [BallotNext]_ballotVars
      PROVE  BallotTypeOK'
  <2>0. reports \in LatestReports /\ parent \in Participants \cup {None}
    BY <1>2 DEF BallotTypeOK
  <2> SUFFICES reports' \in LatestReports /\ parent' \in Participants \cup {None}
    BY DEF BallotTypeOK
  <2>1. ASSUME NEW p \in Participants, NEW input \in ReportInputResult,
               CastReport(p, input)
        PROVE  reports' \in LatestReports /\ parent' = parent
    BY <2>0, <2>1, ReportTaken DEF CastReport
  <2>2. ASSUME NEW p \in Participants, AppointParent(p)
        PROVE  reports' = reports /\ parent' \in Participants
    BY <2>2 DEF AppointParent
  <2>3. CASE UNCHANGED ballotVars
    BY <2>0, <2>3 DEF ballotVars
  <2> QED
    BY <1>2, <2>0, <2>1, <2>2, <2>3 DEF BallotNext
<1> QED
  BY <1>1, <1>2, PTL DEF BallotSpec

\* For teams of any size, the report of more than half of the reporters is
\* the decision of determine_match_result, whoever the parent is.
THEOREM MajorityRule == BallotSpec => []MajorityWins
<1>1. BallotTypeOK => MajorityWins
  <2> SUFFICES ASSUME reports \in LatestReports, NEW r \in MatchResult,
                      2 * Votes(reports, r) > Cardinality(DOMAIN reports)
               PROVE  DetermineMatchResult(reports, parent) = [result |-> r, unresolvedTie |-> FALSE]
    BY DEF MajorityWins, Decision, BallotTypeOK
  <2>1. DOMAIN reports # {} /\ Candidates(reports) = {r}
    BY MajorityIsSoleCandidate
  <2>2. Cardinality({r}) = 1
    BY FS_Singleton
  <2>3. (CHOOSE x \in {r} : TRUE) = r
    OBVIOUS
  <2> QED
    BY <2>1, <2>2, <2>3 DEF DetermineMatchResult
<1> QED
  BY <1>1, BallotTypeCorrect, PTL

\* Had every player reported the other side's win, the decision would have been
\* the mirrored one, for teams of any size and whoever the parent is.
THEOREM SidesAreEqual == BallotSpec => []NeitherTeamFavoured
<1> DEFINE ms == MirrorOf(reports)
           here == DetermineMatchResult(reports, parent)
           there == DetermineMatchResult(ms, parent)
<1>1. BallotTypeOK => there.result = Mirror(here.result)
                       /\ there.unresolvedTie = here.unresolvedTie
  <2> SUFFICES ASSUME reports \in LatestReports
               PROVE  /\ there.result = Mirror(here.result)
                      /\ there.unresolvedTie = here.unresolvedTie
    BY DEF BallotTypeOK
  <2>1. /\ DOMAIN ms = DOMAIN reports
        /\ \A p \in DOMAIN reports : /\ ms[p] = Mirror(reports[p])
                                     /\ reports[p] \in MatchResult
                                     /\ ms[p] \in Candidates(ms) <=> reports[p] \in Candidates(reports)
    BY BallotShape, MirroredCandidates DEF MirrorOf
  <2>2. Mirror("void") = "void"
    BY DEF Mirror
  <2>3. /\ Cardinality(Candidates(reports)) = 1 <=> Cardinality(Candidates(ms)) = 1
        /\ Cardinality(Candidates(reports)) = 1 =>
             (CHOOSE r \in Candidates(ms) : TRUE) = Mirror(CHOOSE r \in Candidates(reports) : TRUE)
    BY MirroredSole
  <2> HIDE DEF ms
  <2> QED
    BY <2>1, <2>2, <2>3 DEF DetermineMatchResult
<1>2. BallotTypeOK => NeitherTeamFavoured
  BY <1>1 DEF NeitherTeamFavoured, Decision, MirrorOf
<1> QED
  BY <1>2, BallotTypeCorrect, PTL

\* The reports and the parent of a match change as those of the ballot do: one
\* report at a time, and one parent, once.
THEOREM BallotKept == Spec => BallotSpec
<1>1. Init => BallotInit
  BY DEF Init, BallotInit
<1>2. FlowInv /\ [Next]_vars => [BallotNext]_ballotVars
  <2> SUFFICES ASSUME FlowInv, [Next]_vars
               PROVE  BallotNext \/ UNCHANGED <<reports, parent>>
    BY DEF ballotVars
  <2>1. ASSUME NEW p \in Participants, NEW at, NEW cause, AssignParent(p, at, cause),
               state = "waiting_for_parent"
        PROVE  BallotNext
    <3>1. parent = None
      BY <2>1 DEF FlowInv, StateShape
    <3>2. AppointParent(p)
      BY <2>1, <3>1 DEF AssignParent, AppointParent
    <3> QED
      BY <3>2 DEF BallotNext
  <2>2. ASSUME NEW p \in Participants, NEW input \in Inputs, NEW at, SubmitReport(p, input, at)
        PROVE  BallotNext
    <3>1. CastReport(p, input)
      BY <2>2 DEF SubmitReport, CastReport, timing
    <3>2. input \in ReportInputResult
      BY FlowAssumption
    <3> QED
      BY <3>1, <3>2 DEF BallotNext
  <2>3. CASE PlayerStep
    BY <2>1, <2>2, <2>3 DEF PlayerStep, VolunteerParent, ApproveProvisionalResult, SpectateMatch,
       ballot, timing
  <2>4. CASE AdminStep
    BY <2>4 DEF AdminStep, OverrideMatchResult, AdjustPenalty, ballot, timing
  <2>5. CASE TimerStep
    BY <2>1, <2>5 DEF TimerStep, ProcessParentDeadline, ProcessReportOpen, ProcessReportDeadline,
       ProcessApprovalDeadline, ballot, timing
  <2>6. CASE Tick
    BY <2>6 DEF Tick, ballot, timing
  <2>7. CASE UNCHANGED vars
    BY <2>7 DEF vars, ballot, timing
  <2> QED
    BY <2>3, <2>4, <2>5, <2>6, <2>7 DEF Next
<1> QED
  BY <1>1, <1>2, FlowInvariant, PTL DEF Spec, BallotSpec

\* So in every match a majority of the reporters decides, and neither team is
\* favoured, at every moment and whatever players, admins and timers do.
THEOREM BallotRulesHold == Spec => [](MajorityWins /\ NeitherTeamFavoured)
BY BallotKept, MajorityRule, SidesAreEqual, PTL
=============================================================================
