------------------------------- MODULE MatchFlow ------------------------------
(***************************************************************************)
(* The life of one match, from its creation to its final result and to the *)
(* corrections an admin makes: MatchFlowService of                         *)
(* contexts/matches/application/match_flow.py.                             *)
(*                                                                         *)
(* Every action is one database transaction, which takes the advisory lock *)
(* of the match (adjust_penalty: of the player) before it reads anything.  *)
(* It works with now(), the time at which it began, and may have waited    *)
(* for the lock since: "at" is that time, and MaxLag bounds the wait.      *)
(* Deadlines are handled by timers that may fire arbitrarily late.         *)
(*                                                                         *)
(* The match was created at time 0. A transaction that raises is rolled    *)
(* back and changes nothing, so that it is no action; in particular every  *)
(* one that has to notify the players does so as long as the matchmaking   *)
(* channel is not set up.                                                  *)
(***************************************************************************)
EXTENDS MatchBallot, Integers

CONSTANTS
  Others,             (* registered players who are not participants       *)
  Inputs,             (* the reports that this instance enumerates         *)
  ManualTargets,      (* <<player, penalty type>> pairs that admins adjust *)
  RoomSize,           (* _MAX_MATCH_ROOM_SIZE                              *)
  ParentWindow,       (* MatchTimingWindows.parent_selection_window        *)
  OpenDelay,          (* MatchTimingWindows.report_open_delay              *)
  DeadlineDelay,      (* MatchTimingWindows.report_deadline_delay          *)
  ApprovalWindow,     (* MatchTimingWindows.approval_window                *)
  MaxClock, MaxLag, MaxManual                    (* bounds of the model    *)

ASSUME FlowAssumption ==
  /\ IsFiniteSet(Others) /\ Others \cap Participants = {}
  /\ Inputs \subseteq ReportInputResult
  /\ ManualTargets \subseteq Participants \X PenaltyType
  /\ {RoomSize, ParentWindow, OpenDelay, DeadlineDelay, ApprovalWindow,
      MaxClock, MaxLag, MaxManual} \subseteq Nat
  /\ OpenDelay <= DeadlineDelay
  /\ None \notin MatchResult \cup PenaltyType \cup Nat

VARIABLES
  state,              (* active_match_states.state                         *)
  decidedAt,          (* parent_decided_at; the report times follow from it *)
  reportingOpened,    (* reporting_opened_at is not None                   *)
  provisional,        (* provisional_result                                *)
  reviewReasons,      (* admin_review_reasons                              *)
  approvalStartedAt,  (* approval_started_at; the deadline follows from it *)
  playerStates,       (* active_match_player_states, by participant        *)
  final,              (* finalized_match_results                           *)
  autoPenalty,        (* auto_penalty_type of finalized_match_player_results *)
  penaltyCount,       (* player_penalties.count                            *)
  manual,             (* the sum of the ADMIN_MANUAL adjustments           *)
  spectators,         (* match_spectators that are ACTIVE                  *)
  outbox,             (* outbox_events, deduplicated by their key          *)
  clock               (* the database's clock                              *)

timing == <<parent, decidedAt>>
ballot == <<reports, timing>>
decision == <<provisional, reviewReasons, approvalStartedAt, playerStates>>
outcome == <<final, autoPenalty, penaltyCount>>
vars == <<state, ballot, reportingOpened, decision, outcome, manual,
          spectators, outbox, clock>>

MatchState == {"waiting_for_parent", "waiting_for_result_reports",
               "awaiting_result_approvals", "finalized"}
PlayerState == [report : ReportStatus, approval : ApprovalStatus]
FinalResult == [result : MatchResult, ratedAt : Nat, finalizedAt : Nat,
                byAdmin : BOOLEAN]

ASSUME FinalAssumption == None \notin FinalResult

PenaltyTable == [Participants -> [PenaltyType -> Int]]

\* The dedupe key of an event: its type, the cause or the player it names and,
\* for a correction, its time.
EventType == {"parent_assigned", "report_opened", "approval_requested",
              "match_finalized", "admin_review_required", "penalty_applied"}
Cause == {"manual", "timeout", "all_reports", "report_deadline",
          "all_approvals", "approval_deadline", "admin"}
Event == [type : EventType, about : Cause \cup Participants \cup {None}, at : Nat]

\* Slip: the parts of the key are in the wrong order.
Swapped(type, about) == [type |-> about, about |-> type, at |-> 0]

EventAbout(type, about) == [type |-> type, about |-> about, at |-> 0]

TypeOK ==
  /\ state \in MatchState
  /\ BallotTypeOK
  /\ decidedAt \in Nat \cup {None}
  /\ reportingOpened \in BOOLEAN
  /\ provisional \in MatchResult \cup {None}
  /\ reviewReasons \subseteq AdminReviewReason
  /\ approvalStartedAt \in Nat \cup {None}
  /\ playerStates \in [Participants -> PlayerState] \cup {None}
  /\ final \in FinalResult \cup {None}
  /\ autoPenalty \in [Participants -> PenaltyType \cup {None}]
  /\ penaltyCount \in PenaltyTable
  /\ manual \in PenaltyTable
  /\ spectators \subseteq Others
  /\ outbox \subseteq Event
  /\ clock \in Nat

Init ==
  /\ state = "waiting_for_parent"
  /\ BallotInit
  /\ decidedAt = None
  /\ reportingOpened = FALSE
  /\ provisional = None /\ reviewReasons = {}
  /\ approvalStartedAt = None /\ playerStates = None
  /\ final = None
  /\ autoPenalty = [p \in Participants |-> None]
  /\ penaltyCount = [p \in Participants |-> [t \in PenaltyType |-> 0]]
  /\ manual = [p \in Participants |-> [t \in PenaltyType |-> 0]]
  /\ spectators = {} /\ outbox = {} /\ clock = 0

\* now() of a transaction that gets its lock at this moment.
TransactionTimes == {t \in 0..clock : clock <= t + MaxLag}

ParentDeadlineAt == ParentWindow
ReportOpenAt == decidedAt + OpenDelay
ReportDeadlineAt == decidedAt + DeadlineDelay
ApprovalDeadlineAt == approvalStartedAt + ApprovalWindow

Pending(states) == {p \in Participants : states[p].approval = "pending"}

-----------------------------------------------------------------------------
\* Slip: a participant whose approval is still pending stays so.
PendingStays(states, ballots, result) ==
  [p \in Participants |->
     [states[p] EXCEPT !.report = DetermineReportStatus(ballots, p, result)]]

\* _ensure_active_player_states_for_finalization, for the rows that are there
\* when it is called: whoever did not approve in time is NOT_APPROVED.
CloseApprovals(states, ballots, result) ==
  [p \in Participants |->
     [report   |-> DetermineReportStatus(ballots, p, result),
      approval |-> IF states[p].approval = "pending" THEN "not_approved"
                   ELSE states[p].approval]]

\* Slip: the old automatic penalty is not taken back.
OnlyAdd(old, new) ==
  [p \in Participants |->
     [t \in PenaltyType |-> penaltyCount[p][t] + (IF new[p] = t THEN 1 ELSE 0)]]

\* The automatic penalties of the match change from "old" to "new".
Repenalize(old, new) ==
  [p \in Participants |->
     [t \in PenaltyType |->
        penaltyCount[p][t] + (IF new[p] = t THEN 1 ELSE 0)
                           - (IF old[p] = t THEN 1 ELSE 0)]]

\* _enqueue_finalization_notifications_locked
FinalizationEvents(finalizedEvent, penalties, reasons) ==
  {finalizedEvent}
  \cup {EventAbout("penalty_applied", p) : p \in {q \in Participants : penalties[q] # None}}
  \cup (IF reasons = {} THEN {} ELSE {EventAbout("admin_review_required", None)})

\* _finalize_match_locked, which runs once in the life of a match: the
\* statuses are settled, the automatic penalties applied, the spectators let
\* go and everybody is told. (The ratings it updates are not modelled here.)
FinalizeMatch(states, ballots, result, reasons, at, cause, announced) ==
  LET settled == CloseApprovals(states, ballots, result)
      penalties == [p \in Participants |->
                      DetermineAutoPenaltyType(settled[p].report, settled[p].approval)]
  IN  /\ state' = "finalized"
      /\ playerStates' = settled
      /\ final' = [result |-> result, ratedAt |-> at, finalizedAt |-> at,
                   byAdmin |-> FALSE]
      /\ autoPenalty' = penalties
      /\ penaltyCount' = Repenalize(autoPenalty, penalties)
      /\ spectators' = {}
      /\ outbox' = announced \cup
           FinalizationEvents(EventAbout("match_finalized", cause), penalties, reasons)

\* _start_approval_locked: the reports are counted; a result that every
\* participant reported is final at once, any other waits for approvals.
StartApproval(ballots, tieBreaker, at, cause, announced) ==
  LET decided == DetermineMatchResult(ballots, tieBreaker)
      reasons == DetermineAdminReviewReasons(ballots, decided.unresolvedTie)
      states == [p \in Participants |->
                   LET status == DetermineReportStatus(ballots, p, decided.result)
                   IN  [report   |-> status,
                        approval |-> IF status = "correct" THEN "not_required"
                                     ELSE "pending"]]
  IN  /\ provisional' = decided.result
      /\ reviewReasons' = reasons
      /\ \/ /\ Pending(states) = {}
            /\ approvalStartedAt' = None
            /\ FinalizeMatch(states, ballots, decided.result, reasons, at, cause, announced)
         \/ /\ Pending(states) # {}
            /\ approvalStartedAt' = at
            /\ state' = "awaiting_result_approvals"
            /\ playerStates' = states
            /\ outbox' = announced \cup {EventAbout("approval_requested", None)}
            /\ UNCHANGED <<outcome, spectators>>

\* _assign_parent_locked; VOID reports may all be in before there is a parent.
AssignParent(player, at, cause) ==
  LET announced == outbox \cup {EventAbout("parent_assigned", cause)}
  IN  /\ parent' = player
      /\ decidedAt' = at
      /\ reportingOpened' = FALSE
      /\ \/ /\ DOMAIN reports = Participants
            /\ StartApproval(reports, player, at, "all_reports", announced)
         \/ /\ DOMAIN reports # Participants
            /\ state' = "waiting_for_result_reports"
            /\ outbox' = announced
            /\ UNCHANGED <<decision, outcome, spectators>>
      /\ UNCHANGED <<reports, manual, clock>>

\* volunteer_parent
VolunteerParent(player, at) ==
  /\ state = "waiting_for_parent"
  /\ at < ParentDeadlineAt
  /\ AssignParent(player, at, "manual")

\* process_parent_deadline: the parent is drawn, as of the deadline.
ProcessParentDeadline(at) ==
  /\ state = "waiting_for_parent"
  /\ at >= ParentDeadlineAt
  /\ \E p \in Participants : AssignParent(p, ParentDeadlineAt, "timeout")

\* Slip: reports are taken until the match is final.
ReportableUntilFinal(input, at) ==
  /\ state # "finalized"
  /\ input # "void" => decidedAt # None /\ at >= ReportOpenAt

Reportable(input, at) ==
  /\ state \in {"waiting_for_parent", "waiting_for_result_reports"}
  /\ decidedAt # None => at < ReportDeadlineAt
  /\ input # "void" => decidedAt # None /\ at >= ReportOpenAt

\* submit_report: the last report that is missing starts the approval.
SubmitReport(player, input, at) ==
  LET ballots == WithReport(reports, player, input)
  IN  /\ Reportable(input, at)
      /\ reports' = ballots
      /\ \/ /\ decidedAt # None /\ DOMAIN ballots = Participants
            /\ StartApproval(ballots, parent, at, "all_reports", outbox)
         \/ /\ decidedAt = None \/ DOMAIN ballots # Participants
            /\ UNCHANGED <<state, decision, outcome, spectators, outbox>>
      /\ UNCHANGED <<timing, reportingOpened, manual, clock>>

\* process_report_open
ProcessReportOpen(at) ==
  /\ state = "waiting_for_result_reports"
  /\ ~reportingOpened
  /\ at >= ReportOpenAt
  /\ reportingOpened' = TRUE
  /\ outbox' = outbox \cup {EventAbout("report_opened", None)}
  /\ UNCHANGED <<state, ballot, decision, outcome, manual, spectators, clock>>

\* Slip: the timer is trusted to fire only when it should.
ReportTimerTrusted(at) == decidedAt # None /\ at >= ReportDeadlineAt

\* Slip: a match that nobody reported on is left to somebody else.
OnlyIfReported(at) ==
  /\ state = "waiting_for_result_reports"
  /\ at >= ReportDeadlineAt
  /\ DOMAIN reports # {}

ReportingOver(at) ==
  /\ state = "waiting_for_result_reports"
  /\ at >= ReportDeadlineAt

\* process_report_deadline: the approval starts as of the deadline, however
\* late this is.
ProcessReportDeadline(at) ==
  /\ ReportingOver(at)
  /\ StartApproval(reports, parent, ReportDeadlineAt, "report_deadline", outbox)
  /\ UNCHANGED <<ballot, reportingOpened, manual, clock>>

\* approve_provisional_result: the last approval settles the match.
ApproveProvisionalResult(player, at) ==
  /\ state = "awaiting_result_approvals"
  /\ at < ApprovalDeadlineAt
  /\ playerStates[player].approval = "pending"
  /\ LET states == [playerStates EXCEPT ![player].approval = "approved"]
     IN  \/ /\ Pending(states) = {}
            /\ FinalizeMatch(states, reports, provisional, reviewReasons, at,
                             "all_approvals", outbox)
         \/ /\ Pending(states) # {}
            /\ playerStates' = states
            /\ UNCHANGED <<state, outcome, spectators, outbox>>
  /\ UNCHANGED <<ballot, reportingOpened, provisional, reviewReasons,
                 approvalStartedAt, manual, clock>>

\* Slip: the timer is trusted to fire only when it should.
ApprovalTimerTrusted(at) ==
  approvalStartedAt # None /\ at >= ApprovalDeadlineAt

ApprovalOver(at) ==
  /\ state = "awaiting_result_approvals"
  /\ at >= ApprovalDeadlineAt

\* process_approval_deadline
ProcessApprovalDeadline(at) ==
  /\ ApprovalOver(at)
  /\ FinalizeMatch(playerStates, reports, provisional, reviewReasons, at,
                   "approval_deadline", outbox)
  /\ UNCHANGED <<ballot, reportingOpened, provisional, reviewReasons,
                 approvalStartedAt, manual, clock>>

\* override_match_result: the admin's result stands, the automatic penalties of
\* the match are taken back and the ratings are replayed (not modelled here).
OverrideMatchResult(result, at) ==
  LET nobody == [p \in Participants |-> None]
  IN  /\ state = "finalized"
      /\ playerStates' = CloseApprovals(playerStates, reports, result)
      /\ final' = [final EXCEPT !.result = result, !.finalizedAt = at, !.byAdmin = TRUE]
      /\ autoPenalty' = nobody
      /\ penaltyCount' = Repenalize(autoPenalty, nobody)
      /\ spectators' = {}
      /\ outbox' = outbox \cup
           FinalizationEvents([type |-> "match_finalized", about |-> "admin", at |-> at],
                              nobody, reviewReasons)
      /\ UNCHANGED <<state, ballot, reportingOpened, provisional, reviewReasons,
                     approvalStartedAt, manual, clock>>

\* adjust_penalty; the admin commands add and subtract one at a time.
AdjustPenalty(player, type, delta) ==
  /\ manual[player][type] + delta \in -MaxManual..MaxManual
  /\ penaltyCount' = [penaltyCount EXCEPT ![player][type] = @ + delta]
  /\ manual' = [manual EXCEPT ![player][type] = @ + delta]
  /\ UNCHANGED <<state, ballot, reportingOpened, decision, final, autoPenalty,
                 spectators, outbox, clock>>

\* _calculate_max_spectators
MaxSpectators ==
  IF RoomSize >= Cardinality(Participants)
  THEN RoomSize - Cardinality(Participants) ELSE 0

\* Slip: the count is compared as if the new spectator were already in it.
OneSeatTooMany(player) ==
  /\ player \in Others \ spectators
  /\ Cardinality(spectators) <= MaxSpectators

SeatFor(player) ==
  /\ player \in Others \ spectators
  /\ Cardinality(spectators) < MaxSpectators

\* spectate_match
SpectateMatch(player) ==
  /\ state \in {"waiting_for_parent", "waiting_for_result_reports"}
  /\ SeatFor(player)
  /\ spectators' = spectators \cup {player}
  /\ UNCHANGED <<state, ballot, reportingOpened, decision, outcome, manual,
                 outbox, clock>>

Tick ==
  /\ clock < MaxClock
  /\ clock' = clock + 1
  /\ UNCHANGED <<state, ballot, reportingOpened, decision, outcome, manual,
                 spectators, outbox>>

PlayerStep ==
  \/ \E p \in Participants, at \in TransactionTimes : VolunteerParent(p, at)
  \/ \E p \in Participants, input \in Inputs, at \in TransactionTimes :
       SubmitReport(p, input, at)
  \/ \E p \in Participants, at \in TransactionTimes : ApproveProvisionalResult(p, at)
  \/ \E p \in Others : SpectateMatch(p)

AdminStep ==
  \/ \E r \in MatchResult, at \in TransactionTimes : OverrideMatchResult(r, at)
  \/ \E target \in ManualTargets, delta \in {-1, 1} :
       AdjustPenalty(target[1], target[2], delta)

TimerStep ==
  \E at \in TransactionTimes :
    \/ ProcessParentDeadline(at)
    \/ ProcessReportOpen(at)
    \/ ProcessReportDeadline(at)
    \/ ProcessApprovalDeadline(at)

Next == PlayerStep \/ AdminStep \/ TimerStep \/ Tick

Spec == Init /\ [][Next]_vars

\* Timers are set from the table at every start, and the reconcile loop sets
\* and runs what was missed, so that a deadline that has passed is handled in
\* the end. Nobody has to report, to approve or to volunteer.
FairSpec ==
  /\ Spec
  /\ WF_vars(Tick)
  /\ WF_vars(\E at \in TransactionTimes : ProcessParentDeadline(at))
  /\ WF_vars(\E at \in TransactionTimes : ProcessReportDeadline(at))
  /\ WF_vars(\E at \in TransactionTimes : ProcessApprovalDeadline(at))

-----------------------------------------------------------------------------
\* The result that is put up for approval and the one that becomes final are
\* both what the rules make of the latest reports: no report is taken in and
\* no parent changes between the count, the approvals and the finalization.
ResultIsTheDecision ==
  /\ provisional # None =>
       provisional = DetermineMatchResult(reports, parent).result
  /\ final # None /\ ~final.byAdmin => final.result = provisional

\* The match waits for approvals exactly as long as somebody's is missing, and
\* then nobody is left PENDING for good.
WaitsForSomebody ==
  playerStates # None =>
    (state = "awaiting_result_approvals" <=> Pending(playerStates) # {})

\* The counter of a player is what the admins adjusted by hand plus the
\* automatic penalty that the match still records: finalizations, manual
\* adjustments and corrections, in any order, lose and double no penalty.
PenaltiesAddUp ==
  \A p \in Participants, t \in PenaltyType :
    penaltyCount[p][t] = manual[p][t] + (IF autoPenalty[p] = t THEN 1 ELSE 0)

\* Only who neither reported the final result nor approved it is penalized,
\* for what that player did, and no such penalty outlives a correction.
PenaltiesDeserved ==
  \A p \in Participants : autoPenalty[p] # None =>
    /\ final # None /\ ~final.byAdmin
    /\ playerStates[p].approval = "not_approved"
    /\ autoPenalty[p] = "no_report" <=> p \notin DOMAIN reports
    /\ p \in DOMAIN reports => reports[p] # final.result

\* The room is never overbooked, and its seats are free again once the match
\* is over, although spectators may still apply while results are reported.
SeatsRespected ==
  /\ Cardinality(spectators) <= MaxSpectators
  /\ state = "finalized" => spectators = {}

\* The players are told of the automatic finalization exactly once, whatever
\* triggers race for it, and of every automatic penalty that was imposed.
FinalizedOnce ==
  LET announced == {ev \in outbox : ev.type = "match_finalized" /\ ev.about # "admin"}
  IN  Cardinality(announced) = (IF state = "finalized" THEN 1 ELSE 0)

\* What was decided once is not decided again: the parent, the reports behind
\* a provisional result and the time that orders the ratings stay as they are.
DecidedOnce ==
  [][ /\ parent # None => UNCHANGED timing
      /\ provisional # None => UNCHANGED <<reports, provisional, reviewReasons>>
      /\ final # None => final'.ratedAt = final.ratedAt /\ state' = state ]_vars

Lifecycle == INSTANCE MatchLifecycle WITH
  Results <- MatchResult,
  phase   <- CASE state = "awaiting_result_approvals" -> "approval"
               [] state = "finalized" -> "final"
               [] OTHER -> "open",
  decided <- provisional,
  result  <- IF final = None THEN None ELSE final.result

\* The flow keeps the promise of MatchLifecycle.
ImplementsLifecycle == Lifecycle!Spec

\* Even if no player ever does anything, the match gets a final result.
EventuallyFinalized == Lifecycle!Concludes

=============================================================================
