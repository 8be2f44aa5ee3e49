------------------------------ MODULE MatchRules ------------------------------
(***************************************************************************)
(* The pure rules of contexts/matches/domain/match_rules.py: how the       *)
(* participants' latest reports become a provisional result, who is asked  *)
(* to approve it, when an admin has to look at it and which automatic      *)
(* penalty a participant gets.                                             *)
(*                                                                         *)
(* "reports" is latest_reports_by_player: a function from the participants *)
(* that have a latest report to the normalized result they reported.       *)
(***************************************************************************)
EXTENDS Naturals, FiniteSets

CONSTANTS
  TeamA,        (* participants of MatchParticipantTeam.TEAM_A             *)
  TeamB,        (* participants of MatchParticipantTeam.TEAM_B             *)
  None          (* Python's None                                           *)

ASSUME TeamAssumption ==
  /\ IsFiniteSet(TeamA) /\ IsFiniteSet(TeamB)
  /\ TeamA \cap TeamB = {}
  /\ TeamA # {} /\ TeamB # {}
  /\ Cardinality(TeamA) = Cardinality(TeamB)
  /\ None \notin TeamA \cup TeamB

Participants == TeamA \cup TeamB

\* MatchFormatDefinition.team_size: the size of one team of the format.
TeamSize == Cardinality(TeamA)

MatchResult == {"team_a_win", "team_b_win", "draw", "void"}
ReportInputResult == {"win", "lose", "draw", "void"}
ReportStatus == {"correct", "incorrect", "not_reported"}
ApprovalStatus == {"not_required", "pending", "approved", "not_approved"}
PenaltyType == {"incorrect_report", "no_report"}
AdminReviewReason == {"low_report_count", "single_team_reports", "unresolved_tie"}

\* Every value latest_reports_by_player can have.
LatestReports == UNION {[S -> MatchResult] : S \in SUBSET Participants}

\* normalize_report_result: a report is made from the reporter's own side.
NormalizeReportResult(player, input) ==
  CASE input \in {"draw", "void"} -> input
    [] input = "win"  -> IF player \in TeamA THEN "team_a_win" ELSE "team_b_win"
    [] input = "lose" -> IF player \in TeamA THEN "team_b_win" ELSE "team_a_win"

Reporters(reports, result) == {p \in DOMAIN reports : reports[p] = result}
Votes(reports, result) == Cardinality(Reporters(reports, result))

\* The results with the most votes; only used when somebody reported.
Candidates(reports) ==
  {r \in MatchResult : \A s \in MatchResult : Votes(reports, s) <= Votes(reports, r)}

\* Slip: the parent's report is taken before the votes are compared.
ParentDecides(reports, parent) ==
  IF parent \in DOMAIN reports
  THEN [result |-> reports[parent], unresolvedTie |-> FALSE]
  ELSE [result |-> "void", unresolvedTie |-> TRUE]

\* Slip: a tie goes to whichever tied result happens to be listed first.
FirstListedWins(reports, parent) ==
  [result |-> IF "team_a_win" \in Candidates(reports) THEN "team_a_win"
              ELSE CHOOSE r \in Candidates(reports) : TRUE,
   unresolvedTie |-> FALSE]

\* determine_match_result: the majority; a tie goes to the parent's report
\* when it is one of the tied results, and is otherwise unresolved and VOID.
DetermineMatchResult(reports, parent) ==
  LET candidates == Candidates(reports)
      parentBreaksTie == /\ parent \in DOMAIN reports
                         /\ reports[parent] \in candidates
  IN  IF DOMAIN reports = {}
      THEN [result |-> "void", unresolvedTie |-> FALSE]
      ELSE IF Cardinality(candidates) = 1
      THEN [result |-> CHOOSE r \in candidates : TRUE, unresolvedTie |-> FALSE]
      ELSE IF parentBreaksTie
      THEN [result |-> reports[parent], unresolvedTie |-> FALSE]
      ELSE [result |-> "void", unresolvedTie |-> TRUE]

\* determine_admin_review_reasons
DetermineAdminReviewReasons(reports, unresolvedTie) ==
  LET reported == DOMAIN reports
  IN  {reason \in AdminReviewReason :
         \/ reason = "low_report_count" /\ Cardinality(reported) < TeamSize
         \/ /\ reason = "single_team_reports"
            /\ reported # {}
            /\ reported \subseteq TeamA \/ reported \subseteq TeamB
         \/ reason = "unresolved_tie" /\ unresolvedTie}

\* determine_report_status of one participant against a result
DetermineReportStatus(reports, player, result) ==
  IF player \notin DOMAIN reports THEN "not_reported"
  ELSE IF reports[player] = result THEN "correct" ELSE "incorrect"

\* Slip: who approved a wrong report away is punished for it all the same.
ApprovalIgnored(reportStatus, approvalStatus) ==
  CASE reportStatus = "incorrect"    -> "incorrect_report"
    [] reportStatus = "not_reported" -> "no_report"
    [] reportStatus = "correct"      -> None

\* determine_auto_penalty_type with apply_auto_penalties = True
DetermineAutoPenaltyType(reportStatus, approvalStatus) ==
  CASE approvalStatus = "approved"     -> None
    [] approvalStatus # "approved" /\ reportStatus = "incorrect"
                                       -> "incorrect_report"
    [] approvalStatus # "approved" /\ reportStatus = "not_reported"
                                       -> "no_report"
    [] approvalStatus # "approved" /\ reportStatus = "correct" -> None
=============================================================================
