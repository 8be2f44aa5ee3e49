------------------------------ MODULE MatchBallot -----------------------------
(***************************************************************************)
(* The ballot of one match: the latest report of every participant and the *)
(* parent, changing one report at a time, so that the rules of MatchRules  *)
(* are checked on every ballot and on every change of a ballot. MatchFlow  *)
(* extends it by everything else that happens to a match.                  *)
(***************************************************************************)
EXTENDS MatchRules

VARIABLES
  reports,      (* MatchReport rows with is_latest, by player              *)
  parent        (* active_match_states.parent_player_id                    *)

ballotVars == <<reports, parent>>

BallotTypeOK ==
  /\ reports \in LatestReports
  /\ parent \in Participants \cup {None}

BallotInit ==
  /\ reports = [p \in {} |-> "void"]
  /\ parent = None

\* The new row becomes the only latest report of the player.
WithReport(ballots, player, input) ==
  [p \in DOMAIN ballots \cup {player} |->
     IF p = player THEN NormalizeReportResult(player, input) ELSE ballots[p]]

CastReport(player, input) ==
  /\ reports' = WithReport(reports, player, input)
  /\ UNCHANGED parent

AppointParent(player) ==
  /\ parent = None
  /\ parent' = player
  /\ UNCHANGED reports

BallotNext ==
  \/ \E p \in Participants, input \in ReportInputResult : CastReport(p, input)
  \/ \E p \in Participants : AppointParent(p)

BallotSpec == BallotInit /\ [][BallotNext]_ballotVars

-----------------------------------------------------------------------------
Decision == DetermineMatchResult(reports, parent)

\* A result that more than half of the reporters reported is the decision
\* whoever the parent is, and it never counts as an unresolved tie.
MajorityWins ==
  \A r \in MatchResult :
    2 * Votes(reports, r) > Cardinality(DOMAIN reports) =>
      Decision = [result |-> r, unresolvedTie |-> FALSE]

Mirror(result) ==
  CASE result = "team_a_win" -> "team_b_win"
    [] result = "team_b_win" -> "team_a_win"
    [] result \in {"draw", "void"} -> result

\* The rule favours neither team: had everybody reported the other side's
\* win instead, the decision would be the mirrored one.
NeitherTeamFavoured ==
  LET mirrored == [p \in DOMAIN reports |-> Mirror(reports[p])]
      there == DetermineMatchResult(mirrored, parent)
  IN  /\ there.result = Mirror(Decision.result)
      /\ there.unresolvedTie = Decision.unresolvedTie
=============================================================================
