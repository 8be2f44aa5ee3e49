-------------------------- MODULE MatchRuntimeProofs --------------------------
(***************************************************************************)
(* What MatchRuntime guarantees for any time limits and any number of      *)
(* users, commands, failures and restarts.                                 *)
(***************************************************************************)
EXTENDS MatchRuntime, FiniteSetTheorems, TLAPS

Phase == {"none", "parent", "report", "approval", "final"}
Rows == [state : {"none", "waiting", "gone"}, revision : Nat, expire_at : Nat,
         reminded : BOOLEAN]
Matches == [phase : Phase, opened : BOOLEAN, parent : Time, open : Time,
            report : Time, approval : Time]

\* A match has the deadline of its phase.
HasDeadline(m) == /\ m.phase \in {"parent", "report", "approval"} => m[m.phase] \in Nat
                  /\ m.phase = "report" => m.open \in Nat

\* An answer has its parts, and so has a call.
IsAnswer(a) == DOMAIN a = {"found", "at", "row", "match", "fresh"}
IsCall(c) == /\ DOMAIN c = {"does", "by", "seen", "answer"}
             /\ IsAnswer(c.answer)
             /\ IsAnswer(c.seen)

\* The types that the proofs need.
Typed ==
  /\ clock \in Nat
  /\ row \in Rows
  /\ match \in Matches /\ HasDeadline(match)
  /\ \A c \in calls : IsCall(c)
  /\ DOMAIN cycle = {"began", "state", "owed"}
  /\ cycle.state \in {"off", "starting", "running", "done", "failed"}

\* A cycle waits for one answer at a time, and for none when it is over.
OneCycle ==
  /\ \A c, d \in calls : c.by = "cycle" /\ d.by = "cycle" => c = d
  /\ cycle.state \in {"off", "done", "failed"} => \A c \in calls : c.by # "cycle"

\* A row that was overdue when the cycle began has been cleaned up.
RowsSwept == \A r \in Nat : <<"row", r>> \in cycle.owed => row.state = "gone"

\* No phase comes after this one in the list and before it in time.
Before(p) == CASE p = "none" -> {"none"}
               [] p = "parent" -> {"none", "parent"}
               [] p = "report" -> {"none", "parent", "report"}
               [] p = "approval" -> {"none", "parent", "report", "approval"}
               [] p = "final" -> Phase

\* What the cycle owes the match is of the phase it is in, or of an earlier one.
OwedIsPast == \A p \in Phase : <<"match", p>> \in cycle.owed => p \in Before(match.phase)

\* The answer shows that the phase of now is over.
ShowsOverdue(a) ==
  /\ IsAnswer(a) /\ a.match \in Matches
  /\ a.match.phase = match.phase /\ a.match[match.phase] <= a.at

\* The cycle has not come to the match yet, and when it has loaded it, it knows
\* that the match is overdue.
ComesToIt(c) ==
  /\ c.does \in Sweep \cup {"remind", "open"}
  /\ c.does = "load_matches" => ShowsOverdue(c.answer)
  /\ c.does = "open" => ShowsOverdue(c.seen) /\ match.phase = "report"

\* A match that the cycle still owes is overdue, and the cycle comes to it.
StillToSweep ==
  <<"match", match.phase>> \in cycle.owed =>
    /\ match.phase \in {"parent", "report", "approval"} /\ match[match.phase] <= clock
    /\ cycle.state # "done"
    /\ \A c \in calls : c.by = "cycle" => ComesToIt(c)

\* The inductive invariant for the sync cycle.
SweepInv == Typed /\ OneCycle /\ RowsSwept /\ OwedIsPast /\ StillToSweep

-----------------------------------------------------------------------------
\* A match stays in its phase, deadline and all, or goes on to a later one.
GoesOn(m, n) ==
  /\ m.phase \in {"parent", "report", "approval"} /\ n.phase = m.phase =>
       n[m.phase] = m[m.phase]
  /\ m.phase \in Before(n.phase)

\* What a service leaves behind, whoever calls it: a row that is gone stays
\* gone, and a match never goes back.
Sound(o) ==
  /\ DOMAIN o = {"row", "match", "found"}
  /\ o.row \in Rows /\ (row.state = "gone" => o.row.state = "gone")
  /\ o.match \in Matches /\ HasDeadline(o.match)
  /\ GoesOn(match, o.match)

\* A deadline that the clock can reach is a time.
LEMMA Constants ==
  /\ {TTL, Lead, ParentWindow, OpenDelay, ReportWindow, ApprovalWindow} \subseteq Nat
  /\ None \notin Nat /\ None \notin Timer /\ None \notin Sweep
  /\ "cycle" \notin Users /\ "cycle" \notin Timer
BY RuntimeAssumption DEF Timer, RowTimer, MatchTimer

\* Nothing that is done to the row alone moves the match.
LEMMA RowOutcomes ==
  ASSUME Typed, NEW o, o.match = match, o.row \in Rows,
         row.state = "gone" => o.row.state = "gone",
         DOMAIN o = {"row", "match", "found"}
  PROVE  Sound(o)
BY DEF Sound, Typed, GoesOn, Before, Matches, Phase

\* Nothing that is done to the match alone moves the row.
LEMMA MatchOutcomes ==
  ASSUME Typed, NEW o, o.row = row, o.match \in Matches, HasDeadline(o.match),
         GoesOn(match, o.match), DOMAIN o = {"row", "match", "found"}
  PROVE  Sound(o)
BY DEF Sound, Typed

\* The services of the queue are sound, and they leave the match alone.
LEMMA QueueSound ==
  ASSUME Typed, NEW v,
         NEW o \in JoinQueue \cup Present \cup Leave \cup Expired \cup ProcessExpire(v)
                   \cup ProcessPresenceReminder(v) \cup Nothing
  PROVE  Sound(o) /\ o.match = match
<1>1. o.match = match /\ DOMAIN o = {"row", "match", "found"}
  BY DEF JoinQueue, Present, Leave, Expired, ProcessExpire, ProcessPresenceReminder,
         Nothing, Gone, RowBecomes, Outcome
<1>2. o.row \in Rows
  <2>1. row \in Rows /\ [row EXCEPT !.state = "gone"] \in Rows
        /\ [row EXCEPT !.reminded = TRUE] \in Rows /\ row.revision \in Nat
    BY DEF Typed, Rows
  <2>2. clock + TTL \in Nat
    BY Constants DEF Typed
  <2>3. Row("waiting", 1, clock + TTL) \in Rows
        /\ Row("waiting", row.revision + 1, clock + TTL) \in Rows
    BY <2>1, <2>2 DEF Rows, Row
  <2>4. o \in Expired \cup Nothing => o.row \in {row, [row EXCEPT !.state = "gone"]}
    BY DEF Expired, Nothing, Gone, RowBecomes, Outcome
  <2>5. CASE o \in JoinQueue
    BY <2>1, <2>3, <2>4, <2>5 DEF JoinQueue, RowBecomes, Outcome
  <2>6. CASE o \in Present
    BY <2>1, <2>3, <2>4, <2>6 DEF Present, RowBecomes, Outcome
  <2>7. CASE o \in Leave
    BY <2>1, <2>4, <2>7 DEF Leave, Gone, RowBecomes, Outcome
  <2>8. CASE o \in ProcessExpire(v)
    BY <2>1, <2>4, <2>8 DEF ProcessExpire
  <2>9. CASE o \in ProcessPresenceReminder(v)
    <3>1. o \in Nothing \/ o = Outcome([row EXCEPT !.reminded = TRUE], match, "reminded")
      BY <2>9 DEF ProcessPresenceReminder, RowBecomes
    <3>2. ASSUME o = Outcome([row EXCEPT !.reminded = TRUE], match, "reminded")
          PROVE  o.row = [row EXCEPT !.reminded = TRUE]
      BY <3>2 DEF Outcome
    <3> QED
      BY <3>1, <3>2, <2>1, <2>4
  <2> QED
    BY <2>1, <2>4, <2>5, <2>6, <2>7, <2>8, <2>9
<1>3. row.state = "gone" => o.row.state = "gone"
  BY DEF JoinQueue, Present, Leave, Expired, ProcessExpire, ProcessPresenceReminder,
         Nothing, Gone, RowBecomes, Outcome, Live, RowOverdue
<1> QED
  BY <1>1, <1>2, <1>3, RowOutcomes

\* The clean-up leaves no row overdue.
LEMMA CleanupClears ==
  ASSUME Typed, NEW o \in Expired, RowOverdue
  PROVE  o.row.state = "gone"
BY DEF Expired, Gone, RowBecomes, Outcome, Typed, Rows

\* Matches that begin their phase.
LEMMA PhasesBegin ==
  ASSUME Typed, NEW t \in Nat
  PROVE  LET approving == [NoMatch EXCEPT !.phase = "approval", !.approval = t + ApprovalWindow]
         IN  /\ Created \in Matches /\ HasDeadline(Created) /\ Created.phase = "parent"
             /\ Reporting \in Matches /\ HasDeadline(Reporting) /\ Reporting.phase = "report"
             /\ Final \in Matches /\ HasDeadline(Final) /\ Final.phase = "final"
             /\ approving \in Matches /\ HasDeadline(approving) /\ approving.phase = "approval"
<1> DEFINE approving == [NoMatch EXCEPT !.phase = "approval", !.approval = t + ApprovalWindow]
<1>1. /\ clock + ParentWindow \in Nat /\ clock + OpenDelay \in Nat
      /\ clock + ReportWindow \in Nat /\ t + ApprovalWindow \in Nat
  BY Constants DEF Typed
<1>2. Created \in Matches /\ HasDeadline(Created) /\ Created.phase = "parent"
  BY <1>1 DEF Created, NoMatch, Matches, Phase, Time, HasDeadline
<1>3. Reporting \in Matches /\ HasDeadline(Reporting) /\ Reporting.phase = "report"
  BY <1>1 DEF Reporting, NoMatch, Matches, Phase, Time, HasDeadline
<1>4. Final \in Matches /\ HasDeadline(Final) /\ Final.phase = "final"
  BY DEF Final, NoMatch, Matches, Phase, Time, HasDeadline
<1>5. approving \in Matches /\ HasDeadline(approving) /\ approving.phase = "approval"
  BY <1>1 DEF NoMatch, Matches, Phase, Time, HasDeadline
<1> QED
  BY <1>2, <1>3, <1>4, <1>5

\* StartApproval and AssignParent lead on.
LEMMA ApprovalSound ==
  ASSUME Typed, NEW t \in Nat, NEW o \in StartApproval(t),
         match.phase \in {"parent", "report"}
  PROVE  Sound(o) /\ o.match.phase \in {"approval", "final"}
<1> DEFINE approving == [NoMatch EXCEPT !.phase = "approval", !.approval = t + ApprovalWindow]
<1>1. /\ o.row = row /\ o.match \in {approving, Final}
      /\ DOMAIN o = {"row", "match", "found"}
  BY DEF StartApproval, Finalized, MatchBecomes, Outcome
<1>2. o.match \in Matches /\ HasDeadline(o.match) /\ o.match.phase \in {"approval", "final"}
  BY <1>1, PhasesBegin
<1>3. GoesOn(match, o.match)
  BY <1>2 DEF GoesOn, Before, Phase
<1> QED
  BY <1>1, <1>2, <1>3, MatchOutcomes

\* When a parent is assigned, the match goes on to its reports or beyond.
LEMMA ParentSound ==
  ASSUME Typed, NEW o \in AssignParent, match.phase = "parent"
  PROVE  Sound(o) /\ o.match.phase \in {"report", "approval", "final"}
<1>1. CASE o \in MatchBecomes(Reporting, "assigned")
  <2>1. o.row = row /\ o.match = Reporting /\ DOMAIN o = {"row", "match", "found"}
    BY <1>1 DEF MatchBecomes, Outcome
  <2>2. o.match \in Matches /\ HasDeadline(o.match) /\ o.match.phase = "report"
    BY <2>1, PhasesBegin
  <2>3. GoesOn(match, o.match)
    BY <2>2 DEF GoesOn, Before
  <2> QED
    BY <2>1, <2>2, <2>3, MatchOutcomes
<1>2. CASE o \in StartApproval(clock)
  BY <1>2, ApprovalSound DEF Typed
<1> QED
  BY <1>1, <1>2 DEF AssignParent

\* An end of the match, at any time.
LEMMA FinalSound ==
  ASSUME Typed, NEW o \in Finalized
  PROVE  Sound(o) /\ o.match.phase = "final"
<1>1. o.row = row /\ o.match = Final /\ DOMAIN o = {"row", "match", "found"}
  BY DEF Finalized, MatchBecomes, Outcome
<1>2. o.match \in Matches /\ HasDeadline(o.match) /\ o.match.phase = "final"
  BY <1>1, PhasesBegin DEF Typed
<1>3. match.phase \in Phase
  BY DEF Typed, Matches
<1> QED
  BY <1>1, <1>2, <1>3, MatchOutcomes DEF GoesOn, Before

\* A match that nothing is done to.
LEMMA IdleSound ==
  ASSUME Typed, NEW o, NEW w, o = Outcome(row, match, w)
  PROVE  Sound(o) /\ o.match = match
BY RowOutcomes DEF Outcome, Typed

\* The making of a match.
LEMMA CreateSound ==
  ASSUME Typed, NEW o \in TryCreateMatches
  PROVE  Sound(o)
<1>1. CASE o \in Nothing
  BY <1>1, QueueSound
<1>2. CASE match.phase = "none" /\ o = Outcome([row EXCEPT !.state = "gone"], Created, "created")
  <2>1. Created \in Matches /\ HasDeadline(Created) /\ Created.phase = "parent"
    BY PhasesBegin DEF Typed
  <2>2. [row EXCEPT !.state = "gone"] \in Rows /\ [row EXCEPT !.state = "gone"].state = "gone"
    BY DEF Typed, Rows
  <2> QED
    BY <1>2, <2>1, <2>2 DEF Outcome, Sound, GoesOn, Before
<1> QED
  BY <1>1, <1>2 DEF TryCreateMatches

\* The opening of the reports moves no deadline.
LEMMA OpenSound ==
  ASSUME Typed, NEW o \in ProcessReportOpen
  PROVE  Sound(o)
<1>1. CASE o \in Nothing
  BY <1>1, QueueSound
<1>2. CASE /\ match.phase = "report"
           /\ o = Outcome(row, [match EXCEPT !.opened = TRUE], "opened")
  <2>1. o.match \in Matches /\ HasDeadline(o.match) /\ GoesOn(match, o.match)
    BY <1>2 DEF Outcome, Typed, Matches, HasDeadline, GoesOn, Before
  <2> QED
    BY <1>2, <2>1, MatchOutcomes DEF Outcome
<1> QED
  BY <1>1, <1>2 DEF ProcessReportOpen, MatchBecomes

\* The services of a match are sound, and a deadline that has passed does end
\* the phase.
LEMMA ParentDeadlineSound ==
  ASSUME Typed, NEW o \in ProcessParentDeadline
  PROVE  Sound(o) /\ (match.phase = "parent" /\ match.parent <= clock => o.match.phase # "parent")
BY ParentSound, QueueSound DEF ProcessParentDeadline

\* The same of the deadline of the reports,
LEMMA ReportDeadlineSound ==
  ASSUME Typed, NEW o \in ProcessReportDeadline
  PROVE  Sound(o) /\ (match.phase = "report" /\ match.report <= clock => o.match.phase # "report")
<1>1. CASE match.phase = "report" /\ match.report <= clock
  <2>1. match.report \in Nat
    BY <1>1 DEF Typed, HasDeadline
  <2> QED
    BY <1>1, <2>1, ApprovalSound DEF ProcessReportDeadline
<1>2. CASE match.phase = "approval"
  BY <1>2, IdleSound DEF ProcessReportDeadline, MatchBecomes
<1> QED
  BY <1>1, <1>2, QueueSound DEF ProcessReportDeadline

\* and of the deadline of the approvals.
LEMMA ApprovalDeadlineSound ==
  ASSUME Typed, NEW o \in ProcessApprovalDeadline
  PROVE  Sound(o) /\ (match.phase = "approval" /\ match.approval <= clock => o.match.phase # "approval")
BY FinalSound, QueueSound DEF ProcessApprovalDeadline

\* Whatever is asked for, the answer is sound.
LEMMA OutcomesSound ==
  ASSUME Typed, NEW does \in Command \cup Timer \cup Sweep, NEW v, NEW o \in Outcomes(does, v)
  PROVE  Sound(o)
<1>1. CASE does \in {"join", "present", "leave", "expire", "cleanup", "remind"}
  BY <1>1, QueueSound DEF Outcomes
<1>2. CASE does = "create"
  BY <1>2, CreateSound DEF Outcomes
<1>3. CASE does = "volunteer"
  BY <1>3, ParentSound, QueueSound DEF Outcomes, VolunteerParent
<1>4. CASE does = "parent"
  BY <1>4, ParentDeadlineSound DEF Outcomes
<1>5. CASE does = "open"
  BY <1>5, OpenSound DEF Outcomes
<1>6. CASE does = "submit"
  BY <1>6, ApprovalSound, QueueSound DEF Outcomes, SubmitReport, Typed
<1>7. CASE does = "report"
  BY <1>7, ReportDeadlineSound DEF Outcomes
<1>8. CASE does = "approve"
  BY <1>8, FinalSound, QueueSound DEF Outcomes, ApproveProvisionalResult
<1>9. CASE does = "approval"
  BY <1>9, ApprovalDeadlineSound DEF Outcomes
<1>10. CASE does = "override"
  BY <1>10, FinalSound, QueueSound DEF Outcomes, OverrideMatchResult
<1>11. CASE does \in {"load_rows", "load_matches"}
  BY <1>11, IdleSound DEF Outcomes
<1> QED
  BY <1>1, <1>2, <1>3, <1>4, <1>5, <1>6, <1>7, <1>8, <1>9, <1>10, <1>11
     DEF Command, Timer, RowTimer, MatchTimer, Sweep

-----------------------------------------------------------------------------
\* What an asker keeps of an answer that others have overtaken.
Keeps(a, b) == /\ IsAnswer(b)
               /\ b.found = a.found /\ b.at = a.at /\ b.row = a.row /\ b.match = a.match
Ages(a, b, moved) == Keeps(a, b) /\ b.fresh = a.fresh \ moved

\* A call stays what it is when others overtake it.
LEMMA OvertakenIsSame ==
  ASSUME NEW c, IsCall(c), NEW moved
  PROVE  LET d == Overtaken(c, moved)
         IN  /\ IsCall(d) /\ d.does = c.does /\ d.by = c.by
             /\ Ages(c.answer, d.answer, moved) /\ Ages(c.seen, d.seen, moved)
<1> DEFINE Aged(a) == [a EXCEPT !.fresh = @ \ moved]
           d == [c EXCEPT !.answer = Aged(@), !.seen = Aged(@)]
<1>1. \A a : IsAnswer(a) => Ages(a, Aged(a), moved)
  BY DEF Ages, Keeps, IsAnswer
<1>2. d = Overtaken(c, moved)
  BY DEF Overtaken
<1> HIDE DEF Aged
<1>3. /\ DOMAIN d = DOMAIN c /\ d.does = c.does /\ d.by = c.by
      /\ d.answer = Aged(c.answer) /\ d.seen = Aged(c.seen)
  BY DEF IsCall
<1>4. Ages(c.answer, d.answer, moved) /\ Ages(c.seen, d.seen, moved)
  BY <1>1, <1>3 DEF IsCall
<1>5. IsCall(d)
  BY <1>3, <1>4 DEF IsCall, Ages, Keeps
<1> QED
  BY <1>2, <1>3, <1>4, <1>5

\* Something has changed in the row, but for the reminder, or in the match.
RowMoves(o) == [o.row EXCEPT !.reminded = FALSE] # [row EXCEPT !.reminded = FALSE]
MatchMoves(o) == o.match.phase # match.phase

\* The calls after somebody has asked: those of before, and the new one.
LEMMA Asked ==
  ASSUME NEW does, NEW by, NEW seen, NEW others, NEW known, NEW o,
         Ask(does, by, seen, others, known, o), IsAnswer(seen)
  PROVE  /\ row' = o.row /\ match' = o.match
         /\ \E moved, new :
              /\ moved \subseteq {"row", "match"}
              /\ "row" \in moved <=> RowMoves(o)
              /\ "match" \in moved <=> MatchMoves(o)
              /\ synced' = known \ moved
              /\ calls' = {Overtaken(c, moved) : c \in others} \cup {new}
              /\ IsCall(new) /\ new.does = does /\ new.by = by /\ Ages(seen, new.seen, moved)
              /\ new.answer.found = o.found /\ new.answer.fresh = {"row", "match"}
              /\ o.found # "nothing" =>
                   new.answer.row = o.row /\ new.answer.match = o.match /\ new.answer.at = clock
<1> DEFINE moved == (IF [o.row EXCEPT !.reminded = FALSE] # [row EXCEPT !.reminded = FALSE]
                     THEN {"row"} ELSE {})
                    \cup (IF o.match.phase # match.phase THEN {"match"} ELSE {})
           told(v) == IF o.found = "nothing" THEN None ELSE v
           answer == [found |-> o.found, at |-> told(clock), row |-> told(o.row),
                      match |-> told(o.match), fresh |-> {"row", "match"}]
           call == [does |-> does, by |-> by, seen |-> seen, answer |-> answer]
           new == [call EXCEPT !.seen = Overtaken(call, moved).seen]
<1>1. /\ row' = o.row /\ match' = o.match /\ synced' = known \ moved
      /\ calls' = {Overtaken(c, moved) : c \in others} \cup {new}
  BY DEF Ask
<1>2. /\ moved \subseteq {"row", "match"}
      /\ "row" \in moved <=> RowMoves(o)
      /\ "match" \in moved <=> MatchMoves(o)
  BY DEF RowMoves, MatchMoves
<1>3. /\ IsAnswer(answer) /\ answer.found = o.found /\ answer.fresh = {"row", "match"}
      /\ o.found # "nothing" =>
           answer.row = o.row /\ answer.match = o.match /\ answer.at = clock
  BY DEF IsAnswer
<1> HIDE DEF moved, answer
<1>4. IsCall(call)
  BY <1>3 DEF IsCall
<1>5. /\ IsCall(Overtaken(call, moved)) /\ Ages(call.seen, Overtaken(call, moved).seen, moved)
  BY <1>4, OvertakenIsSame
<1>6. /\ DOMAIN new = {"does", "by", "seen", "answer"} /\ new.does = does /\ new.by = by
      /\ new.answer = answer /\ new.seen = Overtaken(call, moved).seen
  OBVIOUS
<1>7. IsCall(new) /\ Ages(seen, new.seen, moved)
  BY <1>3, <1>5, <1>6 DEF IsCall, Ages, Keeps
<1> HIDE DEF new
<1> QED
  BY <1>1, <1>2, <1>3, <1>6, <1>7

\* Nothing seen is an answer, too.
LEMMA UnseenIsAnswer == IsAnswer(Unseen)
BY DEF Unseen, IsAnswer

-----------------------------------------------------------------------------
\* An earlier phase of an earlier phase is an earlier phase, and two phases
\* are not each before the other.
LEMMA PhasesInOrder ==
  ASSUME NEW p \in Phase, NEW q \in Phase, NEW r \in Phase
  PROVE  /\ p \in Before(q) /\ q \in Before(r) => p \in Before(r)
         /\ p \in Before(q) /\ q \in Before(p) => p = q
BY DEF Phase, Before

\* When a match moves on, what the cycle owes it stays in the past; and when
\* the match is still what is owed, it has not moved.
LEMMA OwedAfter ==
  ASSUME SweepInv, NEW o, Sound(o), match' = o.match, row' = o.row, UNCHANGED cycle
  PROVE  /\ RowsSwept' /\ OwedIsPast'
         /\ <<"match", match'.phase>> \in cycle.owed' =>
              /\ match'.phase = match.phase /\ <<"match", match.phase>> \in cycle.owed
              /\ match'[match.phase] = match[match.phase]
<1>1. match.phase \in Phase /\ o.match.phase \in Phase /\ match.phase \in Before(o.match.phase)
  BY DEF SweepInv, Typed, Sound, Matches, GoesOn
<1>2. RowsSwept'
  BY DEF SweepInv, RowsSwept, Sound
<1>3. OwedIsPast'
  BY <1>1, PhasesInOrder DEF SweepInv, OwedIsPast
<1>4. ASSUME <<"match", match'.phase>> \in cycle.owed'
      PROVE  match'.phase = match.phase /\ <<"match", match.phase>> \in cycle.owed
  <2>1. match'.phase \in Before(match.phase)
    BY <1>1, <1>4 DEF SweepInv, OwedIsPast
  <2> QED
    BY <1>1, <1>4, <2>1, PhasesInOrder
<1>5. ASSUME <<"match", match'.phase>> \in cycle.owed'
      PROVE  match'[match.phase] = match[match.phase]
  BY <1>4, <1>5 DEF SweepInv, StillToSweep, Sound, GoesOn
<1> QED
  BY <1>2, <1>3, <1>4, <1>5

\* Somebody else asks: the cycle knows and owes what it did.
LEMMA OthersAsk ==
  ASSUME SweepInv, NEW does, NEW by, NEW others, NEW known, NEW o,
         by # "cycle", others \subseteq calls, Sound(o),
         Ask(does, by, Unseen, others, known, o), UNCHANGED <<cycle, clock>>
  PROVE  SweepInv'
<1>1. PICK moved, new :
        /\ calls' = {Overtaken(c, moved) : c \in others} \cup {new}
        /\ IsCall(new) /\ new.by = by
  BY Asked, UnseenIsAnswer
<1>2. row' = o.row /\ match' = o.match
  BY DEF Ask
<1>3. \A c \in others : LET d == Overtaken(c, moved)
                        IN  /\ IsCall(d) /\ d.does = c.does /\ d.by = c.by
                            /\ Ages(c.answer, d.answer, moved) /\ Ages(c.seen, d.seen, moved)
  BY OvertakenIsSame DEF SweepInv, Typed
<1>4. Typed'
  BY <1>1, <1>2, <1>3 DEF SweepInv, Typed, Sound
<1>5. \A d \in calls' : d.by = "cycle" =>
        \E c \in others : /\ d = Overtaken(c, moved) /\ c.by = "cycle" /\ d.does = c.does
                          /\ Ages(c.answer, d.answer, moved) /\ Ages(c.seen, d.seen, moved)
  BY <1>1, <1>3
<1>6. OneCycle'
  BY <1>5 DEF SweepInv, OneCycle
<1>7. RowsSwept' /\ OwedIsPast'
  BY <1>2, OwedAfter
<1>8. StillToSweep'
  <2> SUFFICES ASSUME <<"match", match'.phase>> \in cycle.owed'
               PROVE  /\ match'.phase \in {"parent", "report", "approval"}
                      /\ match'[match'.phase] <= clock'
                      /\ cycle'.state # "done"
                      /\ \A d \in calls' : d.by = "cycle" => ComesToIt(d)'
    BY DEF StillToSweep
  <2>1. /\ match'.phase = match.phase /\ <<"match", match.phase>> \in cycle.owed
        /\ match'[match.phase] = match[match.phase]
    BY <1>2, OwedAfter
  <2>2. ASSUME NEW d \in calls', d.by = "cycle"
        PROVE  ComesToIt(d)'
    <3>1. PICK c \in others : /\ c.by = "cycle" /\ d.does = c.does
                              /\ Ages(c.answer, d.answer, moved) /\ Ages(c.seen, d.seen, moved)
      BY <1>5, <2>2
    <3>2. ComesToIt(c)
      BY <2>1, <3>1 DEF SweepInv, StillToSweep
    <3> QED
      BY <2>1, <3>1, <3>2 DEF ComesToIt, ShowsOverdue, Ages, Keeps
  <2> QED
    BY <2>1, <2>2 DEF SweepInv, StillToSweep
<1> QED
  BY <1>4, <1>6, <1>7, <1>8 DEF SweepInv

\* The loop goes on without asking: no call is new.
LEMMA NobodyAsks ==
  ASSUME SweepInv, calls' \subseteq calls, UNCHANGED <<row, match, cycle, clock>>
  PROVE  SweepInv'
BY DEF SweepInv, Typed, OneCycle, RowsSwept, OwedIsPast, StillToSweep, ComesToIt, ShowsOverdue

-----------------------------------------------------------------------------
\* Setting and cancelling timers makes no call.
LEMMA ScheduleShrinks ==
  ASSUME NEW loop, NEW key, NEW at, NEW revision, NEW until
  PROVE  Schedule(loop, key, at, revision, until).calls \subseteq loop.calls
BY DEF Schedule, Cancel

\* Cancelling makes none, either.
LEMMA CancelShrinks ==
  ASSUME NEW loop, NEW keys
  PROVE  Cancel(loop, keys).calls \subseteq loop.calls
BY DEF Cancel

\* Nor does a timer of the row, or of the match.
LEMMA TimersShrink ==
  ASSUME NEW loop, NEW x
  PROVE  /\ RemindTimer(loop, x).calls \subseteq loop.calls
         /\ ExpireTimer(loop, x).calls \subseteq loop.calls
         /\ ParentTimer(loop, x).calls \subseteq loop.calls
         /\ OpenTimer(loop, x).calls \subseteq loop.calls
         /\ ReportTimer(loop, x).calls \subseteq loop.calls
         /\ ApprovalTimer(loop, x).calls \subseteq loop.calls
BY ScheduleShrinks DEF RemindTimer, ExpireTimer, ParentTimer, OpenTimer, ReportTimer, ApprovalTimer

\* What is done with an answer makes no call.
LEMMA AfterShrinks ==
  ASSUME NEW loop, NEW c
  PROVE  After(loop, c).calls \subseteq loop.calls
<1> DEFINE a == c.answer
           f == a.found
<1>1. RemindTimer(ExpireTimer(loop, a.row), a.row).calls \subseteq loop.calls
  <2>1. RemindTimer(ExpireTimer(loop, a.row), a.row).calls \subseteq ExpireTimer(loop, a.row).calls
    BY TimersShrink
  <2> QED
    BY <2>1, TimersShrink
<1>2. Cancel(loop, RowTimer).calls \subseteq loop.calls /\ Cancel(loop, MatchTimer).calls \subseteq loop.calls
      /\ Cancel(loop, Ended(c.does)).calls \subseteq loop.calls
  BY CancelShrinks
<1>3. ParentTimer(Cancel(loop, RowTimer), a.match).calls \subseteq loop.calls
  <2>1. ParentTimer(Cancel(loop, RowTimer), a.match).calls \subseteq Cancel(loop, RowTimer).calls
    BY TimersShrink
  <2> QED
    BY <1>2, <2>1
<1>4. ApprovalTimer(Cancel(loop, Ended(c.does)), a.match).calls \subseteq loop.calls
  <2>1. ApprovalTimer(Cancel(loop, Ended(c.does)), a.match).calls
          \subseteq Cancel(loop, Ended(c.does)).calls
    BY TimersShrink
  <2> QED
    BY <1>2, <2>1
<1>5. OpenTimer(ReportTimer(Cancel(loop, Ended(c.does)), a.match), a.match).calls \subseteq loop.calls
  <2>1. ReportTimer(Cancel(loop, Ended(c.does)), a.match).calls
          \subseteq Cancel(loop, Ended(c.does)).calls
    BY TimersShrink
  <2>2. OpenTimer(ReportTimer(Cancel(loop, Ended(c.does)), a.match), a.match).calls
          \subseteq ReportTimer(Cancel(loop, Ended(c.does)), a.match).calls
    BY TimersShrink
  <2> QED
    BY <1>2, <2>1, <2>2
<1> QED
  BY <1>1, <1>2, <1>3, <1>4, <1>5 DEF After

\* What the cycle asks for next, and what it needs from the answer it has.
LEMMA NextAsked ==
  ASSUME NEW c, IsCall(c)
  PROVE  /\ StepAfter(c).next \in Sweep \cup Timer \cup {None}
         /\ StepAfter(c).seen = Unseen \/ StepAfter(c).seen = c.answer
BY DEF StepAfter, SyncRow, SyncMatch, SyncReport, Step, Sweep, Timer, RowTimer, MatchTimer

\* The steps of the cycle make no call but the one they ask for.
LEMMA StepShrinks ==
  ASSUME NEW c, IsCall(c)
  PROVE  StepAfter(c).loop.calls \subseteq calls \ {c}
<1> DEFINE loop == After(Without(c), c)
<1>1. loop.calls \subseteq calls \ {c}
  <2>1. Without(c).calls = calls \ {c}
    BY DEF Without
  <2> QED
    BY <2>1, AfterShrinks
<1> HIDE DEF loop
<1>2. ASSUME NEW a
      PROVE  SyncRow(loop, a).loop.calls \subseteq loop.calls
  <2> DEFINE l == IF a.row.reminded \/ a.row.expire_at - Lead <= a.at THEN loop
                  ELSE RemindTimer(loop, a.row)
  <2>1. l.calls \subseteq loop.calls
    BY TimersShrink
  <2>2. ExpireTimer(l, a.row).calls \subseteq loop.calls
    BY <2>1, TimersShrink
  <2>3. SyncRow(loop, a).loop \in {loop, ExpireTimer(l, a.row)}
    BY DEF SyncRow, Step
  <2> QED
    BY <2>2, <2>3
<1>3. ASSUME NEW l, NEW a
      PROVE  SyncReport(l, a).loop.calls \subseteq l.calls
  <2>1. SyncReport(l, a).loop \in {l, ReportTimer(l, a.match)}
    BY DEF SyncReport, Step
  <2> QED
    BY <2>1, TimersShrink
<1>4. ASSUME NEW a
      PROVE  SyncMatch(loop, a).loop.calls \subseteq loop.calls
  <2> DEFINE m == a.match
  <2>1. CASE m.phase \in {"parent", "approval"}
    <3>1. SyncMatch(loop, a).loop \in {loop, ParentTimer(loop, m), ApprovalTimer(loop, m)}
      BY <2>1 DEF SyncMatch, Step
    <3> QED
      BY <3>1, TimersShrink
  <2>2. CASE m.phase = "report"
    <3> DEFINE l == IF m.opened THEN loop ELSE OpenTimer(loop, m)
    <3>1. l.calls \subseteq loop.calls
      BY TimersShrink
    <3>2. SyncReport(l, a).loop.calls \subseteq loop.calls
      BY <1>3, <3>1
    <3>3. SyncMatch(loop, a).loop \in {loop, SyncReport(l, a).loop}
      BY <2>2 DEF SyncMatch, Step
    <3> QED
      BY <3>2, <3>3
  <2>3. CASE m.phase \notin {"parent", "approval", "report"}
    BY <2>3 DEF SyncMatch, Step
  <2> QED
    BY <2>1, <2>2, <2>3
<1>5. CASE c.does \in {"cleanup", "create"}
  BY <1>1, <1>5 DEF StepAfter, Step, loop
<1>6. CASE c.does = "load_rows"
  <2>1. StepAfter(c) = SyncRow(loop, c.answer)
    BY <1>6 DEF StepAfter, loop
  <2> QED
    BY <1>1, <1>2, <2>1
<1>7. CASE c.does = "remind"
  <2>1. StepAfter(c).loop = ExpireTimer(loop, c.seen.row)
    BY <1>7 DEF StepAfter, Step, loop
  <2> QED
    BY <1>1, <2>1, TimersShrink
<1>8. CASE c.does = "load_matches"
  <2>1. StepAfter(c) = SyncMatch(loop, c.answer)
    BY <1>8 DEF StepAfter, loop
  <2> QED
    BY <1>1, <1>4, <2>1
<1>9. CASE c.does = "open"
  <2>1. StepAfter(c) = SyncReport(loop, c.seen)
    BY <1>9 DEF StepAfter, loop
  <2> QED
    BY <1>1, <1>3, <2>1
<1>10. CASE c.does \notin {"cleanup", "create", "load_rows", "remind", "load_matches", "open"}
  <2>1. StepAfter(c).loop = loop
    BY <1>10 DEF StepAfter, Step, loop
  <2> QED
    BY <1>1, <2>1
<1> QED
  BY <1>5, <1>6, <1>7, <1>8, <1>9, <1>10

\* As long as the match is owed the cycle has a next step, and it is a service
\* that ends the phase, or one that comes before it in the list.
LEMMA ComesCloser ==
  ASSUME Typed, NEW c, IsCall(c), ComesToIt(c), match.phase \in {"parent", "report", "approval"}
  PROVE  LET step == StepAfter(c)
         IN  \/ step.next \in {"create", "load_rows", "remind", "load_matches", match.phase}
             \/ /\ step.next = "open" /\ match.phase = "report"
                /\ step.seen = c.answer /\ ShowsOverdue(c.answer)
<1> DEFINE loop == After(Without(c), c)
<1>1. CASE c.does \in {"cleanup", "create", "remind"}
  BY <1>1 DEF StepAfter, Step
<1>2. CASE c.does = "load_rows"
  BY <1>2 DEF StepAfter, SyncRow, Step
<1>3. ASSUME NEW l, NEW a, ShowsOverdue(a), match.phase = "report"
      PROVE  SyncReport(l, a).next = "report"
  BY <1>3 DEF ShowsOverdue, SyncReport, Step
<1>4. CASE c.does = "load_matches"
  <2>1. StepAfter(c) = SyncMatch(loop, c.answer) /\ ShowsOverdue(c.answer)
    BY <1>4 DEF StepAfter, ComesToIt
  <2>2. CASE match.phase \in {"parent", "approval"}
    BY <2>1, <2>2 DEF SyncMatch, Step, ShowsOverdue
  <2>3. CASE match.phase = "report"
    <3> DEFINE l == IF c.answer.match.opened THEN loop ELSE OpenTimer(loop, c.answer.match)
    <3>1. \/ StepAfter(c) = Step(loop, {}, "open", 0, c.answer)
          \/ StepAfter(c) = SyncReport(l, c.answer)
      BY <2>1, <2>3 DEF SyncMatch, ShowsOverdue
    <3>2. SyncReport(l, c.answer).next = "report"
      BY <1>3, <2>1, <2>3
    <3> QED
      BY <2>1, <2>3, <3>1, <3>2 DEF Step
  <2> QED
    BY <2>2, <2>3
<1>5. CASE c.does = "open"
  <2>1. StepAfter(c) = SyncReport(loop, c.seen)
    BY <1>5 DEF StepAfter
  <2> QED
    BY <1>3, <1>5, <2>1 DEF ComesToIt
<1> QED
  BY <1>1, <1>2, <1>4, <1>5 DEF ComesToIt, Sweep

\* The cycle asks for its next service.
LEMMA CycleAsks ==
  ASSUME SweepInv, NEW c \in calls, c.by = "cycle", NEW known,
         NEW o \in Outcomes(StepAfter(c).next, StepAfter(c).revision),
         StepAfter(c).next # None, UNCHANGED <<cycle, clock>>,
         Ask(StepAfter(c).next, "cycle", StepAfter(c).seen, StepAfter(c).loop.calls, known, o)
  PROVE  SweepInv'
<1> DEFINE step == StepAfter(c)
           others == step.loop.calls
<1>1. IsCall(c) /\ IsAnswer(c.answer)
  BY DEF SweepInv, Typed, IsCall
<1>2. step.next \in Command \cup Timer \cup Sweep /\ (step.seen = Unseen \/ step.seen = c.answer)
  BY <1>1, NextAsked
<1>3. Sound(o)
  BY <1>2, OutcomesSound DEF SweepInv
<1>4. PICK moved, new :
        /\ calls' = {Overtaken(d, moved) : d \in others} \cup {new}
        /\ IsCall(new) /\ new.does = step.next /\ new.by = "cycle" /\ Ages(step.seen, new.seen, moved)
        /\ o.found # "nothing" => new.answer.match = o.match /\ new.answer.at = clock
  BY <1>1, <1>2, Asked, UnseenIsAnswer
<1>5. row' = o.row /\ match' = o.match
  BY DEF Ask
<1>6. others \subseteq calls \ {c}
  BY <1>1, StepShrinks
<1>7. \A d \in others : IsCall(Overtaken(d, moved)) /\ Overtaken(d, moved).by = d.by
  BY <1>6, OvertakenIsSame DEF SweepInv, Typed
<1>8. \A d \in others : d.by # "cycle"
  BY <1>6 DEF SweepInv, OneCycle
<1>9. \A d \in calls' : d.by = "cycle" => d = new
  BY <1>4, <1>7, <1>8
<1>10. Typed'
  BY <1>3, <1>4, <1>5, <1>7 DEF SweepInv, Typed, Sound
<1>11. OneCycle'
  BY <1>9 DEF SweepInv, OneCycle
<1>12. RowsSwept' /\ OwedIsPast'
  BY <1>3, <1>5, OwedAfter
<1>13. StillToSweep'
  <2> SUFFICES ASSUME <<"match", match'.phase>> \in cycle.owed'
               PROVE  /\ match'.phase \in {"parent", "report", "approval"}
                      /\ match'[match'.phase] <= clock'
                      /\ cycle'.state # "done"
                      /\ ComesToIt(new)'
    BY <1>9 DEF StillToSweep
  <2>1. /\ match'.phase = match.phase /\ <<"match", match.phase>> \in cycle.owed
        /\ match'[match.phase] = match[match.phase]
    BY <1>3, <1>5, OwedAfter
  <2>2. /\ match.phase \in {"parent", "report", "approval"} /\ match[match.phase] <= clock
        /\ cycle.state # "done" /\ ComesToIt(c)
    BY <2>1 DEF SweepInv, StillToSweep
  <2>3. step.next # match.phase
    <3>1. ASSUME step.next = match.phase
          PROVE  o.match.phase # match.phase
      <4>1. CASE match.phase = "parent"
        BY <2>2, <3>1, <4>1, ParentDeadlineSound DEF Outcomes, SweepInv
      <4>2. CASE match.phase = "report"
        BY <2>2, <3>1, <4>2, ReportDeadlineSound DEF Outcomes, SweepInv
      <4>3. CASE match.phase = "approval"
        BY <2>2, <3>1, <4>3, ApprovalDeadlineSound DEF Outcomes, SweepInv
      <4> QED
        BY <2>2, <4>1, <4>2, <4>3
    <3> QED
      BY <1>5, <2>1, <3>1
  <2>4. \/ step.next \in {"create", "load_rows", "remind", "load_matches"}
        \/ /\ step.next = "open" /\ match.phase = "report"
           /\ step.seen = c.answer /\ ShowsOverdue(c.answer)
    BY <1>1, <2>2, <2>3, ComesCloser DEF SweepInv
  <2>5. ComesToIt(new)'
    <3>1. CASE step.next \in {"create", "load_rows", "remind"}
      BY <1>4, <3>1 DEF ComesToIt, Sweep
    <3>2. CASE step.next = "load_matches"
      <4>1. o.match = match /\ o.found = "loaded"
        BY <3>2 DEF Outcomes, Outcome
      <4>2. new.answer.match = match /\ new.answer.at = clock /\ IsAnswer(new.answer)
        BY <1>4, <4>1 DEF IsCall
      <4>3. ShowsOverdue(new.answer)'
        BY <1>5, <2>2, <4>1, <4>2 DEF ShowsOverdue, SweepInv, Typed
      <4> QED
        BY <1>4, <3>2, <4>3 DEF ComesToIt, Sweep
    <3>3. CASE step.next = "open" /\ match.phase = "report" /\ step.seen = c.answer
               /\ ShowsOverdue(c.answer)
      <4>1. ShowsOverdue(new.seen)'
        BY <1>1, <1>4, <2>1, <3>3 DEF ShowsOverdue, Ages, Keeps
      <4> QED
        BY <1>4, <2>1, <3>3, <4>1 DEF ComesToIt
    <3> QED
      BY <2>4, <3>1, <3>2, <3>3
  <2> QED
    BY <2>1, <2>2, <2>5
<1> QED
  BY <1>10, <1>11, <1>12, <1>13 DEF SweepInv

\* The cycle ends, well or not, and owes nothing if it has ended well.
LEMMA CycleEnds ==
  ASSUME SweepInv, NEW c \in calls, c.by = "cycle", NEW ending \in {"done", "failed"},
         ending = "done" => StepAfter(c).next = None,
         cycle' = [cycle EXCEPT !.state = ending],
         calls' = StepAfter(c).loop.calls, UNCHANGED <<row, match, clock>>
  PROVE  SweepInv'
<1>1. IsCall(c)
  BY DEF SweepInv, Typed
<1>2. calls' \subseteq calls \ {c}
  BY <1>1, StepShrinks
<1>3. \A d \in calls' : d.by # "cycle"
  BY <1>2 DEF SweepInv, OneCycle
<1>4. /\ DOMAIN cycle' = DOMAIN cycle /\ cycle'.owed = cycle.owed /\ cycle'.state = ending
  BY DEF SweepInv, Typed
<1>5. Typed' /\ OneCycle' /\ RowsSwept' /\ OwedIsPast'
  BY <1>2, <1>3, <1>4 DEF SweepInv, Typed, OneCycle, RowsSwept, OwedIsPast
<1>6. ASSUME ending = "done", <<"match", match.phase>> \in cycle.owed
      PROVE  FALSE
  <2>1. match.phase \in {"parent", "report", "approval"} /\ ComesToIt(c)
    BY <1>6 DEF SweepInv, StillToSweep
  <2>2. StepAfter(c).next \in {"create", "load_rows", "remind", "load_matches", "open", "parent",
                              "report", "approval"}
    BY <1>1, <2>1, ComesCloser DEF SweepInv
  <2> QED
    BY <1>6, <2>2, Constants DEF Sweep, Timer, RowTimer, MatchTimer
<1>7. StillToSweep'
  BY <1>3, <1>4, <1>6 DEF SweepInv, StillToSweep
<1> QED
  BY <1>5, <1>7 DEF SweepInv

\* A cycle begins: what is overdue now is what it owes.
LEMMA CycleBegins ==
  ASSUME SweepInv, BeginCycle
  PROVE  SweepInv'
<1>1. PICK o \in Expired : Ask("cleanup", "cycle", Unseen, calls, synced, o)
  BY DEF BeginCycle
<1>2. Sound(o) /\ o.match = match /\ (RowOverdue => o.row.state = "gone")
  BY <1>1, QueueSound, CleanupClears DEF SweepInv
<1>3. row' = o.row /\ match' = match
  BY <1>1, <1>2 DEF Ask
<1>4. PICK moved, new :
        /\ calls' = {Overtaken(d, moved) : d \in calls} \cup {new}
        /\ IsCall(new) /\ new.does = "cleanup" /\ new.by = "cycle"
  BY <1>1, Asked, UnseenIsAnswer
<1>5. \A d \in calls : IsCall(Overtaken(d, moved)) /\ Overtaken(d, moved).by = d.by
  BY OvertakenIsSame DEF SweepInv, Typed
<1>6. \A d \in calls : d.by # "cycle"
  BY DEF SweepInv, OneCycle, BeginCycle
<1>7. \A d \in calls' : d.by = "cycle" => d = new
  BY <1>4, <1>5, <1>6
<1>8. /\ DOMAIN cycle' = {"began", "state", "owed"} /\ cycle'.owed = Owed
      /\ cycle'.state \in {"starting", "running"} /\ clock' = clock
  BY DEF BeginCycle
<1>9. Typed'
  BY <1>2, <1>3, <1>4, <1>5, <1>8 DEF SweepInv, Typed, Sound
<1>10. OneCycle'
  BY <1>7, <1>8 DEF OneCycle
<1>11. /\ \A r \in Nat : <<"row", r>> \in Owed => RowOverdue
       /\ \A p : <<"match", p>> \in Owed => p = match.phase /\ MatchOverdue
  BY DEF Owed
<1>12. RowsSwept'
  BY <1>2, <1>3, <1>8, <1>11 DEF RowsSwept
<1>13. OwedIsPast'
  BY <1>3, <1>8, <1>11 DEF OwedIsPast, Before, Phase
<1>14. StillToSweep'
  BY <1>3, <1>4, <1>7, <1>8, <1>11 DEF StillToSweep, ComesToIt, MatchOverdue, Sweep
<1> QED
  BY <1>9, <1>10, <1>12, <1>13, <1>14 DEF SweepInv

\* The bot starts with nothing owed, and with one row, one match or nothing.
LEMMA SweepInit == ASSUME Init PROVE SweepInv
<1>1. 1 \in Nat /\ clock = 0 /\ TTL \in Nat
  BY Constants DEF Init
<1>2. match \in Matches /\ HasDeadline(match)
  <2>1. [Created EXCEPT !.parent = 1] \in Matches /\ HasDeadline([Created EXCEPT !.parent = 1])
    BY DEF Created, NoMatch, Matches, Phase, Time, HasDeadline
  <2>2. NoMatch \in Matches /\ HasDeadline(NoMatch)
    BY DEF NoMatch, Matches, Phase, Time, HasDeadline
  <2>3. match \in {NoMatch, [Created EXCEPT !.parent = 1]}
    BY DEF Init
  <2> QED
    BY <2>1, <2>2, <2>3
<1>3. row \in Rows
  BY <1>1, RuntimeAssumption DEF Init, Row, Rows
<1>4. /\ calls = {} /\ DOMAIN cycle = {"began", "state", "owed"}
      /\ cycle.state = "off" /\ cycle.owed = {}
  BY DEF Init
<1>5. Typed
  BY <1>1, <1>2, <1>3, <1>4 DEF Typed
<1> QED
  BY <1>4, <1>5 DEF SweepInv, OneCycle, RowsSwept, OwedIsPast, StillToSweep

\* Every step keeps the invariant.
LEMMA SweepStep == ASSUME SweepInv, [Next]_vars PROVE SweepInv'
<1>1. ASSUME NEW u \in Users, NEW does \in Command, Request(u, does)
      PROVE  SweepInv'
  <2>1. PICK o \in Outcomes(does, 0) : Ask(does, u, Unseen, calls, synced, o)
    BY <1>1 DEF Request
  <2>2. Sound(o) /\ u # "cycle" /\ UNCHANGED <<cycle, clock>>
    BY <1>1, OutcomesSound, Constants DEF Request, SweepInv
  <2> QED
    BY <2>1, <2>2, OthersAsk
<1>2. ASSUME NEW k \in Timer, Fire(k)
      PROVE  SweepInv'
  <2>1. PICK o \in Outcomes(k, timers[k].revision) : Ask(k, k, Unseen, calls, synced, o)
    BY <1>2 DEF Fire
  <2>2. Sound(o) /\ k # "cycle" /\ UNCHANGED <<cycle, clock>>
    BY <1>2, OutcomesSound, Constants DEF Fire, SweepInv
  <2> QED
    BY <2>1, <2>2, OthersAsk
<1>3. ASSUME NEW k \in Timer, FireInVain(k)
      PROVE  SweepInv'
  BY <1>3, NobodyAsks DEF FireInVain
<1>4. ASSUME NEW c \in calls, Respond(c)
      PROVE  SweepInv'
  <2> DEFINE loop == After(Without(c), c)
             known == Sync(c.answer, Sets(c))
  <2>1. loop.calls \subseteq calls
    BY AfterShrinks DEF Without
  <2>2. UNCHANGED <<cycle, clock>> /\ c.by # "cycle"
    BY <1>4, Constants DEF Respond
  <2>3. CASE calls' = loop.calls /\ UNCHANGED <<row, match>>
    BY <2>1, <2>2, <2>3, NobodyAsks
  <2>4. CASE \E o \in TryCreateMatches : Ask("create", c.by, Unseen, loop.calls, known, o)
    <3>1. PICK o \in TryCreateMatches : Ask("create", c.by, Unseen, loop.calls, known, o)
      BY <2>4
    <3> QED
      BY <2>1, <2>2, <3>1, CreateSound, OthersAsk DEF SweepInv
  <2> QED
    BY <1>4, <2>3, <2>4 DEF Respond
<1>5. ASSUME NEW c \in calls, TimerDone(c)
      PROVE  SweepInv'
  <2>1. calls' \subseteq calls
    BY <1>5, AfterShrinks DEF TimerDone, Without
  <2> QED
    BY <1>5, <2>1, NobodyAsks DEF TimerDone
<1>6. ASSUME NEW c \in calls, CycleStep(c)
      PROVE  SweepInv'
  BY <1>6, CycleAsks, CycleEnds DEF CycleStep
<1>7. CASE BeginCycle
  BY <1>7, CycleBegins
<1>8. CASE Down
  BY <1>8 DEF Down, SweepInv, Typed, OneCycle, RowsSwept, OwedIsPast, StillToSweep
<1>9. CASE Tick
  BY <1>9 DEF Tick, SweepInv, Typed, OneCycle, RowsSwept, OwedIsPast, StillToSweep, ComesToIt,
     ShowsOverdue, HasDeadline
<1>10. CASE UNCHANGED vars
  BY <1>10, NobodyAsks DEF vars
<1> QED
  BY <1>1, <1>2, <1>3, <1>4, <1>5, <1>6, <1>7, <1>8, <1>9, <1>10 DEF Next, GoOn

\* From the start, through every command, timer, failure and restart.
THEOREM SweepInvariant == Spec => []SweepInv
BY SweepInit, SweepStep, PTL DEF Spec

\* A sync cycle that ends without an error leaves nothing behind that was
\* overdue when it began, whatever others did to the row, the match and the
\* timers while it worked on what it had read (_run_sync_cycle,
\* _sync_active_matches).
THEOREM CyclesSweep == Spec => []CycleSweeps
<1>1. SweepInv => CycleSweeps
  BY DEF SweepInv, Typed, Rows, RowsSwept, StillToSweep, CycleSweeps
<1> QED
  BY <1>1, SweepInvariant, PTL

-----------------------------------------------------------------------------
(***************************************************************************)
(* The timers. The loop is at any moment between two steps: the timers tm, *)
(* the calls cl that are not gone on with, and what sy says is up to date. *)
(***************************************************************************)
TimerRecords == [at : Nat, revision : Nat, until : Time, busy : BOOLEAN]
PhaseTimer == {"parent", "report", "approval"}

\* A timer that has not fired.
NewTimer(at, revision, until) ==
  [at |-> at, revision |-> revision, until |-> until, busy |-> FALSE]

\* The timers that belong to a row and to a match.
ExpireRecord(r) == NewTimer(r.expire_at, r.revision, None)
RemindRecord(r) == NewTimer(r.expire_at - Lead, r.revision, r.expire_at)
OpenRecord(m) == NewTimer(m.open, 0, m.report)

\* The row has its timers.
RowSet(tm) ==
  Live =>
    /\ tm["expire"] = ExpireRecord(row)
    /\ ~row.reminded /\ (clock < row.expire_at - Lead \/ failures = 0) =>
         tm["remind"] = RemindRecord(row)

\* The match has its timers.
MatchSet(tm) ==
  /\ match.phase \in PhaseTimer => tm[match.phase] # None
  /\ match.phase = "report" /\ ~match.opened /\ clock < match.report
       /\ (clock < match.open \/ failures = 0) => tm["open"] = OpenRecord(match)

\* A match that is over has none.
FinalClear(tm) == match.phase = "final" => \A k \in MatchTimer : tm[k] = None

\* The first cycle after a start has still to set the timers of the row, or of
\* the match, and what it has loaded of it is still so.
RowFirst(c) == \/ c.does \in {"cleanup", "create"}
               \/ c.does = "load_rows" /\ "row" \in c.answer.fresh
               \/ c.does = "remind" /\ "row" \in c.seen.fresh
MatchFirst(c) == \/ c.does \in {"cleanup", "create", "load_rows", "remind"}
                 \/ c.does = "load_matches" /\ "match" \in c.answer.fresh
                 \/ c.does = "open" /\ "match" \in c.seen.fresh
RowToCome(cl) == \/ cycle.state = "off"
                 \/ cycle.state = "starting" /\ \E c \in cl : c.by = "cycle" /\ RowFirst(c)
MatchToCome(cl) == \/ cycle.state = "off"
                   \/ cycle.state = "starting" /\ \E c \in cl : c.by = "cycle" /\ MatchFirst(c)

\* Whoever set the timers last and knew of the last change has set them right.
Kept(tm, cl, sy) ==
  /\ "row" \in sy => RowSet(tm) \/ RowToCome(cl)
  /\ "match" \in sy => MatchSet(tm) \/ MatchToCome(cl)
  /\ "match" \in sy => FinalClear(tm)

\* A timer that ends a phase was set when the phase was reached, for its end,
\* and is tried again until it has done so.
TimersInTime(tm) ==
  \A p \in PhaseTimer : tm[p] # None =>
    /\ p \in Before(match.phase)
    /\ match.phase = p => match[p] <= tm[p].at
    /\ tm[p].until = None

\* A timer that has fired waits for one answer, no other timer waits; x, who
\* has its answer or is about to ask, is left out.
Awaited(tm, cl, x) ==
  /\ \A c, d \in cl : c.by \in Timer /\ c.by = d.by => c = d
  /\ \A k \in Timer \ {x} : (\E c \in cl : c.by = k) <=> tm[k] # None /\ tm[k].busy
  /\ \A c \in cl : c.by \in Timer => c.by # x

\* What an answer says of a row that has not changed since is true, but for the
\* reminder; and what it says of a match was true, and is if its phase is.
SameRow(r, s) == /\ s.state = r.state /\ s.revision = r.revision /\ s.expire_at = r.expire_at
                 /\ r.reminded => s.reminded
Reached(m, n) ==
  /\ GoesOn(m, n)
  /\ m.phase = "report" /\ n.phase = "report" => n.open = m.open /\ (m.opened => n.opened)
Remindable(r) == r.state = "waiting" => Lead <= r.expire_at
InOrder(m) == m.phase = "report" => m.open <= m.report

\* What is said of the row and of the match by what has been found.
Says(found, r, m) ==
  /\ found \in {"joined", "present"} => r.state = "waiting" /\ ~r.reminded
  /\ found \in {"left", "expired", "created"} => r.state = "gone"
  /\ found = "created" => m.phase = "parent"
  /\ found = "assigned" => m.phase = "report"
  /\ found \in {"approval", "final"} => m.phase = found

Told(a) ==
  a.found # "nothing" =>
    /\ a.at \in Nat /\ a.at <= clock
    /\ a.row \in Rows /\ Remindable(a.row)
    /\ a.match \in Matches /\ HasDeadline(a.match) /\ InOrder(a.match)
    /\ Reached(a.match, match)
    /\ "row" \in a.fresh => SameRow(a.row, row)
    /\ "match" \in a.fresh => a.match.phase = match.phase
    /\ Says(a.found, a.row, a.match)

\* A timer asks for what it is for, and what it gets of it.
TimerAsks(c) ==
  /\ c.does = c.by
  /\ c.by = "expire" => c.answer.found \in {"expired", "nothing"}
  /\ c.by \in {"remind", "open"} => c.answer.found \in {"reminded", "opened", "nothing"}
  /\ c.by \in PhaseTimer => c.answer.found \in {"assigned", "approval", "final", "nothing"}
  /\ c.by \in PhaseTimer => c.by # match.phase /\ c.by \in Before(match.phase)

\* The cycle asks for one thing after the other. When it has reminded the
\* player or opened the reports, of what is still as it was loaded, nothing is
\* left to remind of and to open.
CycleAsksFor(c) ==
  /\ c.does \in Sweep \cup Timer
  /\ c.does \in {"load_rows", "load_matches"} => c.answer.found = "loaded"
  /\ c.does = "remind" =>
       /\ Told(c.seen) /\ c.seen.found = "loaded" /\ c.seen.row.state = "waiting"
       /\ c.answer.found \in {"reminded", "nothing"}
       /\ "row" \in c.seen.fresh => row.reminded \/ row.expire_at <= clock
  /\ c.does = "open" =>
       /\ Told(c.seen) /\ c.seen.found = "loaded" /\ c.seen.match.phase = "report"
       /\ c.answer.found \in {"opened", "nothing"}
       /\ "match" \in c.seen.fresh /\ match.phase = "report" => match.opened \/ match.report <= clock

CallOK(c) ==
  /\ c.by \in Asker /\ c.does \in Command \cup Sweep \cup Timer
  /\ c.answer.fresh \subseteq {"row", "match"}
  /\ Told(c.answer)
  /\ c.by \in Timer => TimerAsks(c)
  /\ c.by = "cycle" => CycleAsksFor(c)

\* The inductive invariant for the timers.
LoopInv ==
  /\ SweepInv
  /\ Remindable(row) /\ InOrder(match)
  /\ timers \in [Timer -> {None} \cup TimerRecords]
  /\ {commands, failures, downs, clock} \subseteq Nat
  /\ synced \subseteq {"row", "match"}
  /\ \A c \in calls : CallOK(c)
  /\ Awaited(timers, calls, None)
  /\ TimersInTime(timers)
  /\ Kept(timers, calls, synced)

\* What a service leaves behind keeps what the timers were set for: a reminder
\* that was sent stays sent, reports that were opened stay open, and what is
\* answered is true of what is left behind.
Timely(o) ==
  /\ Sound(o)
  /\ Remindable(o.row) /\ InOrder(o.match)
  /\ [o.row EXCEPT !.reminded = FALSE] = [row EXCEPT !.reminded = FALSE] => SameRow(row, o.row)
  /\ Reached(match, o.match)
  /\ Says(o.found, o.row, o.match)
  /\ o.found = "nothing" => o.row = row /\ o.match = match

\* What the services may rely on.
Orderly == Typed /\ Remindable(row) /\ InOrder(match)

\* Two rows are the same but for the reminder.
LEMMA SameButReminder ==
  ASSUME NEW r \in Rows, NEW s \in Rows
  PROVE  [s EXCEPT !.reminded = FALSE] = [r EXCEPT !.reminded = FALSE] <=>
           s.state = r.state /\ s.revision = r.revision /\ s.expire_at = r.expire_at
BY DEF Rows

\* Nothing has happened, or only a row has become another one.
LEMMA TimelyRow ==
  ASSUME Orderly, NEW o, Sound(o), o.match = match, Remindable(o.row),
         o.row.state = row.state /\ o.row.revision = row.revision => (row.reminded => o.row.reminded),
         o.found \in {"joined", "present"} => o.row.state = "waiting" /\ ~o.row.reminded,
         o.found \in {"left", "expired"} => o.row.state = "gone",
         o.found \in {"joined", "present", "left", "expired", "reminded", "loaded", "nothing"},
         o.found = "nothing" => o.row = row
  PROVE  Timely(o)
<1>1. [o.row EXCEPT !.reminded = FALSE] = [row EXCEPT !.reminded = FALSE] => SameRow(row, o.row)
  BY SameButReminder DEF SameRow, Sound, Orderly, Typed
<1>2. Reached(match, o.match)
  BY DEF Reached, Sound
<1> QED
  BY <1>1, <1>2 DEF Timely, Says, Orderly

\* The services of the queue are timely.
LEMMA QueueTimely ==
  ASSUME Orderly, NEW v,
         NEW o \in JoinQueue \cup Present \cup Leave \cup Expired \cup ProcessExpire(v)
                   \cup ProcessPresenceReminder(v) \cup Nothing
  PROVE  Timely(o)
<1>1. Sound(o) /\ o.match = match
  BY QueueSound DEF Orderly
<1>2. row \in Rows /\ row.revision \in Nat /\ clock \in Nat /\ TTL \in Nat /\ Lead <= TTL /\ Lead \in Nat
  BY RuntimeAssumption DEF Orderly, Typed, Rows
<1>3. CASE o = Outcome(row, match, "nothing")
  BY <1>1, <1>3, TimelyRow DEF Outcome, Orderly
<1>4. CASE \E found \in {"left", "expired"} :
             o = Outcome([row EXCEPT !.state = "gone"], match, found) /\ row.state = "waiting"
  <2>1. o.row.state = "gone" /\ o.found \in {"left", "expired"}
    BY <1>2, <1>4 DEF Outcome, Rows
  <2> QED
    BY <1>1, <1>4, <2>1, TimelyRow DEF Remindable
<1>5. CASE o = Outcome(Row("waiting", 1, clock + TTL), match, "joined") /\ row.state = "none"
  <2>1. /\ o.row.state = "waiting" /\ o.row.expire_at = clock + TTL /\ ~o.row.reminded
        /\ o.found = "joined"
    BY <1>5 DEF Outcome, Row
  <2> QED
    BY <1>1, <1>2, <1>5, <2>1, TimelyRow DEF Remindable
<1>6. CASE o = Outcome(Row("waiting", row.revision + 1, clock + TTL), match, "present")
  <2>1. /\ o.row.state = "waiting" /\ o.row.expire_at = clock + TTL /\ ~o.row.reminded
        /\ o.row.revision # row.revision /\ o.found = "present"
    BY <1>2, <1>6 DEF Outcome, Row
  <2> QED
    BY <1>1, <1>2, <2>1, TimelyRow DEF Remindable
<1>7. CASE o = Outcome([row EXCEPT !.reminded = TRUE], match, "reminded")
  <2>1. /\ o.row.state = row.state /\ o.row.expire_at = row.expire_at /\ o.row.reminded
        /\ o.found = "reminded"
    BY <1>2, <1>7 DEF Outcome, Rows
  <2> QED
    BY <1>1, <2>1, TimelyRow DEF Remindable, Orderly
<1>8. ASSUME NEW w, o \in Expired \/ o \in Nothing
      PROVE  \/ o = Outcome(row, match, "nothing")
             \/ o = Outcome([row EXCEPT !.state = "gone"], match, "expired") /\ row.state = "waiting"
  BY <1>8 DEF Expired, Nothing, Gone, RowBecomes, RowOverdue
<1>9. CASE o \in Expired \cup Nothing \cup ProcessExpire(v)
  BY <1>3, <1>4, <1>8, <1>9 DEF ProcessExpire
<1>10. CASE o \in JoinQueue
  BY <1>5, <1>9, <1>10 DEF JoinQueue, RowBecomes
<1>11. CASE o \in Present
  BY <1>6, <1>9, <1>11 DEF Present, RowBecomes
<1>12. CASE o \in Leave
  <2>1. \/ o \in Expired
        \/ o = Outcome([row EXCEPT !.state = "gone"], match, "left") /\ row.state = "waiting"
    <3>1. CASE Live
      BY <1>12, <3>1 DEF Leave, Gone, RowBecomes, Live
    <3>2. ~Live => o \in Expired
      BY <1>12 DEF Leave
    <3> QED
      BY <3>1, <3>2
  <2> QED
    BY <1>4, <1>9, <2>1
<1>13. CASE o \in ProcessPresenceReminder(v)
  BY <1>7, <1>9, <1>13 DEF ProcessPresenceReminder, RowBecomes
<1> QED
  BY <1>9, <1>10, <1>11, <1>12, <1>13

\* Only a match has become another one, in a later phase.
LEMMA TimelyMatch ==
  ASSUME Orderly, NEW o, Sound(o), o.row = row, InOrder(o.match), o.match.phase = "report" => match.phase # "report",
         \/ o.found = "assigned" /\ o.match.phase = "report"
         \/ o.found \in {"approval", "final"} /\ o.match.phase = o.found
  PROVE  Timely(o)
BY DEF Timely, Says, Orderly, SameRow, Reached, Sound

\* StartApproval tells of the phase that it leads to.
LEMMA ApprovalTimely ==
  ASSUME Orderly, NEW t \in Nat, NEW o \in StartApproval(t), match.phase \in {"parent", "report"}
  PROVE  Timely(o) /\ o.found \in {"approval", "final"} /\ o.match.phase \in {"approval", "final"}
<1>1. Sound(o) /\ o.match.phase \in {"approval", "final"}
  BY ApprovalSound DEF Orderly
<1>2. o.row = row /\ o.found = o.match.phase
  <2> DEFINE approving == [NoMatch EXCEPT !.phase = "approval", !.approval = t + ApprovalWindow]
  <2>1. o = Outcome(row, Final, "final") \/ o = Outcome(row, approving, "approval")
    BY DEF StartApproval, Finalized, MatchBecomes
  <2>2. approving.phase = "approval" /\ Final.phase = "final"
    BY PhasesBegin DEF Orderly
  <2> HIDE DEF approving
  <2> QED
    BY <2>1, <2>2 DEF Outcome
<1> QED
  BY <1>1, <1>2, TimelyMatch DEF InOrder

\* So does an end of the match.
LEMMA FinalTimely ==
  ASSUME Orderly, NEW o \in Finalized
  PROVE  Timely(o) /\ o.found = "final" /\ o.match.phase = "final"
<1>1. Sound(o) /\ o.match.phase = "final"
  BY FinalSound DEF Orderly
<1>2. o.row = row /\ o.found = "final"
  BY DEF Finalized, MatchBecomes, Outcome
<1> QED
  BY <1>1, <1>2, TimelyMatch DEF InOrder

\* AssignParent tells of one of the three phases that it leads to.
LEMMA ParentTimely ==
  ASSUME Orderly, NEW o \in AssignParent, match.phase = "parent"
  PROVE  Timely(o) /\ o.found \in {"assigned", "approval", "final"}
<1>1. CASE o = Outcome(row, Reporting, "assigned")
  <2>1. Sound(o)
    BY ParentSound DEF Orderly
  <2>2. o.row = row /\ o.found = "assigned" /\ o.match = Reporting
    BY <1>1 DEF Outcome
  <2>3. clock + OpenDelay <= clock + ReportWindow
    BY RuntimeAssumption DEF Orderly, Typed
  <2>4. Reporting.phase = "report" /\ InOrder(Reporting)
    BY <2>3 DEF Reporting, NoMatch, InOrder
  <2> QED
    BY <2>1, <2>2, <2>4, TimelyMatch
<1>2. CASE o \in StartApproval(clock)
  BY <1>2, ApprovalTimely DEF Orderly, Typed
<1> QED
  BY <1>1, <1>2 DEF AssignParent, MatchBecomes

\* Nothing has been done.
LEMMA IdleTimely ==
  ASSUME Orderly, NEW w \in {"loaded", "nothing", "approval"},
         w = "approval" => match.phase = "approval"
  PROVE  Timely(Outcome(row, match, w))
<1> DEFINE o == Outcome(row, match, w)
<1>1. o.found = w /\ o.match = match /\ o.row = row /\ Sound(o)
  BY IdleSound DEF Outcome, Orderly
<1> HIDE DEF o
<1>2. Timely(o)
  BY <1>1 DEF Timely, Says, Orderly, SameRow, Reached, Sound
<1> QED
  BY <1>2 DEF o

\* What has been found in an outcome.
LEMMA OutcomeParts ==
  ASSUME NEW r, NEW m, NEW w
  PROVE  /\ Outcome(r, m, w).row = r /\ Outcome(r, m, w).match = m
         /\ Outcome(r, m, w).found = w
BY DEF Outcome

\* A match that is made takes the row out of the queue.
LEMMA CreateTimely ==
  ASSUME Orderly, NEW o \in TryCreateMatches
  PROVE  Timely(o) /\ o.found \in {"created", "nothing"}
<1>1. CASE o = Outcome(row, match, "nothing")
  BY <1>1, IdleTimely, OutcomeParts
<1>2. CASE /\ match.phase = "none" /\ row.state = "waiting"
           /\ o = Outcome([row EXCEPT !.state = "gone"], Created, "created")
  <2>1. Sound(o)
    BY CreateSound DEF Orderly
  <2>2. /\ o.row.state = "gone" /\ o.row # row /\ o.match.phase = "parent" /\ o.found = "created"
    BY <1>2 DEF Outcome, Created, NoMatch, Orderly, Typed, Rows
  <2>3. ~([o.row EXCEPT !.reminded = FALSE] = [row EXCEPT !.reminded = FALSE])
    BY <1>2, <2>1, <2>2, SameButReminder DEF Sound, Orderly, Typed
  <2>4. Reached(match, o.match)
    BY <2>1, <2>2 DEF Sound, Reached
  <2> QED
    BY <2>1, <2>2, <2>3, <2>4 DEF Timely, Says, Remindable, InOrder
<1> QED
  BY <1>1, <1>2 DEF TryCreateMatches, Nothing, Live

\* Once the time has come for it and is not over, the reports are open.
LEMMA OpenTimely ==
  ASSUME Orderly, NEW o \in ProcessReportOpen
  PROVE  /\ Timely(o) /\ o.found \in {"opened", "nothing"}
         /\ match.phase = "report" /\ match.open <= clock /\ clock < match.report => o.match.opened
<1>1. CASE o = Outcome(row, match, "nothing")
             /\ ~(match.phase = "report" /\ ~match.opened /\ match.open <= clock /\ clock < match.report)
  BY <1>1, IdleTimely, OutcomeParts DEF Orderly, Typed, Matches
<1>2. CASE /\ match.phase = "report"
           /\ o = Outcome(row, [match EXCEPT !.opened = TRUE], "opened")
  <2>1. Sound(o)
    <3>1. [match EXCEPT !.opened = TRUE] \in Matches /\ HasDeadline([match EXCEPT !.opened = TRUE])
          /\ GoesOn(match, [match EXCEPT !.opened = TRUE])
      BY <1>2 DEF Orderly, Typed, Matches, HasDeadline, GoesOn, Before
    <3> QED
      BY <1>2, <3>1, MatchOutcomes DEF Outcome, Orderly
  <2>2. /\ o.match.phase = match.phase /\ o.match.open = match.open /\ o.match.report = match.report
        /\ o.match.opened /\ o.found = "opened" /\ o.row = row
    BY <1>2 DEF Outcome, Orderly, Typed, Matches
  <2> QED
    BY <2>1, <2>2 DEF Timely, Says, Orderly, SameRow, Reached, Sound, InOrder
<1> QED
  BY <1>1, <1>2 DEF ProcessReportOpen, MatchBecomes, Nothing

\* The deadlines of a match tell of the phase that they lead to.
LEMMA DeadlinesTimely ==
  ASSUME Orderly, NEW o
  PROVE  /\ o \in ProcessParentDeadline =>
              Timely(o) /\ o.found \in {"assigned", "approval", "final", "nothing"}
         /\ o \in ProcessReportDeadline =>
              Timely(o) /\ o.found \in {"assigned", "approval", "final", "nothing"}
         /\ o \in ProcessApprovalDeadline =>
              Timely(o) /\ o.found \in {"assigned", "approval", "final", "nothing"}
<1>1. ASSUME o \in Nothing
      PROVE  Timely(o) /\ o.found = "nothing"
  BY <1>1, IdleTimely, OutcomeParts DEF Nothing
<1>2. ASSUME o \in ProcessParentDeadline
      PROVE  Timely(o) /\ o.found \in {"assigned", "approval", "final", "nothing"}
  BY <1>1, <1>2, ParentTimely DEF ProcessParentDeadline
<1>3. ASSUME o \in ProcessReportDeadline
      PROVE  Timely(o) /\ o.found \in {"assigned", "approval", "final", "nothing"}
  <2>1. CASE match.phase = "report" /\ match.report <= clock
    <3>1. match.report \in Nat
      BY <2>1 DEF Orderly, Typed, HasDeadline
    <3> QED
      BY <1>3, <2>1, <3>1, ApprovalTimely DEF ProcessReportDeadline
  <2>2. CASE match.phase = "approval"
    BY <1>3, <2>2, IdleTimely, OutcomeParts DEF ProcessReportDeadline, MatchBecomes
  <2> QED
    BY <1>1, <1>3, <2>1, <2>2 DEF ProcessReportDeadline
<1>4. ASSUME o \in ProcessApprovalDeadline
      PROVE  Timely(o) /\ o.found \in {"assigned", "approval", "final", "nothing"}
  BY <1>1, <1>4, FinalTimely DEF ProcessApprovalDeadline
<1> QED
  BY <1>2, <1>3, <1>4

\* Whatever is asked for, what is answered is timely.
LEMMA OutcomesTimely ==
  ASSUME Orderly, NEW does \in Command \cup Timer \cup Sweep, NEW v, NEW o \in Outcomes(does, v)
  PROVE  Timely(o)
<1>1. CASE does \in {"join", "present", "leave", "expire", "cleanup", "remind"}
  BY <1>1, QueueTimely DEF Outcomes
<1>2. CASE does = "create"
  BY <1>2, CreateTimely DEF Outcomes
<1>3. CASE does = "volunteer"
  BY <1>3, ParentTimely, QueueTimely DEF Outcomes, VolunteerParent
<1>4. CASE does \in PhaseTimer
  BY <1>4, DeadlinesTimely DEF Outcomes, PhaseTimer
<1>5. CASE does = "open"
  BY <1>5, OpenTimely DEF Outcomes
<1>6. CASE does = "submit"
  BY <1>6, ApprovalTimely, QueueTimely DEF Outcomes, SubmitReport, Orderly, Typed
<1>7. CASE does = "approve"
  BY <1>7, FinalTimely, QueueTimely DEF Outcomes, ApproveProvisionalResult
<1>8. CASE does = "override"
  BY <1>8, FinalTimely, QueueTimely DEF Outcomes, OverrideMatchResult
<1>9. CASE does \in {"load_rows", "load_matches"}
  BY <1>9, IdleTimely DEF Outcomes
<1> QED
  BY <1>1, <1>2, <1>3, <1>4, <1>5, <1>6, <1>7, <1>8, <1>9
     DEF Command, Timer, RowTimer, MatchTimer, PhaseTimer, Sweep

\* What the timers of the row and the cycle find.
LEMMA RowTimersFind ==
  ASSUME Orderly, NEW v, NEW o
  PROVE  /\ o \in ProcessExpire(v) => o.found \in {"expired", "nothing"}
         /\ o \in Expired => o.found \in {"expired", "nothing"}
         /\ o \in ProcessPresenceReminder(v) =>
              /\ o.found \in {"reminded", "nothing"}
              /\ v = row.revision /\ Live /\ row.expire_at - Lead <= clock => o.row.reminded
<1>1. o \in Expired => o.found \in {"expired", "nothing"}
  BY DEF Expired, Gone, RowBecomes, Nothing, Outcome
<1>2. o \in ProcessExpire(v) => o.found \in {"expired", "nothing"}
  BY <1>1 DEF ProcessExpire, Nothing, Outcome
<1>3. ASSUME o \in ProcessPresenceReminder(v)
      PROVE  /\ o.found \in {"reminded", "nothing"}
             /\ v = row.revision /\ Live /\ row.expire_at - Lead <= clock => o.row.reminded
  <2>1. CASE o = Outcome([row EXCEPT !.reminded = TRUE], match, "reminded")
    <3>1. o.row = [row EXCEPT !.reminded = TRUE] /\ o.found = "reminded"
      BY <2>1 DEF Outcome
    <3> QED
      BY <3>1 DEF Orderly, Typed, Rows
  <2>2. CASE /\ o = Outcome(row, match, "nothing")
             /\ ~(Live /\ row.revision = v /\ ~row.reminded /\ row.expire_at - Lead <= clock)
    BY <2>2 DEF Outcome, Orderly, Typed, Rows
  <2> QED
    BY <1>3, <2>1, <2>2 DEF ProcessPresenceReminder, RowBecomes, Nothing
<1> QED
  BY <1>1, <1>2, <1>3

-----------------------------------------------------------------------------
\* A match that reaches a phase and then another one reaches that.
LEMMA ReachedOn ==
  ASSUME NEW l \in Matches, NEW m \in Matches, NEW n \in Matches, Reached(l, m), Reached(m, n)
  PROVE  Reached(l, n)
<1>1. l.phase \in Phase /\ m.phase \in Phase /\ n.phase \in Phase
  BY DEF Matches
<1>2. l.phase \in Before(n.phase)
  BY <1>1, PhasesInOrder DEF Reached, GoesOn
<1>3. l.phase = n.phase => m.phase = l.phase
  BY <1>1, PhasesInOrder DEF Reached, GoesOn
<1> QED
  BY <1>2, <1>3 DEF Reached, GoesOn

\* What is said of the row and of the match stays true when somebody asks.
LEMMA ToldStays ==
  ASSUME Orderly, NEW a, NEW b, NEW moved, NEW o, Timely(o), Told(a), Ages(a, b, moved),
         "row" \in moved <=> RowMoves(o), "match" \in moved <=> MatchMoves(o),
         row' = o.row, match' = o.match, UNCHANGED clock
  PROVE  Told(b)'
<1> SUFFICES ASSUME b.found # "nothing" PROVE Told(b)'
  BY DEF Told
<1>1. /\ a.found # "nothing" /\ b.found = a.found /\ b.at = a.at /\ b.row = a.row /\ b.match = a.match
      /\ b.fresh = a.fresh \ moved
  BY DEF Ages, Keeps
<1>2. Reached(b.match, match')
  <2>1. /\ a.match \in Matches /\ match \in Matches /\ o.match \in Matches
        /\ Reached(a.match, match) /\ Reached(match, o.match)
    BY <1>1 DEF Told, Orderly, Typed, Timely, Sound
  <2> QED
    BY <1>1, <2>1, ReachedOn
<1>3. "row" \in b.fresh => SameRow(b.row, row')
  BY <1>1 DEF Told, SameRow, Timely, RowMoves
<1>4. "match" \in b.fresh => b.match.phase = match'.phase
  BY <1>1 DEF Told, MatchMoves
<1> QED
  BY <1>1, <1>2, <1>3, <1>4 DEF Told

\* What has just been found is true.
LEMMA ToldAnew ==
  ASSUME Orderly, NEW a, NEW o, Timely(o), a.found = o.found,
         o.found # "nothing" => a.row = o.row /\ a.match = o.match /\ a.at = clock,
         row' = o.row, match' = o.match, UNCHANGED clock
  PROVE  Told(a)'
<1>1. /\ o.row \in Rows /\ o.match \in Matches /\ HasDeadline(o.match) /\ InOrder(o.match)
      /\ Remindable(o.row) /\ Says(o.found, o.row, o.match) /\ clock \in Nat
  BY DEF Timely, Sound, Orderly, Typed
<1>2. Reached(o.match, o.match) /\ SameRow(o.row, o.row)
  BY <1>1 DEF Reached, GoesOn, SameRow, Matches, Before, Phase
<1> QED
  BY <1>1, <1>2 DEF Told

\* A call stays what it was for when somebody else asks.
LEMMA CallStays ==
  ASSUME Orderly, NEW c, IsCall(c), CallOK(c), NEW moved, NEW o, Timely(o),
         "row" \in moved <=> RowMoves(o), "match" \in moved <=> MatchMoves(o),
         row' = o.row, match' = o.match, UNCHANGED clock
  PROVE  CallOK(Overtaken(c, moved))'
<1> DEFINE d == Overtaken(c, moved)
<1>1. /\ d.does = c.does /\ d.by = c.by /\ d.answer.found = c.answer.found
      /\ Ages(c.answer, d.answer, moved) /\ Ages(c.seen, d.seen, moved)
  BY OvertakenIsSame DEF Ages, Keeps
<1>2. d.answer.fresh = c.answer.fresh \ moved
  BY <1>1 DEF Ages
<1> HIDE DEF d
<1>3. Told(d.answer)'
  BY <1>1, ToldStays DEF CallOK
<1>4. ASSUME d.by \in Timer
      PROVE  TimerAsks(d)'
  <2>1. TimerAsks(c)
    BY <1>1, <1>4 DEF CallOK
  <2>2. ASSUME d.by \in PhaseTimer
        PROVE  d.by # match'.phase /\ d.by \in Before(match'.phase)
    <3>1. d.by # match.phase /\ d.by \in Before(match.phase) /\ match.phase \in Before(match'.phase)
      BY <1>1, <2>1, <2>2 DEF TimerAsks, Timely, Reached, GoesOn
    <3>2. d.by \in Phase /\ match.phase \in Phase /\ match'.phase \in Phase
      BY <2>2 DEF PhaseTimer, Phase, Orderly, Typed, Timely, Sound, Matches
    <3> QED
      BY <3>1, <3>2, PhasesInOrder
  <2> QED
    BY <1>1, <2>1, <2>2 DEF TimerAsks
<1>5. ASSUME d.by = "cycle"
      PROVE  CycleAsksFor(d)'
  <2>1. CycleAsksFor(c)
    BY <1>1, <1>5 DEF CallOK
  <2>2. ASSUME d.does = "remind"
        PROVE  /\ Told(d.seen)' /\ d.seen.found = "loaded" /\ d.seen.row.state = "waiting"
               /\ "row" \in d.seen.fresh => row'.reminded \/ row'.expire_at <= clock'
    <3>1. /\ Told(c.seen) /\ c.seen.found = "loaded" /\ c.seen.row.state = "waiting"
          /\ "row" \in c.seen.fresh => row.reminded \/ row.expire_at <= clock
      BY <1>1, <2>1, <2>2 DEF CycleAsksFor
    <3>2. "row" \in d.seen.fresh => "row" \in c.seen.fresh /\ SameRow(row, row')
      BY <1>1 DEF Ages, Timely, RowMoves
    <3> QED
      BY <1>1, <3>1, <3>2, ToldStays DEF Ages, Keeps, SameRow
  <2>3. ASSUME d.does = "open"
        PROVE  /\ Told(d.seen)' /\ d.seen.found = "loaded" /\ d.seen.match.phase = "report"
               /\ "match" \in d.seen.fresh /\ match'.phase = "report" =>
                    match'.opened \/ match'.report <= clock'
    <3>1. /\ Told(c.seen) /\ c.seen.found = "loaded" /\ c.seen.match.phase = "report"
          /\ "match" \in c.seen.fresh /\ match.phase = "report" => match.opened \/ match.report <= clock
      BY <1>1, <2>1, <2>3 DEF CycleAsksFor
    <3>2. "match" \in d.seen.fresh => "match" \in c.seen.fresh /\ match'.phase = match.phase
      BY <1>1 DEF Ages, MatchMoves
    <3>3. match'.phase = "report" /\ match.phase = "report" =>
            match'.report = match.report /\ (match.opened => match'.opened)
      BY DEF Timely, Reached, GoesOn
    <3> QED
      BY <1>1, <3>1, <3>2, <3>3, ToldStays DEF Ages, Keeps
  <2> QED
    BY <1>1, <2>1, <2>2, <2>3 DEF CycleAsksFor
<1> QED
  BY <1>1, <1>2, <1>3, <1>4, <1>5 DEF CallOK, d

\* What a timer gets, and what the cycle gets.
TimerGets(by, does, o) ==
  /\ does = by
  /\ by = "expire" => o.found \in {"expired", "nothing"}
  /\ by \in {"remind", "open"} => o.found \in {"reminded", "opened", "nothing"}
  /\ by \in PhaseTimer => o.found \in {"assigned", "approval", "final", "nothing"}
  /\ by \in PhaseTimer => by # o.match.phase /\ by \in Before(o.match.phase)

CycleGets(does, seen, o) ==
  /\ does \in Sweep \cup Timer
  /\ does \in {"load_rows", "load_matches"} => o.found = "loaded"
  /\ does = "remind" =>
       /\ Told(seen) /\ seen.found = "loaded" /\ seen.row.state = "waiting"
       /\ o.found \in {"reminded", "nothing"}
       /\ "row" \in seen.fresh /\ ~RowMoves(o) => o.row.reminded \/ o.row.expire_at <= clock
  /\ does = "open" =>
       /\ Told(seen) /\ seen.found = "loaded" /\ seen.match.phase = "report"
       /\ o.found \in {"opened", "nothing"}
       /\ "match" \in seen.fresh /\ ~MatchMoves(o) /\ o.match.phase = "report" =>
            o.match.opened \/ o.match.report <= clock

\* A call that is new is for what its asker is for.
LEMMA NewCall ==
  ASSUME Orderly, NEW does \in Command \cup Sweep \cup Timer, NEW by \in Asker, NEW seen, NEW o,
         NEW new, NEW moved, Timely(o),
         by \in Timer => TimerGets(by, does, o), by = "cycle" => CycleGets(does, seen, o),
         IsCall(new), new.does = does, new.by = by, Ages(seen, new.seen, moved),
         "row" \in moved <=> RowMoves(o), "match" \in moved <=> MatchMoves(o),
         new.answer.found = o.found, new.answer.fresh = {"row", "match"},
         o.found # "nothing" =>
           new.answer.row = o.row /\ new.answer.match = o.match /\ new.answer.at = clock,
         row' = o.row, match' = o.match, UNCHANGED clock
  PROVE  CallOK(new)'
<1>1. Told(new.answer)'
  BY ToldAnew
<1>2. by \in Timer => TimerAsks(new)'
  BY DEF TimerGets, TimerAsks
<1>3. ASSUME by = "cycle"
      PROVE  CycleAsksFor(new)'
  <2>1. new.seen.found = seen.found /\ new.seen.row = seen.row /\ new.seen.match = seen.match
        /\ new.seen.fresh = seen.fresh \ moved
    BY DEF Ages, Keeps
  <2>2. CycleGets(does, seen, o)
    BY <1>3
  <2>3. CASE does = "remind"
    <3>1. Told(new.seen)'
      BY <2>2, <2>3, ToldStays DEF CycleGets
    <3> QED
      BY <2>1, <2>2, <2>3, <3>1 DEF CycleGets, CycleAsksFor
  <2>4. CASE does = "open"
    <3>1. Told(new.seen)'
      BY <2>2, <2>4, ToldStays DEF CycleGets
    <3> QED
      BY <2>1, <2>2, <2>4, <3>1 DEF CycleGets, CycleAsksFor
  <2>5. CASE does \notin {"remind", "open"}
    BY <2>2, <2>5 DEF CycleGets, CycleAsksFor
  <2> QED
    BY <2>3, <2>4, <2>5
<1> QED
  BY <1>1, <1>2, <1>3 DEF CallOK

\* What becomes of the calls when somebody asks: all are for what they are for,
\* and every timer that has fired waits for one of them.
LEMMA CallsAfter ==
  ASSUME Orderly, NEW does \in Command \cup Sweep \cup Timer, NEW by \in Asker, NEW seen, NEW o,
         NEW others, NEW known, Timely(o), IsAnswer(seen), Ask(does, by, seen, others, known, o),
         \A c \in others : IsCall(c) /\ CallOK(c),
         by \in Timer => TimerGets(by, does, o), by = "cycle" => CycleGets(does, seen, o),
         NEW tm, Awaited(tm, others, by), by \in Timer => tm[by] # None /\ tm[by].busy,
         UNCHANGED clock
  PROVE  /\ \A c \in calls' : CallOK(c)'
         /\ Awaited(tm, calls', None)
<1>1. PICK moved, new :
        /\ "row" \in moved <=> RowMoves(o)
        /\ "match" \in moved <=> MatchMoves(o)
        /\ calls' = {Overtaken(c, moved) : c \in others} \cup {new}
        /\ IsCall(new) /\ new.does = does /\ new.by = by /\ Ages(seen, new.seen, moved)
        /\ new.answer.found = o.found /\ new.answer.fresh = {"row", "match"}
        /\ o.found # "nothing" =>
             new.answer.row = o.row /\ new.answer.match = o.match /\ new.answer.at = clock
  BY Asked
<1>2. row' = o.row /\ match' = o.match
  BY DEF Ask
<1>3. \A c \in others : CallOK(Overtaken(c, moved))'
  BY <1>1, <1>2, CallStays
<1>4. CallOK(new)'
  BY <1>1, <1>2, NewCall
<1>5. \A c \in calls' : CallOK(c)'
  BY <1>1, <1>3, <1>4
<1>6. \A c \in others : Overtaken(c, moved).by = c.by
  BY OvertakenIsSame
<1>7. ASSUME NEW k \in Timer
      PROVE  (\E c \in calls' : c.by = k) <=> (by = k \/ \E c \in others : c.by = k)
  BY <1>1, <1>6
<1>8. ASSUME NEW c \in calls', NEW d \in calls', c.by \in Timer, c.by = d.by
      PROVE  c = d
  BY <1>1, <1>6, <1>8 DEF Awaited
<1>9. ASSUME NEW k \in Timer
      PROVE  (\E c \in calls' : c.by = k) <=> tm[k] # None /\ tm[k].busy
  BY <1>7 DEF Awaited
<1>10. \A c \in calls' : c.by \in Timer => c.by # None
  BY Constants
<1> QED
  BY <1>5, <1>8, <1>9, <1>10 DEF Awaited

\* The timers of a phase are still those of the phase when the match goes on.
LEMMA InTimeAfter ==
  ASSUME Orderly, NEW o, Timely(o), match' = o.match, TimersInTime(timers')
  PROVE  TimersInTime(timers)'
<1> SUFFICES ASSUME NEW p \in PhaseTimer, timers'[p] # None
             PROVE  /\ p \in Before(match'.phase) /\ timers'[p].until = None
                    /\ match'.phase = p => match'[p] <= timers'[p].at
  BY DEF TimersInTime
<1>1. p \in Phase /\ match.phase \in Phase /\ match'.phase \in Phase
  BY DEF PhaseTimer, Phase, Orderly, Typed, Timely, Sound, Matches
<1>2. p \in Before(match.phase) /\ match.phase \in Before(match'.phase) /\ timers'[p].until = None
  BY DEF TimersInTime, Timely, Reached, GoesOn
<1>3. p \in Before(match'.phase)
  BY <1>1, <1>2, PhasesInOrder
<1>4. ASSUME match'.phase = p
      PROVE  match'[p] <= timers'[p].at
  <2>1. match.phase = p
    BY <1>1, <1>2, <1>4, PhasesInOrder
  <2> QED
    BY <1>4, <2>1 DEF TimersInTime, Timely, Reached, GoesOn, PhaseTimer
<1> QED
  BY <1>2, <1>3, <1>4

\* The timers of a row that has not changed are still the timers of the row.
LEMMA RowSetAfter ==
  ASSUME Orderly, NEW o, Timely(o), row' = o.row, UNCHANGED <<clock, failures>>, ~RowMoves(o),
         RowSet(timers')
  PROVE  RowSet(timers)'
<1>1. SameRow(row, row')
  BY DEF Timely, RowMoves
<1>2. row.reminded \in BOOLEAN /\ row'.reminded \in BOOLEAN
  BY DEF Timely, Sound, Orderly, Typed, Rows
<1> QED
  BY <1>1, <1>2 DEF RowSet, Live, SameRow, ExpireRecord, RemindRecord

\* And so are the timers of a match that has not changed its phase.
LEMMA MatchSetAfter ==
  ASSUME Orderly, NEW o, Timely(o), match' = o.match, UNCHANGED <<clock, failures>>, ~MatchMoves(o)
  PROVE  /\ MatchSet(timers') => MatchSet(timers)'
         /\ FinalClear(timers') => FinalClear(timers)'
<1>1. match'.phase = match.phase
  BY DEF MatchMoves
<1>2. match.opened \in BOOLEAN /\ match'.opened \in BOOLEAN
  BY DEF Timely, Sound, Orderly, Typed, Matches
<1>3. match.phase = "report" =>
        match'.open = match.open /\ match'.report = match.report /\ (match.opened => match'.opened)
  BY <1>1 DEF Timely, Reached, GoesOn
<1> QED
  BY <1>1, <1>2, <1>3 DEF MatchSet, OpenRecord, FinalClear

\* The first cycle has still to come to what it had still to come to.
LEMMA ToComeAfter ==
  ASSUME NEW others, NEW moved, NEW new, UNCHANGED cycle,
         \A c \in others : IsCall(c),
         calls' = {Overtaken(c, moved) : c \in others} \cup {new}
  PROVE  /\ "row" \notin moved /\ RowToCome(others) => RowToCome(calls)'
         /\ "match" \notin moved /\ MatchToCome(others) => MatchToCome(calls)'
<1>1. ASSUME NEW c \in others
      PROVE  /\ "row" \notin moved /\ RowFirst(c) => RowFirst(Overtaken(c, moved))
             /\ "match" \notin moved /\ MatchFirst(c) => MatchFirst(Overtaken(c, moved))
             /\ Overtaken(c, moved).by = c.by /\ Overtaken(c, moved) \in calls'
  <2> DEFINE d == Overtaken(c, moved)
  <2>1. /\ d.does = c.does /\ d.by = c.by
        /\ d.answer.fresh = c.answer.fresh \ moved /\ d.seen.fresh = c.seen.fresh \ moved
    BY OvertakenIsSame DEF Ages
  <2> QED
    BY <2>1 DEF RowFirst, MatchFirst
<1>2. ASSUME "row" \notin moved, RowToCome(others)
      PROVE  RowToCome(calls)'
  BY <1>1, <1>2 DEF RowToCome, RowFirst
<1>3. ASSUME "match" \notin moved, MatchToCome(others)
      PROVE  MatchToCome(calls)'
  BY <1>1, <1>3 DEF MatchToCome, MatchFirst
<1> QED
  BY <1>2, <1>3

\* What the timers are right for stays so when somebody asks, and what has
\* changed is not called up to date.
LEMMA KeptAfter ==
  ASSUME Orderly, NEW does, NEW by, NEW seen, NEW o, NEW others, NEW known, Timely(o),
         IsAnswer(seen), Ask(does, by, seen, others, known, o), \A c \in others : IsCall(c),
         Kept(timers', others, known), UNCHANGED <<clock, failures, cycle>>
  PROVE  Kept(timers, calls, synced)'
<1>1. PICK moved, new :
        /\ moved \subseteq {"row", "match"}
        /\ "row" \in moved <=> RowMoves(o)
        /\ "match" \in moved <=> MatchMoves(o)
        /\ synced' = known \ moved
        /\ calls' = {Overtaken(c, moved) : c \in others} \cup {new}
        /\ IsCall(new) /\ new.does = does /\ new.by = by /\ Ages(seen, new.seen, moved)
        /\ new.answer.found = o.found /\ new.answer.fresh = {"row", "match"}
        /\ o.found # "nothing" =>
             new.answer.row = o.row /\ new.answer.match = o.match /\ new.answer.at = clock
  BY Asked
<1>2. row' = o.row /\ match' = o.match
  BY DEF Ask
<1>3. ASSUME "row" \in synced'
      PROVE  RowSet(timers)' \/ RowToCome(calls)'
  BY <1>1, <1>2, <1>3, RowSetAfter, ToComeAfter DEF Kept
<1>4. ASSUME "match" \in synced'
      PROVE  (MatchSet(timers)' \/ MatchToCome(calls)') /\ FinalClear(timers)'
  BY <1>1, <1>2, <1>4, MatchSetAfter, ToComeAfter DEF Kept
<1> QED
  BY <1>3, <1>4 DEF Kept

-----------------------------------------------------------------------------
\* What holds of the loop while timers are set and cancelled by who has the
\* answer that x waited for.
LoopOK(loop, x) ==
  /\ loop.timers \in [Timer -> {None} \cup TimerRecords]
  /\ loop.calls \subseteq calls
  /\ \A c \in calls : c.by = "cycle" /\ c.by # x => c \in loop.calls
  /\ Awaited(loop.timers, loop.calls, x)
  /\ TimersInTime(loop.timers)

\* What cancelling and setting a timer do to the loop.
LEMMA CancelParts ==
  ASSUME NEW loop, NEW keys
  PROVE  /\ Cancel(loop, keys).timers = [k \in Timer |-> IF k \in keys THEN None ELSE loop.timers[k]]
         /\ Cancel(loop, keys).calls = {c \in loop.calls : c.by \notin keys}
BY DEF Cancel

\* Setting a timer puts it in the place of the old one and drops its call.
LEMMA ScheduleParts ==
  ASSUME NEW loop, NEW key \in Timer, NEW at, NEW revision, NEW until
  PROVE  LET s == Schedule(loop, key, at, revision, until)
         IN  /\ s.timers = [k \in Timer |-> IF k = key THEN NewTimer(at, revision, until)
                                           ELSE loop.timers[k]]
             /\ s.calls = {c \in loop.calls : c.by # key}
<1> DEFINE rec == NewTimer(at, revision, until)
           e == Cancel(loop, {key})
           t == [k \in Timer |-> IF k \in {key} THEN None ELSE loop.timers[k]]
<1>1. e.timers = t /\ e.calls = {c \in loop.calls : c.by # key} /\ DOMAIN e = {"timers", "calls"}
  BY DEF Cancel
<1> HIDE DEF rec, e
<1>2. [t EXCEPT ![key] = rec] = [k \in Timer |-> IF k = key THEN rec ELSE loop.timers[k]]
  OBVIOUS
<1>3. [e EXCEPT !.timers[key] = rec].timers = [t EXCEPT ![key] = rec]
      /\ [e EXCEPT !.timers[key] = rec].calls = e.calls
  BY <1>1
<1> QED
  BY <1>1, <1>2, <1>3 DEF Schedule, NewTimer, rec, e

\* Cancelling timers keeps the loop in order.
LEMMA CancelOK ==
  ASSUME NEW loop, NEW x, LoopOK(loop, x), NEW keys \in SUBSET Timer
  PROVE  LoopOK(Cancel(loop, keys), x)
<1> DEFINE s == Cancel(loop, keys)
<1>1. /\ s.timers = [k \in Timer |-> IF k \in keys THEN None ELSE loop.timers[k]]
      /\ s.calls = {c \in loop.calls : c.by \notin keys}
  BY CancelParts
<1> HIDE DEF s
<1>2. s.timers \in [Timer -> {None} \cup TimerRecords] /\ s.calls \subseteq calls
  BY <1>1 DEF LoopOK
<1>3. \A c \in calls : c.by = "cycle" /\ c.by # x => c \in s.calls
  BY <1>1, Constants DEF LoopOK
<1>4. Awaited(s.timers, s.calls, x)
  BY <1>1 DEF LoopOK, Awaited
<1>5. TimersInTime(s.timers)
  BY <1>1 DEF LoopOK, TimersInTime, PhaseTimer, Timer, MatchTimer
<1> QED
  BY <1>2, <1>3, <1>4, <1>5 DEF LoopOK, s

\* Setting a timer does, when a timer of a phase is set for its end.
LEMMA ScheduleOK ==
  ASSUME NEW loop, NEW x, LoopOK(loop, x), NEW key \in Timer, NEW at \in Nat, NEW revision \in Nat,
         NEW until \in Time,
         key \in PhaseTimer => /\ key \in Before(match.phase) /\ until = None
                               /\ match.phase = key => match[key] <= at
  PROVE  LoopOK(Schedule(loop, key, at, revision, until), x)
<1> DEFINE s == Schedule(loop, key, at, revision, until)
           rec == NewTimer(at, revision, until)
<1>1. /\ s.timers = [k \in Timer |-> IF k = key THEN rec ELSE loop.timers[k]]
      /\ s.calls = {c \in loop.calls : c.by # key}
  BY ScheduleParts
<1>2. rec \in TimerRecords /\ rec.at = at /\ rec.until = until /\ ~rec.busy
  BY DEF TimerRecords, NewTimer
<1> HIDE DEF s, rec
<1>3. s.timers \in [Timer -> {None} \cup TimerRecords] /\ s.calls \subseteq calls
  BY <1>1, <1>2 DEF LoopOK
<1>4. \A c \in calls : c.by = "cycle" /\ c.by # x => c \in s.calls
  BY <1>1, Constants DEF LoopOK
<1>5. Awaited(s.timers, s.calls, x)
  BY <1>1, <1>2 DEF LoopOK, Awaited
<1>6. TimersInTime(s.timers)
  BY <1>1, <1>2 DEF LoopOK, TimersInTime, PhaseTimer, Timer, MatchTimer
<1> QED
  BY <1>3, <1>4, <1>5, <1>6 DEF LoopOK, s

\* The timers of a row and of a match that an answer tells of.
LEMMA RowTimersOK ==
  ASSUME NEW loop, NEW x, LoopOK(loop, x), NEW r \in Rows, Remindable(r), r.state = "waiting"
  PROVE  /\ LoopOK(RemindTimer(loop, r), x) /\ LoopOK(ExpireTimer(loop, r), x)
<1>1. r.expire_at \in Nat /\ r.expire_at - Lead \in Nat /\ r.revision \in Nat
      /\ r.expire_at \in Time /\ None \in Time
  BY RuntimeAssumption DEF Rows, Remindable, Time
<1>2. "remind" \in Timer \ PhaseTimer /\ "expire" \in Timer \ PhaseTimer
  BY DEF Timer, RowTimer, PhaseTimer
<1> QED
  BY <1>1, <1>2, ScheduleOK DEF RemindTimer, ExpireTimer

\* The timers of a match may be set from what was true of it at some time.
LEMMA MatchTimersOK ==
  ASSUME NEW loop, NEW x, LoopOK(loop, x), NEW m \in Matches, HasDeadline(m), Reached(m, match)
  PROVE  /\ m.phase = "parent" => LoopOK(ParentTimer(loop, m), x)
         /\ m.phase = "report" => LoopOK(ReportTimer(loop, m), x) /\ LoopOK(OpenTimer(loop, m), x)
         /\ m.phase = "approval" => LoopOK(ApprovalTimer(loop, m), x)
<1>1. PhaseTimer \subseteq Timer /\ "open" \in Timer \ PhaseTimer /\ None \in Time /\ Nat \subseteq Time
      /\ 0 \in Nat
  BY DEF Timer, MatchTimer, PhaseTimer, Time
<1>2. ASSUME m.phase \in PhaseTimer
      PROVE  /\ m[m.phase] \in Nat /\ m.phase \in Before(match.phase)
             /\ match.phase = m.phase => match[m.phase] <= m[m.phase]
  BY <1>2 DEF HasDeadline, Reached, GoesOn, PhaseTimer
<1>3. CASE m.phase = "parent"
  BY <1>1, <1>2, <1>3, ScheduleOK DEF ParentTimer, PhaseTimer
<1>4. CASE m.phase = "report"
  <2>1. m.open \in Nat /\ m.report \in Nat
    BY <1>4 DEF HasDeadline
  <2> QED
    BY <1>1, <1>2, <1>4, <2>1, ScheduleOK DEF ReportTimer, OpenTimer, PhaseTimer
<1>5. CASE m.phase = "approval"
  BY <1>1, <1>2, <1>5, ScheduleOK DEF ApprovalTimer, PhaseTimer
<1> QED
  BY <1>3, <1>4, <1>5

\* The timers that there are after one is set, or some are cancelled.
LEMMA CancelLeaves ==
  ASSUME NEW loop, NEW keys, NEW k \in Timer
  PROVE  Cancel(loop, keys).timers[k] = IF k \in keys THEN None ELSE loop.timers[k]
BY DEF Cancel

\* The reminder's timer is set, and no other.
LEMMA RemindLeaves ==
  ASSUME NEW loop, NEW r, NEW k \in Timer
  PROVE  RemindTimer(loop, r).timers[k] =
           IF k = "remind" THEN RemindRecord(r)
           ELSE loop.timers[k]
<1>1. "remind" \in Timer
  BY DEF Timer, RowTimer, MatchTimer
<1>2. RemindTimer(loop, r) = Schedule(loop, "remind", r.expire_at - Lead, r.revision, r.expire_at)
  BY DEF RemindTimer
<1>3. Schedule(loop, "remind", r.expire_at - Lead, r.revision, r.expire_at).timers =
        [j \in Timer |-> IF j = "remind" THEN NewTimer(r.expire_at - Lead, r.revision, r.expire_at) ELSE loop.timers[j]]
  BY <1>1, ScheduleParts
<1> QED
  BY <1>2, <1>3 DEF RemindRecord

\* The row's own timer is set, and no other.
LEMMA ExpireLeaves ==
  ASSUME NEW loop, NEW r, NEW k \in Timer
  PROVE  ExpireTimer(loop, r).timers[k] =
           IF k = "expire" THEN ExpireRecord(r)
           ELSE loop.timers[k]
<1>1. "expire" \in Timer
  BY DEF Timer, RowTimer, MatchTimer
<1>2. ExpireTimer(loop, r) = Schedule(loop, "expire", r.expire_at, r.revision, None)
  BY DEF ExpireTimer
<1>3. Schedule(loop, "expire", r.expire_at, r.revision, None).timers =
        [j \in Timer |-> IF j = "expire" THEN NewTimer(r.expire_at, r.revision, None) ELSE loop.timers[j]]
  BY <1>1, ScheduleParts
<1> QED
  BY <1>2, <1>3 DEF ExpireRecord

\* The parent's timer is set, and no other.
LEMMA ParentLeaves ==
  ASSUME NEW loop, NEW m, NEW k \in Timer
  PROVE  ParentTimer(loop, m).timers[k] =
           IF k = "parent" THEN NewTimer(m.parent, 0, None)
           ELSE loop.timers[k]
<1>1. "parent" \in Timer
  BY DEF Timer, RowTimer, MatchTimer
<1>2. ParentTimer(loop, m) = Schedule(loop, "parent", m.parent, 0, None)
  BY DEF ParentTimer
<1>3. Schedule(loop, "parent", m.parent, 0, None).timers =
        [j \in Timer |-> IF j = "parent" THEN NewTimer(m.parent, 0, None) ELSE loop.timers[j]]
  BY <1>1, ScheduleParts DEF Timer, RowTimer, MatchTimer
<1> QED
  BY <1>2, <1>3

\* The opening's timer is set, and no other.
LEMMA OpenLeaves ==
  ASSUME NEW loop, NEW m, NEW k \in Timer
  PROVE  OpenTimer(loop, m).timers[k] =
           IF k = "open" THEN OpenRecord(m)
           ELSE loop.timers[k]
<1>1. "open" \in Timer
  BY DEF Timer, RowTimer, MatchTimer
<1>2. OpenTimer(loop, m) = Schedule(loop, "open", m.open, 0, m.report)
  BY DEF OpenTimer
<1>3. Schedule(loop, "open", m.open, 0, m.report).timers =
        [j \in Timer |-> IF j = "open" THEN NewTimer(m.open, 0, m.report) ELSE loop.timers[j]]
  BY <1>1, ScheduleParts
<1> QED
  BY <1>2, <1>3 DEF OpenRecord

\* The reports' timer is set, and no other.
LEMMA ReportLeaves ==
  ASSUME NEW loop, NEW m, NEW k \in Timer
  PROVE  ReportTimer(loop, m).timers[k] =
           IF k = "report" THEN NewTimer(m.report, 0, None)
           ELSE loop.timers[k]
<1>1. "report" \in Timer
  BY DEF Timer, RowTimer, MatchTimer
<1>2. ReportTimer(loop, m) = Schedule(loop, "report", m.report, 0, None)
  BY DEF ReportTimer
<1>3. Schedule(loop, "report", m.report, 0, None).timers =
        [j \in Timer |-> IF j = "report" THEN NewTimer(m.report, 0, None) ELSE loop.timers[j]]
  BY <1>1, ScheduleParts
<1> QED
  BY <1>2, <1>3

\* The approvals' timer is set, and no other.
LEMMA ApprovalLeaves ==
  ASSUME NEW loop, NEW m, NEW k \in Timer
  PROVE  ApprovalTimer(loop, m).timers[k] =
           IF k = "approval" THEN NewTimer(m.approval, 0, None)
           ELSE loop.timers[k]
<1>1. "approval" \in Timer
  BY DEF Timer, RowTimer, MatchTimer
<1>2. ApprovalTimer(loop, m) = Schedule(loop, "approval", m.approval, 0, None)
  BY DEF ApprovalTimer
<1>3. Schedule(loop, "approval", m.approval, 0, None).timers =
        [j \in Timer |-> IF j = "approval" THEN NewTimer(m.approval, 0, None) ELSE loop.timers[j]]
  BY <1>1, ScheduleParts
<1> QED
  BY <1>2, <1>3

\* A timer that was set is there.
LEMMA TimerIsThere ==
  ASSUME NEW at \in Nat, NEW until \in Time
  PROVE  NewTimer(at, 0, until) # None
<1>1. NewTimer(at, 0, until) \in TimerRecords
  BY DEF TimerRecords, NewTimer
<1> QED
  BY <1>1, RuntimeAssumption DEF TimerRecords, Time

\* The timers that are said to be set are right, and the others are as they were.
SetRight(c, tm) ==
  /\ "row" \in Sets(c) /\ "row" \in c.answer.fresh => RowSet(tm)
  /\ "match" \in Sets(c) /\ "match" \in c.answer.fresh => MatchSet(tm) /\ FinalClear(tm)
SameTimers(c, tm, new) ==
  /\ "row" \notin Sets(c) => \A k \in RowTimer : new[k] = tm[k]
  /\ "match" \notin Sets(c) => \A k \in MatchTimer : new[k] = tm[k]

\* What has not changed since it was told has the timers that were set for it.
LEMMA FreshMatch ==
  ASSUME NEW a, a.found # "nothing", Told(a), "match" \in a.fresh, NEW tm
  PROVE  /\ /\ a.match.phase \in PhaseTimer /\ tm[a.match.phase] # None
            /\ a.match.phase = "report" =>
                 \/ match.opened \/ ~(clock < match.report)
                 \/ tm["open"] = OpenRecord(a.match)
            => MatchSet(tm) /\ FinalClear(tm)
         /\ a.match.phase = "final" /\ (\A k \in MatchTimer : tm[k] = None) =>
              MatchSet(tm) /\ FinalClear(tm)
<1>1. a.match.phase = match.phase /\ Reached(a.match, match)
  BY DEF Told
<1>2. a.match.phase = "report" => a.match.open = match.open /\ a.match.report = match.report
  BY <1>1 DEF Reached, GoesOn
<1> QED
  BY <1>1, <1>2 DEF MatchSet, FinalClear, OpenRecord, PhaseTimer

\* The same of a row: the reminder's timer matters only before it is sent.
LEMMA FreshRow ==
  ASSUME Orderly, NEW a, a.found # "nothing", Told(a), "row" \in a.fresh, NEW tm
  PROVE  /\ a.row.state # "waiting" => RowSet(tm)
         /\ /\ tm["expire"] = ExpireRecord(a.row)
            /\ row.reminded \/ row.expire_at <= clock \/ tm["remind"] = RemindRecord(a.row)
            => RowSet(tm)
<1>1. SameRow(a.row, row) /\ row.expire_at \in Nat /\ clock \in Nat
  BY DEF Told, Orderly, Typed, Rows
<1> QED
  BY <1>1 DEF RowSet, Live, SameRow, ExpireRecord, RemindRecord

\* What is done with an answer (_schedule_task, _schedule_match_reporting_tasks,
\* _schedule_match_approval_task, _cancel_task) keeps the loop in order, sets
\* what it says it sets, and leaves the rest alone.
LEMMA AfterOK ==
  ASSUME Orderly, NEW loop, NEW c, LoopOK(loop, c.by), Told(c.answer),
         c.answer.fresh \subseteq {"row", "match"}
  PROVE  LET s == After(loop, c)
         IN  /\ LoopOK(s, c.by) /\ SetRight(c, s.timers) /\ SameTimers(c, loop.timers, s.timers)
<1> DEFINE a == c.answer
           s == After(loop, c)
<1>1. /\ RowTimer \subseteq Timer /\ MatchTimer \subseteq Timer /\ Ended(c.does) \subseteq MatchTimer
      /\ RowTimer \cap MatchTimer = {}
  BY DEF Timer, RowTimer, MatchTimer, Ended
<1>2. CASE a.found \in {"joined", "present"}
  <2> DEFINE e == ExpireTimer(loop, a.row)
             er == ExpireRecord(a.row)
             rr == RemindRecord(a.row)
  <2>1. a.row \in Rows /\ Remindable(a.row) /\ a.row.state = "waiting"
    BY <1>2 DEF Told, Says
  <2>2. s = RemindTimer(e, a.row) /\ Sets(c) = {"row"}
    BY <1>2 DEF After, Sets
  <2>3. LoopOK(s, c.by)
    BY <2>1, <2>2, RowTimersOK
  <2>4. \A k \in Timer : e.timers[k] = IF k = "expire" THEN er ELSE loop.timers[k]
    BY ExpireLeaves
  <2>5. \A k \in Timer : s.timers[k] = IF k = "remind" THEN rr ELSE e.timers[k]
    BY <2>2, RemindLeaves
  <2>6. s.timers["expire"] = er /\ s.timers["remind"] = rr
        /\ \A k \in MatchTimer : s.timers[k] = loop.timers[k]
    BY <1>1, <2>4, <2>5 DEF RowTimer, MatchTimer, Timer
  <2> HIDE DEF e, s
  <2>7. SetRight(c, s.timers)
    BY <1>2, <2>2, <2>6, FreshRow DEF SetRight
  <2> QED
    BY <2>2, <2>3, <2>6, <2>7 DEF SameTimers, s
<1>3. CASE a.found \in {"left", "expired"}
  <2>1. s = Cancel(loop, RowTimer) /\ Sets(c) = {"row"}
    BY <1>3 DEF After, Sets
  <2>2. LoopOK(s, c.by) /\ \A k \in MatchTimer : s.timers[k] = loop.timers[k]
    <3>1. LoopOK(s, c.by)
      BY <1>1, <2>1, CancelOK
    <3>2. \A k \in MatchTimer : s.timers[k] = loop.timers[k]
      BY <1>1, <2>1, CancelLeaves
    <3> QED
      BY <3>1, <3>2
  <2> HIDE DEF s
  <2>3. SetRight(c, s.timers)
    BY <1>3, <2>1, FreshRow DEF SetRight, Told, Says
  <2> QED
    BY <2>1, <2>2, <2>3 DEF SameTimers, s
<1>4. CASE a.found = "created"
  <2> DEFINE e == Cancel(loop, RowTimer)
  <2>1. s = ParentTimer(e, a.match) /\ Sets(c) = {"row", "match"}
    BY <1>4 DEF After, Sets
  <2>2. a.match \in Matches /\ HasDeadline(a.match) /\ Reached(a.match, match)
        /\ a.match.phase = "parent" /\ a.row.state = "gone"
    BY <1>4 DEF Told, Says
  <2>3. LoopOK(e, c.by)
    BY <1>1, CancelOK
  <2> HIDE DEF e
  <2>4. LoopOK(s, c.by)
    BY <2>1, <2>2, <2>3, MatchTimersOK
  <2>5. s.timers["parent"] # None
    <3>1. a.match.parent \in Nat /\ None \in Time /\ "parent" \in Timer
      BY <2>2 DEF HasDeadline, Time, Timer, MatchTimer
    <3>2. s.timers["parent"] =
            NewTimer(a.match.parent, 0, None)
      BY <2>1, <3>1, ParentLeaves
    <3> QED
      BY <3>1, <3>2, TimerIsThere
  <2> HIDE DEF s
  <2>6. SetRight(c, s.timers)
    BY <1>4, <2>1, <2>2, <2>5, FreshRow, FreshMatch DEF SetRight, PhaseTimer
  <2> QED
    BY <2>1, <2>4, <2>6 DEF SameTimers, s
<1>5. CASE a.found = "assigned"
  <2> DEFINE e == Cancel(loop, Ended(c.does))
             f == ReportTimer(e, a.match)
             orec == OpenRecord(a.match)
             rrec == NewTimer(a.match.report, 0, None)
  <2>1. s = OpenTimer(f, a.match) /\ Sets(c) = {"match"}
    BY <1>5 DEF After, Sets
  <2>2. a.match \in Matches /\ HasDeadline(a.match) /\ Reached(a.match, match)
        /\ a.match.phase = "report"
    BY <1>5 DEF Told, Says
  <2>3. LoopOK(e, c.by)
    BY <1>1, CancelOK
  <2>4. LoopOK(s, c.by)
    <3> HIDE DEF e
    <3>1. LoopOK(f, c.by)
      BY <2>2, <2>3, MatchTimersOK
    <3> HIDE DEF f
    <3> QED
      BY <2>1, <2>2, <3>1, MatchTimersOK
  <2>5. \A k \in Timer : e.timers[k] = IF k \in Ended(c.does) THEN None ELSE loop.timers[k]
    BY CancelLeaves
  <2> HIDE DEF e
  <2>6. \A k \in Timer : f.timers[k] = IF k = "report" THEN rrec ELSE e.timers[k]
    BY ReportLeaves
  <2> HIDE DEF f
  <2>7. \A k \in Timer : s.timers[k] = IF k = "open" THEN orec ELSE f.timers[k]
    BY <2>1, OpenLeaves
  <2> HIDE DEF s
  <2>8. s.timers["open"] = orec /\ s.timers["report"] = rrec
        /\ \A k \in RowTimer : s.timers[k] = loop.timers[k]
    BY <1>1, <2>5, <2>6, <2>7 DEF RowTimer, MatchTimer, Timer
  <2>9. rrec # None
    BY <2>2, TimerIsThere DEF HasDeadline, Time
  <2> HIDE DEF rrec
  <2>10. SetRight(c, s.timers)
    <3>1. "match" \in a.fresh => MatchSet(s.timers) /\ FinalClear(s.timers)
      BY <1>5, <2>2, <2>8, <2>9, FreshMatch DEF PhaseTimer
    <3> QED
      BY <2>1, <3>1 DEF SetRight
  <2> QED
    BY <2>1, <2>4, <2>8, <2>10 DEF SameTimers, s
<1>6. CASE a.found = "approval"
  <2> DEFINE e == Cancel(loop, Ended(c.does))
             arec == NewTimer(a.match.approval, 0, None)
  <2>1. s = ApprovalTimer(e, a.match) /\ Sets(c) = {"match"}
    BY <1>6 DEF After, Sets
  <2>2. a.match \in Matches /\ HasDeadline(a.match) /\ Reached(a.match, match)
        /\ a.match.phase = "approval"
    BY <1>6 DEF Told, Says
  <2>3. LoopOK(e, c.by)
    BY <1>1, CancelOK
  <2>4. \A k \in Timer : e.timers[k] = IF k \in Ended(c.does) THEN None ELSE loop.timers[k]
    BY CancelLeaves
  <2> HIDE DEF e
  <2>5. LoopOK(s, c.by)
    BY <2>1, <2>2, <2>3, MatchTimersOK
  <2>6. \A k \in Timer : s.timers[k] = IF k = "approval" THEN arec ELSE e.timers[k]
    BY <2>1, ApprovalLeaves
  <2> HIDE DEF s
  <2>7. s.timers["approval"] = arec /\ \A k \in RowTimer : s.timers[k] = loop.timers[k]
    BY <1>1, <2>4, <2>6 DEF RowTimer, MatchTimer, Timer
  <2>8. arec # None
    BY <2>2, TimerIsThere DEF HasDeadline, Time
  <2> HIDE DEF arec
  <2>9. SetRight(c, s.timers)
    <3>1. "match" \in a.fresh => MatchSet(s.timers) /\ FinalClear(s.timers)
      BY <1>6, <2>2, <2>7, <2>8, FreshMatch DEF PhaseTimer
    <3> QED
      BY <2>1, <3>1 DEF SetRight
  <2> QED
    BY <2>1, <2>5, <2>7, <2>9 DEF SameTimers, s
<1>7. CASE a.found = "final"
  <2>1. s = Cancel(loop, MatchTimer) /\ Sets(c) = {"match"}
    BY <1>7 DEF After, Sets
  <2>2. LoopOK(s, c.by) /\ (\A k \in RowTimer : s.timers[k] = loop.timers[k])
        /\ \A k \in MatchTimer : s.timers[k] = None
    <3>1. LoopOK(s, c.by)
      BY <1>1, <2>1, CancelOK
    <3>2. (\A k \in RowTimer : s.timers[k] = loop.timers[k])
          /\ \A k \in MatchTimer : s.timers[k] = None
      BY <1>1, <2>1, CancelLeaves
    <3> QED
      BY <3>1, <3>2
  <2> HIDE DEF s
  <2>3. SetRight(c, s.timers)
    BY <1>7, <2>1, <2>2, FreshMatch DEF SetRight, Told, Says
  <2> QED
    BY <2>1, <2>2, <2>3 DEF SameTimers, s
<1>8. CASE a.found \notin {"joined", "present", "left", "expired", "created", "assigned",
                          "approval", "final"}
  <2>1. s = loop /\ Sets(c) = {}
    BY <1>8 DEF After, Sets
  <2> HIDE DEF s
  <2> QED
    BY <2>1 DEF SetRight, SameTimers, s
<1> QED
  BY <1>2, <1>3, <1>4, <1>5, <1>6, <1>7, <1>8

\* The loop without the call that it goes on with.
LEMMA WithoutOK ==
  ASSUME LoopInv, NEW c \in calls
  PROVE  /\ LoopOK(Without(c), c.by)
         /\ Without(c).timers = timers /\ Without(c).calls = calls \ {c}
<1>1. Without(c).timers = timers /\ Without(c).calls = calls \ {c}
  BY DEF Without
<1>2. Awaited(timers, calls \ {c}, c.by)
  BY Constants DEF LoopInv, Awaited
<1> QED
  BY <1>1, <1>2 DEF LoopInv, LoopOK

\* The invariant, part by part.
LEMMA LoopFacts ==
  ASSUME LoopInv
  PROVE  /\ Orderly /\ SweepInv /\ \A c \in calls : IsCall(c) /\ CallOK(c)
         /\ clock \in Nat /\ failures \in Nat
         /\ Awaited(timers, calls, None) /\ TimersInTime(timers) /\ Kept(timers, calls, synced)
         /\ timers \in [Timer -> {None} \cup TimerRecords]
BY DEF LoopInv, Orderly, SweepInv, Typed

\* Somebody asks: what is left to show is that the timers are kept.
LEMMA AskStep ==
  ASSUME LoopInv, SweepInv', NEW does \in Command \cup Sweep \cup Timer, NEW by \in Asker,
         NEW seen, NEW o, NEW others, NEW known, Timely(o), IsAnswer(seen),
         Ask(does, by, seen, others, known, o), others \subseteq calls,
         by \in Timer => TimerGets(by, does, o), by = "cycle" => CycleGets(does, seen, o),
         timers' \in [Timer -> {None} \cup TimerRecords],
         Awaited(timers', others, by), by \in Timer => timers'[by] # None /\ timers'[by].busy,
         TimersInTime(timers'), known \subseteq {"row", "match"},
         {commands', failures', downs', clock'} \subseteq Nat, UNCHANGED clock,
         Kept(timers, calls, synced)'
  PROVE  LoopInv'
<1>1. /\ Orderly /\ \A c \in others : IsCall(c) /\ CallOK(c)
  BY LoopFacts
<1>2. row' = o.row /\ match' = o.match
  BY DEF Ask
<1>3. (\A c \in calls' : CallOK(c)') /\ Awaited(timers', calls', None)
  BY <1>1, CallsAfter
<1>4. TimersInTime(timers)'
  BY <1>1, <1>2, InTimeAfter
<1>5. synced' \subseteq known
  BY DEF Ask
<1>6. Remindable(row)' /\ InOrder(match)'
  BY <1>2 DEF Timely, Remindable, InOrder
<1>7. Awaited(timers, calls, None)'
  BY <1>3 DEF Awaited
<1>8. \A c \in calls' : CallOK(c)'
  BY <1>3
<1> QED
  BY <1>4, <1>5, <1>6, <1>7, <1>8 DEF LoopInv

\* What a service has done is not the loop's concern when it goes on without
\* asking again: the timers are what is left to look at.
LEMMA NoAskStep ==
  ASSUME LoopInv, SweepInv', calls' \subseteq calls, UNCHANGED <<row, match, clock>>,
         timers' \in [Timer -> {None} \cup TimerRecords], TimersInTime(timers'),
         Awaited(timers', calls', None), synced' \subseteq {"row", "match"},
         {commands', failures', downs', clock'} \subseteq Nat,
         Kept(timers, calls, synced)'
  PROVE  LoopInv'
<1>1. ASSUME NEW c \in calls
      PROVE  CallOK(c)'
  <2>1. CallOK(c)
    BY DEF LoopInv
  <2> QED
    BY <2>1 DEF CallOK, Told, Reached, GoesOn, SameRow, TimerAsks, CycleAsksFor
<1>2. TimersInTime(timers)' /\ Awaited(timers, calls, None)'
  BY DEF TimersInTime, Awaited
<1>3. Remindable(row)' /\ InOrder(match)'
  BY DEF LoopInv, Remindable, InOrder
<1> QED
  BY <1>1, <1>2, <1>3 DEF LoopInv

\* A command asks, and the timers wait.
LEMMA RequestStep ==
  ASSUME LoopInv, SweepInv', NEW u \in Users, NEW does \in Command, Request(u, does)
  PROVE  LoopInv'
<1>1. PICK o \in Outcomes(does, 0) : Ask(does, u, Unseen, calls, synced, o)
  BY DEF Request
<1>3. Timely(o)
  BY LoopFacts, OutcomesTimely
<1>4. u \in Asker /\ u \notin Timer /\ u # "cycle"
  BY RuntimeAssumption DEF Asker
<1>5. UNCHANGED <<timers, cycle, failures, downs, clock>> /\ commands' = commands + 1
  BY DEF Request
<1>6. Awaited(timers', calls, u) /\ timers' \in [Timer -> {None} \cup TimerRecords]
      /\ TimersInTime(timers') /\ Kept(timers', calls, synced)
  BY <1>4, <1>5, Constants DEF LoopInv, Awaited
<1>7. Kept(timers, calls, synced)'
  BY <1>1, <1>3, <1>5, <1>6, KeptAfter, LoopFacts, UnseenIsAnswer
<1>8. {commands', failures', downs', clock'} \subseteq Nat /\ synced \subseteq {"row", "match"}
  BY <1>5 DEF LoopInv
<1> QED
  BY <1>1, <1>3, <1>4, <1>5, <1>6, <1>7, <1>8, AskStep, UnseenIsAnswer

\* A timer ends the phase that it was set for, when there is one to end.
LEMMA DeadlineEnds ==
  ASSUME LoopInv, NEW k \in PhaseTimer, Due(k), NEW v, NEW o \in Outcomes(k, v)
  PROVE  k # o.match.phase /\ k \in Before(o.match.phase)
<1>1. timers[k] # None /\ timers[k].at <= clock
  BY DEF Due
<1>2. timers[k].at \in Nat /\ clock \in Nat
  BY <1>1 DEF LoopInv, TimerRecords, PhaseTimer, Timer, RowTimer, MatchTimer
<1>3. k \in Before(match.phase) /\ (match.phase = k => match[k] <= timers[k].at)
  BY <1>1 DEF LoopInv, TimersInTime
<1>4. k \in Timer /\ k \in Phase
  BY DEF PhaseTimer, Phase, Timer, RowTimer, MatchTimer
<1>5. Typed /\ Orderly
  BY LoopFacts DEF Orderly
<1>6. Sound(o)
  BY <1>4, <1>5, OutcomesSound
<1>7. match.phase = k => match[k] <= clock
  <2>1. match.phase = k => match[k] \in Nat
    BY <1>5 DEF Typed, HasDeadline, PhaseTimer
  <2> QED
    BY <1>1, <1>2, <1>3, <2>1
<1>8. match.phase = k => o.match.phase # k
  <2>1. CASE k = "parent"
    BY <1>5, <1>7, <2>1, ParentDeadlineSound DEF Outcomes
  <2>2. CASE k = "report"
    BY <1>5, <1>7, <2>2, ReportDeadlineSound DEF Outcomes
  <2>3. CASE k = "approval"
    BY <1>5, <1>7, <2>3, ApprovalDeadlineSound DEF Outcomes
  <2> QED
    BY <2>1, <2>2, <2>3 DEF PhaseTimer
<1>9. /\ match.phase \in Before(o.match.phase) /\ match.phase \in Phase
      /\ o.match.phase \in Phase
  BY <1>5, <1>6 DEF Sound, GoesOn, Typed, Matches
<1> QED
  BY <1>3, <1>4, <1>8, <1>9, PhasesInOrder

\* A timer gets what it is for.
LEMMA TimerFinds ==
  ASSUME LoopInv, NEW k \in Timer, Due(k), NEW o \in Outcomes(k, timers[k].revision)
  PROVE  TimerGets(k, k, o)
<1>1. Orderly
  BY LoopFacts
<1>2. CASE k = "expire"
  BY <1>1, <1>2, RowTimersFind DEF Outcomes, TimerGets, PhaseTimer
<1>3. CASE k = "remind"
  BY <1>1, <1>3, RowTimersFind DEF Outcomes, TimerGets, PhaseTimer
<1>4. CASE k = "open"
  BY <1>1, <1>4, OpenTimely DEF Outcomes, TimerGets, PhaseTimer
<1>5. CASE k \in PhaseTimer
  <2>1. o.found \in {"assigned", "approval", "final", "nothing"}
    BY <1>1, <1>5, DeadlinesTimely DEF Outcomes, PhaseTimer
  <2> QED
    BY <1>5, <2>1, DeadlineEnds DEF TimerGets, PhaseTimer
<1> QED
  BY <1>2, <1>3, <1>4, <1>5 DEF Timer, RowTimer, MatchTimer, PhaseTimer

\* A timer that has fired was right for what it has found, if it was right at all.
LEMMA FiredKept ==
  ASSUME LoopInv, NEW k \in Timer, Due(k), NEW o \in Outcomes(k, timers[k].revision),
         Timely(o), row' = o.row, match' = o.match, UNCHANGED <<clock, failures>>,
         timers' = [timers EXCEPT ![k].busy = TRUE]
  PROVE  /\ RowSet(timers) /\ ~RowMoves(o) => RowSet(timers)'
         /\ MatchSet(timers) /\ ~MatchMoves(o) => MatchSet(timers)'
         /\ FinalClear(timers) /\ ~MatchMoves(o) => FinalClear(timers)'
<1>1. /\ Orderly /\ clock \in Nat /\ timers \in [Timer -> {None} \cup TimerRecords]
      /\ timers[k] # None /\ timers[k].at <= clock
  BY LoopFacts DEF Due
<1>2. timers[k] \in TimerRecords
  BY <1>1
<1>3. \A j \in Timer : /\ j # k => timers'[j] = timers[j]
                       /\ timers'[k] # None
  BY <1>1, <1>2, RuntimeAssumption DEF TimerRecords, Time
<1>4. /\ "expire" \in Timer /\ "remind" \in Timer /\ "open" \in Timer
      /\ PhaseTimer \subseteq Timer \ {"expire", "remind", "open"}
  BY DEF Timer, RowTimer, MatchTimer, PhaseTimer
<1>5. ASSUME RowSet(timers), ~RowMoves(o)
      PROVE  RowSet(timers)'
  <2>1. SameRow(row, row') /\ row \in Rows /\ row' \in Rows
    BY <1>1, <1>5 DEF Timely, RowMoves, Sound, Orderly, Typed
  <2> SUFFICES ASSUME Live PROVE RowSet(timers)'
    BY <2>1 DEF RowSet, Live, SameRow
  <2>2. timers["expire"] = ExpireRecord(row) /\ row.expire_at \in Nat /\ clock < row.expire_at
    BY <1>5, <2>1 DEF RowSet, Live, Rows
  <2>3. k # "expire"
    BY <1>1, <2>2 DEF ExpireRecord, NewTimer
  <2>4. timers'["expire"] = ExpireRecord(row)
    BY <1>3, <1>4, <2>2, <2>3
  <2>5. CASE k = "remind"
    <3>1. CASE timers["remind"] = RemindRecord(row)
      <4>1. timers[k].revision = row.revision /\ row.expire_at - Lead <= clock
        BY <1>1, <2>5, <3>1 DEF RemindRecord, NewTimer
      <4>2. o \in ProcessPresenceReminder(row.revision)
        BY <2>5, <4>1 DEF Outcomes
      <4>3. row'.reminded
        BY <1>1, <4>1, <4>2, RowTimersFind
      <4> QED
        BY <2>1, <2>4, <4>3 DEF RowSet, SameRow, ExpireRecord
    <3>2. CASE row.reminded
      BY <2>1, <2>4, <3>2 DEF RowSet, SameRow, ExpireRecord
    <3>3. CASE ~(clock < row.expire_at - Lead \/ failures = 0)
      BY <2>1, <2>4, <3>3 DEF RowSet, SameRow, ExpireRecord
    <3> QED
      BY <1>5, <3>1, <3>2, <3>3 DEF RowSet
  <2>6. CASE k # "remind"
    <3>1. timers'["remind"] = timers["remind"]
      BY <1>3, <1>4, <2>6
    <3> QED
      BY <1>5, <2>1, <2>4, <3>1 DEF RowSet, SameRow, ExpireRecord, RemindRecord, Rows
  <2> QED
    BY <2>5, <2>6
<1>6. ASSUME MatchSet(timers), ~MatchMoves(o)
      PROVE  MatchSet(timers)'
  <2>1. match'.phase = match.phase /\ match.opened \in BOOLEAN /\ match'.opened \in BOOLEAN
    BY <1>1, <1>6 DEF MatchMoves, Timely, Sound, Orderly, Typed, Matches
  <2>2. match.phase = "report" =>
          match'.open = match.open /\ match'.report = match.report /\ (match.opened => match'.opened)
    BY <2>1 DEF Timely, Reached, GoesOn
  <2>3. match'.phase \in PhaseTimer => timers'[match'.phase] # None
    BY <1>3, <1>4, <1>6, <2>1 DEF MatchSet
  <2>4. CASE k # "open"
    <3>1. timers'["open"] = timers["open"]
      BY <1>3, <1>4, <2>4
    <3> QED
      BY <1>6, <2>1, <2>2, <2>3, <3>1 DEF MatchSet, OpenRecord
  <2>5. CASE k = "open"
    <3>1. o \in ProcessReportOpen
      BY <2>5 DEF Outcomes
    <3>2. ASSUME match.phase = "report", ~match.opened, clock < match.report,
                 clock < match.open \/ failures = 0
          PROVE  match'.opened
      <4>1. timers["open"] = OpenRecord(match)
        BY <1>6, <3>2 DEF MatchSet
      <4>2. match.open <= clock
        BY <1>1, <2>5, <4>1 DEF OpenRecord, NewTimer
      <4> QED
        BY <1>1, <3>1, <3>2, <4>2, OpenTimely
    <3> QED
      BY <2>1, <2>2, <2>3, <3>2 DEF MatchSet
  <2> QED
    BY <2>4, <2>5
<1>7. ASSUME FinalClear(timers), ~MatchMoves(o)
      PROVE  FinalClear(timers)'
  <2>1. MatchTimer \subseteq Timer
    BY DEF Timer
  <2> QED
    BY <1>1, <1>3, <1>7, <2>1 DEF FinalClear, MatchMoves
<1> QED
  BY <1>5, <1>6, <1>7

\* A timer fires: it is busy now, and asks for what it is for.
LEMMA FireStep ==
  ASSUME LoopInv, SweepInv', NEW k \in Timer, Fire(k)
  PROVE  LoopInv'
<1>1. PICK o \in Outcomes(k, timers[k].revision) : Ask(k, k, Unseen, calls, synced, o)
  BY DEF Fire
<1>2. Orderly /\ Due(k) /\ timers \in [Timer -> {None} \cup TimerRecords]
  BY LoopFacts DEF Fire
<1>3. Timely(o) /\ TimerGets(k, k, o)
  BY <1>2, OutcomesTimely, TimerFinds
<1>4. k \in Asker /\ k # "cycle" /\ k # None
  BY Constants DEF Asker
<1>5. UNCHANGED <<cycle, failures, downs, clock, commands>>
      /\ timers' = [timers EXCEPT ![k].busy = TRUE]
  BY DEF Fire
<1>6. timers[k] # None /\ ~timers[k].busy /\ timers[k] \in TimerRecords
  BY <1>2 DEF Due
<1>7. /\ timers'[k] \in TimerRecords /\ timers'[k].busy
      /\ timers'[k].at = timers[k].at /\ timers'[k].until = timers[k].until
      /\ timers' \in [Timer -> {None} \cup TimerRecords]
      /\ \A j \in Timer : j # k => timers'[j] = timers[j]
  BY <1>2, <1>5, <1>6 DEF TimerRecords
<1>8. timers'[k] # None
  BY <1>7, RuntimeAssumption DEF TimerRecords, Time
<1>9. Awaited(timers', calls, k)
  BY <1>4, <1>6, <1>7, LoopFacts, Constants DEF Awaited
<1>10. TimersInTime(timers')
  BY <1>6, <1>7, LoopFacts DEF TimersInTime, PhaseTimer, Timer, MatchTimer
<1>11. Kept(timers, calls, synced)'
  <2>1. PICK moved, new :
          /\ moved \subseteq {"row", "match"}
          /\ "row" \in moved <=> RowMoves(o)
          /\ "match" \in moved <=> MatchMoves(o)
          /\ synced' = synced \ moved
          /\ calls' = {Overtaken(c, moved) : c \in calls} \cup {new}
    BY <1>1, Asked, UnseenIsAnswer
  <2>2. row' = o.row /\ match' = o.match
    BY <1>1 DEF Ask
  <2>3. /\ RowSet(timers) /\ ~RowMoves(o) => RowSet(timers)'
        /\ MatchSet(timers) /\ ~MatchMoves(o) => MatchSet(timers)'
        /\ FinalClear(timers) /\ ~MatchMoves(o) => FinalClear(timers)'
    BY <1>2, <1>3, <1>5, <2>2, FiredKept
  <2>4. /\ "row" \notin moved /\ RowToCome(calls) => RowToCome(calls)'
        /\ "match" \notin moved /\ MatchToCome(calls) => MatchToCome(calls)'
    BY <1>5, <2>1, LoopFacts, ToComeAfter
  <2> QED
    BY <2>1, <2>3, <2>4, LoopFacts DEF Kept
<1>12. {commands', failures', downs', clock'} \subseteq Nat /\ synced \subseteq {"row", "match"}
  BY <1>5 DEF LoopInv
<1> QED
  BY <1>1, <1>3, <1>4, <1>5, <1>7, <1>8, <1>9, <1>10, <1>11, <1>12, AskStep, UnseenIsAnswer

\* A timer fails and is tried again, or is given up when its time is over.
LEMMA FireInVainStep ==
  ASSUME LoopInv, SweepInv', NEW k \in Timer, FireInVain(k)
  PROVE  LoopInv'
<1>1. /\ UNCHANGED <<row, match, calls, cycle, synced, commands, downs, clock>>
      /\ failures' = failures + 1 /\ timers' = [timers EXCEPT ![k] = Retry(k)] /\ Due(k)
  BY DEF FireInVain
<1>2. /\ timers[k] # None /\ ~timers[k].busy /\ timers[k].at <= clock
      /\ timers[k] \in TimerRecords /\ clock \in Nat /\ failures \in Nat
      /\ timers \in [Timer -> {None} \cup TimerRecords]
  BY <1>1, LoopFacts DEF Due
<1>3. \/ Retry(k) = None /\ timers[k].until # None
      \/ /\ Retry(k) \in TimerRecords /\ ~Retry(k).busy /\ Retry(k).until = timers[k].until
         /\ clock <= Retry(k).at
  <2> DEFINE next == IF clock < MaxClock THEN clock + 1 ELSE clock
             again == [timers[k] EXCEPT !.at = next]
  <2>1. next \in Nat /\ clock <= next
    BY <1>2
  <2> HIDE DEF next
  <2>2. again \in TimerRecords /\ ~again.busy /\ again.until = timers[k].until /\ again.at = next
    BY <1>2, <2>1 DEF TimerRecords
  <2>3. Retry(k) = IF timers[k].until # None /\ next >= timers[k].until THEN None ELSE again
    BY DEF Retry, next
  <2> HIDE DEF again
  <2> QED
    BY <2>1, <2>2, <2>3
<1>4. PICK retry \in {None} \cup TimerRecords :
        /\ retry = Retry(k)
        /\ retry # None => ~retry.busy /\ retry.until = timers[k].until /\ clock <= retry.at
        /\ retry = None => timers[k].until # None
  BY <1>3, RuntimeAssumption DEF TimerRecords, Time
<1>13. /\ timers' \in [Timer -> {None} \cup TimerRecords] /\ timers'[k] = retry
       /\ \A j \in Timer : j # k => timers'[j] = timers[j]
  BY <1>1, <1>2, <1>4
<1>5. Awaited(timers', calls', None)
  BY <1>1, <1>2, <1>4, <1>13, LoopFacts DEF Awaited
<1>6. TimersInTime(timers')
  <2> SUFFICES ASSUME NEW p \in PhaseTimer, timers'[p] # None
               PROVE  /\ p \in Before(match.phase) /\ timers'[p].until = None
                      /\ match.phase = p => match[p] <= timers'[p].at
    BY DEF TimersInTime
  <2>1. p \in Timer /\ (match.phase = p => match[p] \in Nat)
    BY LoopFacts DEF PhaseTimer, Timer, MatchTimer, Orderly, Typed, HasDeadline
  <2>2. timers[p] # None => /\ p \in Before(match.phase) /\ timers[p].until = None
                            /\ match.phase = p => match[p] <= timers[p].at
    BY LoopFacts DEF TimersInTime
  <2>3. CASE p = k
    <3>1. timers[k].at \in Nat /\ retry \in TimerRecords /\ retry.at \in Nat
      BY <1>2, <1>4, <1>13, <2>3 DEF TimerRecords
    <3> QED
      BY <1>2, <1>4, <1>13, <2>1, <2>2, <2>3, <3>1
  <2>4. CASE p # k
    BY <1>4, <1>13, <2>1, <2>2, <2>4
  <2> QED
    BY <2>3, <2>4
<1>7. failures' # 0 /\ failures' \in Nat
  BY <1>1, <1>2
<1>8. RowSet(timers) => RowSet(timers)'
  <2> SUFFICES ASSUME RowSet(timers), Live PROVE RowSet(timers)'
    BY <1>1 DEF RowSet, Live
  <2>1. "expire" \in Timer /\ "remind" \in Timer /\ row.expire_at \in Nat /\ clock < row.expire_at
        /\ timers["expire"] = ExpireRecord(row)
    BY LoopFacts DEF Timer, RowTimer, Orderly, Typed, Rows, Live, RowSet
  <2>2. k # "expire"
    BY <1>2, <2>1 DEF ExpireRecord, NewTimer
  <2>3. ASSUME ~row.reminded, clock < row.expire_at - Lead
        PROVE  timers'["remind"] = RemindRecord(row)
    <3>1. timers["remind"] = RemindRecord(row)
      BY <2>3 DEF RowSet
    <3>2. Lead \in Nat
      BY Constants
    <3>3. k # "remind"
      BY <1>2, <2>1, <2>3, <3>1, <3>2 DEF RemindRecord, NewTimer
    <3> QED
      BY <1>4, <1>13, <2>1, <3>1, <3>3
  <2> QED
    BY <1>1, <1>4, <1>13, <1>7, <2>1, <2>2, <2>3 DEF RowSet, Live, ExpireRecord, RemindRecord
<1>9. MatchSet(timers) => MatchSet(timers)'
  <2> SUFFICES ASSUME MatchSet(timers) PROVE MatchSet(timers)'
    OBVIOUS
  <2>1. "open" \in Timer /\ PhaseTimer \subseteq Timer
    BY DEF Timer, MatchTimer, PhaseTimer
  <2>2. match.phase \in PhaseTimer => timers'[match.phase] # None
    <3> SUFFICES ASSUME match.phase \in PhaseTimer PROVE timers'[match.phase] # None
      OBVIOUS
    <3>1. timers[match.phase] # None /\ timers[match.phase].until = None
      BY LoopFacts DEF MatchSet, TimersInTime
    <3> QED
      BY <1>4, <1>13, <2>1, <3>1
  <2>3. ASSUME match.phase = "report", ~match.opened, clock < match.open, clock < match.report
        PROVE  timers'["open"] = OpenRecord(match)
    <3>1. timers["open"] = OpenRecord(match)
      BY <2>3 DEF MatchSet
    <3>2. match.open \in Nat
      BY <2>3, LoopFacts DEF Orderly, Typed, HasDeadline
    <3>3. k # "open"
      BY <1>2, <2>3, <3>1, <3>2 DEF OpenRecord, NewTimer
    <3> QED
      BY <1>4, <1>13, <2>1, <3>1, <3>3
  <2> QED
    BY <1>1, <1>7, <2>2, <2>3 DEF MatchSet, OpenRecord
<1>10. FinalClear(timers) => FinalClear(timers)'
  <2>1. MatchTimer \subseteq Timer
    BY DEF Timer
  <2> QED
    BY <1>1, <1>2, <1>4, <1>13, <2>1 DEF FinalClear
<1>11. Kept(timers, calls, synced)'
  BY <1>1, <1>8, <1>9, <1>10, LoopFacts DEF Kept, RowToCome, MatchToCome, RowFirst, MatchFirst
<1>12. {commands', failures', downs', clock'} \subseteq Nat /\ synced' \subseteq {"row", "match"}
       /\ calls' \subseteq calls
  BY <1>1, <1>7 DEF LoopInv
<1> QED
  BY <1>1, <1>4, <1>13, <1>5, <1>6, <1>11, <1>12, NoAskStep

\* What is up to date when an answer has been gone on with.
LEMMA AfterKept ==
  ASSUME LoopInv, NEW c \in calls
  PROVE  LET loop == After(Without(c), c)
             known == Sync(c.answer, Sets(c))
         IN  /\ LoopOK(loop, c.by)
             /\ SetRight(c, loop.timers) /\ SameTimers(c, timers, loop.timers)
             /\ "row" \in known => RowSet(loop.timers) \/ RowToCome(calls)
             /\ "match" \in known => MatchSet(loop.timers) \/ MatchToCome(calls)
             /\ "match" \in known => FinalClear(loop.timers)
             /\ known \subseteq {"row", "match"}
<1> DEFINE loop == After(Without(c), c)
           known == Sync(c.answer, Sets(c))
<1>1. CallOK(c) /\ Orderly /\ LoopOK(Without(c), c.by) /\ Without(c).timers = timers
  BY LoopFacts, WithoutOK
<1>2. Told(c.answer) /\ c.answer.fresh \subseteq {"row", "match"}
  BY <1>1 DEF CallOK
<1>3. LoopOK(loop, c.by) /\ SetRight(c, loop.timers) /\ SameTimers(c, timers, loop.timers)
  BY <1>1, <1>2, AfterOK
<1> HIDE DEF loop
<1>4. "row" \in known => RowSet(loop.timers) \/ RowToCome(calls)
  <2>1. CASE "row" \in Sets(c)
    BY <1>3, <2>1 DEF Sync, SetRight
  <2>2. CASE "row" \notin Sets(c)
    BY <1>3, <2>2, LoopFacts DEF Sync, SameTimers, Kept, RowSet, RowTimer
  <2> QED
    BY <2>1, <2>2
<1>5. "match" \in known => (MatchSet(loop.timers) \/ MatchToCome(calls)) /\ FinalClear(loop.timers)
  <2>1. CASE "match" \in Sets(c)
    BY <1>3, <2>1 DEF Sync, SetRight
  <2>2. CASE "match" \notin Sets(c)
    BY <1>3, <2>2, LoopFacts DEF Sync, SameTimers, Kept, MatchSet, FinalClear, MatchTimer, PhaseTimer
  <2> QED
    BY <2>1, <2>2
<1>6. known \subseteq {"row", "match"}
  BY <1>2 DEF Sync, LoopInv
<1> QED
  BY <1>3, <1>4, <1>5, <1>6 DEF loop

\* A command is gone on with, and a join may go on to make matches.
LEMMA RespondStep ==
  ASSUME LoopInv, SweepInv', NEW c \in calls, Respond(c)
  PROVE  LoopInv'
<1> DEFINE loop == After(Without(c), c)
           known == Sync(c.answer, Sets(c))
<1>1. /\ timers' = loop.timers /\ UNCHANGED <<cycle, commands, failures, downs, clock>>
      /\ c.by \in Users
      /\ \/ calls' = loop.calls /\ synced' = known /\ UNCHANGED <<row, match>>
         \/ \E o \in TryCreateMatches : Ask("create", c.by, Unseen, loop.calls, known, o)
  BY DEF Respond
<1>2. /\ LoopOK(loop, c.by) /\ known \subseteq {"row", "match"}
      /\ "row" \in known => RowSet(loop.timers) \/ RowToCome(calls)
      /\ "match" \in known => MatchSet(loop.timers) \/ MatchToCome(calls)
      /\ "match" \in known => FinalClear(loop.timers)
  BY AfterKept
<1> HIDE DEF loop, known
<1>3. c.by \in Asker /\ c.by \notin Timer /\ c.by # "cycle"
  BY <1>1, RuntimeAssumption DEF Asker
<1>4. \A d \in calls : d.by = "cycle" => d \in loop.calls
  BY <1>2, <1>3 DEF LoopOK
<1>5. Kept(timers', loop.calls, known)
  BY <1>1, <1>2, <1>4 DEF Kept, RowToCome, MatchToCome
<1>6. /\ timers' \in [Timer -> {None} \cup TimerRecords] /\ TimersInTime(timers')
      /\ Awaited(timers', loop.calls, c.by) /\ loop.calls \subseteq calls
  BY <1>1, <1>2 DEF LoopOK
<1>7. {commands', failures', downs', clock'} \subseteq Nat
  BY <1>1 DEF LoopInv
<1>8. CASE calls' = loop.calls /\ synced' = known /\ UNCHANGED <<row, match>>
  <2>1. Awaited(timers', calls', None)
    BY <1>3, <1>6, <1>8, Constants DEF Awaited
  <2>2. Kept(timers, calls, synced)'
    BY <1>1, <1>5, <1>8 DEF Kept, RowSet, MatchSet, FinalClear, Live, ExpireRecord, RemindRecord,
       OpenRecord, RowToCome, MatchToCome, RowFirst, MatchFirst
  <2> QED
    BY <1>1, <1>2, <1>6, <1>7, <1>8, <2>1, <2>2, NoAskStep
<1>9. CASE \E o \in TryCreateMatches : Ask("create", c.by, Unseen, loop.calls, known, o)
  <2>1. PICK o \in TryCreateMatches : Ask("create", c.by, Unseen, loop.calls, known, o)
    BY <1>9
  <2>2. Timely(o) /\ Orderly
    BY CreateTimely, LoopFacts
  <2>3. \A d \in loop.calls : IsCall(d)
    BY <1>6, LoopFacts
  <2>4. Kept(timers, calls, synced)'
    BY <1>1, <1>5, <2>1, <2>2, <2>3, KeptAfter, UnseenIsAnswer
  <2>5. "create" \in Command \cup Sweep \cup Timer
    BY DEF Sweep
  <2> QED
    BY <1>1, <1>2, <1>3, <1>6, <1>7, <2>1, <2>2, <2>4, <2>5, AskStep, UnseenIsAnswer
<1> QED
  BY <1>1, <1>8, <1>9

\* A timer whose call is gone on with has fired, so it was not among those that
\* were right, and it is not the one that the phase of now needs.
LEMMA TimerDoneStep ==
  ASSUME LoopInv, SweepInv', NEW c \in calls, TimerDone(c)
  PROVE  LoopInv'
<1> DEFINE loop == After(Without(c), c)
           known == Sync(c.answer, Sets(c))
           k == c.by
<1>1. /\ timers' = [loop.timers EXCEPT ![k] = None] /\ calls' = loop.calls /\ synced' = known
      /\ UNCHANGED <<row, match, cycle, commands, failures, downs, clock>> /\ k \in Timer
  BY DEF TimerDone
<1>2. /\ LoopOK(loop, k) /\ known \subseteq {"row", "match"}
      /\ SetRight(c, loop.timers) /\ SameTimers(c, timers, loop.timers)
      /\ "row" \in known => RowSet(loop.timers) \/ RowToCome(calls)
      /\ "match" \in known => MatchSet(loop.timers) \/ MatchToCome(calls)
      /\ "match" \in known => FinalClear(loop.timers)
  BY AfterKept
<1> HIDE DEF loop
<1>3. TimerAsks(c) /\ Told(c.answer) /\ timers[k] # None /\ timers[k].busy
  BY <1>1, LoopFacts, Constants DEF CallOK, Awaited
<1>4. /\ timers' \in [Timer -> {None} \cup TimerRecords] /\ timers'[k] = None
      /\ \A j \in Timer : j # k => timers'[j] = loop.timers[j]
  BY <1>1, <1>2 DEF LoopOK
<1>5. calls' \subseteq calls /\ \A d \in calls : d.by = "cycle" => d \in calls'
  BY <1>1, <1>2, Constants DEF LoopOK
<1>6. TimersInTime(timers')
  <2>1. PhaseTimer \subseteq Timer
    BY DEF PhaseTimer, Timer, MatchTimer
  <2> QED
    BY <1>2, <1>4, <2>1 DEF LoopOK, TimersInTime
<1>7. Awaited(timers', calls', None)
  BY <1>1, <1>2, <1>4, Constants DEF LoopOK, Awaited
<1>8. /\ "expire" \in RowTimer /\ "remind" \in RowTimer /\ "open" \in MatchTimer
      /\ PhaseTimer \subseteq MatchTimer /\ RowTimer \cap MatchTimer = {}
      /\ RowTimer \subseteq Timer /\ MatchTimer \subseteq Timer /\ "open" \notin PhaseTimer
  BY DEF Timer, RowTimer, MatchTimer, PhaseTimer
<1>9. ASSUME "row" \in known, ~RowToCome(calls)
      PROVE  RowSet(timers')
  <2> SUFFICES ASSUME Live PROVE RowSet(timers')
    BY DEF RowSet
  <2>1. RowSet(loop.timers)
    BY <1>2, <1>9
  <2>2. CASE k \in RowTimer
    <3>1. "row" \notin Sets(c)
      <4>1. ASSUME "row" \in Sets(c)
            PROVE  FALSE
        <5>1. c.answer.found \in {"joined", "present", "left", "expired", "created"}
          BY <4>1 DEF Sets
        <5>2. c.answer.found = "expired"
          BY <1>3, <2>2, <5>1 DEF TimerAsks, RowTimer
        <5>3. "row" \in c.answer.fresh
          BY <1>9, <4>1 DEF Sync
        <5> QED
          BY <1>3, <5>2, <5>3 DEF Told, Says, SameRow, Live
      <4> QED
        BY <4>1
    <3>2. loop.timers[k] = timers[k]
      BY <1>2, <2>2, <3>1 DEF SameTimers
    <3>3. k # "expire"
      BY <1>3, <2>1, <3>2 DEF RowSet, ExpireRecord, NewTimer
    <3>4. loop.timers["remind"] # RemindRecord(row)
      BY <1>3, <2>2, <3>2, <3>3 DEF RowTimer, RemindRecord, NewTimer
    <3> QED
      BY <1>4, <1>8, <2>1, <3>3, <3>4 DEF RowSet
  <2>3. CASE k \notin RowTimer
    BY <1>4, <1>8, <2>1, <2>3 DEF RowSet
  <2> QED
    BY <2>2, <2>3
<1>10. ASSUME "match" \in known, ~MatchToCome(calls)
       PROVE  MatchSet(timers')
  <2>1. MatchSet(loop.timers)
    BY <1>2, <1>10
  <2>2. match.phase \in PhaseTimer => match.phase # k
    BY <1>3 DEF TimerAsks
  <2>3. k = "open" => loop.timers["open"] # OpenRecord(match)
    <3> SUFFICES ASSUME k = "open" PROVE loop.timers["open"] # OpenRecord(match)
      OBVIOUS
    <3>1. "match" \notin Sets(c)
      BY <1>3 DEF TimerAsks, Sets
    <3>2. loop.timers["open"] = timers["open"]
      BY <1>2, <1>8, <3>1 DEF SameTimers
    <3> QED
      BY <1>3, <3>2 DEF OpenRecord, NewTimer
  <2> QED
    BY <1>4, <1>8, <2>1, <2>2, <2>3 DEF MatchSet
<1>11. "match" \in known => FinalClear(timers')
  BY <1>2, <1>4, <1>8 DEF FinalClear
<1>12. Kept(timers, calls, synced)'
  <2>1. /\ RowToCome(calls) => RowToCome(calls)'
        /\ MatchToCome(calls) => MatchToCome(calls)'
    BY <1>1, <1>5 DEF RowToCome, MatchToCome, RowFirst, MatchFirst
  <2>2. /\ RowSet(timers') => RowSet(timers)'
        /\ MatchSet(timers') => MatchSet(timers)'
        /\ FinalClear(timers') => FinalClear(timers)'
    BY <1>1 DEF RowSet, MatchSet, FinalClear, Live, ExpireRecord, RemindRecord, OpenRecord
  <2> QED
    BY <1>1, <1>9, <1>10, <1>11, <2>1, <2>2 DEF Kept
<1>13. {commands', failures', downs', clock'} \subseteq Nat
  BY <1>1 DEF LoopInv
<1> QED
  BY <1>1, <1>2, <1>4, <1>5, <1>6, <1>7, <1>12, <1>13, NoAskStep

\* Time passes: no timer that was right is wrong for it.
LEMMA TickStep ==
  ASSUME LoopInv, SweepInv', Tick
  PROVE  LoopInv'
<1>1. /\ clock' = clock + 1 /\ clock \in Nat /\ clock' \in Nat
      /\ UNCHANGED <<row, match, timers, calls, cycle, synced, commands, failures, downs>>
  BY LoopFacts DEF Tick
<1>2. /\ row \in Rows /\ match \in Matches /\ HasDeadline(match)
  BY LoopFacts DEF Orderly, Typed
<1>3. ASSUME NEW a, Told(a)
      PROVE  Told(a)'
  BY <1>1, <1>3 DEF Told, Reached, GoesOn, SameRow
<1>4. ASSUME NEW c \in calls
      PROVE  CallOK(c)'
  <2>1. CallOK(c)
    BY DEF LoopInv
  <2>2. c.by \in Timer => TimerAsks(c)'
    BY <1>1, <2>1 DEF CallOK, TimerAsks
  <2>3. ASSUME c.by = "cycle"
        PROVE  CycleAsksFor(c)'
    <3>1. CycleAsksFor(c)
      BY <2>1, <2>3 DEF CallOK
    <3>2. row.expire_at <= clock => row'.expire_at <= clock'
      BY <1>1, <1>2 DEF Rows
    <3>3. match.phase = "report" /\ match.report <= clock => match'.report <= clock'
      BY <1>1, <1>2 DEF HasDeadline
    <3> QED
      BY <1>1, <1>3, <3>1, <3>2, <3>3 DEF CycleAsksFor
  <2> QED
    BY <1>1, <1>3, <2>1, <2>2, <2>3 DEF CallOK
<1>5. RowSet(timers) => RowSet(timers)'
  <2>1. Lead \in Nat /\ row.expire_at \in Nat
    BY <1>2, Constants DEF Rows
  <2> QED
    BY <1>1, <2>1 DEF RowSet, Live, ExpireRecord, RemindRecord
<1>6. MatchSet(timers) => MatchSet(timers)'
  <2>1. match.phase = "report" => match.open \in Nat /\ match.report \in Nat
    BY <1>2 DEF HasDeadline
  <2> QED
    BY <1>1, <2>1 DEF MatchSet, OpenRecord
<1>7. Kept(timers, calls, synced)'
  BY <1>1, <1>5, <1>6, LoopFacts DEF Kept, FinalClear, RowToCome, MatchToCome, RowFirst, MatchFirst
<1>8. TimersInTime(timers)' /\ Awaited(timers, calls, None)' /\ Remindable(row)' /\ InOrder(match)'
  BY <1>1 DEF LoopInv, TimersInTime, Awaited, Remindable, InOrder
<1> QED
  BY <1>1, <1>4, <1>7, <1>8 DEF LoopInv

\* The bot stops: the first cycle of the next start sets everything.
LEMMA DownStep ==
  ASSUME LoopInv, SweepInv', Down
  PROVE  LoopInv'
<1>1. /\ timers' = [k \in Timer |-> None] /\ calls' = {} /\ cycle'.state = "off"
      /\ UNCHANGED <<row, match, synced, commands, failures, clock>> /\ downs' = downs + 1
  BY DEF Down
<1>2. /\ timers' \in [Timer -> {None} \cup TimerRecords] /\ TimersInTime(timers')
      /\ Awaited(timers', calls', None)
  BY <1>1 DEF TimersInTime, Awaited, PhaseTimer, Timer, MatchTimer
<1>3. Kept(timers, calls, synced)'
  BY <1>1 DEF Kept, RowToCome, MatchToCome, FinalClear, Timer
<1>4. {commands', failures', downs', clock'} \subseteq Nat /\ synced' \subseteq {"row", "match"}
      /\ calls' \subseteq calls
  BY <1>1 DEF LoopInv
<1> QED
  BY <1>1, <1>2, <1>3, <1>4, NoAskStep

\* A cycle begins. The first one after a start sets what nobody has set.
LEMMA BeginStep ==
  ASSUME LoopInv, SweepInv', BeginCycle
  PROVE  LoopInv'
<1>1. PICK o \in Expired : Ask("cleanup", "cycle", Unseen, calls, synced, o)
  BY DEF BeginCycle
<1>2. Orderly
  BY LoopFacts
<1>3. Timely(o) /\ CycleGets("cleanup", Unseen, o)
  BY <1>2, QueueTimely DEF CycleGets, Sweep
<1>4. /\ UNCHANGED <<timers, commands, failures, downs, clock>>
      /\ cycle.state = "off" => cycle'.state = "starting"
      /\ cycle.state \in {"off", "done", "failed"}
  BY DEF BeginCycle
<1>5. "cycle" \in Asker /\ "cycle" \notin Timer /\ "cleanup" \in Sweep
  BY Constants DEF Asker, Sweep
<1>6. Awaited(timers', calls, "cycle")
  BY <1>4, <1>5, LoopFacts, Constants DEF Awaited
<1>7. Kept(timers, calls, synced)'
  <2>1. PICK moved, new :
          /\ moved \subseteq {"row", "match"}
          /\ "row" \in moved <=> RowMoves(o)
          /\ "match" \in moved <=> MatchMoves(o)
          /\ synced' = synced \ moved
          /\ calls' = {Overtaken(c, moved) : c \in calls} \cup {new}
          /\ IsCall(new) /\ new.does = "cleanup" /\ new.by = "cycle"
    BY <1>1, Asked, UnseenIsAnswer
  <2>2. row' = o.row /\ match' = o.match
    BY <1>1 DEF Ask
  <2>3. CASE cycle.state = "off"
    <3>1. RowToCome(calls)' /\ MatchToCome(calls)'
      BY <1>4, <2>1, <2>3 DEF RowToCome, MatchToCome, RowFirst, MatchFirst
    <3>2. "match" \in synced' => FinalClear(timers)'
      BY <1>2, <1>3, <1>4, <2>1, <2>2, MatchSetAfter, LoopFacts DEF Kept, FinalClear
    <3> QED
      BY <3>1, <3>2 DEF Kept
  <2>4. CASE cycle.state # "off"
    <3>1. ~RowToCome(calls) /\ ~MatchToCome(calls)
      BY <1>4, <2>4 DEF RowToCome, MatchToCome
    <3>2. "row" \in synced' => RowSet(timers)'
      BY <1>2, <1>3, <1>4, <2>1, <2>2, <3>1, RowSetAfter, LoopFacts DEF Kept, RowSet
    <3>3. "match" \in synced' => MatchSet(timers)' /\ FinalClear(timers)'
      BY <1>2, <1>3, <1>4, <2>1, <2>2, <3>1, MatchSetAfter, LoopFacts DEF Kept, MatchSet, FinalClear
    <3> QED
      BY <3>2, <3>3 DEF Kept
  <2> QED
    BY <2>3, <2>4
<1>8. /\ timers' \in [Timer -> {None} \cup TimerRecords] /\ TimersInTime(timers')
      /\ {commands', failures', downs', clock'} \subseteq Nat /\ synced \subseteq {"row", "match"}
  BY <1>4 DEF LoopInv, TimersInTime
<1> QED
  BY <1>1, <1>3, <1>4, <1>5, <1>6, <1>7, <1>8, AskStep, UnseenIsAnswer

-----------------------------------------------------------------------------
\* What the cycle has seen of what is up to date.
Source(c) == IF c.does \in {"remind", "open"} THEN c.seen ELSE c.answer
Known(c) == Sync(Source(c), Sets(c) \cup StepAfter(c).sets)

\* The first cycle sets the timers of the row, or of the match, in a later step.
RowNext(s) == /\ cycle.state = "starting"
              /\ \/ s.next \in {"create", "load_rows"}
                 \/ s.next = "remind" /\ "row" \in s.seen.fresh
MatchNext(s) == /\ cycle.state = "starting"
                /\ \/ s.next \in {"create", "load_rows", "remind", "load_matches"}
                   \/ s.next = "open" /\ "match" \in s.seen.fresh
                   \/ s.next \in PhaseTimer /\ match.phase = s.next /\ match[match.phase] <= clock

\* What holds of the timers and of what is asked for next, whichever answer the
\* cycle goes on with.
StepOK(c) ==
  LET s == StepAfter(c)
  IN  /\ LoopOK(s.loop, "cycle")
      /\ Known(c) \subseteq {"row", "match"}
      /\ "row" \in Known(c) => RowSet(s.loop.timers) \/ RowNext(s)
      /\ "match" \in Known(c) => MatchSet(s.loop.timers) \/ MatchNext(s)
      /\ "match" \in Known(c) => FinalClear(s.loop.timers)
      /\ IsAnswer(s.seen)
      /\ s.next # None => s.next \in Sweep \cup Timer
      /\ \A o \in Outcomes(s.next, s.revision) : s.next # None => CycleGets(s.next, s.seen, o)

\* What is so after the cycle's answer has been gone on with.
LEMMA CycleAfter ==
  ASSUME LoopInv, NEW c \in calls, c.by = "cycle"
  PROVE  LET loop == After(Without(c), c)
             known == Sync(c.answer, Sets(c))
         IN  /\ LoopOK(loop, "cycle")
             /\ Orderly /\ IsCall(c) /\ CallOK(c) /\ CycleAsksFor(c)
             /\ IsAnswer(c.answer) /\ IsAnswer(c.seen)
             /\ "row" \in known => RowSet(loop.timers) \/ (cycle.state = "starting" /\ RowFirst(c))
             /\ "match" \in known => MatchSet(loop.timers) \/ (cycle.state = "starting" /\ MatchFirst(c))
             /\ "match" \in known => FinalClear(loop.timers)
             /\ known \subseteq {"row", "match"}
             /\ \/ Sets(c) = {}
                \/ c.answer.found \in {"joined", "present", "left", "expired", "created", "assigned",
                                       "approval", "final"}
<1> DEFINE loop == After(Without(c), c)
           known == Sync(c.answer, Sets(c))
<1>1. /\ LoopOK(loop, "cycle") /\ known \subseteq {"row", "match"}
      /\ "row" \in known => RowSet(loop.timers) \/ RowToCome(calls)
      /\ "match" \in known => MatchSet(loop.timers) \/ MatchToCome(calls)
      /\ "match" \in known => FinalClear(loop.timers)
  BY AfterKept
<1>2. Orderly /\ IsCall(c) /\ CallOK(c) /\ OneCycle
  BY LoopFacts DEF SweepInv
<1>3. CycleAsksFor(c) /\ IsAnswer(c.answer) /\ IsAnswer(c.seen)
  BY <1>2 DEF CallOK, IsCall
<1>4. /\ RowToCome(calls) => cycle.state = "starting" /\ RowFirst(c)
      /\ MatchToCome(calls) => cycle.state = "starting" /\ MatchFirst(c)
  BY <1>2 DEF OneCycle, RowToCome, MatchToCome
<1>5. \/ Sets(c) = {}
      \/ c.answer.found \in {"joined", "present", "left", "expired", "created", "assigned",
                             "approval", "final"}
  BY DEF Sets
<1> QED
  BY <1>1, <1>2, <1>3, <1>4, <1>5

\* A step, part by part.
LEMMA StepIsOK ==
  ASSUME NEW c, NEW loop, NEW sets, NEW next, NEW v, NEW seen,
         StepAfter(c) = Step(loop, sets, next, v, seen), LoopOK(loop, "cycle"),
         NEW known, known = Sync(Source(c), Sets(c) \cup sets), known \subseteq {"row", "match"},
         "row" \in known => \/ RowSet(loop.timers)
                            \/ /\ cycle.state = "starting"
                               /\ \/ next \in {"create", "load_rows"}
                                  \/ next = "remind" /\ "row" \in seen.fresh,
         "match" \in known => \/ MatchSet(loop.timers)
                              \/ /\ cycle.state = "starting"
                                 /\ \/ next \in {"create", "load_rows", "remind", "load_matches"}
                                    \/ next = "open" /\ "match" \in seen.fresh
                                    \/ next \in PhaseTimer /\ match.phase = next
                                       /\ match[match.phase] <= clock,
         "match" \in known => FinalClear(loop.timers),
         IsAnswer(seen), next # None => next \in Sweep \cup Timer,
         \A o \in Outcomes(next, v) : next # None => CycleGets(next, seen, o)
  PROVE  StepOK(c)
<1> DEFINE s == StepAfter(c)
<1>1. s.loop = loop /\ s.sets = sets /\ s.next = next /\ s.revision = v /\ s.seen = seen
  BY DEF Step
<1>2. Known(c) = known
  BY <1>1 DEF Known
<1> HIDE DEF s
<1>3. "row" \in known => RowSet(loop.timers) \/ RowNext(s)
  BY <1>1 DEF RowNext
<1>4. "match" \in known => MatchSet(loop.timers) \/ MatchNext(s)
  BY <1>1 DEF MatchNext
<1> QED
  BY <1>1, <1>2, <1>3, <1>4 DEF StepOK, s

\* What the cycle gets when it needs nothing that it has seen.
LEMMA SimpleGets ==
  ASSUME NEW n \in {"create", "load_rows", "load_matches"} \cup PhaseTimer, NEW v, NEW o \in Outcomes(n, v)
  PROVE  CycleGets(n, Unseen, o) /\ n # None /\ n \in Sweep \cup Timer /\ IsAnswer(Unseen)
<1>1. n \in {"load_rows", "load_matches"} => o.found = "loaded"
  BY DEF Outcomes, Outcome
<1>2. n \in Sweep \cup Timer /\ n \notin {"remind", "open"}
  BY DEF Sweep, Timer, RowTimer, MatchTimer, PhaseTimer
<1> QED
  BY <1>1, <1>2, Constants, UnseenIsAnswer DEF CycleGets

\* The queue has been cleaned up, or matches have been made.
LEMMA CleanupStage ==
  ASSUME LoopInv, NEW c \in calls, c.by = "cycle", c.does \in {"cleanup", "create"}
  PROVE  StepOK(c)
<1> DEFINE loop == After(Without(c), c)
           known == Sync(c.answer, Sets(c))
           next == IF c.does = "cleanup" THEN "create" ELSE "load_rows"
<1>1. /\ LoopOK(loop, "cycle")
      /\ "row" \in known => RowSet(loop.timers) \/ cycle.state = "starting"
      /\ "match" \in known => MatchSet(loop.timers) \/ cycle.state = "starting"
      /\ "match" \in known => FinalClear(loop.timers)
      /\ known \subseteq {"row", "match"}
  BY CycleAfter
<1>2. StepAfter(c) = Step(loop, {}, next, 0, Unseen)
  BY DEF StepAfter
<1>3. known = Sync(Source(c), Sets(c) \cup {})
  BY DEF Source
<1> HIDE DEF loop, known
<1>4. \A o \in Outcomes(next, 0) : CycleGets(next, Unseen, o)
  BY SimpleGets
<1>5. next \in {"create", "load_rows"} /\ next \in Sweep
  BY DEF Sweep
<1> HIDE DEF next
<1> QED
  BY <1>1, <1>2, <1>3, <1>4, <1>5, StepIsOK, UnseenIsAnswer

\* What is loaded is not anything done.
LEMMA Loaded ==
  ASSUME LoopInv, NEW c \in calls, c.by = "cycle",
         c.answer.found \in {"loaded", "reminded", "opened", "nothing"}
  PROVE  LET loop == After(Without(c), c)
         IN  /\ Sets(c) = {} /\ LoopOK(loop, "cycle") /\ Orderly
             /\ CallOK(c) /\ CycleAsksFor(c) /\ IsAnswer(c.answer) /\ IsAnswer(c.seen)
             /\ "row" \in synced => RowSet(loop.timers) \/ (cycle.state = "starting" /\ RowFirst(c))
             /\ "match" \in synced => MatchSet(loop.timers) \/ (cycle.state = "starting" /\ MatchFirst(c))
             /\ "match" \in synced => FinalClear(loop.timers)
             /\ synced \subseteq {"row", "match"}
<1> DEFINE loop == After(Without(c), c)
<1>1. Sets(c) = {}
  BY DEF Sets
<1>2. Sync(c.answer, Sets(c)) = synced
  BY <1>1 DEF Sync
<1> HIDE DEF loop
<1>3. synced \subseteq {"row", "match"}
  BY DEF LoopInv
<1> QED
  BY <1>1, <1>2, <1>3, CycleAfter DEF loop

\* The row that has been loaded is gone, is to be reminded of, or gets its timers.
LEMMA RowStage ==
  ASSUME LoopInv, NEW c \in calls, c.by = "cycle", c.does = "load_rows"
  PROVE  StepOK(c)
<1> DEFINE loop == After(Without(c), c)
           a == c.answer
           r == a.row
<1>1. a.found = "loaded" /\ Told(a)
  BY LoopFacts DEF CallOK, CycleAsksFor
<1>2. /\ Sets(c) = {} /\ LoopOK(loop, "cycle") /\ Orderly /\ IsAnswer(a)
      /\ "row" \in synced => RowSet(loop.timers) \/ (cycle.state = "starting" /\ "row" \in a.fresh)
      /\ "match" \in synced => MatchSet(loop.timers) \/ cycle.state = "starting"
      /\ "match" \in synced => FinalClear(loop.timers)
      /\ synced \subseteq {"row", "match"}
  BY <1>1, Loaded DEF RowFirst
<1>3. StepAfter(c) = SyncRow(loop, a) /\ Source(c) = a
  BY DEF StepAfter, Source
<1>4. /\ r \in Rows /\ Remindable(r) /\ a.at \in Nat /\ a.at <= clock /\ clock \in Nat
      /\ "row" \in a.fresh => SameRow(r, row)
      /\ row \in Rows /\ Lead \in Nat
  BY <1>1, <1>2, Constants DEF Told, Orderly, Typed
<1>5. Sync(a, Sets(c) \cup {}) = synced
  BY <1>2 DEF Sync
<1> HIDE DEF loop, a
<1>6. CASE r.state # "waiting"
  <2>1. StepAfter(c) = Step(loop, {}, "load_matches", 0, Unseen)
    BY <1>3, <1>6 DEF SyncRow
  <2>2. "row" \in synced => RowSet(loop.timers)
    BY <1>2, <1>4, <1>6 DEF RowSet, Live, SameRow
  <2>3. "load_matches" \in Sweep /\ \A o \in Outcomes("load_matches", 0) : CycleGets("load_matches", Unseen, o)
    BY SimpleGets DEF Sweep
  <2> QED
    BY <1>2, <1>3, <1>5, <2>1, <2>2, <2>3, StepIsOK, UnseenIsAnswer
<1>7. CASE r.state = "waiting" /\ ~r.reminded /\ r.expire_at - Lead <= a.at /\ a.at < r.expire_at
  <2>1. StepAfter(c) = Step(loop, {}, "remind", r.revision, a)
    BY <1>3, <1>7 DEF SyncRow
  <2>2. ASSUME NEW o \in Outcomes("remind", r.revision)
        PROVE  CycleGets("remind", a, o)
    <3>1. o \in ProcessPresenceReminder(r.revision)
      BY DEF Outcomes
    <3>2. o.found \in {"reminded", "nothing"}
      BY <1>2, <3>1, RowTimersFind
    <3>3. ASSUME "row" \in a.fresh, ~RowMoves(o)
          PROVE  o.row.reminded \/ o.row.expire_at <= clock
      <4>1. /\ row.state = "waiting" /\ row.revision = r.revision /\ row.expire_at = r.expire_at
            /\ r.expire_at \in Nat
        BY <1>4, <1>7, <3>3 DEF SameRow, Rows
      <4>2. row.expire_at - Lead <= clock
        BY <1>4, <1>7, <4>1
      <4>3. Live => o.row.reminded
        BY <1>2, <3>1, <4>1, <4>2, RowTimersFind
      <4>4. o \in ProcessPresenceReminder(r.revision) => Timely(o)
        BY <1>2, QueueTimely
      <4>5. o.row.expire_at = row.expire_at
        BY <3>1, <3>3, <4>4 DEF Timely, RowMoves, SameRow
      <4> QED
        BY <1>4, <4>1, <4>3, <4>5 DEF Live
    <3> QED
      BY <1>1, <1>7, <3>2, <3>3 DEF CycleGets, Timer, RowTimer
  <2>3. "remind" \in Timer
    BY DEF Timer, RowTimer
  <2> QED
    BY <1>2, <1>3, <1>5, <2>1, <2>2, <2>3, StepIsOK
<1>8. CASE r.state = "waiting" /\ ~(~r.reminded /\ r.expire_at - Lead <= a.at /\ a.at < r.expire_at)
  <2> DEFINE l == IF r.reminded \/ r.expire_at - Lead <= a.at THEN loop ELSE RemindTimer(loop, r)
             t == ExpireTimer(l, r)
             known == Sync(a, Sets(c) \cup {"row"})
             er == ExpireRecord(r)
             rr == RemindRecord(r)
  <2>1. StepAfter(c) = Step(t, {"row"}, "load_matches", 0, Unseen)
    BY <1>3, <1>8 DEF SyncRow
  <2>2. LoopOK(l, "cycle")
    BY <1>2, <1>4, <1>8, RowTimersOK
  <2>3. \A k \in Timer : l.timers[k] = IF ~(r.reminded \/ r.expire_at - Lead <= a.at) /\ k = "remind"
                                       THEN rr ELSE loop.timers[k]
    BY RemindLeaves
  <2> HIDE DEF l
  <2>4. LoopOK(t, "cycle")
    BY <1>4, <1>8, <2>2, RowTimersOK
  <2>5. \A k \in Timer : t.timers[k] = IF k = "expire" THEN er ELSE l.timers[k]
    BY ExpireLeaves
  <2> HIDE DEF t
  <2>6. /\ t.timers["expire"] = er
        /\ ~(r.reminded \/ r.expire_at - Lead <= a.at) => t.timers["remind"] = rr
        /\ \A k \in MatchTimer : t.timers[k] = loop.timers[k]
    BY <2>3, <2>5 DEF Timer, RowTimer, MatchTimer
  <2>7. known = Sync(Source(c), Sets(c) \cup {"row"}) /\ known \subseteq {"row", "match"}
        /\ ("row" \in known => "row" \in a.fresh) /\ ("match" \in known => "match" \in synced)
    BY <1>2, <1>3 DEF Sync
  <2> HIDE DEF known, er, rr
  <2>8. "row" \in known => RowSet(t.timers)
    <3> SUFFICES ASSUME "row" \in a.fresh PROVE RowSet(t.timers)
      BY <2>7
    <3>1. /\ row.expire_at = r.expire_at /\ (r.reminded => row.reminded) /\ r.expire_at \in Nat
      BY <1>4 DEF SameRow, Rows
    <3>2. row.reminded \/ row.expire_at <= clock \/ t.timers["remind"] = rr
      BY <1>4, <1>8, <2>6, <3>1
    <3>3. t.timers["expire"] = ExpireRecord(a.row)
          /\ (row.reminded \/ row.expire_at <= clock \/ t.timers["remind"] = RemindRecord(a.row))
      BY <2>6, <3>2 DEF er, rr
    <3> QED
      BY <1>1, <1>2, <3>3, FreshRow
  <2>9. "match" \in known => (MatchSet(t.timers) \/ cycle.state = "starting") /\ FinalClear(t.timers)
    BY <1>2, <2>6, <2>7 DEF MatchSet, FinalClear, PhaseTimer, MatchTimer
  <2>10. "load_matches" \in Sweep /\ \A o \in Outcomes("load_matches", 0) : CycleGets("load_matches", Unseen, o)
    BY SimpleGets DEF Sweep
  <2> QED
    BY <2>1, <2>4, <2>7, <2>8, <2>9, <2>10, StepIsOK, UnseenIsAnswer
<1> QED
  BY <1>6, <1>7, <1>8

\* The player has been reminded: the row gets the timer that is left.
LEMMA RemindStage ==
  ASSUME LoopInv, NEW c \in calls, c.by = "cycle", c.does = "remind"
  PROVE  StepOK(c)
<1> DEFINE loop == After(Without(c), c)
           a == c.seen
           r == a.row
           t == ExpireTimer(loop, r)
           known == Sync(a, Sets(c) \cup {"row"})
           er == ExpireRecord(r)
<1>1. /\ c.answer.found \in {"reminded", "nothing"} /\ Told(a) /\ a.found = "loaded"
      /\ r.state = "waiting" /\ ("row" \in a.fresh => row.reminded \/ row.expire_at <= clock)
  BY LoopFacts DEF CallOK, CycleAsksFor
<1>2. /\ Sets(c) = {} /\ LoopOK(loop, "cycle") /\ Orderly
      /\ "match" \in synced => MatchSet(loop.timers) \/ cycle.state = "starting"
      /\ "match" \in synced => FinalClear(loop.timers)
      /\ synced \subseteq {"row", "match"}
  BY <1>1, Loaded
<1>3. StepAfter(c) = Step(t, {"row"}, "load_matches", 0, Unseen) /\ Source(c) = a
  BY DEF StepAfter, Source
<1> HIDE DEF loop
<1>4. LoopOK(t, "cycle")
  BY <1>1, <1>2, RowTimersOK DEF Told
<1>5. \A k \in Timer : t.timers[k] = IF k = "expire" THEN er ELSE loop.timers[k]
  BY ExpireLeaves
<1> HIDE DEF t
<1>6. /\ t.timers["expire"] = er
      /\ \A k \in MatchTimer : t.timers[k] = loop.timers[k]
  BY <1>5 DEF Timer, RowTimer, MatchTimer
<1>7. known = Sync(Source(c), Sets(c) \cup {"row"}) /\ known \subseteq {"row", "match"}
      /\ ("row" \in known => "row" \in a.fresh) /\ ("match" \in known => "match" \in synced)
  BY <1>2, <1>3 DEF Sync
<1> HIDE DEF known
<1>8. "row" \in known => RowSet(t.timers)
  BY <1>1, <1>2, <1>6, <1>7, FreshRow
<1>9. "match" \in known => (MatchSet(t.timers) \/ cycle.state = "starting") /\ FinalClear(t.timers)
  BY <1>2, <1>6, <1>7 DEF MatchSet, FinalClear, PhaseTimer, MatchTimer
<1>10. "load_matches" \in Sweep /\ \A o \in Outcomes("load_matches", 0) : CycleGets("load_matches", Unseen, o)
  BY SimpleGets DEF Sweep
<1> QED
  BY <1>3, <1>4, <1>7, <1>8, <1>9, <1>10, StepIsOK, UnseenIsAnswer

\* What was loaded of the match and has not changed since.
LEMMA FreshPhase ==
  ASSUME NEW a, a.found = "loaded", Told(a), "match" \in a.fresh, Orderly
  PROVE  /\ a.match.phase = match.phase
         /\ match.phase \in PhaseTimer => match[match.phase] = a.match[match.phase]
         /\ match.phase \in PhaseTimer /\ a.match[match.phase] <= a.at => match[match.phase] <= clock
         /\ match.phase = "report" => /\ match.open = a.match.open /\ (a.match.opened => match.opened)
                                      /\ a.match.open <= a.at => match.open <= clock
<1>1. /\ a.match.phase = match.phase /\ Reached(a.match, match) /\ a.at \in Nat /\ a.at <= clock
      /\ HasDeadline(match) /\ clock \in Nat
  BY DEF Told, Orderly, Typed
<1>2. match.phase \in PhaseTimer => match[match.phase] = a.match[match.phase]
  BY <1>1 DEF Reached, GoesOn, PhaseTimer
<1>3. match.phase \in PhaseTimer => match[match.phase] \in Nat
  BY <1>1 DEF HasDeadline, PhaseTimer
<1>4. match.phase \in PhaseTimer /\ a.match[match.phase] <= a.at => match[match.phase] <= clock
  BY <1>1, <1>2, <1>3
<1>5. match.phase = "report" => match.open = a.match.open /\ match.open \in Nat
  BY <1>1 DEF Reached, HasDeadline
<1>6. match.phase = "report" => (a.match.opened => match.opened)
  BY <1>1 DEF Reached
<1>7. match.phase = "report" /\ a.match.open <= a.at => match.open <= clock
  BY <1>1, <1>5
<1> QED
  BY <1>1, <1>2, <1>4, <1>5, <1>6, <1>7

\* The reports' time is over, or gets its timer.
LEMMA SyncReportOK ==
  ASSUME LoopInv, NEW c \in calls, Sets(c) = {}, NEW l, LoopOK(l, "cycle"), NEW a, Source(c) = a,
         StepAfter(c) = SyncReport(l, a), Told(a), a.found = "loaded", a.match.phase = "report",
         "row" \in synced => RowSet(l.timers),
         a.match.report <= a.at /\ "match" \in synced =>
           /\ MatchSet(l.timers) \/ (cycle.state = "starting" /\ "match" \in a.fresh)
           /\ FinalClear(l.timers),
         ~(a.match.report <= a.at) /\ "match" \in a.fresh =>
           match.opened \/ ~(clock < match.report) \/ l.timers["open"] = OpenRecord(a.match)
  PROVE  StepOK(c)
<1> DEFINE m == a.match
<1>1. Orderly /\ synced \subseteq {"row", "match"}
  BY LoopFacts DEF LoopInv
<1>2. CASE m.report <= a.at
  <2>1. StepAfter(c) = Step(l, {}, "report", 0, Unseen) /\ Sync(a, Sets(c) \cup {}) = synced
    BY <1>2 DEF SyncReport, Sync
  <2>2. "report" \in PhaseTimer /\ "report" \in Timer
        /\ \A o \in Outcomes("report", 0) : CycleGets("report", Unseen, o)
    BY SimpleGets DEF PhaseTimer, Timer, MatchTimer
  <2>3. "match" \in a.fresh => match.phase = "report" /\ match[match.phase] <= clock
    BY <1>1, <1>2, FreshPhase DEF PhaseTimer
  <2> QED
    BY <1>1, <1>2, <2>1, <2>2, <2>3, StepIsOK, UnseenIsAnswer
<1>3. CASE ~(m.report <= a.at)
  <2> DEFINE t == ReportTimer(l, m)
             known == Sync(a, Sets(c) \cup {"match"})
             rrec == NewTimer(m.report, 0, None)
  <2>1. StepAfter(c) = Step(t, {"match"}, None, 0, Unseen)
    BY <1>3 DEF SyncReport
  <2>2. m \in Matches /\ HasDeadline(m) /\ Reached(m, match)
    BY DEF Told
  <2>3. LoopOK(t, "cycle")
    BY <2>2, MatchTimersOK
  <2>4. \A k \in Timer : t.timers[k] = IF k = "report" THEN rrec ELSE l.timers[k]
    BY ReportLeaves
  <2>5. rrec # None
    BY <2>2, TimerIsThere DEF HasDeadline, Time
  <2> HIDE DEF t, rrec
  <2>6. t.timers["report"] = rrec /\ t.timers["open"] = l.timers["open"]
        /\ \A k \in RowTimer : t.timers[k] = l.timers[k]
    BY <2>4 DEF Timer, RowTimer, MatchTimer
  <2>7. known = Sync(Source(c), Sets(c) \cup {"match"}) /\ known \subseteq {"row", "match"}
        /\ ("match" \in known => "match" \in a.fresh) /\ ("row" \in known => "row" \in synced)
    BY <1>1 DEF Sync
  <2> HIDE DEF known
  <2>8. "match" \in known => MatchSet(t.timers) /\ FinalClear(t.timers)
    BY <1>3, <2>5, <2>6, <2>7, FreshMatch DEF PhaseTimer
  <2>9. "row" \in known => RowSet(t.timers)
    BY <2>6, <2>7 DEF RowSet, RowTimer
  <2> QED
    BY <2>1, <2>3, <2>7, <2>8, <2>9, StepIsOK, UnseenIsAnswer
<1> QED
  BY <1>2, <1>3

\* The match that has been loaded is overdue, or gets its timers.
LEMMA MatchStage ==
  ASSUME LoopInv, NEW c \in calls, c.by = "cycle", c.does = "load_matches"
  PROVE  StepOK(c)
<1> DEFINE loop == After(Without(c), c)
           a == c.answer
           m == a.match
<1>1. a.found = "loaded" /\ Told(a)
  BY LoopFacts DEF CallOK, CycleAsksFor
<1>2. /\ Sets(c) = {} /\ LoopOK(loop, "cycle") /\ Orderly /\ IsAnswer(a)
      /\ "row" \in synced => RowSet(loop.timers)
      /\ "match" \in synced => MatchSet(loop.timers) \/ (cycle.state = "starting" /\ "match" \in a.fresh)
      /\ "match" \in synced => FinalClear(loop.timers)
      /\ synced \subseteq {"row", "match"}
  BY <1>1, Loaded DEF RowFirst, MatchFirst
<1>3. StepAfter(c) = SyncMatch(loop, a) /\ Source(c) = a
  BY DEF StepAfter, Source
<1>4. /\ m \in Matches /\ HasDeadline(m) /\ InOrder(m) /\ Reached(m, match) /\ a.at \in Nat
      /\ a.at <= clock /\ clock \in Nat
      /\ "match" \in a.fresh => m.phase = match.phase
  BY <1>1, <1>2 DEF Told, Orderly, Typed
<1>5. Sync(a, Sets(c) \cup {}) = synced
  BY <1>2 DEF Sync
<1> HIDE DEF loop, a
<1>6. CASE m.phase \in {"parent", "approval"} /\ m[m.phase] <= a.at
  <2>1. StepAfter(c) = Step(loop, {}, m.phase, 0, Unseen)
    BY <1>3, <1>6 DEF SyncMatch
  <2>2. m.phase \in PhaseTimer /\ m.phase \in Timer
        /\ \A o \in Outcomes(m.phase, 0) : CycleGets(m.phase, Unseen, o)
    BY <1>6, SimpleGets DEF PhaseTimer, Timer, MatchTimer
  <2>3. "match" \in a.fresh => match.phase = m.phase /\ match[match.phase] <= clock
    BY <1>1, <1>2, <1>4, <1>6, FreshPhase DEF PhaseTimer
  <2> QED
    BY <1>2, <1>3, <1>5, <2>1, <2>2, <2>3, StepIsOK, UnseenIsAnswer
<1>7. CASE m.phase \in {"parent", "approval"} /\ ~(m[m.phase] <= a.at)
  <2> DEFINE t == IF m.phase = "parent" THEN ParentTimer(loop, m) ELSE ApprovalTimer(loop, m)
             known == Sync(a, Sets(c) \cup {"match"})
             rec == NewTimer(m[m.phase], 0, None)
  <2>1. StepAfter(c) = Step(t, {"match"}, None, 0, Unseen)
    BY <1>3, <1>7 DEF SyncMatch
  <2>2. LoopOK(t, "cycle")
    BY <1>2, <1>4, <1>7, MatchTimersOK
  <2>3. m.phase \in Timer /\ m.phase \in PhaseTimer /\ m.phase \notin RowTimer /\ m.phase # "report"
    BY <1>7 DEF PhaseTimer, Timer, MatchTimer, RowTimer
  <2>4. \A k \in Timer : t.timers[k] = IF k = m.phase THEN rec ELSE loop.timers[k]
    BY <1>7, ParentLeaves, ApprovalLeaves
  <2>5. rec # None
    BY <1>4, <1>7, TimerIsThere DEF HasDeadline, Time
  <2> HIDE DEF t, rec
  <2>6. t.timers[m.phase] = rec /\ \A k \in RowTimer : t.timers[k] = loop.timers[k]
    BY <2>3, <2>4 DEF Timer
  <2>7. known = Sync(Source(c), Sets(c) \cup {"match"}) /\ known \subseteq {"row", "match"}
        /\ ("match" \in known => "match" \in a.fresh) /\ ("row" \in known => "row" \in synced)
    BY <1>2, <1>3 DEF Sync
  <2> HIDE DEF known
  <2>8. "match" \in known => MatchSet(t.timers) /\ FinalClear(t.timers)
    BY <1>1, <2>3, <2>5, <2>6, <2>7, FreshMatch
  <2>9. "row" \in known => RowSet(t.timers)
    BY <1>2, <2>6, <2>7 DEF RowSet, RowTimer
  <2> QED
    BY <2>1, <2>2, <2>7, <2>8, <2>9, StepIsOK, UnseenIsAnswer
<1>8. CASE m.phase = "report" /\ ~m.opened /\ m.open <= a.at
  <2>1. StepAfter(c) = Step(loop, {}, "open", 0, a)
    BY <1>3, <1>8 DEF SyncMatch
  <2>2. ASSUME NEW o \in Outcomes("open", 0)
        PROVE  CycleGets("open", a, o)
    <3>1. o \in ProcessReportOpen
      BY DEF Outcomes
    <3>2. Timely(o) /\ o.found \in {"opened", "nothing"}
          /\ (match.phase = "report" /\ match.open <= clock /\ clock < match.report => o.match.opened)
      BY <1>2, <3>1, OpenTimely
    <3>3. ASSUME "match" \in a.fresh, ~MatchMoves(o), o.match.phase = "report"
          PROVE  o.match.opened \/ o.match.report <= clock
      <4>1. match.phase = "report" /\ match.open <= clock
        BY <1>1, <1>2, <1>8, <3>3, FreshPhase DEF MatchMoves
      <4>2. o.match.report = match.report /\ match.report \in Nat
        BY <1>2, <3>2, <3>3, <4>1 DEF Timely, Reached, GoesOn, Orderly, Typed, HasDeadline
      <4> QED
        BY <1>4, <3>2, <4>1, <4>2
    <3> QED
      BY <1>1, <1>8, <3>2, <3>3 DEF CycleGets, Timer, MatchTimer
  <2>3. "open" \in Timer
    BY DEF Timer, MatchTimer
  <2> QED
    BY <1>2, <1>3, <1>5, <2>1, <2>2, <2>3, StepIsOK
<1>9. CASE m.phase = "report" /\ ~(~m.opened /\ m.open <= a.at)
  <2> DEFINE l == IF m.opened THEN loop ELSE OpenTimer(loop, m)
             orec == OpenRecord(m)
  <2>1. StepAfter(c) = SyncReport(l, a)
    BY <1>3, <1>9 DEF SyncMatch
  <2>2. LoopOK(l, "cycle")
    BY <1>2, <1>4, <1>9, MatchTimersOK
  <2>3. \A k \in Timer : l.timers[k] = IF ~m.opened /\ k = "open" THEN orec ELSE loop.timers[k]
    BY OpenLeaves
  <2>4. m.report <= a.at => l = loop
    <3>1. m.open \in Nat /\ m.report \in Nat /\ m.open <= m.report
      BY <1>4, <1>9 DEF HasDeadline, InOrder
    <3> QED
      BY <1>4, <1>9, <3>1
  <2> HIDE DEF l, orec
  <2>5. "open" \in Timer /\ \A k \in RowTimer : l.timers[k] = loop.timers[k]
    BY <2>3 DEF Timer, RowTimer, MatchTimer
  <2>6. "match" \in a.fresh => match.opened \/ l.timers["open"] = OpenRecord(a.match)
    <3>1. "match" \in a.fresh => (m.opened => match.opened)
      BY <1>1, <1>2, <1>4, <1>9, FreshPhase
    <3> QED
      BY <2>3, <2>5, <3>1 DEF orec
  <2>7. "row" \in synced => RowSet(l.timers)
    BY <1>2, <2>5 DEF RowSet, RowTimer
  <2> QED
    BY <1>1, <1>2, <1>3, <1>9, <2>1, <2>2, <2>4, <2>6, <2>7, SyncReportOK
<1>10. CASE m.phase \notin {"parent", "report", "approval"}
  <2>1. StepAfter(c) = Step(loop, {}, None, 0, Unseen)
    BY <1>3, <1>10 DEF SyncMatch
  <2>2. "match" \in synced => MatchSet(loop.timers)
    BY <1>2, <1>4, <1>10 DEF MatchSet, PhaseTimer
  <2> QED
    BY <1>2, <1>3, <1>5, <2>1, <2>2, StepIsOK, UnseenIsAnswer
<1> QED
  BY <1>6, <1>7, <1>8, <1>9, <1>10

\* The reports have been opened: the match gets the timer that is left.
LEMMA OpenStage ==
  ASSUME LoopInv, NEW c \in calls, c.by = "cycle", c.does = "open"
  PROVE  StepOK(c)
<1> DEFINE loop == After(Without(c), c)
           a == c.seen
<1>1. /\ c.answer.found \in {"opened", "nothing"} /\ Told(a) /\ a.found = "loaded"
      /\ a.match.phase = "report"
      /\ "match" \in a.fresh /\ match.phase = "report" => match.opened \/ match.report <= clock
  BY LoopFacts DEF CallOK, CycleAsksFor
<1>2. /\ Sets(c) = {} /\ LoopOK(loop, "cycle") /\ Orderly
      /\ "row" \in synced => RowSet(loop.timers)
      /\ "match" \in synced => MatchSet(loop.timers) \/ (cycle.state = "starting" /\ "match" \in a.fresh)
      /\ "match" \in synced => FinalClear(loop.timers)
  BY <1>1, Loaded DEF RowFirst, MatchFirst
<1>3. StepAfter(c) = SyncReport(loop, a) /\ Source(c) = a
  BY DEF StepAfter, Source
<1> HIDE DEF loop
<1>4. "match" \in a.fresh => match.opened \/ ~(clock < match.report)
  <2>1. "match" \in a.fresh => match.phase = "report"
    BY <1>1 DEF Told
  <2>2. match.phase = "report" => match.report \in Nat /\ clock \in Nat
    BY <1>2 DEF Orderly, Typed, HasDeadline
  <2> QED
    BY <1>1, <2>1, <2>2
<1> QED
  BY <1>1, <1>2, <1>3, <1>4, SyncReportOK

\* The cycle has come to the end of the match.
LEMMA LastStage ==
  ASSUME LoopInv, NEW c \in calls, c.by = "cycle",
         c.does \notin {"cleanup", "create", "load_rows", "remind", "load_matches", "open"}
  PROVE  StepOK(c)
<1> DEFINE loop == After(Without(c), c)
           known == Sync(c.answer, Sets(c))
<1>1. /\ LoopOK(loop, "cycle")
      /\ "row" \in known => RowSet(loop.timers)
      /\ "match" \in known => MatchSet(loop.timers)
      /\ "match" \in known => FinalClear(loop.timers)
      /\ known \subseteq {"row", "match"}
  BY CycleAfter DEF RowFirst, MatchFirst
<1>2. StepAfter(c) = Step(loop, {}, None, 0, Unseen)
  BY DEF StepAfter
<1>3. known = Sync(Source(c), Sets(c) \cup {})
  BY DEF Source
<1> HIDE DEF loop, known
<1> QED
  BY <1>1, <1>2, <1>3, StepIsOK, UnseenIsAnswer

\* Whatever the cycle has waited for, it goes on in order.
LEMMA StagesOK ==
  ASSUME LoopInv, NEW c \in calls, c.by = "cycle"
  PROVE  StepOK(c)
BY CleanupStage, RowStage, RemindStage, MatchStage, OpenStage, LastStage

\* A deadline that has passed ends the phase, when the cycle asks for it.
LEMMA OverdueEnds ==
  ASSUME Orderly, NEW n \in PhaseTimer, match.phase = n, match[match.phase] <= clock,
         NEW v, NEW o \in Outcomes(n, v)
  PROVE  MatchMoves(o)
<1>1. CASE n = "parent"
  BY <1>1, ParentDeadlineSound DEF Outcomes, Orderly, MatchMoves
<1>2. CASE n = "report"
  BY <1>2, ReportDeadlineSound DEF Outcomes, Orderly, MatchMoves
<1>3. CASE n = "approval"
  BY <1>3, ApprovalDeadlineSound DEF Outcomes, Orderly, MatchMoves
<1> QED
  BY <1>1, <1>2, <1>3 DEF PhaseTimer

\* What the first cycle has still to do, it is about to do.
LEMMA NextComes ==
  ASSUME LoopInv, NEW c \in calls, c.by = "cycle", UNCHANGED <<cycle, clock, failures>>, StepOK(c),
         NEW s, s = StepAfter(c), timers' = s.loop.timers, s.next # None, Orderly,
         NEW o \in Outcomes(s.next, s.revision),
         Timely(o), Ask(s.next, "cycle", s.seen, s.loop.calls, Known(c), o)
  PROVE  Kept(timers, calls, synced)'
<1>1. /\ "row" \in Known(c) => RowSet(timers') \/ RowNext(s)
      /\ "match" \in Known(c) => MatchSet(timers') \/ MatchNext(s)
      /\ "match" \in Known(c) => FinalClear(timers')
      /\ IsAnswer(s.seen)
  BY DEF StepOK
<1>2. PICK moved, new :
        /\ moved \subseteq {"row", "match"}
        /\ "row" \in moved <=> RowMoves(o)
        /\ "match" \in moved <=> MatchMoves(o)
        /\ synced' = Known(c) \ moved
        /\ calls' = {Overtaken(d, moved) : d \in s.loop.calls} \cup {new}
        /\ IsCall(new) /\ new.does = s.next /\ new.by = "cycle" /\ Ages(s.seen, new.seen, moved)
        /\ new.answer.found = o.found /\ new.answer.fresh = {"row", "match"}
        /\ o.found # "nothing" =>
             new.answer.row = o.row /\ new.answer.match = o.match /\ new.answer.at = clock
  BY <1>1, Asked
<1>3. row' = o.row /\ match' = o.match
  BY DEF Ask
<1>4. new \in calls' /\ new.seen.fresh = s.seen.fresh \ moved
  BY <1>2 DEF Ages
<1>5. ASSUME "row" \in synced'
      PROVE  RowSet(timers)' \/ RowToCome(calls)'
  <2>1. RowSet(timers') => RowSet(timers)'
    BY <1>2, <1>3, <1>5, RowSetAfter
  <2>2. RowNext(s) => RowToCome(calls)'
    BY <1>2, <1>4, <1>5 DEF RowNext, RowToCome, RowFirst
  <2> QED
    BY <1>1, <1>2, <1>5, <2>1, <2>2
<1>6. ASSUME "match" \in synced'
      PROVE  (MatchSet(timers)' \/ MatchToCome(calls)') /\ FinalClear(timers)'
  <2>1. /\ MatchSet(timers') => MatchSet(timers)'
        /\ FinalClear(timers') => FinalClear(timers)'
    BY <1>2, <1>3, <1>6, MatchSetAfter
  <2>2. ~MatchMoves(o)
    BY <1>2, <1>6
  <2>3. MatchNext(s) => MatchToCome(calls)'
    BY <1>2, <1>4, <1>6, <2>2, OverdueEnds DEF MatchNext, MatchToCome, MatchFirst
  <2> QED
    BY <1>1, <1>2, <1>6, <2>1, <2>3
<1> QED
  BY <1>5, <1>6 DEF Kept

\* The cycle goes on: it ends, asks for its next service, or fails.
LEMMA CycleGoesOn ==
  ASSUME LoopInv, SweepInv', NEW c \in calls, CycleStep(c)
  PROVE  LoopInv'
<1> DEFINE s == StepAfter(c)
<1>1. /\ c.by = "cycle" /\ timers' = s.loop.timers /\ UNCHANGED <<commands, downs, clock>>
      /\ \/ /\ s.next = None /\ cycle' = [cycle EXCEPT !.state = "done"]
            /\ calls' = s.loop.calls /\ synced' = Known(c) /\ UNCHANGED <<row, match, failures>>
         \/ /\ s.next # None
            /\ \E o \in Outcomes(s.next, s.revision) :
                 Ask(s.next, "cycle", s.seen, s.loop.calls, Known(c), o)
            /\ UNCHANGED <<cycle, failures>>
         \/ /\ s.next # None /\ cycle.state = "running" /\ failures' = failures + 1
            /\ cycle' = [cycle EXCEPT !.state = "failed"]
            /\ calls' = s.loop.calls /\ synced' = Known(c) /\ UNCHANGED <<row, match>>
  BY DEF CycleStep, Known, Source
<1>2. StepOK(c)
  BY <1>1, StagesOK
<1>3. /\ LoopOK(s.loop, "cycle") /\ Known(c) \subseteq {"row", "match"}
      /\ "row" \in Known(c) => RowSet(s.loop.timers) \/ RowNext(s)
      /\ "match" \in Known(c) => MatchSet(s.loop.timers) \/ MatchNext(s)
      /\ "match" \in Known(c) => FinalClear(s.loop.timers)
      /\ IsAnswer(s.seen)
      /\ s.next # None => s.next \in Sweep \cup Timer
      /\ \A o \in Outcomes(s.next, s.revision) : s.next # None => CycleGets(s.next, s.seen, o)
  BY <1>2 DEF StepOK
<1> HIDE DEF s
<1>4. /\ timers' \in [Timer -> {None} \cup TimerRecords] /\ TimersInTime(timers')
      /\ Awaited(timers', s.loop.calls, "cycle") /\ s.loop.calls \subseteq calls
  BY <1>1, <1>3 DEF LoopOK
<1>5. {commands', downs', clock'} \subseteq Nat /\ Orderly /\ failures \in Nat
  BY <1>1, LoopFacts DEF LoopInv
<1>6. ASSUME calls' = s.loop.calls, synced' = Known(c), UNCHANGED <<row, match>>,
             failures' = failures \/ failures' = failures + 1,
             s.next = None \/ cycle.state = "running"
      PROVE  LoopInv'
  <2>1. ~RowNext(s) /\ ~MatchNext(s)
    <3>1. None \notin {"create", "load_rows", "remind", "load_matches", "open"} \cup PhaseTimer
      BY Constants DEF Sweep, Timer, RowTimer, MatchTimer, PhaseTimer
    <3> QED
      BY <1>6, <3>1 DEF RowNext, MatchNext
  <2>2. failures' \in Nat /\ (failures' = 0 => failures = 0)
    BY <1>5, <1>6
  <2>3. Kept(timers, calls, synced)'
    BY <1>1, <1>3, <1>6, <2>1, <2>2 DEF Kept, RowSet, MatchSet, FinalClear, Live, ExpireRecord,
       RemindRecord, OpenRecord
  <2>4. Awaited(timers', calls', None)
    BY <1>4, <1>6, Constants DEF Awaited
  <2> QED
    BY <1>1, <1>3, <1>4, <1>5, <1>6, <2>2, <2>3, <2>4, NoAskStep
<1>7. ASSUME s.next # None, UNCHANGED <<cycle, failures>>,
             NEW o \in Outcomes(s.next, s.revision),
             Ask(s.next, "cycle", s.seen, s.loop.calls, Known(c), o)
      PROVE  LoopInv'
  <2>1. s.next \in Command \cup Sweep \cup Timer
    BY <1>3, <1>7
  <2>2. Timely(o) /\ CycleGets(s.next, s.seen, o)
    BY <1>3, <1>5, <1>7, <2>1, OutcomesTimely
  <2>3. Kept(timers, calls, synced)'
    BY <1>1, <1>2, <1>5, <1>7, <2>2, NextComes DEF s
  <2>4. "cycle" \in Asker /\ "cycle" \notin Timer
    BY Constants DEF Asker
  <2>5. failures' \in Nat
    BY <1>5, <1>7
  <2> QED
    BY <1>1, <1>3, <1>4, <1>5, <1>7, <2>1, <2>2, <2>3, <2>4, <2>5, AskStep
<1> QED
  BY <1>1, <1>6, <1>7

\* The bot starts with no timers and no calls, and the first cycle is to come.
LEMMA LoopInit == ASSUME Init PROVE LoopInv
<1>1. SweepInv
  BY SweepInit
<1>2. Remindable(row) /\ InOrder(match)
  <2>1. row.state = "waiting" => row.expire_at = TTL
    BY RuntimeAssumption DEF Init, Row
  <2>2. match.phase # "report"
    BY DEF Init, Created, NoMatch
  <2> QED
    BY <2>1, <2>2, RuntimeAssumption DEF Remindable, InOrder
<1>3. timers \in [Timer -> {None} \cup TimerRecords] /\ TimersInTime(timers)
      /\ Awaited(timers, calls, None)
  BY DEF Init, TimersInTime, Awaited, PhaseTimer, Timer, MatchTimer
<1>4. calls = {} /\ synced = {} /\ {commands, failures, downs, clock} \subseteq Nat
  BY DEF Init
<1>5. Kept(timers, calls, synced)
  BY <1>4 DEF Kept
<1> QED
  BY <1>1, <1>2, <1>3, <1>4, <1>5 DEF LoopInv

\* Every step keeps the invariant.
LEMMA LoopStep == ASSUME LoopInv, [Next]_vars PROVE LoopInv'
<1>1. SweepInv'
  BY SweepStep DEF LoopInv
<1>2. ASSUME NEW u \in Users, NEW does \in Command, Request(u, does)
      PROVE  LoopInv'
  BY <1>1, <1>2, RequestStep
<1>3. ASSUME NEW k \in Timer, Fire(k)
      PROVE  LoopInv'
  BY <1>1, <1>3, FireStep
<1>4. ASSUME NEW k \in Timer, FireInVain(k)
      PROVE  LoopInv'
  BY <1>1, <1>4, FireInVainStep
<1>5. ASSUME NEW c \in calls, GoOn(c)
      PROVE  LoopInv'
  BY <1>1, <1>5, RespondStep, TimerDoneStep, CycleGoesOn DEF GoOn
<1>6. CASE BeginCycle
  BY <1>1, <1>6, BeginStep
<1>7. CASE Down
  BY <1>1, <1>7, DownStep
<1>8. CASE Tick
  BY <1>1, <1>8, TickStep
<1>9. CASE UNCHANGED vars
  <2>1. UNCHANGED <<row, match, timers, calls, cycle, synced, commands, failures, downs, clock>>
    BY <1>9 DEF vars
  <2>2. Kept(timers, calls, synced)'
    BY <2>1, LoopFacts DEF Kept, RowSet, MatchSet, FinalClear, Live, ExpireRecord, RemindRecord,
       OpenRecord, RowToCome, MatchToCome, RowFirst, MatchFirst
  <2>3. /\ timers' \in [Timer -> {None} \cup TimerRecords] /\ TimersInTime(timers')
        /\ Awaited(timers', calls', None) /\ synced' \subseteq {"row", "match"}
        /\ {commands', failures', downs', clock'} \subseteq Nat /\ calls' \subseteq calls
    BY <2>1 DEF LoopInv
  <2> QED
    BY <1>1, <2>1, <2>2, <2>3, NoAskStep
<1> QED
  BY <1>2, <1>3, <1>4, <1>5, <1>6, <1>7, <1>8, <1>9 DEF Next

\* From the start, through every command, timer, failure and restart.
THEOREM LoopInvariant == Spec => []LoopInv
BY LoopInit, LoopStep, PTL DEF Spec

\* One call waits for each timer that has fired.
LEMMA OneCallEach ==
  ASSUME LoopInv, NEW k \in Timer
  PROVE  Cardinality({c \in calls : c.by = k}) = IF timers[k] # None /\ timers[k].busy THEN 1 ELSE 0
<1>1. Awaited(timers, calls, None) /\ k # None
  BY LoopFacts, Constants
<1>2. CASE timers[k] # None /\ timers[k].busy
  <2>1. PICK c \in calls : c.by = k
    BY <1>1, <1>2 DEF Awaited
  <2>2. {d \in calls : d.by = k} = {c}
    BY <1>1, <2>1 DEF Awaited
  <2> QED
    BY <1>2, <2>2, FS_Singleton
<1>3. CASE ~(timers[k] # None /\ timers[k].busy)
  <2>1. {d \in calls : d.by = k} = {}
    BY <1>1, <1>3 DEF Awaited
  <2> QED
    BY <1>3, <2>1, FS_EmptySet
<1> QED
  BY <1>2, <1>3

\* When the loop has nothing to go on with and who set the timers last had seen
\* the last change of the row (of the match), every deadline to come has its
\* timer and what is over has none, whichever commands, timers and cycles have
\* cancelled and replaced each other's timers before (_schedule_task,
\* _schedule_match_task, _cancel_task, _run_sync_cycle).
THEOREM TimersCovered == Spec => []TimersInv
<1>1. LoopInv => TypeOK
  <2> SUFFICES ASSUME LoopInv PROVE TypeOK
    OBVIOUS
  <2>1. row \in Rows /\ match \in Matches
        /\ cycle.state \in {"off", "starting", "running", "done", "failed"}
    BY DEF LoopInv, SweepInv, Typed
  <2>2. \A c \in calls : c.does \in Command \cup Sweep \cup Timer /\ c.by \in Asker
    BY DEF LoopInv, CallOK
  <2>3. \A k \in Timer : timers[k] # None =>
          /\ timers[k].at \in Nat /\ timers[k].revision \in Nat
          /\ timers[k].until \in Time /\ timers[k].busy \in BOOLEAN
    BY DEF LoopInv, TimerRecords
  <2>4. DOMAIN timers = Timer /\ synced \subseteq {"row", "match"}
        /\ {commands, failures, downs, clock} \subseteq Nat
    BY DEF LoopInv
  <2>5. /\ match.phase \in {"none", "parent", "report", "approval", "final"}
        /\ match.opened \in BOOLEAN
        /\ {match.parent, match.open, match.report, match.approval} \subseteq Time
        /\ row.state \in {"none", "waiting", "gone"}
        /\ row.revision \in Nat /\ row.expire_at \in Nat /\ row.reminded \in BOOLEAN
    BY <2>1 DEF Matches, Rows, Phase
  <2> QED
    BY <2>1, <2>2, <2>3, <2>4, <2>5, OneCallEach DEF TypeOK
<1>2. LoopInv => RowCovered /\ MatchCovered
  <2> SUFFICES ASSUME LoopInv, Quiet PROVE RowCovered /\ MatchCovered
    BY DEF RowCovered, MatchCovered
  <2>1. ~RowToCome(calls) /\ ~MatchToCome(calls)
    BY DEF Quiet, RowToCome, MatchToCome
  <2>2. /\ "row" \in synced => RowSet(timers)
        /\ "match" \in synced => MatchSet(timers) /\ FinalClear(timers)
    BY <2>1, LoopFacts DEF Kept
  <2>3. RowCovered
    <3> SUFFICES ASSUME RowSet(timers), Live
                 PROVE  /\ timers["expire"] # None /\ timers["expire"].revision = row.revision
                        /\ ~row.reminded /\ (clock < row.expire_at - Lead \/ failures = 0) =>
                             timers["remind"] # None /\ timers["remind"].revision = row.revision
      BY <2>2 DEF RowCovered
    <3>1. row.expire_at \in Nat /\ row.revision \in Nat /\ row.expire_at - Lead \in Nat
      <4>1. row \in Rows /\ Remindable(row) /\ Lead \in Nat
        BY Constants DEF LoopInv, SweepInv, Typed
      <4> QED
        BY <4>1 DEF Rows, Remindable, Live
    <3>2. ExpireRecord(row) \in TimerRecords /\ ExpireRecord(row).revision = row.revision
          /\ RemindRecord(row) \in TimerRecords /\ RemindRecord(row).revision = row.revision
      BY <3>1 DEF ExpireRecord, RemindRecord, NewTimer, TimerRecords, Time
    <3>3. None \notin TimerRecords
      BY RuntimeAssumption DEF TimerRecords, Time
    <3> QED
      BY <3>2, <3>3 DEF RowSet
  <2>4. MatchCovered
    <3> SUFFICES ASSUME MatchSet(timers), FinalClear(timers), "match" \in synced
                 PROVE  MatchCovered
      BY <2>2 DEF MatchCovered
    <3>1. match.phase \in MatchTimer => match.phase \in PhaseTimer
      BY DEF LoopInv, SweepInv, Typed, Matches, Phase, MatchTimer, PhaseTimer
    <3>2. match.phase = "report" => OpenRecord(match) # None
      <4> SUFFICES ASSUME match.phase = "report" PROVE OpenRecord(match) # None
        OBVIOUS
      <4>1. match.open \in Nat /\ match.report \in Time
        BY DEF LoopInv, SweepInv, Typed, HasDeadline, Matches
      <4> QED
        BY <4>1, TimerIsThere DEF OpenRecord
    <3> QED
      BY <3>1, <3>2 DEF MatchCovered, MatchSet, FinalClear
  <2> QED
    BY <2>3, <2>4
<1> QED
  BY <1>1, <1>2, LoopInvariant, PTL DEF TimersInv
=============================================================================
