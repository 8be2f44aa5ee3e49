------------------------------ MODULE MatchRuntime -----------------------------
(***************************************************************************)
(* The timers of the bot: platform/runtime/match_runtime.py.               *)
(*                                                                         *)
(* The runtime is one event loop. A command, a timer or the sync cycle     *)
(* asks a service to do something, which runs as a transaction in a        *)
(* thread; the loop goes on with the asker some time after the commit, so  *)
(* that others may have committed, or have been gone on with, in between.  *)
(* A timer that is cancelled meanwhile is not gone on with, though its     *)
(* transaction has committed. Asking and committing are one step here:     *)
(* nobody sees the time between them.                                      *)
(*                                                                         *)
(* One row of the queue and one match made of it stand for all: no timer   *)
(* of one is touched by an operation on another. What the services do is   *)
(* MatchQueue's and MatchFlow's; here they are what moves deadlines.       *)
(***************************************************************************)
EXTENDS Integers, FiniteSets

CONSTANTS
  Users, None,
  TTL, Lead,         (* MATCH_QUEUE_TTL, PRESENCE_REMINDER_LEAD_TIME         *)
  ParentWindow, OpenDelay, ReportWindow, ApprovalWindow,
  Tables,            (* what the bot may find when it starts                 *)
  MaxClock, MaxCommands, MaxFailures, MaxDowns       (* bounds of the model  *)

RowTimer == {"remind", "expire"}
MatchTimer == {"parent", "open", "report", "approval"}
Timer == RowTimer \cup MatchTimer
Command == {"join", "present", "leave", "volunteer", "submit", "approve", "override"}
Sweep == {"cleanup", "create", "load_rows", "load_matches"}

ASSUME RuntimeAssumption ==
  /\ None \notin Nat \cup Timer \cup Sweep
  /\ None \notin [at : Nat, revision : Nat, until : Nat \cup {None}, busy : BOOLEAN]
  /\ Users \cap (Timer \cup {"cycle"}) = {}
  /\ Lead \in 1..TTL /\ OpenDelay <= ReportWindow
  /\ {TTL, Lead, ParentWindow, OpenDelay, ReportWindow, ApprovalWindow,
      MaxClock, MaxCommands, MaxFailures, MaxDowns} \subseteq Nat
  /\ Tables \subseteq {"nothing", "row", "match"}

VARIABLES
  row,        (* the row of the queue                                        *)
  match,      (* the match: its phase and its deadlines                      *)
  timers,     (* _scheduled_tasks and _scheduled_match_tasks, by kind        *)
  calls,      (* the answers that are not yet gone on with                   *)
  cycle,      (* the sync cycle of start() or of the reconcile loop          *)
  synced,     (* history: "row", "match", if who last set the timers of the
                 one or the other knew its last change                       *)
  commands, failures, downs, clock

vars == <<row, match, timers, calls, cycle, synced, commands, failures, downs, clock>>

Asker == Users \cup Timer \cup {"cycle"}
Time == Nat \cup {None}

TypeOK ==
  /\ row.state \in {"none", "waiting", "gone"}
  /\ row.revision \in Nat /\ row.expire_at \in Nat /\ row.reminded \in BOOLEAN
  /\ match.phase \in {"none", "parent", "report", "approval", "final"}
  /\ match.opened \in BOOLEAN
  /\ {match.parent, match.open, match.report, match.approval} \subseteq Time
  /\ DOMAIN timers = Timer
  /\ \A k \in Timer : timers[k] # None =>
       /\ timers[k].at \in Nat /\ timers[k].revision \in Nat
       /\ timers[k].until \in Time /\ timers[k].busy \in BOOLEAN
  /\ \A c \in calls : c.does \in Command \cup Sweep \cup Timer /\ c.by \in Asker
  /\ \A k \in Timer :
       Cardinality({c \in calls : c.by = k}) = IF timers[k] # None /\ timers[k].busy THEN 1 ELSE 0
  /\ cycle.state \in {"off", "starting", "running", "done", "failed"}
  /\ synced \subseteq {"row", "match"}
  /\ {commands, failures, downs, clock} \subseteq Nat

Row(state, revision, expire_at) ==
  [state |-> state, revision |-> revision, expire_at |-> expire_at, reminded |-> FALSE]

NoMatch == [phase |-> "none", opened |-> FALSE, parent |-> None, open |-> None,
            report |-> None, approval |-> None]

Created == [NoMatch EXCEPT !.phase = "parent", !.parent = clock + ParentWindow]
Reporting == [NoMatch EXCEPT !.phase = "report", !.open = clock + OpenDelay,
                             !.report = clock + ReportWindow]
Final == [NoMatch EXCEPT !.phase = "final"]

Init ==
  /\ clock = 0
  /\ \E found \in Tables :
       /\ match = IF found = "match" THEN [Created EXCEPT !.parent = 1] ELSE NoMatch
       /\ row = CASE found = "nothing" -> Row("none", 0, 0)
                  [] found = "row" -> Row("waiting", 1, TTL)
                  [] found = "match" -> Row("gone", 0, 0)
  /\ timers = [k \in Timer |-> None]
  /\ calls = {}
  /\ cycle = [began |-> clock, state |-> "off", owed |-> {}]
  /\ synced = {}
  /\ commands = 0 /\ failures = 0 /\ downs = 0

-----------------------------------------------------------------------------
(* The services: each is one transaction, here the set of its outcomes.    *)

Outcome(r, m, found) == [row |-> r, match |-> m, found |-> found]
RowBecomes(r, found) == {Outcome(r, match, found)}
MatchBecomes(m, found) == {Outcome(row, m, found)}

\* Nothing is to be done, or the call is refused.
Nothing == {Outcome(row, match, "nothing")}

Live == row.state = "waiting" /\ clock < row.expire_at
RowOverdue == row.state = "waiting" /\ row.expire_at <= clock
MatchOverdue == match.phase \in {"parent", "report", "approval"} /\ match[match.phase] <= clock
Gone(found) == RowBecomes([row EXCEPT !.state = "gone"], found)
Expired == IF RowOverdue THEN Gone("expired") ELSE Nothing

\* A player has one row at a time; a later one has other timers.
JoinQueue ==
  IF row.state # "none" THEN Nothing
  ELSE RowBecomes(Row("waiting", 1, clock + TTL), "joined")

Present ==
  IF Live THEN RowBecomes(Row("waiting", row.revision + 1, clock + TTL), "present")
  ELSE Expired

Leave == IF Live THEN Gone("left") ELSE Expired

ProcessExpire(revision) == IF row.revision = revision THEN Expired ELSE Nothing

ProcessPresenceReminder(revision) ==
  IF Live /\ row.revision = revision /\ ~row.reminded /\ row.expire_at - Lead <= clock
  THEN RowBecomes([row EXCEPT !.reminded = TRUE], "reminded") ELSE Nothing

\* Others may be there for a match, or not.
TryCreateMatches ==
  Nothing \cup
  IF Live /\ match.phase = "none"
  THEN {Outcome([row EXCEPT !.state = "gone"], Created, "created")} ELSE {}

Finalized == MatchBecomes(Final, "final")

\* The reports are in or their time is over: with a result all agree on or all
\* have approved, this is the end.
StartApproval(started_at) ==
  Finalized \cup
  MatchBecomes([NoMatch EXCEPT !.phase = "approval", !.approval = started_at + ApprovalWindow],
               "approval")

\* All may have reported before there is a parent.
AssignParent == MatchBecomes(Reporting, "assigned") \cup StartApproval(clock)

VolunteerParent ==
  IF match.phase = "parent" /\ clock < match.parent THEN AssignParent ELSE Nothing

ProcessParentDeadline ==
  IF match.phase = "parent" /\ match.parent <= clock THEN AssignParent ELSE Nothing

ProcessReportOpen ==
  IF match.phase = "report" /\ ~match.opened /\ match.open <= clock /\ clock < match.report
  THEN MatchBecomes([match EXCEPT !.opened = TRUE], "opened") ELSE Nothing

\* One report of several, or the last one.
SubmitReport ==
  Nothing \cup
  IF match.phase = "report" /\ match.open <= clock /\ clock < match.report
  THEN StartApproval(clock) ELSE {}

\* A late call answers with the approval that another one has started.
ProcessReportDeadline ==
  IF match.phase = "report" /\ match.report <= clock THEN StartApproval(match.report)
  ELSE IF match.phase = "approval" THEN MatchBecomes(match, "approval")
  ELSE Nothing

ApproveProvisionalResult ==
  Nothing \cup IF match.phase = "approval" THEN Finalized ELSE {}

ProcessApprovalDeadline ==
  IF match.phase = "approval" /\ match.approval <= clock THEN Finalized ELSE Nothing

OverrideMatchResult == IF match.phase = "none" THEN Nothing ELSE Finalized

Outcomes(does, revision) ==
  CASE does = "join" -> JoinQueue
    [] does = "present" -> Present
    [] does = "leave" -> Leave
    [] does = "expire" -> ProcessExpire(revision)
    [] does = "cleanup" -> Expired
    [] does = "remind" -> ProcessPresenceReminder(revision)
    [] does = "create" -> TryCreateMatches
    [] does = "volunteer" -> VolunteerParent
    [] does = "parent" -> ProcessParentDeadline
    [] does = "open" -> ProcessReportOpen
    [] does = "submit" -> SubmitReport
    [] does = "report" -> ProcessReportDeadline
    [] does = "approve" -> ApproveProvisionalResult
    [] does = "approval" -> ProcessApprovalDeadline
    [] does = "override" -> OverrideMatchResult
    [] does \in {"load_rows", "load_matches"} -> {Outcome(row, match, "loaded")}

\* What an asker does not know any more when others change the row or the match.
Overtaken(c, moved) ==
  [c EXCEPT !.answer.fresh = @ \ moved, !.seen.fresh = @ \ moved]

\* Nothing has been seen.
Unseen == [found |-> "nothing", at |-> None, row |-> None, match |-> None, fresh |-> {}]

\* "by" asks for the outcome o while "others" wait for the loop and the timers
\* of "known" are up to date; "seen" is an earlier answer that it still needs.
Ask(does, by, seen, others, known, o) ==
  LET moved == (IF [o.row EXCEPT !.reminded = FALSE] # [row EXCEPT !.reminded = FALSE]
                THEN {"row"} ELSE {})
               \cup (IF o.match.phase # match.phase THEN {"match"} ELSE {})
      Told(v) == IF o.found = "nothing" THEN None ELSE v
      call == [does |-> does, by |-> by, seen |-> seen,
               answer |-> [found |-> o.found, at |-> Told(clock), row |-> Told(o.row),
                           match |-> Told(o.match), fresh |-> {"row", "match"}]]
  IN  /\ row' = o.row /\ match' = o.match
      /\ synced' = known \ moved
      /\ calls' = {Overtaken(c, moved) : c \in others}
                  \cup {[call EXCEPT !.seen = Overtaken(call, moved).seen]}

-----------------------------------------------------------------------------
(* The event loop. "loop" is the timers and the calls together.            *)

\* _cancel_task, for the tasks of "keys"
Cancel(loop, keys) ==
  [timers |-> [k \in Timer |-> IF k \in keys THEN None ELSE loop.timers[k]],
   calls  |-> {c \in loop.calls : c.by \notin keys}]

\* _schedule_task, _schedule_match_task
Schedule(loop, key, at, revision, until) ==
  [Cancel(loop, {key}) EXCEPT !.timers[key] =
     [at |-> at, revision |-> revision, until |-> until, busy |-> FALSE]]

RemindTimer(loop, r) == Schedule(loop, "remind", r.expire_at - Lead, r.revision, r.expire_at)
ExpireTimer(loop, r) == Schedule(loop, "expire", r.expire_at, r.revision, None)
ParentTimer(loop, m) == Schedule(loop, "parent", m.parent, 0, None)
OpenTimer(loop, m) == Schedule(loop, "open", m.open, 0, m.report)
ReportTimer(loop, m) == Schedule(loop, "report", m.report, 0, None)
ApprovalTimer(loop, m) == Schedule(loop, "approval", m.approval, 0, None)

\* The timer of the phase that the call has ended.
Ended(does) == IF does \in {"parent", "volunteer"} THEN {"parent"} ELSE {"report"}

\* Slip: a match that has its parent gets no timer for its reports.
AfterWithoutReports(loop, c) ==
  LET a == c.answer
  IN  CASE a.found \in {"joined", "present"} -> RemindTimer(ExpireTimer(loop, a.row), a.row)
        [] a.found \in {"left", "expired"} -> Cancel(loop, RowTimer)
        [] a.found = "created" -> ParentTimer(Cancel(loop, RowTimer), a.match)
        [] a.found = "assigned" -> OpenTimer(Cancel(loop, Ended(c.does)), a.match)
        [] a.found = "approval" -> ApprovalTimer(Cancel(loop, Ended(c.does)), a.match)
        [] a.found = "final" -> Cancel(loop, MatchTimer)
        [] OTHER -> loop

\* What is done with an answer, whoever has asked.
After(loop, c) ==
  LET a == c.answer
  IN  CASE a.found \in {"joined", "present"} -> RemindTimer(ExpireTimer(loop, a.row), a.row)
        [] a.found \in {"left", "expired"} -> Cancel(loop, RowTimer)
        [] a.found = "created" -> ParentTimer(Cancel(loop, RowTimer), a.match)
        [] a.found = "assigned" ->
             OpenTimer(ReportTimer(Cancel(loop, Ended(c.does)), a.match), a.match)
        [] a.found = "approval" -> ApprovalTimer(Cancel(loop, Ended(c.does)), a.match)
        [] a.found = "final" -> Cancel(loop, MatchTimer)
        [] OTHER -> loop

\* history: whose timers this sets, and which are up to date when "what" is set
\* from the answer a.
Sets(c) ==
  CASE c.answer.found \in {"joined", "present", "left", "expired"} -> {"row"}
    [] c.answer.found = "created" -> {"row", "match"}
    [] c.answer.found \in {"assigned", "approval", "final"} -> {"match"}
    [] OTHER -> {}

Sync(a, what) == (synced \ what) \cup (what \cap a.fresh)

Without(c) == [timers |-> timers, calls |-> calls \ {c}]

\* setup_hook starts the runtime before Discord sends commands. Only commands
\* that do something are of interest.
Request(u, does) ==
  /\ cycle.state \in {"running", "done", "failed"}
  /\ commands < MaxCommands
  /\ \A c \in calls : c.by # u
  /\ \E o \in Outcomes(does, 0) \ Nothing : Ask(does, u, Unseen, calls, synced, o)
  /\ commands' = commands + 1
  /\ UNCHANGED <<timers, cycle, failures, downs, clock>>

\* A join goes on to make matches, unless after_join raises.
Respond(c) ==
  LET loop == After(Without(c), c)
      known == Sync(c.answer, Sets(c))
  IN  /\ c.by \in Users
      /\ timers' = loop.timers
      /\ \/ /\ calls' = loop.calls /\ synced' = known
            /\ UNCHANGED <<row, match>>
         \/ /\ c.does = "join"
            /\ \E o \in TryCreateMatches : Ask("create", c.by, Unseen, loop.calls, known, o)
      /\ UNCHANGED <<cycle, commands, failures, downs, clock>>

Due(k) == timers[k] # None /\ ~timers[k].busy /\ timers[k].at <= clock

\* _run_scheduled_task, _run_match_scheduled_task
Fire(k) ==
  /\ Due(k)
  /\ timers' = [timers EXCEPT ![k].busy = TRUE]
  /\ \E o \in Outcomes(k, timers[k].revision) :
       Ask(k, k, Unseen, calls, synced, o)
  /\ UNCHANGED <<cycle, commands, failures, downs, clock>>

TimerDone(c) ==
  /\ c.by \in Timer
  /\ LET loop == After(Without(c), c)
     IN  /\ timers' = [loop.timers EXCEPT ![c.by] = None]
         /\ calls' = loop.calls
  /\ synced' = Sync(c.answer, Sets(c))
  /\ UNCHANGED <<row, match, cycle, commands, failures, downs, clock>>

\* _run_handler_with_retry: the retry is up to a unit of time later. Nobody is
\* reminded, or told that reports are open, after the deadline "until".
Retry(k) ==
  LET next == IF clock < MaxClock THEN clock + 1 ELSE clock
  IN  IF timers[k].until # None /\ next >= timers[k].until THEN None
      ELSE [timers[k] EXCEPT !.at = next]

\* A temporary failure of the database: the transaction is rolled back. (A
\* command that fails changes nothing and is no step at all.)
FireInVain(k) ==
  /\ Due(k) /\ failures < MaxFailures
  /\ failures' = failures + 1
  /\ timers' = [timers EXCEPT ![k] = Retry(k)]
  /\ UNCHANGED <<row, match, calls, cycle, synced, commands, downs, clock>>

-----------------------------------------------------------------------------
(* _run_sync_cycle                                                         *)

\* history: what is overdue when the cycle begins
Owed ==
  (IF RowOverdue THEN {<<"row", row.revision>>} ELSE {})
  \cup (IF MatchOverdue THEN {<<"match", match.phase>>} ELSE {})

\* Slip: there is a cycle at the start, and never again.
OnlyAtStart ==
  /\ cycle.state = "off"
  /\ cycle' = [began |-> clock, state |-> "starting", owed |-> Owed]
  /\ \E o \in Expired : Ask("cleanup", "cycle", Unseen, calls, synced, o)
  /\ UNCHANGED <<timers, commands, failures, downs, clock>>

\* The cycle of start(), and those of _run_reconcile_loop.
BeginCycle ==
  /\ cycle.state \in {"off", "done", "failed"}
  /\ cycle.began < clock \/ cycle.state = "off" \/ clock = MaxClock
  /\ cycle' = [began |-> clock, state |-> IF cycle.state = "off" THEN "starting" ELSE "running", owed |-> Owed]
  /\ \E o \in Expired : Ask("cleanup", "cycle", Unseen, calls, synced, o)
  /\ UNCHANGED <<timers, commands, failures, downs, clock>>

\* What the cycle does with the answer it has: how it sets the timers, of what
\* ("sets"), and what it asks for next (or nothing) with what it still has "seen".
Step(loop, sets, next, revision, seen) ==
  [loop |-> loop, sets |-> sets, next |-> next, revision |-> revision, seen |-> seen]

\* Rows: remind now what is due, set the other timers from what was loaded.
SyncRow(loop, a) ==
  LET remindAt == a.row.expire_at - Lead
      Load(l, sets) == Step(l, sets, "load_matches", 0, Unseen)
  IN  IF a.row.state # "waiting" THEN Load(loop, {})
      ELSE IF ~a.row.reminded /\ remindAt <= a.at /\ a.at < a.row.expire_at
      THEN Step(loop, {}, "remind", a.row.revision, a)
      ELSE Load(ExpireTimer(IF a.row.reminded \/ remindAt <= a.at THEN loop
                            ELSE RemindTimer(loop, a.row), a.row), {"row"})

\* Slip: a deadline that has passed is left to the timers.
OnlySetTimer(loop, a) == Step(ReportTimer(loop, a.match), {"match"}, None, 0, Unseen)

SyncReport(loop, a) ==
  IF a.match.report <= a.at THEN Step(loop, {}, "report", 0, Unseen)
  ELSE Step(ReportTimer(loop, a.match), {"match"}, None, 0, Unseen)

\* Matches: do now what is due, set the other timers from what was loaded.
SyncMatch(loop, a) ==
  LET m == a.match
  IN  CASE m.phase \in {"parent", "approval"} ->
             IF m[m.phase] <= a.at THEN Step(loop, {}, m.phase, 0, Unseen)
             ELSE Step(IF m.phase = "parent" THEN ParentTimer(loop, m) ELSE ApprovalTimer(loop, m),
                       {"match"}, None, 0, Unseen)
        [] m.phase = "report" ->
             IF ~m.opened /\ m.open <= a.at THEN Step(loop, {}, "open", 0, a)
             ELSE SyncReport(IF m.opened THEN loop ELSE OpenTimer(loop, m), a)
        [] OTHER -> Step(loop, {}, None, 0, Unseen)

StepAfter(c) ==
  LET loop == After(Without(c), c)
  IN  CASE c.does = "cleanup" -> Step(loop, {}, "create", 0, Unseen)
        [] c.does = "create" -> Step(loop, {}, "load_rows", 0, Unseen)
        [] c.does = "load_rows" -> SyncRow(loop, c.answer)
        [] c.does = "remind" ->
             Step(ExpireTimer(loop, c.seen.row), {"row"}, "load_matches", 0, Unseen)
        [] c.does = "load_matches" -> SyncMatch(loop, c.answer)
        [] c.does = "open" -> SyncReport(loop, c.seen)
        [] OTHER -> Step(loop, {}, None, 0, Unseen)

\* What was loaded before a reminder or an opening is still used after it.
CycleStep(c) ==
  LET step == StepAfter(c)
      source == IF c.does \in {"remind", "open"} THEN c.seen ELSE c.answer
      known == Sync(source, Sets(c) \cup step.sets)
  IN  /\ c.by = "cycle"
      /\ timers' = step.loop.timers
      /\ \/ /\ step.next = None
            /\ cycle' = [cycle EXCEPT !.state = "done"]
            /\ calls' = step.loop.calls /\ synced' = known
            /\ UNCHANGED <<row, match, failures>>
         \/ /\ step.next # None
            /\ \E o \in Outcomes(step.next, step.revision) :
                 Ask(step.next, "cycle", step.seen, step.loop.calls, known, o)
            /\ UNCHANGED <<cycle, failures>>
         \* The next transaction fails; so does the cycle.
         \/ /\ step.next # None /\ failures < MaxFailures /\ cycle.state = "running"
            /\ failures' = failures + 1
            /\ cycle' = [cycle EXCEPT !.state = "failed"]
            /\ calls' = step.loop.calls /\ synced' = known
            /\ UNCHANGED <<row, match>>
      /\ UNCHANGED <<commands, downs, clock>>

\* The bot stops or dies, also because its first cycle fails.
Down ==
  /\ cycle.state # "off" /\ downs < MaxDowns
  /\ downs' = downs + 1
  /\ cycle' = [began |-> clock, state |-> "off", owed |-> {}]
  /\ timers' = [k \in Timer |-> None]
  /\ calls' = {}
  /\ UNCHANGED <<row, match, synced, commands, failures, clock>>

\* A unit of time is a minute or more; only a cycle may take that long.
Tick ==
  /\ clock < MaxClock
  /\ \A c \in calls : c.by = "cycle"
  /\ clock' = clock + 1
  /\ UNCHANGED <<row, match, timers, calls, cycle, synced, commands, failures, downs>>

GoOn(c) == Respond(c) \/ TimerDone(c) \/ CycleStep(c)

Next ==
  \/ \E u \in Users, does \in Command : Request(u, does)
  \/ \E k \in Timer : Fire(k)
  \/ \E k \in Timer : FireInVain(k)
  \/ \E c \in calls : GoOn(c)
  \/ BeginCycle
  \/ Down
  \/ Tick

Spec == Init /\ [][Next]_vars

\* The loop goes on with what has an answer, and the reconcile loop begins its
\* cycle again and again, also after a failure or a restart. Nothing is
\* assumed of the timers.
FairSpec ==
  /\ Spec
  /\ WF_vars(\E c \in calls : GoOn(c))
  /\ WF_vars(BeginCycle)
  /\ WF_vars(Tick)

-----------------------------------------------------------------------------
\* Nothing is under way.
Quiet == calls = {} /\ cycle.state \in {"done", "failed"}

\* When the loop has nothing to go on with and the last one that set the timers
\* of the row (of the match) had seen its last change, then every deadline to
\* come has its timer and what is over has none, whichever commands, timers and
\* cycles have cancelled and replaced each other's timers before.
RowCovered ==
  Quiet /\ "row" \in synced /\ Live =>
    /\ timers["expire"] # None /\ timers["expire"].revision = row.revision
    /\ ~row.reminded /\ (clock < row.expire_at - Lead \/ failures = 0) =>
         timers["remind"] # None /\ timers["remind"].revision = row.revision

MatchCovered ==
  Quiet /\ "match" \in synced =>
    /\ match.phase \in MatchTimer => timers[match.phase] # None
    /\ match.phase = "report" /\ ~match.opened /\ clock < match.report
         /\ (clock < match.open \/ failures = 0) => timers["open"] # None
    /\ match.phase = "final" => \A k \in MatchTimer : timers[k] = None

\* The types and the timers of both.
TimersInv == TypeOK /\ RowCovered /\ MatchCovered

\* A cycle that ends without an error leaves nothing behind that was overdue
\* when it began, whatever had happened to the timers.
CycleSweeps ==
  cycle.state = "done" =>
    /\ <<"row", row.revision>> \in cycle.owed => row.state # "waiting"
    /\ <<"match", match.phase>> \notin cycle.owed

\* Through failures, lost answers and restarts, no deadline is forgotten.
Overdue == RowOverdue \/ MatchOverdue
NothingForgotten == Overdue ~> ~Overdue
=============================================================================
