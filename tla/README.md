# Verification of dxd-rating-system

A Discord bot that runs rated matches: players queue up, are put into matches,
report and approve results, and are rated by season. The state is in PostgreSQL;
the bot (`apps/bot`) and two daily jobs (`apps/worker`) change it in transactions, and
whatever is to be said on Discord goes through an outbox table.

This directory has TLA+ modules for the parts of that system that are hard to test,
the TLC runs that check them on small instances, and proofs of the main theorems for
every value of the constants. `PROJECT.json` maps every definition to the lines it
models and lists the runs, theorems, hazards and findings. All source paths below are
relative to `src/src/dxd_rating/`, those that begin with `docs/` to `src/`.

## 1. Inventory

| Component | Code | State it keeps | Operations |
| --- | --- | --- | --- |
| Matchmaking queue | `contexts/matchmaking/application/matching_queue.py` | `match_queue_entries` | join, present, leave, bind presence thread, reminder, expiry, cleanup, create a match |
| Matching domain | `contexts/matchmaking/domain/matching.py` | none | pairing, split into balanced teams, queue class by rating |
| Match flow | `contexts/matches/application/match_flow.py` | `active_match_states`, reports, player states, `finalized_match_results`, penalties, spectators | volunteer, report, approve, four deadlines, spectate, override, adjust a penalty |
| Match rules | `contexts/matches/domain/match_rules.py` | none | count the reports, tie break, review reasons, penalties |
| Rating | `contexts/matches/domain/rating.py`, `rating_replay.py` and parts of match flow | `player_format_stats`, ratings in the finalized results | Elo update, replay after a correction |
| Seasons | `contexts/seasons/application/seasons.py` | `seasons`, carry-over state of the stats | rollover, forced end, carry-over, completion |
| Outbox dispatcher | `platform/runtime/outbox.py` | `outbox_events`; listener and retry timers in memory | claim, publish, retry with back-off, discard, wake-ups, fallback poll |
| Match runtime | `platform/runtime/match_runtime.py` | timers in memory, per row and per match | schedule, cancel, retry, sync at start, reconcile loop |
| Managed UI | `contexts/ui/application/management.py`, admin commands of `platform/discord/gateway/commands/application.py` | `managed_ui_channels`; the server's channels | set up, set up one, replace, clean up, tear down |
| Info threads | `contexts/ui/application/info_threads.py`, `platform/discord/ui/info_thread.py`, commands of `application.py` | `player_info_thread_bindings`; the menus' selections in memory | create a thread, select, show a result or a page |
| Access restrictions | `contexts/restrictions/` | `player_access_restrictions` | restrict, lift, look up |
| Player registration | `contexts/players/` | `players` | register, update the identity |
| Leaderboard | `contexts/leaderboard/application/` | `leaderboard_snapshots` | rank, daily snapshot |
| Commands and publisher | `platform/discord/` | none of their own | parse, call the services, talk to Discord |
| Bot and jobs | `apps/` | none | start, stop, daily maintenance, forced end of a season |

How they interact:

* A command handler calls the match runtime (in the event loop), which runs a service in a
  worker thread; the service does one transaction. When it returns, the runtime sets or
  cancels timers. Timers and the reconcile loop call the same services.
* Services share the tables and exclude each other with row locks (`FOR UPDATE`, `SKIP
  LOCKED`) and advisory locks on players and matches. Nothing locks the seasons.
* A service that wants something said inserts an `outbox_events` row in its transaction,
  with a dedupe key, and a trigger notifies the dispatcher.
* After a join has committed, the handler creates a thread on Discord and binds it to the
  row in a second transaction: by then the row may be matched, left or expired.
* The commands for the UI and for info threads are sequences of calls of Discord and of small
  transactions, which run beside each other, fail separately, and are undone by hand.

What is hard in it: `now()` is the time at which a transaction *began*, which may be long
before it gets its locks; timers are late, doubled or lost; rows held by somebody else are
skipped, not waited for; the same decision (expire, assign a parent, finalize) can be
triggered by a player, a timer and a loop at once; penalty counters and ratings are
corrected after the fact; what was read before a lock or an `await` is used after it.
`PROJECT.json` "hazards" lists these places line by line.

What makes each component correct:

* queue: one place per player; full batches of different players of one class; a row is
  used in one match; notices tell the truth; one reminder per deadline; no row that is
  overdue stays; hardly anybody is overtaken.
* match flow: decided once, and by the rules; final once; penalties only for who deserves
  them, and the books add up; seats are respected; every match ends.
* rules: a majority decides; symmetry between the teams.
* rating: the ratings are what a replay of all results in rating order gives, and so is what
  is recorded for the next correction.
* seasons: they follow each other without gap or overlap; a season is completed, and announced
  once, only when it is over and none of its matches is open; what was carried over stays so;
  seasons go on for ever.
* outbox: every event is published or discarded in the end, none before it is committed;
  twice only after a failure.
* runtime: every deadline to come has its timer; whatever is due is done, also after a restart
  and after a lost timer.
* managed UI: a command does all or nothing, and what could be used before it can be used after it.
* info threads: a player's results are shown in the player's own latest thread; a failed
  creation leaves no binding to it; when the binding cannot be saved the thread is deleted, if
  Discord allows, and when the thread cannot be equipped (`application.py:5084`) it stays behind.

## 2. Modules

| Module | What it is |
| --- | --- |
| `MatchRules` | `match_rules.py` as operators on "latest reports by player" |
| `MatchBallot` | the reports and the parent of a match by themselves: every ballot, to check the rules |
| `QueueMembership` | abstract: tickets, groups; what the queue promises |
| `MatchQueue` | `MatchingQueueService`, one action per transaction; implements `QueueMembership` |
| `MatchLifecycle` | abstract: open, approval, final; what one match promises |
| `MatchFlow` | `MatchFlowService` on one match, one action per transaction; implements `MatchLifecycle` |
| `RatingLedger` | the ratings that finalizations and corrections of several matches write, lock by lock |
| `Seasons` | seasons, the players' rows in them, carry-over and completion, statement by statement |
| `AtLeastOnce` | abstract: notices that are accepted, shown, delivered or dropped |
| `OutboxDelivery` | `OutboxDispatcher`, its listener and its retry tasks; implements `AtLeastOnce` |
| `MatchRuntime` | the timers of a row and of a match, the event loop, the sync cycle |
| `ManagedUi` | the administrators' commands for the bot's channels, await by await |
| `InfoThreads` | the threads for results and rankings, await by await |
| `MCMatchQueue`, `MCMatchFlow`, `MCOutboxDelivery`, `MCRatingLedger`, `MCManagedUi`, `MCInfoThreads` | small instances for TLC; `MatchBallot`, `Seasons` and `MatchRuntime` are run as they are |
| `MatchQueueProofs`, `MatchFlowProofs` (also of `MatchBallot`), `RatingLedgerProofs`, `SeasonsProofs`, `OutboxDeliveryProofs`, `InfoThreadsProofs`, `MatchRuntimeProofs`, `ManagedUiProofs` | theorems and proofs |

`MatchBallot` extends `MatchRules`, and `MatchFlow` extends `MatchBallot` by everything else that happens to a match. The modules meet where one's effect is another's assumption:
`MatchRuntime` shows that the deadlines of `MatchQueue` and `MatchFlow` are handled in the end, which
those two assume as fairness; the finalization of `MatchFlow` is taken apart in
`RatingLedger` (what it does to ratings) and in `Seasons` (what it does to a season); every module
that speaks of events only inserts them, and `OutboxDelivery` delivers them. Operators whose
comment starts with "Slip:" are plausible mistakes in the definition that follows them; nothing uses
them. Each is there to be put in the place of that definition, so as to see that a
property notices.

### Transactions and time

In `MatchQueue` and `MatchFlow` a transaction takes its locks before it decides anything and holds
them until it commits, so each is one action. Where that is not so (`Seasons`, `RatingLedger`, the dispatcher,
the commands) a transaction is split at the places where others can get in between. `clock` is the database's clock. A transaction works with `now()`, which
is the time it began: `at` in `TransactionTimes`, up to `MaxLag` ticks before the moment it is
applied. So two transactions may be applied in an order that is not that of their times, a
report may be counted just after the deadline that it met, and `joined_at` and `id` may
order two rows differently. A transaction that raises rolls back and is no action (an
unmet guard, a missing channel, no active season). In the modules of the services timers are not
modelled as such (`MatchRuntime` does): a timer action is enabled from its deadline on and may come as late as it likes, with any revision
it may have been set for.

### MatchQueue

`queue` is the table by id, `lastId` its sequence, `matches` the created matches as sets of
row ids, `outbox` the set of dedupe keys. `JoinQueue`, `Present`, `Leave`,
`BindPresenceThread`, `ProcessPresenceReminder`, `ProcessExpire`, `TryCreateBatch` and
`CleanupExpiredEntries` are the methods of those names. `skipped` is the set of rows that
`SKIP LOCKED` leaves out because another transaction holds them at the moment; at most
`MaxSkipped` of them. `Eligible` is the rating and restriction check of `join_queue`, which is
made at the join and never again (as `docs/matching/common.md` says). Left out: `removed_at`
and `last_present_at` (nothing reads them), the addresses of the notices, the split into
teams, and that every format has `batch_size = 1`, so that one batch is one match.

### MatchFlow

One match from its creation at time 0. The variables are the columns of
`active_match_states` (deadlines follow from `decidedAt` and `approvalStartedAt`), the latest
reports, the approvals, the final result, the automatic penalties that are recorded with it, the
counters of `player_penalties`, and the spectators. The private methods that end in `_locked`
are operators (`AssignParent`, `StartApproval`, `FinalizeMatch`, `CloseApprovals`), called by the
actions as the methods are: assigning a parent may start the approval (all VOID reports may be
in before there is a parent), and starting it may finalize the match on the spot. The ratings that a
finalization writes are `RatingLedger`'s.

### RatingLedger

Three matches of one season and format. `transactions` are those under way, with the advisory locks
they hold and those they still need, in the order of the code: a finalization takes its match and
then its players by id, a correction the same, then lists the later matches, and then takes their
locks and those of all their players. `finalized`, `before`, `rating` and `lastPlayed` are the
columns. A rating is not a number but the term of the formula that made it (the match, its
result and the ratings of all participants before it), so that two ratings are equal in the model
exactly when the same updates were made in the same order: neither the Elo arithmetic nor rounding
is modelled. `Abort` is PostgreSQL ending a transaction that waits in a circle; the code handles
it like any error. `InOrder` is the precondition of the two replay properties: no match of a
player was applied after one that is rated later. Where it does not hold (a late
deadline is rated at the deadline), a correction changes the order in which ratings build on each
other, which is what the code says.

### Seasons

The transactions run under READ COMMITTED and lock no season, so each is split where its reads and writes
can be separated by the commit of another: registration, match creation, finalization and
the maintenance of the seasons, which the bot does at its start and the worker once a day. `keepers`
has what a maintenance has read (and, as history, after how many forced ends it did), `matches[m].phase` how far a creation or a finalization is. The
unique constraints on `start_at` and `end_at` are `Clash`. One format stands for the
three, months have equal length, and a transaction lasts at most `MaxLag`. Left out:
`rename_season`, the names of seasons, and which channel the notices go to.

### OutboxDelivery

`rows` is the table, `posts` what Discord was made to show, in order. Unlike the services, a
dispatch cycle is *not* one action: the transaction of an event stays open while the event is being
published, so `Claim`, `Publish` and `Record...` are steps, and a crash or a failed
transaction may come between any two. `cycle` is the cycle that holds the dispatch lock,
`waiting` the tasks that wait for it, `timers` the sleeping retry tasks with the times at
which they wake, `boot` how far `start()` has come and `scan` what it has read for
`_rebuild_retry_timers` and not yet turned into tasks. `unconfirmed` and `pollNeeded` are
history: how often an event was posted without being recorded, and whether a cycle has lost its
results (an exception, or a retry task that `_rebuild_retry_timers` cancels in the middle) or a retry
task has woken before the database's clock says so, after which only the fallback poll brings an
event back.

What the abstraction leaves out. Tasks that wait because of a notification, a reconnect, a full
batch or the poll do the same, so one stands for all. Graceful shutdown lets the event that is
being published finish and is then like a crash. A cancelled retry task gives the lock up while its
thread goes on; the model lets it keep the lock, since the row it works on is locked and
skipped by everybody else. Events that are refused for ever (`Refused`) are those whose channel the
publisher may not write to: it only gives up on "not found". Other failures end before
the clock does (`MaxFailures`, `MaxClock`), or the end of the clock would look like lost events.

### MatchRuntime

One row and the match that is made of it. The services are sets of outcomes (`JoinQueue`, `Present`,
`SubmitReport` and so on): which deadlines they move and what they answer. `calls` are the answers that the
event loop has not yet gone on with; `timers` the asyncio tasks, `busy` while their handler
runs; `cycle` the sync cycle of `start()` or of the reconcile loop, which does what is due, loads rows and
matches in separate transactions and sets timers from what it loaded, also after it has waited for a
reminder or a report opening in between. Asking and committing are one step, since nobody sees the time
between them. Time only passes when nothing but the cycle has an answer to go on with (a unit is
a minute or more), a cycle begins once per unit (any number of times at `MaxClock`), and a retry is at
most one unit late. The handlers with a deadline (reminder, report opening) give up when the next
retry would be later than it, as the code does. `synced` is history: whether whoever last set the
timers knew the last change.

### ManagedUi

`channels` and `categories` are the server, `records` the table, `command[a]` what the last command of
administrator `a` is doing: its `stage` is the await it is at. Every call may fail (at most
`MaxFailures` times), people create and delete channels (`MaxByHand`), the process may end
(`Restart`), and nothing keeps two commands apart. A command reads the table and the channel list at its begin,
as one step, though another command's step may come
between the transaction that reads the table and the look at the channels. A command that
refuses changes nothing and is no step. Left out: the role for registered players, permissions,
what the messages say, and a commit whose confirmation is lost.

A call of Discord that fails may have been applied and only its answer lost, which is the same to a command
(`except Exception`, `application.py:2467` and 5752). A deletion it believes to have failed leaves at most
a record of a channel that is gone, which a teardown takes away, but in one place: when the old channel of a resetup is deleted and the answer lost, the record is restored to a
channel that is gone, and the replacement is deleted (`DeleteOldChannel`). A channel that a setup created without
hearing of it stays, is in no record, and blocks the next setup until it is cleaned up (`CreateTextChannel`).

`alone` is history: whether nothing else touched the server while the command ran, which is what the
properties are about. These two cases count as company (`Crowded`): of what a command does after them
`UsableStaysUsable`, `SetupIsAllOrNothing` and `ResetupConverges` say nothing. All other lost answers are covered by them.

### InfoThreads

`threads` and `enabled` (buttons) are on Discord, `binding` is the table, `chosen` the selections in memory,
`tasks` the interactions under way, each at an await. `Equip` (invitations and first message) and the
saving of the binding may fail, and so may the deletion that follows; a creation that Discord
refuses has changed nothing and is no step. The transaction that saves the binding is
split at its read (`ReadBinding`, `info_threads.py:35`), as two creations for one player may both find no row. The page a slash command asks for is the first one. The bot's views are
persistent, so that the buttons of old threads work after a `Restart` while the selections are gone.
Threads are not deleted by hand.

## 3. Runs

`MC*` modules give the constants; "bounds" are the constants whose names start with `Max`.
Deadlock is not checked where the clock, the ids or the counters end (`CHECK_DEADLOCK FALSE`): the bounds
stop the model there, and nobody has to act in the system either.

| Run | Instance | What it shows |
| --- | --- | --- |
| `match_ballot` | 2v2, all ballots and parents (3125 states) | `MajorityWins`, `NeitherTeamFavoured` |
| `queue_rows` | 2 players, 2 classes (one open to both), 2 rows, 2 revisions, clock to 3, lag 1, 1 skipped row, with fairness | `AtMostOneWaiting`, `ExpiryNoticeSound`, `ReminderPerDeadline`, `TerminalRowsFrozen`, `OverdueRowsLeave`, refinement of `QueueMembership` |
| `queue_order` | 4 players, 1 class, 4 rows, lag 1, 1 skipped row | `RosterSound`, `BoundedOvertaking` |
| `match_flow_duel` | 1v1, all four reports, 2 spectators for 1 seat, overrides, a manual penalty, with fairness | `PenaltiesAddUp`, `SeatsRespected`, `FinalizedOnce`, `DecidedOnce`, `EventuallyFinalized`, refinement of `MatchLifecycle` |
| `match_flow_teams` | 2v2, reports "win" and "void" from four players | `ResultIsTheDecision`, `WaitsForSomebody`, `PenaltiesDeserved` |
| `outbox` | 2 events, batches of 2, clock to 2, event 1 refused for ever, 1 failure of event 2, a clock 1 ahead, 1 mishap (crash, failed transaction, lost connection), the delay overflows at the third failure, with fairness | `OutboxInv`, `DuplicatesExplained`, `EventuallySettled`, refinement of `AtLeastOnce` |
| `seasons` | 1 player, matches of 1, months of 2, clock to 4, 4 seasons, 1 match, 1 forced end, 1 start of the bot, lag 1, with fairness | `SeasonsInv`, `CompletionSound`, `CarryoverFinal`, `SeasonsGoOn` |
| `ratings` | 3 matches, player 1 in each, results "win" and "void", 4 transactions, 2 of them corrections | `LedgerInv`, `CirclesNeedCorrection` |
| `ratings_missed` | the same with matches 1–2, 2–3 and 3–4 | the ratings are *not* always those of a replay |
| `match_runtime` | a row or a match at start, 1 user with 1 command, clock to 3, 1 failure, 1 restart, with fairness | `TimersInv`, `CycleSweeps`, `NothingForgotten` |
| `managed_ui` | 2 administrators, 2 UI types, 3 channels, 1 failure, 1 change by hand | `UiInv`, `SetupIsAllOrNothing`, `ResetupConverges` |
| `info_threads` | a player and an administrator, 2 commands, 2 handlers for 3 interactions, 2 selections, 1 failure, 1 restart | `ThreadsInv`, `ResultsStayHome`, `StraysHaveAReason` |

Why these bounds are enough to be interesting.

* `queue_rows`: a place lasts 2 ticks and the clock goes to 3, so that rows run out, are refreshed, run out
  again, are reminded in between and are replaced by a second join while timers of both
  revisions fire. `queue_order`: with four rows and a batch of two, two rows can be passed over, one more than may
  be held elsewhere.
* `match_flow_duel`: every deadline can be met, missed by a late transaction and handled late.
  `match_flow_teams`: with four players there are ties, single-team reports, low counts, and
  partial approvals; "win" and "void" give three results, enough for two to tie against a third.
* `outbox`: two events fit in a batch, so that a transaction can fail after an earlier one of the cycle, whose retry
  is then not scheduled. Event 2 may fail once itself, and its retry task wake early by the clock that is
  ahead, so that `EventuallySettled` depends on the fallback poll for it. With a retry at 1 and a clock to 2 retries come due
  before, between and after the steps of `start()`, and one mishap reaches each trouble once from every
  state. A full batch with more due events behind it needs a third event: that such events are seen to
  is proved for every number of events and every `BatchSize` (`OutboxCorrect`), not exercised by the instance.
* `seasons`: two months with lag 1 let a registration, a creation and a finalization straddle
  a boundary, the bot and the worker create the same season, a forced end shorten
  one that the other has read, and the worker come after a whole missed month. Two matches that are the last of their season are
  not in the instance (see below).
* `ratings`: with a common player every correction holds a lock that every finalization needs, so that
  the list of matches cannot be stale; two corrections and a finalization can still wait
  for each other in a circle. Without a common player it can be stale: `ratings_missed`.
* `match_runtime`: a timer, a command and a cycle are under way at once, each deadline comes due before,
  during and after a cycle, and a failure or restart hits each once.
* `managed_ui`: with two types a setup can fail at its second channel after the first is done; a failure can
  hit each call, also of the rollback of a resetup that a change by hand has set off.
* `info_threads`: two creations for one player, a creation and a button, two presses of one button and
  a page turned in a thread that has been replaced.

Symmetry is used where actors are interchangeable (players of the same class, administrators, handlers),
and only in runs of safety properties.

### The violated run

`ratings_missed`: `_recalculate_ratings_after_match_correction_locked` lists the matches to replay
(`contexts/matches/application/match_flow.py:1389`) before it takes their locks (from line 1408) and those of their players, and does
not list them again. A match that becomes final in between is not replayed, and the ratings of its
players who are in a listed match are overwritten. `docs/matches/result_correction.md:12` says that all matches from the
corrected one on are recalculated.

### Known disagreements without a run

Met while modelling; each can be read off the lines it names.

* `MATCH_QUEUE_TTL` is 30 minutes (`shared/constants.py:165`), `docs/matching/common.md:169` and 205 say 5.
* Due events are taken in the order of `next_attempt_at` (`platform/runtime/outbox.py:406`), and a failure moves an
  event behind the others of its transaction; `docs/outbox.md:232` says that the notices of a completed
  season are posted in a fixed order.
* `retry_delay_for_failure_count` (`platform/runtime/outbox.py:32`) computes `1.0 * 2 ** (n - 1)` before it caps it, which
  is an `OverflowError` for n = 1025. It is raised in the `except` branch, so that the failure is not
  recorded: the event stays the first in the order and ends every later cycle, and the startup, at the
  same place. `docs/outbox.md:404` says that the event is retried every 512 s from then on. The model has it
  (`OverflowDelay`), and `EventuallySettled` only holds until then.
* The next season is created by the daily worker at ten past midnight (`src/README.md:153`), the active one
  ends at midnight: in between `get_active_and_upcoming_seasons` raises and joins and registrations are
  refused, while `docs/seasons.md:6` wants operation to go on across the rollover. `ServedAgain` therefore
  says "again and again", not "always".
* A player whose registration is under way while a season is being created gets no row in it, and is
  refused by `join_queue` in that season (`HasRow` in `Seasons`).
* Two setups at once can install `register_panel` twice (`docs/ui/setup_channel.md:195` says there is one). The
  properties of `ManagedUi` are therefore about commands that run alone.
* A result that was asked for before a new info thread is saved is posted to the thread that was the latest when
  it was looked up, so that `docs/ui/info_thread.md:285` ("not to the old thread") holds for what is asked for later.

### Fairness

`MatchQueue!FairSpec`: time passes, and the cleanup runs again and again. The latter is
`MatchRuntime._run_reconcile_loop`, which sleeps, syncs and survives any exception. No fairness is
assumed of players or matchmaking. `OverdueRowsLeave` allows that the row is refreshed by
a transaction that began before the deadline.

`MatchFlow!FairSpec`: time passes, and each deadline that stays due is handled in the end: timers
are set when the state changes, rebuilt at start, and `_sync_active_matches` handles what
is due in every reconcile cycle. It is weak fairness per handler; no player has to act.

`MatchRuntime!FairSpec` is what both rest on: the loop goes on with what has an answer, a cycle
begins again and again (`start()`, then the reconcile loop; a service manager starts the bot again), and
time passes. Nothing is assumed of the timers, which only make things faster; `NothingForgotten` is then that
whatever is overdue does not stay so.

`Seasons!FairSpec`: time passes, the worker runs again and again (`railway/daily.json` has its schedule), and a
transaction that began ends. Nobody has to register or play.

`OutboxDelivery!FairSpec`: time passes, the process is started again when it is down, `start()`
goes on, the dispatch lock is handed on, a cycle goes on (Discord answers, if only with a
refusal), and the fallback poll comes round; it survives every exception
(`platform/runtime/outbox.py:355`). Nothing is assumed of the listener and of the retry tasks, which only make things
faster.

## 4. Proofs

All are for every value of the constants that the named assumptions of the modules allow
(`TeamAssumption`, `QueueAssumption`, `FlowAssumption`, `LedgerAssumption`, `FinalAssumption`, `SeasonsAssumption`, `OutboxAssumption`,
`InfoAssumption`, `RuntimeAssumption`, `UiAssumption`): any number of players, rows, classes, team sizes, events, seasons,
matches, interactions, delays, lags, failures and restarts. The assumptions ask for sets of the right form, for a
`None` that is no other value, and for what the constants of `shared/constants.py` satisfy (the reminder
comes before the expiry, reporting opens before its deadline, a batch is not empty). TLC evaluates
them in the runs, and TLC checked every inductive invariant before it was proved.

* `MatchQueueProofs`: the inductive invariant `QueueInv` and from it `QueueTypeCorrect`,
  `OnePlaceEach`, `MatchesWellMade`, `ExpiryNoticesTrue`, `RemindersMatchDeadlines`, and the action
  property `GoneForGood`. The checked invariants are not inductive by themselves. `QueueInv` adds
  that rows beyond `lastId` are absent and have no events (`FreshRows`), so that an insert disturbs
  nothing; that every reminder that was sent is for a revision the row has had (`RemindersPast`), so
  that a new revision starts without one; and that rows in use have a player and a class
  (`RowsOwned`). Most actions only change the status or deadline of waiting rows; the lemma
  `WaitingRowsChange` covers what they have in common, and `SilentStep` and `ExpirySteps` the two
  ways they speak of it. `FewPassedOver` is that a batch passes over at most `MaxSkipped` older rows of its class: those
  it could have taken and did not are held by somebody else, because the ids it takes are the smallest of the others.
  `MembershipKept` is the refinement of `QueueMembership`: each transaction is a step of the abstract queue or none.
* `MatchFlowProofs`: the inductive invariant `FlowInv` and from it `FlowTypeCorrect`,
  `PenaltyBooks`, `ApprovalsAwaited` and `ReportsDecide`. It adds `StateShape`, which says for each
  state which columns are written: no result before a parent, approvals only beside a provisional
  result and a start time, automatic penalties only of a finalized match. The nested operators
  have lemmas of their own, so that the steps cite them as the code calls the methods.
  A second invariant, `OutcomeInv`, is about what was done with the match: who was excused from a penalty stays so
  (`Excused`), no automatic penalty before the end, and a final result has been announced (`AnnouncedWhenFinal`). From it
  `SeatsEnough` and `PenaltiesJust`, the action properties `OneFinalization` and `DecisionsStand`, and the
  refinement `LifecycleKept`.
  The last part is about the ballot alone, that is about `BallotSpec` of `MatchBallot`: `BallotTypeCorrect`, `MajorityRule` (a majority of the reporters decides,
  whoever the parent is) and `SidesAreEqual` (the mirrored ballot gives the mirrored result). The second is an
  argument on cardinalities: two majorities would share a reporter. The third follows `DecideMatchResult` through its
  branches: exchanging the teams is a bijection between who reported what before and after it, so that
  counts, ties, reviews and penalties are carried over. `BallotKept` is that every match follows
  `BallotSpec` (every step of a match is one report, the choice of a parent, or no step of the ballot), and `BallotRulesHold` that the two
  rules therefore hold of every match, not only of ballots that are looked at alone.
* `RatingLedgerProofs`: three inductive invariants. `Shape` gives `LedgerTypeCorrect`.
  `LockInv` is about the locks: no lock has two holders (`Exclusive`), what a finalization holds and needs is its plan, its
  match and then its players by their ids (`Planned`), a correction that has made its list holds the locks of its match's
  players (`TargetLocked`), and has, or is still to take, those of the players of every match on the list (`ListLocked`). From it `NoCircleWithoutCorrection`: in a circle of finalizations, of any length, each waits for
  a player with a greater id than those it holds (`WaitsForGreater`), and the greatest id that is waited for is held by nobody who waits. Also from
  it `OnlyStrangersOvertake` (what is finalized between a correction's list and its end shares no player with the corrected match)
  and `OvertakenBeforeLocked` (what is finalized then and shares a player with a listed match commits while the
  correction still has to take that player's lock). The second says where the lost update of `ratings_missed` can happen
  and nowhere else, for any matches: once a correction has its locks, nothing it would have to replay can become final.
  `ReplayInv` is for `LedgerInv`, which is not inductive: a correction writes what it read from a list that may be old. `ListsFresh`
  says that a list still has every later match of its players (`Covers`), and `Linked` that each snapshot and each rating
  is the one that the player's match before it left behind, as long as matches were applied `InOrder`. `Linked` speaks of neighbours
  only, so that a finalization adds one link (`FinalizationLinks`) and a correction renews those behind the corrected match
  (`CorrectionLinks`), and it determines all ratings (`LinkedIsReplay`). Both go through `ReplayStands`: what a replay
  has after each of its matches is what the links say, for else there is a first place at which the two differ. So no
  induction over the sequence is needed, only that a set of numbers has a least one.
  `LedgerInv` does not hold without a hypothesis: the run `ratings_missed` finds the match that is finalized over a
  correction which has already listed what to replay. `LedgerIsReplay` therefore assumes `NotOvertaken`: no finalization commits whose match
  shares a player with one on the list of a correction under way. That is an assumption on the order of steps alone, says nothing of ratings,
  and is what the code would have to enforce (by listing again after it has the locks). `OvertakenBeforeLocked`
  tells what remains to be excluded: only finalizations that commit between the list and the last lock can break it.
* `SeasonsProofs`: the inductive invariant `SeasonsSound` and from it `CompletionIsSound` and
  `CarryoverIsFinal`. `CompletionSound` is not inductive, because a season is completed from what
  was read before the commit. `KeepersSound` says that a maintenance's reading stays true (a season that was over
  is still over, a season it creates is not completed), and `ChecksSound` says the same of a finalization that
  found no other match left. Both rest on the state function `Over`, which every step keeps: a
  match that becomes visible after the end is none that the completion waits for, and `ForceEnd` moves the
  end of a season that is not over. `LastOfExists` (`ORDER BY start_at DESC` finds a season) is by the
  well-foundedness of strict subsets.
  `ChainIsKept` is `SeasonsInv` under `Timely`: every maintenance under way began at most a month ago and has seen at most
  one forced end. Its invariant `ChainSound` says of every plan that it goes on from the last season
  (`Fits`) or that it shares a boundary with a season that exists (`Beaten`), so that a unique constraint refuses it:
  of several plans from one place the first to commit beats the others, a forced end moves one boundary of a season
  and a plan has two in common with it. For the very first seasons two maintenances may start from different
  months, but from neighbouring ones. `Timely` is needed: without it TLC has a counterexample to the chain when a maintenance lasts longer
  than a season (`MaxMatches = 0`, `MaxLag = 3`, `Length = 2`: the very first one commits after others have made
  later seasons), and one when it sees two forced ends (`MaxForced = 2`, `MaxLag = 2`, `Length = 4`, `MaxClock = 9`: it reads the last
  season, another creates the next one, that is moved by a forced end at its start and then by one at its
  end, and no constraint catches the overlap). A transaction of the bot that lasts months, or two
  forced ends while one runs, is nothing the code has to provide for. `ChainIfPrompt` says the same with the constants, and covers the run.
* `OutboxDeliveryProofs`: the inductive invariant `DeliveryInv`, and from it `OutboxCorrect`, `DuplicatesAccounted` and the
  refinement `ChannelKept`. `OutboxInv` says where the next attempt of a failed event comes from: a timer,
  the scan of the start, the cycle in progress, or the fallback poll. To keep that, `DeliveryInv` says what is true of the phases:
  nothing of the process exists while it is down (`DownIsEmpty`), `start()` is only at one place
  (`StartupOnce`), a cycle holds the row it claimed (`CycleShape`), a timer is no later than the row
  asks for (`RetriesTimed`), and a due event is noticed by somebody (`DueNoticed`). `DuplicatesExplained`
  counts posts: each is confirmed by a published row, or in progress, or one of `unconfirmed`.
* `InfoThreadsProofs`: the inductive invariant `InfoInv`, and from it `BoundToTheirOwn`, `ResultsAtHome` and
  `FewLeftBehind`. It says that a thread that somebody is bound to is not one a creation may still throw away
  (`CreationsFit`, `CreationsApart`), that a thread once replaced does not come back (`ReplacedForGood`), and what a
  handler that has found its thread may rely on (`ServicesFit`). `FewLeftBehind` counts: the strays grow by at
  most one with a failure, and with a restart by at most one per interaction, which the set of
  threads in creation bounds.
* `MatchRuntimeProofs`: first the inductive invariant `SweepInv`, from which `CyclesSweep` follows: when a sync cycle ends, what was
  overdue when it began has been dealt with. It says of each phase of the one cycle (`OneCycle`) what it
  has still to do (`StillToSweep`) and what it has done (`RowsSwept`). Then `LoopInv`, and from it `TimersCovered`: no deadline to
  come is without its timer unless an answer, a timer's handler or a cycle that will set it is under way.
  `TimersInv` is far from inductive, since whether a timer is right is decided by answers that
  were given earlier and are gone on with later. `LoopInv` therefore says of every answer what it knows and what it
  will do (`CallOK`, by the kind of its caller: `Told`, `TimerAsks`, `CycleAsksFor`), that what has
  changed since is known to another answer (`Awaited`), that a timer that is set comes in time (`TimersInTime`), and that what
  a cycle has read is at most as old as what the timers were set from (`Kept`). There is one lemma for each
  pair of a step and a caller that it can disturb.
* `ManagedUiProofs`: the inductive invariant `UiInductive`, and from it `UiCorrect`, `SetupsAllOrNothing` and
  `ResetupsConverge`. Its first half, `Base`, holds whoever runs at once. The unique constraint on channels is only
  kept because nobody records a channel that somebody else may record: `Apart` says that a channel
  belongs to the command that created it, or to the row that a resetup has in hand (`Claims`), for two
  resetups of one type share the old channel and the row but never a new one. `Fits` says what a command's stage
  lets it rely on, above all that a channel about to be recorded has its messages, unless somebody has deleted it. The second
  half, `Good`, is about a command that runs alone. A setup goes `Forward` (the types it is through with have
  their one record, the others none, and no channel it did not make has one of their names) until it goes
  `Backward` (whatever it has made is gone or on its list). A resetup has the old record (`Replacing`), then
  the new one (`Replaced`), and its rollback and its clearing up touch neither the one nor the other until it
  is `Settled`. Every step has a lemma for each half.

Only model-checked are the liveness properties (`OverdueRowsLeave`, `EventuallyFinalized`, `EventuallySettled`,
`SeasonsGoOn`, `NothingForgotten`): liveness under fairness is beyond the prover. Every other property of a
passing run is the conclusion of a theorem, `LedgerInv` and `SeasonsInv` under the hypotheses above.

## 5. Not modelled

* The matching domain, the leaderboard and the access restrictions: pure functions, one transaction a day that
  does nothing the second time, and two transactions that take the player's lock before they look. Their
  effect on the queue is the constant `Eligible`.
* Threads for presence and for match operation (`_best_effort_create_matchmaking_presence_thread`,
  `_resolve_or_create_match_operation_thread`): like info threads, but nobody depends on them; a failure
  leaves a thread behind.
* The Elo formula, rounding and the carry-over factor; `rename_season`; names and the identity update of
  players.
* The lock order inside joins and match creation, which may make PostgreSQL abort one of two transactions.
* Two matches that end a season at the same moment: each sees the other as still open, and the
  next run of the worker completes the season. `MayComplete` has this; the instance of `seasons` has one match.
  With two matches of two players, without a forced end and the bot's start, its properties hold as well
  (255,789 states), but the liveness check takes over four minutes, too long for a run to be kept.
* Texts and embeds (`platform/discord/copy`, `platform/discord/ui`), argument parsing of the commands, the
  declarations of tables and settings beyond the columns that appear as variables, and PostgreSQL and
  Discord themselves beyond what the code relies on.

## 6. What could follow

1. The lock steps of joins and match creation in the manner of `RatingLedger`.
2. The ranking order and the split into teams as pure definitions against reference definitions.
