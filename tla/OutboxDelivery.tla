---------------------------- MODULE OutboxDelivery ----------------------------
(***************************************************************************)
(* The delivery of outbox_events to Discord: OutboxDispatcher of           *)
(* platform/runtime/outbox.py, with the service transactions that insert   *)
(* the events, the listener for their notifications and the publisher.     *)
(*                                                                         *)
(* A dispatch cycle holds the dispatch lock and takes one due event after  *)
(* the other, each in a transaction of its own that stays open while the   *)
(* event is being published. Claiming, publishing and recording are        *)
(* separate steps: the process may die, or the transaction fail, between   *)
(* any two of them, and the transaction is then rolled back.               *)
(*                                                                         *)
(* Graceful shutdown lets an event that is being published finish; after   *)
(* that it is like a crash. A cycle whose task is cancelled goes on in its *)
(* thread and loses its result; it is taken to keep the lock (the code     *)
(* gives the lock up, but a claimed row is locked and skipped by others).  *)
(***************************************************************************)
EXTENDS Naturals, Sequences, FiniteSets

CONSTANTS
  LastEvent,    (* ids of outbox_events are 1..LastEvent                   *)
  Batches,      (* the sets of events that one transaction inserts         *)
  BatchSize,    (* OutboxDispatcher.batch_size                             *)
  MaxDelay,     (* _MAX_OUTBOX_RETRY_DELAY; the first one is 1             *)
  DelayOverflow, (* the number of failures whose delay 1.0 * 2 ** (n - 1)  *)
                (* is too large for a float: 1025                          *)
  Refused,      (* events whose destination never takes a message, e.g. a  *)
                (* channel in which the bot may not write                  *)
  EarlyBy,      (* how far the bot's clock is ahead of the database's      *)
  MaxClock, MaxLag, MaxFailures, MaxMishaps        (* bounds of the model  *)

ASSUME OutboxAssumption ==
  /\ {LastEvent, EarlyBy, MaxClock, MaxLag, MaxFailures, MaxMishaps} \subseteq Nat
  /\ {BatchSize, MaxDelay, DelayOverflow} \subseteq Nat \ {0}
  /\ Refused \subseteq 1..LastEvent
  /\ Batches \subseteq SUBSET (1..LastEvent)

VARIABLES
  rows,         (* outbox_events                                           *)
  posts,        (* the events in the order in which Discord got them       *)
  unconfirmed,  (* how often an event was posted without being recorded    *)
  boot,         (* how far start() has come                                *)
  listening,    (* whether the listener's connection is up                 *)
  waiting,      (* who waits for the dispatch lock                         *)
  timers,       (* the sleeping tasks of _retry_tasks, by event            *)
  scan,         (* what _load_future_retry_schedules_sync has read         *)
  cycle,        (* the dispatch cycle that holds the lock                  *)
  pollNeeded,   (* something happened that only the fallback poll repairs  *)
  mishaps,      (* crashes, failed transactions and lost connections       *)
  clock         (* the database's clock                                    *)

table == <<rows, posts, unconfirmed>>
memory == <<boot, listening, waiting, timers, scan, cycle, pollNeeded>>
vars == <<table, memory, mishaps, clock>>

Events == 1..LastEvent
NoEvent == 0
Never == MaxClock + MaxDelay + 1         (* later than every next_attempt_at *)

Row == [status : {"absent", "pending", "published", "discarded"},
        failures : Nat, nextAt : Nat]

\* The tasks that call dispatch_once: start() itself, a retry task for each event
\* that has one, and those that follow a notification, a reconnect, a full batch
\* or the fallback poll, of which one that waits is as good as many.
Task(kind) == <<kind, NoEvent>>
RetryTask(e) == <<"retry", e>>
RetryTasks(S) == {RetryTask(e) : e \in S}
Tasks == {Task(kind) : kind \in {"startup", "dispatch"}} \cup RetryTasks(Events)

Cycle == [trigger : Tasks \cup {Task("none"), Task("cancelled")}, done : Nat,
          settled : SUBSET Events, failed : SUBSET Events,
          event : Events \cup {NoEvent}, at : Nat, posted : BOOLEAN]

Idle == [trigger |-> Task("none"), done |-> 0, settled |-> {}, failed |-> {},
         event |-> NoEvent, at |-> 0, posted |-> FALSE]
NoTimers == [e \in Events |-> Never]

TypeOK ==
  /\ rows \in [Events -> Row]
  /\ posts \in Seq(Events)
  /\ unconfirmed \in [Events -> Nat]
  /\ boot \in {"down", "first", "scan", "scanned", "second", "up"}
  /\ listening \in BOOLEAN /\ pollNeeded \in BOOLEAN
  /\ waiting \subseteq Tasks
  /\ timers \in [Events -> Nat] /\ scan \in [Events -> Nat]
  /\ cycle \in Cycle
  /\ mishaps \in Nat /\ clock \in Nat

Init ==
  /\ rows = [e \in Events |-> [status |-> "absent", failures |-> 0, nextAt |-> 0]]
  /\ posts = <<>>
  /\ unconfirmed = [e \in Events |-> 0]
  /\ boot = "down" /\ listening = FALSE /\ waiting = {}
  /\ timers = NoTimers /\ scan = NoTimers
  /\ cycle = Idle
  /\ pollNeeded = FALSE /\ mishaps = 0 /\ clock = 0

Pending == {e \in Events : rows[e].status = "pending"}
Due == {e \in Pending : rows[e].nextAt <= clock}

-----------------------------------------------------------------------------
\* _schedule_dispatch
Scheduled == waiting \cup {Task("dispatch")}

\* _enqueue_outbox_event in a service's transaction, which began at "at". The
\* notification comes with the commit, if the listener is there to hear it.
Enqueue(S, at) ==
  /\ \A e \in S : rows[e].status = "absent"
  /\ rows' = [e \in Events |->
                IF e \in S THEN [status |-> "pending", failures |-> 0, nextAt |-> at]
                ELSE rows[e]]
  /\ waiting' = IF listening THEN Scheduled ELSE waiting
  /\ UNCHANGED <<posts, unconfirmed, boot, listening, timers, scan, cycle,
                 pollNeeded, mishaps, clock>>

\* The connection breaks. A notification that it has not passed on by then is
\* lost, as one that comes later.
LoseListener ==
  /\ listening
  /\ mishaps < MaxMishaps
  /\ mishaps' = mishaps + 1
  /\ listening' = FALSE
  /\ UNCHANGED <<table, boot, waiting, timers, scan, cycle, pollNeeded, clock>>

\* PostgresOutboxNotificationListener._run: LISTEN again, then on_reconnected.
Reconnect ==
  /\ boot # "down" /\ ~listening
  /\ listening' = TRUE
  /\ waiting' = Scheduled
  /\ UNCHANGED <<table, boot, timers, scan, cycle, pollNeeded, mishaps, clock>>

-----------------------------------------------------------------------------
\* start: the listener first, then a dispatch of what is due ...
Start ==
  /\ boot = "down"
  /\ boot' = "first"
  /\ listening' = TRUE
  /\ waiting' = {Task("startup")}
  /\ UNCHANGED <<table, timers, scan, cycle, pollNeeded, mishaps, clock>>

\* ... then _rebuild_retry_timers, which reads the retries to come ...
ReadRetries ==
  /\ boot = "scan"
  /\ boot' = "scanned"
  /\ scan' = [e \in Events |-> IF e \in Pending \ Due THEN rows[e].nextAt ELSE Never]
  /\ UNCHANGED <<table, listening, waiting, timers, cycle, pollNeeded, mishaps, clock>>

Scanned == {e \in Events : scan[e] # Never}

\* ... and replaces the tasks of these events, whatever has happened to them
\* in the meantime, and last a dispatch of what came due since the first one.
SetRetryTimers ==
  /\ boot = "scanned"
  /\ boot' = "second"
  /\ timers' = [e \in Events |-> IF e \in Scanned THEN scan[e] ELSE timers[e]]
  /\ waiting' = (waiting \ RetryTasks(Scanned)) \cup {Task("startup")}
  /\ cycle' = IF cycle.trigger \in RetryTasks(Scanned)
              THEN [cycle EXCEPT !.trigger = Task("cancelled")] ELSE cycle
  /\ scan' = NoTimers
  /\ pollNeeded' =
       (pollNeeded \/ \E e \in Scanned \cap Pending : rows[e].nextAt # scan[e])
  /\ UNCHANGED <<table, listening, mishaps, clock>>

\* The process is gone, with all it had in memory.
Down ==
  /\ boot' = "down" /\ listening' = FALSE /\ waiting' = {}
  /\ timers' = NoTimers /\ scan' = NoTimers
  /\ cycle' = Idle /\ pollNeeded' = FALSE

\* A transaction is rolled back; what it posted stays posted.
RollBack ==
  /\ unconfirmed' = IF cycle.posted
                    THEN [unconfirmed EXCEPT ![cycle.event] = @ + 1] ELSE unconfirmed
  /\ UNCHANGED <<rows, posts>>

Crash ==
  /\ boot # "down"
  /\ mishaps < MaxMishaps
  /\ mishaps' = mishaps + 1
  /\ Down
  /\ RollBack
  /\ UNCHANGED clock

-----------------------------------------------------------------------------
\* dispatch_once gets the dispatch lock.
BeginCycle(trigger) ==
  /\ trigger \in waiting
  /\ cycle = Idle
  /\ waiting' = waiting \ {trigger}
  /\ cycle' = [Idle EXCEPT !.trigger = trigger]
  /\ UNCHANGED <<table, boot, listening, timers, scan, pollNeeded, mishaps, clock>>

\* ORDER BY next_attempt_at, id LIMIT 1
FirstDue ==
  CHOOSE e \in Due : \A f \in Due :
    \/ rows[e].nextAt < rows[f].nextAt
    \/ rows[e].nextAt = rows[f].nextAt /\ e <= f

Working == cycle # Idle /\ cycle.event # NoEvent

\* The transaction of _dispatch_single_due_event_sync locks the event.
Claim ==
  /\ cycle # Idle /\ cycle.event = NoEvent
  /\ cycle.done < BatchSize
  /\ Due # {}
  /\ cycle' = [cycle EXCEPT !.event = FirstDue, !.at = clock]
  /\ UNCHANGED <<table, boot, listening, waiting, timers, scan, pollNeeded, mishaps, clock>>

\* publisher.publish returns.
Publish ==
  /\ Working /\ ~cycle.posted
  /\ cycle.event \notin Refused
  /\ posts' = Append(posts, cycle.event)
  /\ cycle' = [cycle EXCEPT !.posted = TRUE]
  /\ UNCHANGED <<rows, unconfirmed, boot, listening, waiting, timers, scan,
                 pollNeeded, mishaps, clock>>

\* The event is dealt with and the transaction commits.
CommitAs(row, settled, failed) ==
  /\ rows' = [rows EXCEPT ![cycle.event] = row]
  /\ cycle' = [cycle EXCEPT !.event = NoEvent, !.posted = FALSE, !.done = @ + 1,
                            !.settled = @ \cup settled, !.failed = @ \cup failed]
  /\ UNCHANGED <<boot, listening, waiting, timers, scan, pollNeeded, mishaps, clock>>

\* Slip: the event is marked before it is published.
RecordEarly ==
  /\ Working
  /\ CommitAs([rows[cycle.event] EXCEPT !.status = "published"], {cycle.event}, {})
  /\ UNCHANGED <<posts, unconfirmed>>

RecordPublished ==
  /\ Working /\ cycle.posted
  /\ CommitAs([rows[cycle.event] EXCEPT !.status = "published"], {cycle.event}, {})
  /\ UNCHANGED <<posts, unconfirmed>>

\* NonRetryableOutboxPublishError
RecordDiscarded ==
  /\ Working /\ ~cycle.posted
  /\ cycle.event \notin Refused
  /\ CommitAs([rows[cycle.event] EXCEPT !.status = "discarded"], {cycle.event}, {})
  /\ UNCHANGED <<posts, unconfirmed>>

\* retry_delay_for_failure_count
RetryDelay(failures) == IF 2^(failures - 1) <= MaxDelay THEN 2^(failures - 1) ELSE MaxDelay

Failed(row, at) ==
  [row EXCEPT !.failures = @ + 1, !.nextAt = at + RetryDelay(row.failures + 1)]

\* Any other exception. The message may have reached Discord all the same. (In
\* the model a destination that does not refuse is back before the clock ends.)
RecordFailure(reached) ==
  LET row == Failed(rows[cycle.event], cycle.at)
  IN  /\ Working /\ ~cycle.posted
      /\ row.failures < DelayOverflow
      /\ reached => cycle.event \notin Refused
      /\ cycle.event \in Refused \/ (row.failures <= MaxFailures /\ row.nextAt <= MaxClock)
      /\ CommitAs(row, {}, {cycle.event})
      /\ posts' = IF reached THEN Append(posts, cycle.event) ELSE posts
      /\ unconfirmed' = IF reached
                        THEN [unconfirmed EXCEPT ![cycle.event] = @ + 1] ELSE unconfirmed

\* An exception leaves _dispatch_due_sync: the event it was at is as before,
\* and what the cycle was to do about the timers of the earlier ones is not
\* done. Every caller but start() carries on.
Abort ==
  /\ cycle # Idle
  /\ RollBack
  /\ \/ cycle.trigger = Task("startup") /\ Down
     \/ /\ cycle.trigger # Task("startup")
        /\ cycle' = Idle
        /\ pollNeeded' = TRUE
        /\ UNCHANGED <<boot, listening, waiting, timers, scan>>
  /\ UNCHANGED clock

\* A transaction of the cycle fails. A full batch has had its last one.
FailCycle ==
  /\ Working \/ cycle.done < BatchSize
  /\ mishaps < MaxMishaps
  /\ mishaps' = mishaps + 1
  /\ Abort

\* The publisher fails, and then OverflowError in retry_delay_for_failure_count.
OverflowDelay ==
  /\ Working /\ ~cycle.posted
  /\ rows[cycle.event].failures + 1 >= DelayOverflow
  /\ Abort
  /\ UNCHANGED mishaps

\* _schedule_dispatch when the cycle has reached the batch size
Again(done) == IF done >= BatchSize THEN {Task("dispatch")} ELSE {}

\* Slip: the tasks of events that failed are cancelled, and no new ones set.
RetryTimersCancelled ==
  [e \in Events |-> IF e \in cycle.settled \cup cycle.failed THEN Never ELSE timers[e]]

\* The tasks of events that are settled are cancelled, those of events that failed
\* are replaced.
RetryTimersAfter ==
  [e \in Events |-> IF e \in cycle.failed THEN rows[e].nextAt
                    ELSE IF e \in cycle.settled THEN Never ELSE timers[e]]

\* The rest of dispatch_once, after the lock.
EndCycle ==
  /\ cycle # Idle /\ cycle.event = NoEvent
  /\ cycle.done >= BatchSize \/ Due = {}
  /\ cycle' = Idle
  /\ \/ /\ cycle.trigger = Task("cancelled")
        /\ pollNeeded' = TRUE
        /\ UNCHANGED <<boot, waiting, timers>>
     \/ /\ cycle.trigger # Task("cancelled")
        /\ timers' = RetryTimersAfter
        /\ waiting' = (waiting \ RetryTasks(cycle.settled \cup cycle.failed)) \cup Again(cycle.done)
        /\ boot' = IF cycle.trigger # Task("startup") THEN boot
                   ELSE IF boot = "first" THEN "scan" ELSE "up"
        /\ UNCHANGED pollNeeded
  /\ UNCHANGED <<table, listening, scan, mishaps, clock>>

\* _run_retry_timer wakes up, by the bot's clock, and asks for a dispatch.
WakeRetry(e) ==
  /\ timers[e] # Never /\ timers[e] <= clock + EarlyBy
  /\ timers' = [timers EXCEPT ![e] = Never]
  /\ waiting' = waiting \cup {RetryTask(e)}
  /\ pollNeeded' = (pollNeeded \/ timers[e] > clock)
  /\ UNCHANGED <<table, boot, listening, scan, cycle, mishaps, clock>>

\* Slip: the first exception ends the loop.
PollUntilFailure ==
  /\ boot = "up" /\ ~pollNeeded
  /\ waiting' = waiting \cup {Task("dispatch")}
  /\ UNCHANGED <<table, boot, listening, timers, scan, cycle, pollNeeded, mishaps, clock>>

\* _run_fallback_poll_loop
Poll ==
  /\ boot = "up"
  /\ waiting' = waiting \cup {Task("dispatch")}
  /\ UNCHANGED <<table, boot, listening, timers, scan, cycle, pollNeeded, mishaps, clock>>

Tick ==
  /\ clock < MaxClock
  /\ clock' = clock + 1
  /\ UNCHANGED <<table, memory, mishaps>>

CycleStep ==
  \/ Claim \/ Publish \/ RecordPublished \/ RecordDiscarded \/ EndCycle

\* A destination that refuses the event does not keep the cycle waiting.
Refusal == cycle.event \in Refused /\ (RecordFailure(FALSE) \/ OverflowDelay)

Mishap ==
  \/ LoseListener \/ Crash \/ FailCycle \/ OverflowDelay
  \/ \E reached \in BOOLEAN : RecordFailure(reached)

Next ==
  \/ \E S \in Batches, at \in {t \in 0..clock : clock <= t + MaxLag} : Enqueue(S, at)
  \/ Start \/ ReadRetries \/ SetRetryTimers \/ Reconnect \/ Poll
  \/ \E t \in waiting : BeginCycle(t)
  \/ CycleStep
  \/ Mishap
  \/ \E e \in Events : WakeRetry(e)
  \/ Tick

Spec == Init /\ [][Next]_vars

\* The process is started again after a crash, its tasks run, Discord answers,
\* and the fallback poll comes round. Nothing is assumed of the listener.
FairSpec ==
  /\ Spec
  /\ WF_vars(Tick)
  /\ WF_vars(Start) /\ WF_vars(ReadRetries) /\ WF_vars(SetRetryTimers)
  /\ WF_vars(\E t \in waiting : BeginCycle(t))
  /\ WF_vars(CycleStep \/ Refusal)
  /\ WF_vars(Poll)

-----------------------------------------------------------------------------
\* How often Discord was made to show an event.
TimesPosted(e) == Cardinality({i \in DOMAIN posts : posts[i] = e})

\* An event is posted twice only if its first post could not be recorded: it
\* was posted once for its record, once for each time the record was lost, and
\* once if it waits to be recorded now.
DuplicatesExplained ==
  \A e \in Events :
    TimesPosted(e) = unconfirmed[e]
      + (IF rows[e].status = "published" THEN 1 ELSE 0)
      + (IF cycle.posted /\ cycle.event = e THEN 1 ELSE 0)

\* No event is left without something that will wake the dispatcher for it:
\* once the dispatcher is up and idle and listens, and unless it got into one of
\* the three troubles that only the fallback poll repairs, every pending event
\* has a retry task that sleeps until exactly the event's next attempt.
NothingForgotten ==
  boot = "up" /\ cycle = Idle /\ waiting = {} /\ listening /\ ~pollNeeded =>
    \A e \in Pending : timers[e] = rows[e].nextAt

\* The types, too.
OutboxInv == TypeOK /\ NothingForgotten

Channel == INSTANCE AtLeastOnce WITH
  Notices   <- Events,
  accepted  <- {e \in Events : rows[e].status # "absent"},
  delivered <- {e \in Events : rows[e].status = "published"},
  dropped   <- {e \in Events : rows[e].status = "discarded"},
  shown     <- [e \in Events |-> TimesPosted(e)]

\* Whatever crashes, fails and is lost, the outbox keeps the promise of
\* AtLeastOnce: an event is posted only after its transaction and before it is
\* marked, and marked as published only after it was posted.
ImplementsChannel == Channel!Spec

\* The next failure of the event leaves the dispatcher without a delay.
Overflowing(e) == rows[e].failures + 1 >= DelayOverflow

\* Every event whose destination does not refuse it is published or discarded
\* in the end, whatever becomes of the others, until the retry delay of one that
\* is refused for ever overflows: from then on every cycle ends at that one.
EventuallySettled ==
  \A e \in Events \ Refused :
    (rows[e].status = "pending") ~> (rows[e].status # "pending" \/ \E r \in Events : Overflowing(r))
=============================================================================
