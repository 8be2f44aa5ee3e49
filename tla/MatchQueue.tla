------------------------------- MODULE MatchQueue -----------------------------
(***************************************************************************)
(* The matchmaking queue: MatchingQueueService of                          *)
(* contexts/matchmaking/application/matching_queue.py over the table       *)
(* match_queue_entries.                                                    *)
(*                                                                         *)
(* Every action is one database transaction. A transaction locks its rows  *)
(* (or the player) before it decides anything and keeps the locks until it *)
(* commits, so that it is one step; but the time it works with is now(),   *)
(* the time at which it began, and it may have waited for the locks since. *)
(* "at" is that time, and MaxLag bounds the wait. SELECT ... FOR UPDATE    *)
(* SKIP LOCKED leaves out the rows that other transactions hold: "skipped" *)
(* is that set, and MaxSkipped bounds it.                                  *)
(***************************************************************************)
EXTENDS Naturals, FiniteSets

CONSTANTS
  Players,      (* players.id                                              *)
  Classes,      (* MatchQueueClassDefinition.queue_class_id                *)
  Eligible,     (* the <<player, class>> pairs that join_queue lets in     *)
  BatchSize,    (* MatchFormatDefinition.players_per_batch                 *)
  TTL,          (* MATCH_QUEUE_TTL                                         *)
  Lead,         (* PRESENCE_REMINDER_LEAD_TIME                             *)
  NewsChannel,  (* whether the matchmaking news channel is set up          *)
  NoPlayer, NoClass,                       (* fields of a row not inserted *)
  MaxEntries, MaxClock, MaxRevision,       (* bounds of the model          *)
  MaxLag, MaxSkipped

ASSUME QueueAssumption ==
  /\ Eligible \subseteq Players \X Classes
  /\ BatchSize \in Nat \ {0}
  /\ TTL \in Nat \ {0} /\ Lead \in Nat /\ Lead <= TTL
  /\ NewsChannel \in BOOLEAN
  /\ NoPlayer \notin Players /\ NoClass \notin Classes
  /\ {MaxEntries, MaxClock, MaxRevision, MaxLag, MaxSkipped} \subseteq Nat

VARIABLES
  queue,        (* match_queue_entries, by id                              *)
  lastId,       (* the sequence that numbers the rows                      *)
  matches,      (* matches with their match_participants                   *)
  outbox,       (* outbox_events, deduplicated by their key                *)
  clock         (* the database's clock                                    *)

vars == <<queue, lastId, matches, outbox, clock>>

Entries == 1..MaxEntries
Status == {"waiting", "matched", "left", "expired"}

Row == [player : Players \cup {NoPlayer}, class : Classes \cup {NoClass},
        status : Status \cup {"absent"},
        joinedAt : Nat, expireAt : Nat, revision : Nat,
        reminded : Nat,          (* last_reminded_revision; 0 for None     *)
        thread : BOOLEAN]        (* presence_thread_channel_id is not None *)

AbsentRow == [player |-> NoPlayer, class |-> NoClass, status |-> "absent",
              joinedAt |-> 0, expireAt |-> 0, revision |-> 0, reminded |-> 0,
              thread |-> FALSE]

EventType == {"queue_joined", "presence_reminder", "queue_expired",
              "match_created", "match_announced"}
Event == [type : EventType, entry : Entries, revision : Nat]

\* Slip: the parts of the key are in the wrong order.
Swapped(type, e, revision) == [type |-> type, entry |-> revision, revision |-> e]

\* The dedupe key of an event: its type, the row it is about and, for a
\* reminder or an expiry, the revision it is about (0 otherwise).
EventAbout(type, e, revision) == [type |-> type, entry |-> e, revision |-> revision]

Match == [entries : SUBSET Entries, class : Classes]

TypeOK ==
  /\ queue \in [Entries -> Row]
  /\ lastId \in Nat
  /\ matches \subseteq Match
  /\ outbox \subseteq Event
  /\ clock \in Nat

Init ==
  /\ queue = [e \in Entries |-> AbsentRow]
  /\ lastId = 0
  /\ matches = {}
  /\ outbox = {}
  /\ clock = 0

\* now() of a transaction that ends its waiting at this moment.
TransactionTimes == {t \in 0..clock : clock <= t + MaxLag}

Waiting == {e \in Entries : queue[e].status = "waiting"}
WaitingOf(player) == {e \in Waiting : queue[e].player = player}

-----------------------------------------------------------------------------
\* Slip: the unique row of the player is left in the queue.
StaysListed(row) == row

\* _mark_entry_expired
MarkExpired(row) == [row EXCEPT !.status = "expired"]

NewRow(player, class, at) ==
  [player |-> player, class |-> class, status |-> "waiting",
   joinedAt |-> at, expireAt |-> at + TTL, revision |-> 1, reminded |-> 0,
   thread |-> FALSE]

\* A row that has run out does not stop its player from joining again.
MayJoin(player, at) == \A e \in WaitingOf(player) : queue[e].expireAt <= at

\* join_queue. Ids are given out in the order of the inserts, which need
\* not be the order of the transactions' times.
JoinQueue(player, class, at) ==
  /\ <<player, class>> \in Eligible
  /\ MayJoin(player, at)
  /\ lastId < MaxEntries
  /\ lastId' = lastId + 1
  /\ queue' = [e \in Entries |->
                 IF e = lastId' THEN NewRow(player, class, at)
                 ELSE IF e \in WaitingOf(player) THEN MarkExpired(queue[e])
                 ELSE queue[e]]
  /\ outbox' = outbox \cup
       (IF NewsChannel THEN {EventAbout("queue_joined", lastId', 0)} ELSE {})
  /\ UNCHANGED <<matches, clock>>

\* Slip: the deadline moves but the revision stays.
SameRevision(row, at) == [row EXCEPT !.expireAt = at + TTL, !.reminded = 0]

Refreshed(row, at) ==
  [row EXCEPT !.expireAt = at + TTL, !.revision = @ + 1, !.reminded = 0]

\* present: a row that has run out is expired here and now, without notice.
Present(player, at) ==
  \E e \in WaitingOf(player) :
    /\ queue[e].revision < MaxRevision
    /\ queue' = [queue EXCEPT ![e] =
                   IF @.expireAt <= at THEN MarkExpired(@) ELSE Refreshed(@, at)]
    /\ UNCHANGED <<lastId, matches, outbox, clock>>

\* leave: likewise.
Leave(player, at) ==
  \E e \in WaitingOf(player) :
    /\ queue' = [queue EXCEPT ![e] =
                   IF @.expireAt <= at THEN MarkExpired(@)
                   ELSE [@ EXCEPT !.status = "left"]]
    /\ UNCHANGED <<lastId, matches, outbox, clock>>

\* update_waiting_presence_thread_channel_id, which the bot calls when it has
\* created the player's thread, some time after join_queue has committed.
BindPresenceThread(e) ==
  /\ queue[e].status = "waiting"
  /\ queue' = [queue EXCEPT ![e].thread = TRUE]
  /\ UNCHANGED <<lastId, matches, outbox, clock>>

\* The timer of an old revision fires too: "revision" is the one it was set for.
ReminderDue(e, revision, at) ==
  /\ queue[e].status = "waiting"
  /\ queue[e].revision = revision
  /\ queue[e].expireAt > at
  /\ queue[e].expireAt <= at + Lead
  /\ queue[e].reminded # revision

\* process_presence_reminder
ProcessPresenceReminder(e, revision, at) ==
  /\ ReminderDue(e, revision, at)
  /\ queue' = [queue EXCEPT ![e].reminded = revision]
  /\ outbox' = outbox \cup {EventAbout("presence_reminder", e, revision)}
  /\ UNCHANGED <<lastId, matches, clock>>

\* Slip: the timer of the row is trusted to fire only when it should.
TimerTrusted(e, revision, at) ==
  /\ queue[e].revision = revision
  /\ queue[e].expireAt <= at

\* Slip: a deadline that moved after the timer was set is not noticed.
DeadlineTrusted(e, revision, at) ==
  /\ queue[e].status = "waiting"
  /\ queue[e].revision = revision

ExpiryDue(e, revision, at) ==
  /\ queue[e].status = "waiting"
  /\ queue[e].revision = revision
  /\ queue[e].expireAt <= at

\* process_expire
ProcessExpire(e, revision, at) ==
  /\ ExpiryDue(e, revision, at)
  /\ queue' = [queue EXCEPT ![e] = MarkExpired(@)]
  /\ outbox' = outbox \cup {EventAbout("queue_expired", e, revision)}
  /\ UNCHANGED <<lastId, matches, clock>>

-----------------------------------------------------------------------------
\* Slip: ORDER BY id.
InsertedBefore(e, f) == e < f

\* ORDER BY joined_at, id
JoinedBefore(e, f) ==
  \/ queue[e].joinedAt < queue[f].joinedAt
  \/ queue[e].joinedAt = queue[f].joinedAt /\ e < f

\* ORDER BY joined_at, id LIMIT n
FirstJoined(rows, n) ==
  {e \in rows : Cardinality({f \in rows : JoinedBefore(f, e)}) < n}

\* The sets of rows that other transactions may hold at this moment.
LockedElsewhere == {S \in SUBSET Waiting : Cardinality(S) <= MaxSkipped}

\* Slip: rows of other queue classes are taken along.
AnyClass(class, at) == {e \in Waiting : queue[e].expireAt > at}

Matchable(class, at) ==
  {e \in Waiting : queue[e].class = class /\ queue[e].expireAt > at}

\* Slip: the rows are taken up but their status is not written.
StillWaiting(row) == row

Matched(row) == [row EXCEPT !.status = "matched"]

\* _build_match_created_payloads: a notice to every presence thread, but only
\* if the row has one by now, and one announcement in the news channel (which
\* names the match by its rows: here, by the first of them).
MatchCreatedEvents(batch) ==
  {EventAbout("match_created", e, 0) : e \in {f \in batch : queue[f].thread}}
  \cup {EventAbout("match_announced", e, 0) :
          e \in IF NewsChannel THEN FirstJoined(batch, 1) ELSE {}}

\* _try_create_batch: the rows of the batch become MATCHED, the match and its
\* participants are inserted, and everybody is told.
\* (Every format has batch_size = 1: one batch is one match. How the rows are
\* split into teams does not matter to the queue.)
TryCreateBatch(class, skipped, at) ==
  LET batch == FirstJoined(Matchable(class, at) \ skipped, BatchSize)
  IN  /\ Cardinality(batch) = BatchSize
      /\ queue' = [e \in Entries |->
                     IF e \in batch THEN Matched(queue[e]) ELSE queue[e]]
      /\ matches' = matches \cup
           {[entries |-> batch, class |-> class]}
      /\ outbox' = outbox \cup MatchCreatedEvents(batch)
      /\ UNCHANGED <<lastId, clock>>

\* Slip: only rows whose reminder went out are looked at.
RemindedOnly(at) ==
  {e \in Waiting : queue[e].expireAt <= at /\ queue[e].reminded # 0}

Overdue(at) == {e \in Waiting : queue[e].expireAt <= at}

\* One round of cleanup_expired_entries, which goes on until it finds nothing
\* (a batch of 100 rows: no limit at this size).
CleanupExpiredEntries(skipped, at) ==
  LET found == Overdue(at) \ skipped
  IN  /\ found # {}
      /\ queue' = [e \in Entries |->
                     IF e \in found THEN MarkExpired(queue[e]) ELSE queue[e]]
      /\ outbox' = outbox \cup
           {EventAbout("queue_expired", e, queue[e].revision) : e \in found}
      /\ UNCHANGED <<lastId, matches, clock>>

Tick ==
  /\ clock < MaxClock
  /\ clock' = clock + 1
  /\ UNCHANGED <<queue, lastId, matches, outbox>>

Next ==
  \/ \E p \in Players, c \in Classes, at \in TransactionTimes : JoinQueue(p, c, at)
  \/ \E p \in Players, at \in TransactionTimes : Present(p, at)
  \/ \E p \in Players, at \in TransactionTimes : Leave(p, at)
  \/ \E e \in Entries : BindPresenceThread(e)
  \/ \E e \in Entries, r \in 1..MaxRevision, at \in TransactionTimes :
       ProcessPresenceReminder(e, r, at)
  \/ \E e \in Entries, r \in 1..MaxRevision, at \in TransactionTimes :
       ProcessExpire(e, r, at)
  \/ \E c \in Classes, S \in LockedElsewhere, at \in TransactionTimes :
       TryCreateBatch(c, S, at)
  \/ \E S \in LockedElsewhere, at \in TransactionTimes : CleanupExpiredEntries(S, at)
  \/ Tick

Spec == Init /\ [][Next]_vars

\* The reconcile loop runs the cleanup again and again as long as the process
\* lives, and time passes. Nobody has to join, to be present or to be matched.
FairSpec ==
  /\ Spec
  /\ WF_vars(Tick)
  /\ WF_vars(\E S \in LockedElsewhere, at \in TransactionTimes :
               CleanupExpiredEntries(S, at))

-----------------------------------------------------------------------------
\* A player has at most one place in the queue, although join_queue lets a
\* player in whose old row is still marked WAITING. (The table has a partial
\* unique index on it; the code must never run into it.)
AtMostOneWaiting ==
  \A p \in Players : \A e, f \in WaitingOf(p) : e = f

\* Every match was made of a full batch of different players of its queue
\* class, and a row that is MATCHED is in exactly one match, however reminders,
\* expiries, leaves and other batches were interleaved with it.
RosterSound ==
  /\ \A m \in matches :
       /\ Cardinality({queue[e].player : e \in m.entries}) = BatchSize
       /\ Cardinality(m.entries) = BatchSize
       /\ \A e \in m.entries : queue[e].class = m.class
  /\ \A e \in Entries :
       /\ queue[e].status = "matched" <=> \E m \in matches : e \in m.entries
       /\ \A m, n \in matches : e \in m.entries \cap n.entries => m = n

\* A player who is told that the place in the queue has run out really has
\* lost it, at that revision and not before its deadline.
ExpiryNoticeSound ==
  \A ev \in outbox : ev.type = "queue_expired" =>
    LET row == queue[ev.entry]
    IN  /\ row.status = "expired"
        /\ row.revision = ev.revision
        /\ row.expireAt <= clock

\* The dedupe key swallows no reminder and the table remembers every one: the
\* deadline of a waiting row is marked as reminded exactly when a reminder for
\* this very deadline was sent.
ReminderPerDeadline ==
  \A e \in Waiting :
    queue[e].reminded # 0 <=>
      EventAbout("presence_reminder", e, queue[e].revision) \in outbox

\* What has left the queue stays as it was written: no timer that fires late,
\* no thread that is bound late and no cleanup changes it or brings it back.
TerminalRowsFrozen ==
  [][ \A e \in Entries :
        queue[e].status \in {"matched", "left", "expired"} => queue'[e] = queue[e] ]_vars

\* Nobody is passed over by more than the few rows that happen to be locked:
\* when a match is made, at most MaxSkipped live rows of the class that joined
\* earlier than one of its players stay behind.
BoundedOvertaking ==
  [][ \A m \in matches' \ matches : \A e \in m.entries :
        Cardinality({f \in Matchable(m.class, clock) \ m.entries :
                       queue[f].joinedAt < queue[e].joinedAt}) <= MaxSkipped ]_vars

\* The queue without rows, deadlines and locks: a waiting row is a ticket.
HeldTicket(player) ==
  LET e == CHOOSE f \in WaitingOf(player) : TRUE
  IN  [number |-> e, class |-> queue[e].class]

Membership == INSTANCE QueueMembership WITH
  holds  <- [p \in {queue[e].player : e \in Waiting} |-> HeldTicket(p)],
  issued <- lastId,
  groups <- {m.entries : m \in matches}

\* Whatever the interleaving of players, timers, cleanups and matchmaking, the
\* queue keeps the promise of QueueMembership.
ImplementsMembership == Membership!Spec

\* A row whose time is up does not stay in the queue like that: it leaves, or
\* its player was present in time after all (in a transaction that began before
\* the deadline and waited for the row).
IsOverdue(e) == queue[e].status = "waiting" /\ queue[e].expireAt <= clock

OverdueRowsLeave == \A e \in Entries : IsOverdue(e) ~> ~IsOverdue(e)
=============================================================================
