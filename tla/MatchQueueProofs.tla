---------------------------- MODULE MatchQueueProofs ---------------------------
(***************************************************************************)
(* What MatchQueue guarantees for any players, classes, batch size,        *)
(* deadlines, delays and any rows that other transactions hold.            *)
(***************************************************************************)
EXTENDS MatchQueue, FiniteSetTheorems, Functions, TLAPS

Terminal == {"matched", "left", "expired"}

\* The step of TerminalRowsFrozen.
Frozen == \A e \in Entries : queue[e].status \in Terminal => queue'[e] = queue[e]

\* The rows that the sequence has not given out yet are not there, and nothing
\* was sent about them.
FreshRows ==
  /\ \A e \in Entries : e > lastId => queue[e] = AbsentRow
  /\ \A ev \in outbox : ev.entry <= lastId

\* A reminder was sent for a revision that the row has or had.
RemindersPast ==
  \A ev \in outbox :
    ev.type = "presence_reminder" => ev.revision <= queue[ev.entry].revision

\* Every place in the queue belongs to a player.
RowsOwned == \A e \in Waiting : queue[e].player \in Players

\* The inductive invariant. FreshRows and RemindersPast are what the notices
\* need: a row that is inserted, and a deadline that moves, have none yet.
QueueInv ==
  /\ TypeOK
  /\ FreshRows
  /\ RemindersPast
  /\ RowsOwned
  /\ AtMostOneWaiting
  /\ RosterSound
  /\ ExpiryNoticeSound
  /\ ReminderPerDeadline

\* Its part that only depends on which waiting rows change.
RowInv ==
  /\ FreshRows
  /\ RemindersPast
  /\ RowsOwned
  /\ AtMostOneWaiting
  /\ ExpiryNoticeSound

-----------------------------------------------------------------------------
\* What is announced of a row is an event.
LEMMA EventsTyped ==
  ASSUME NEW type \in EventType, NEW e \in Entries, NEW revision \in Nat
  PROVE  EventAbout(type, e, revision) \in Event
BY DEF EventAbout, Event

\* What becomes of a row is a row.
LEMMA RowsTyped ==
  ASSUME NEW row \in Row
  PROVE  /\ MarkExpired(row) \in Row /\ MarkExpired(row).status = "expired"
         /\ Matched(row) \in Row /\ Matched(row).status = "matched"
         /\ [row EXCEPT !.status = "left"] \in Row
         /\ [row EXCEPT !.thread = TRUE] \in Row
         /\ \A r \in Nat : [row EXCEPT !.reminded = r] \in Row
         /\ \A at \in Nat : Refreshed(row, at) \in Row
<1>1. /\ MarkExpired(row) \in Row /\ MarkExpired(row).status = "expired"
      /\ Matched(row) \in Row /\ Matched(row).status = "matched"
  BY DEF MarkExpired, Matched, Row, Status
<1>2. /\ [row EXCEPT !.status = "left"] \in Row
      /\ [row EXCEPT !.thread = TRUE] \in Row
      /\ \A r \in Nat : [row EXCEPT !.reminded = r] \in Row
  BY DEF Row, Status
<1>3. ASSUME NEW at \in Nat PROVE Refreshed(row, at) \in Row
  <2>1. at + TTL \in Nat /\ row.revision + 1 \in Nat
    BY QueueAssumption DEF Row
  <2> QED
    BY <2>1 DEF Refreshed, Row
<1> QED
  BY <1>1, <1>2, <1>3

\* A step that makes no match and matches no row keeps the matches sound.
LEMMA RosterKept ==
  ASSUME QueueInv, Frozen, matches' = matches,
         \A e \in Entries :
           queue'[e].status = "matched" => queue[e].status = "matched"
  PROVE  RosterSound'
<1>1. \A m \in matches : m.entries \subseteq Entries
  BY DEF QueueInv, TypeOK, Match
<1>2. \A m \in matches : \A e \in m.entries : queue'[e] = queue[e]
  BY <1>1 DEF QueueInv, RosterSound, Frozen, Terminal
<1>3. ASSUME NEW m \in matches'
      PROVE  /\ Cardinality({queue'[e].player : e \in m.entries}) = BatchSize
             /\ Cardinality(m.entries) = BatchSize
             /\ \A e \in m.entries : queue'[e].class = m.class
  <2>1. m \in matches
    BY <1>3
  <2>2. {queue'[e].player : e \in m.entries} = {queue[e].player : e \in m.entries}
    BY <1>2, <2>1
  <2> QED
    BY <1>2, <2>1, <2>2 DEF QueueInv, RosterSound
<1>4. ASSUME NEW e \in Entries
      PROVE  /\ queue'[e].status = "matched" <=> \E m \in matches' : e \in m.entries
             /\ \A m, n \in matches' : e \in m.entries \cap n.entries => m = n
  BY <1>2 DEF QueueInv, RosterSound, Frozen, Terminal
<1> QED
  BY <1>3, <1>4 DEF RosterSound

\* Expiry notices stay true as long as no row that is gone changes and the new
\* ones are true.
LEMMA NoticesKept ==
  ASSUME QueueInv, Frozen, clock' \in Nat, clock <= clock',
         \A ev \in outbox' \ outbox : ev.type = "queue_expired" =>
           /\ queue'[ev.entry].status = "expired"
           /\ queue'[ev.entry].revision = ev.revision
           /\ queue'[ev.entry].expireAt <= clock'
  PROVE  ExpiryNoticeSound'
<1> SUFFICES ASSUME NEW ev \in outbox', ev.type = "queue_expired"
             PROVE  /\ queue'[ev.entry].status = "expired"
                    /\ queue'[ev.entry].revision = ev.revision
                    /\ queue'[ev.entry].expireAt <= clock'
  BY DEF ExpiryNoticeSound
<1>1. CASE ev \in outbox
  <2>1. /\ queue[ev.entry].status = "expired"
        /\ queue[ev.entry].revision = ev.revision
        /\ queue[ev.entry].expireAt <= clock
    BY <1>1 DEF QueueInv, ExpiryNoticeSound
  <2>2. ev.entry \in Entries
    BY <1>1 DEF QueueInv, TypeOK, Event
  <2>3. queue'[ev.entry] = queue[ev.entry]
    BY <2>1, <2>2 DEF Frozen, Terminal
  <2>4. queue[ev.entry].expireAt \in Nat /\ clock \in Nat
    BY <2>2 DEF QueueInv, TypeOK, Row
  <2> QED
    BY <2>1, <2>3, <2>4
<1> QED
  BY <1>1

\* A step that changes waiting rows only, leaves their players and classes
\* alone and takes no revision back keeps everything but the matches and the
\* reminders of the waiting rows, which depend on what it does to them.
LEMMA WaitingRowsChange ==
  ASSUME QueueInv, queue' \in [Entries -> Row], lastId' = lastId,
         clock' \in Nat, clock <= clock',
         \A e \in Entries : queue'[e] # queue[e] =>
           /\ queue[e].status = "waiting"
           /\ queue'[e].player = queue[e].player
           /\ queue[e].revision <= queue'[e].revision,
         outbox' \subseteq Event,
         \A ev \in outbox' \ outbox :
           /\ queue[ev.entry].status = "waiting"
           /\ ev.type = "presence_reminder" =>
                ev.revision <= queue'[ev.entry].revision
           /\ ev.type = "queue_expired" =>
                /\ queue'[ev.entry].status = "expired"
                /\ queue'[ev.entry].revision = ev.revision
                /\ queue'[ev.entry].expireAt <= clock'
  PROVE  Frozen /\ RowInv'
<1>1. Frozen
  BY DEF Frozen, Terminal
<1>2. \A ev \in outbox' : ev.entry \in Entries /\ ev.revision \in Nat
  BY DEF Event
<1>3. \A e \in Entries : queue[e].revision \in Nat /\ queue'[e].revision \in Nat
  BY DEF QueueInv, TypeOK, Row
<1>4. FreshRows'
  <2>1. \A e \in Entries : e > lastId => queue'[e] = AbsentRow
    BY DEF QueueInv, FreshRows, AbsentRow
  <2>2. ASSUME NEW ev \in outbox' PROVE ev.entry <= lastId
    <3>1. CASE ev \in outbox
      BY <3>1 DEF QueueInv, FreshRows
    <3>2. CASE ev \notin outbox
      <4>1. ev.entry \in Entries /\ queue[ev.entry].status = "waiting"
        BY <1>2, <3>2
      <4>2. ~(ev.entry > lastId)
        BY <4>1 DEF QueueInv, FreshRows, AbsentRow
      <4> QED
        BY <4>1, <4>2 DEF Entries, QueueInv, TypeOK
    <3> QED
      BY <3>1, <3>2
  <2> QED
    BY <2>1, <2>2 DEF FreshRows
<1>5. RemindersPast'
  <2> SUFFICES ASSUME NEW ev \in outbox', ev.type = "presence_reminder"
               PROVE  ev.revision <= queue'[ev.entry].revision
    BY DEF RemindersPast
  <2>1. CASE ev \in outbox
    <3>1. ev.revision <= queue[ev.entry].revision
      BY <2>1 DEF QueueInv, RemindersPast
    <3>2. queue[ev.entry].revision <= queue'[ev.entry].revision
      BY <1>2, <1>3
    <3> QED
      BY <1>2, <1>3, <3>1, <3>2
  <2> QED
    BY <2>1
<1>6. AtMostOneWaiting'
  BY DEF QueueInv, AtMostOneWaiting, WaitingOf, Waiting
<1>7. ExpiryNoticeSound'
  BY <1>1, NoticesKept
<1>8. RowsOwned'
  BY DEF QueueInv, RowsOwned, Waiting
<1> QED
  BY <1>1, <1>4, <1>5, <1>6, <1>7, <1>8 DEF RowInv

-----------------------------------------------------------------------------
\* A new row is fresh, and the only waiting one of its player.
LEMMA JoinQueueStep ==
  ASSUME QueueInv, NEW player \in Players, NEW class \in Classes,
         NEW at \in TransactionTimes, JoinQueue(player, class, at)
  PROVE  QueueInv' /\ Frozen
<1> DEFINE n == lastId + 1
           row == NewRow(player, class, at)
<1>1. /\ n \in Entries /\ lastId \in Nat /\ at \in Nat /\ clock \in Nat
      /\ lastId' = n /\ UNCHANGED <<matches, clock>>
      /\ queue \in [Entries -> Row]
  BY QueueAssumption DEF JoinQueue, QueueInv, TypeOK, Entries, TransactionTimes
<1>2. queue' = [e \in Entries |-> IF e = n THEN row
                                  ELSE IF e \in WaitingOf(player) THEN MarkExpired(queue[e])
                                  ELSE queue[e]]
  BY <1>1 DEF JoinQueue
<1>3. /\ row \in Row /\ row.status = "waiting" /\ row.player = player
      /\ row.reminded = 0 /\ row.revision = 1
  BY <1>1, QueueAssumption DEF NewRow, Row, Status
<1>4. queue[n] = AbsentRow
  BY <1>1 DEF QueueInv, FreshRows
<1>5. \A e \in WaitingOf(player) : e \in Entries /\ queue[e].status = "waiting"
  BY DEF WaitingOf, Waiting
<1>6. \A e \in Entries : MarkExpired(queue[e]) \in Row /\ MarkExpired(queue[e]).status = "expired"
  BY <1>1, RowsTyped
<1>7. /\ outbox' \subseteq outbox \cup {EventAbout("queue_joined", n, 0)}
      /\ outbox \subseteq outbox'
      /\ EventAbout("queue_joined", n, 0) \in Event
      /\ EventAbout("queue_joined", n, 0).entry = n
      /\ EventAbout("queue_joined", n, 0).type = "queue_joined"
  BY <1>1 DEF JoinQueue, EventAbout, Event, EventType
<1> HIDE DEF n, row
<1>8. Frozen
  BY <1>1, <1>2, <1>4, <1>5 DEF Frozen, Terminal, AbsentRow
<1>9. TypeOK'
  BY <1>1, <1>2, <1>3, <1>6, <1>7 DEF QueueInv, TypeOK, n
<1>10. FreshRows'
  <2>1. ASSUME NEW e \in Entries, e > n PROVE queue'[e] = AbsentRow
    <3>1. queue[e] = AbsentRow
      BY <1>1, <2>1 DEF QueueInv, FreshRows, Entries, n
    <3> QED
      BY <1>2, <1>5, <2>1, <3>1 DEF AbsentRow, Entries, n
  <2>2. ASSUME NEW ev \in outbox' PROVE ev.entry <= n
    <3>1. CASE ev \in outbox
      <4>1. ev.entry <= lastId /\ ev.entry \in Nat
        BY <3>1 DEF QueueInv, TypeOK, Event, Entries, FreshRows
      <4> QED
        BY <1>1, <4>1 DEF n
    <3> QED
      BY <1>1, <1>7, <3>1 DEF n
  <2> QED
    BY <1>1, <2>1, <2>2 DEF FreshRows
<1>11. ASSUME NEW e \in Entries, e # n
       PROVE  queue'[e].revision = queue[e].revision /\ queue'[e].player = queue[e].player
  BY <1>1, <1>2, <1>11 DEF MarkExpired, Row
<1>12. ASSUME NEW ev \in outbox PROVE ev.entry # n /\ ev.entry \in Entries
  BY <1>1 DEF QueueInv, FreshRows, TypeOK, Event, Entries, n
<1>13. RemindersPast'
  BY <1>7, <1>11, <1>12 DEF QueueInv, RemindersPast
<1>14. \A e \in Entries : queue'[e].status = "waiting" =>
         \/ e = n
         \/ queue[e] = queue'[e] /\ queue[e].player # player
  BY <1>2, <1>6 DEF WaitingOf, Waiting
<1>15. AtMostOneWaiting'
  BY <1>1, <1>2, <1>3, <1>14 DEF QueueInv, AtMostOneWaiting, WaitingOf, Waiting
<1>16. RosterSound'
  <2>1. \A e \in Entries : queue'[e].status = "matched" => queue[e].status = "matched"
    BY <1>2, <1>3, <1>6
  <2> QED
    BY <1>1, <1>8, <2>1, RosterKept
<1>17. ExpiryNoticeSound'
  BY <1>1, <1>7, <1>8, NoticesKept
<1>18. ReminderPerDeadline'
  <2> SUFFICES ASSUME NEW e \in Entries, queue'[e].status = "waiting"
               PROVE  queue'[e].reminded # 0 <=>
                        EventAbout("presence_reminder", e, queue'[e].revision) \in outbox'
    BY DEF ReminderPerDeadline, Waiting
  <2>1. CASE e = n
    <3>1. EventAbout("presence_reminder", e, queue'[e].revision) \notin outbox'
      BY <1>7, <1>12, <2>1 DEF EventAbout
    <3> QED
      BY <1>1, <1>2, <1>3, <2>1, <3>1
  <2>2. CASE e # n
    <3>1. queue[e] = queue'[e]
      BY <1>14, <2>2
    <3>2. EventAbout("presence_reminder", e, queue[e].revision) \in outbox' <=>
            EventAbout("presence_reminder", e, queue[e].revision) \in outbox
      BY <1>7 DEF EventAbout
    <3> QED
      BY <3>1, <3>2 DEF QueueInv, ReminderPerDeadline, Waiting
  <2> QED
    BY <2>1, <2>2
<1>19. RowsOwned'
  BY <1>2, <1>3, <1>14 DEF QueueInv, RowsOwned, Waiting
<1> QED
  BY <1>8, <1>9, <1>10, <1>13, <1>15, <1>16, <1>17, <1>18, <1>19 DEF QueueInv

\* The deadline moves on and with it the revision, or the row expires.
LEMMA PresentStep ==
  ASSUME QueueInv, NEW player \in Players, NEW at \in TransactionTimes,
         Present(player, at)
  PROVE  QueueInv' /\ Frozen
<1>1. PICK e \in WaitingOf(player) :
        /\ queue' = [queue EXCEPT ![e] = IF queue[e].expireAt <= at THEN MarkExpired(queue[e])
                                         ELSE Refreshed(queue[e], at)]
        /\ UNCHANGED <<lastId, matches, outbox, clock>>
  BY DEF Present
<1>2. /\ e \in Entries /\ queue[e] \in Row /\ queue[e].status = "waiting"
      /\ at \in Nat /\ queue \in [Entries -> Row] /\ clock \in Nat
  BY DEF WaitingOf, Waiting, QueueInv, TypeOK, TransactionTimes
<1>3. /\ queue'[e] \in Row /\ queue'[e].player = queue[e].player
      /\ \/ queue'[e].status = "expired" /\ queue'[e].revision = queue[e].revision
         \/ /\ queue'[e].status = "waiting" /\ queue'[e].reminded = 0
            /\ queue'[e].revision = queue[e].revision + 1
  <2>1. CASE queue[e].expireAt <= at
    <3>1. queue'[e] = MarkExpired(queue[e])
      BY <1>1, <1>2, <2>1
    <3>2. queue'[e] \in Row
      BY <1>2, <3>1, RowsTyped
    <3> QED
      BY <1>2, <3>1, <3>2 DEF MarkExpired, Row
  <2>2. CASE ~(queue[e].expireAt <= at)
    <3>1. queue'[e] = Refreshed(queue[e], at)
      BY <1>1, <1>2, <2>2
    <3>2. queue'[e] \in Row
      BY <1>2, <3>1, RowsTyped
    <3> QED
      BY <1>2, <3>1, <3>2 DEF Refreshed, Row
  <2> QED
    BY <2>1, <2>2
<1>4. \A f \in Entries : f # e => queue'[f] = queue[f]
  BY <1>1, <1>2
<1>5. queue' \in [Entries -> Row]
  BY <1>1, <1>2, RowsTyped
<1>6. TypeOK'
  BY <1>1, <1>5 DEF QueueInv, TypeOK
<1>7. queue[e].revision \in Nat
  BY <1>2 DEF Row
<1>8. Frozen /\ RowInv'
  <2>1. outbox' \subseteq Event
    BY <1>6 DEF TypeOK
  <2> QED
    BY <1>1, <1>2, <1>3, <1>4, <1>5, <1>7, <2>1, WaitingRowsChange
<1>9. RosterSound'
  BY <1>1, <1>3, <1>4, <1>8, RosterKept
<1>10. ReminderPerDeadline'
  <2> SUFFICES ASSUME NEW f \in Entries, queue'[f].status = "waiting"
               PROVE  queue'[f].reminded # 0 <=>
                        EventAbout("presence_reminder", f, queue'[f].revision) \in outbox'
    BY DEF ReminderPerDeadline, Waiting
  <2>1. CASE f = e
    <3>1. ASSUME EventAbout("presence_reminder", e, queue[e].revision + 1) \in outbox
          PROVE  FALSE
      BY <1>7, <3>1 DEF QueueInv, RemindersPast, EventAbout
    <3> QED
      BY <1>1, <1>3, <2>1, <3>1
  <2>2. CASE f # e
    BY <1>1, <1>4, <2>2 DEF QueueInv, ReminderPerDeadline, Waiting
  <2> QED
    BY <2>1, <2>2
<1> QED
  BY <1>6, <1>8, <1>9, <1>10 DEF QueueInv, RowInv

\* Rows leave the queue, a thread is bound to a row, or time passes: nothing is
\* sent, and what stays in the queue has the same revision and reminder mark.
LEMMA SilentStep ==
  ASSUME QueueInv, queue' \in [Entries -> Row],
         UNCHANGED <<lastId, matches, outbox>>, clock' \in Nat, clock <= clock',
         \A e \in Entries : queue'[e] # queue[e] =>
           /\ queue[e].status = "waiting"
           /\ queue'[e].status \in {"waiting", "left", "expired"}
           /\ queue'[e].player = queue[e].player
           /\ queue'[e].revision = queue[e].revision
           /\ queue'[e].reminded = queue[e].reminded
  PROVE  QueueInv' /\ Frozen
<1>1. TypeOK'
  BY DEF QueueInv, TypeOK
<1>2. \A e \in Entries : queue[e].revision \in Nat
  BY DEF QueueInv, TypeOK, Row
<1>3. Frozen /\ RowInv'
  <2>1. outbox' \subseteq Event
    BY <1>1 DEF TypeOK
  <2> QED
    BY <1>2, <2>1, WaitingRowsChange
<1>4. RosterSound'
  BY <1>3, RosterKept
<1>5. ReminderPerDeadline'
  BY DEF QueueInv, ReminderPerDeadline, Waiting
<1> QED
  BY <1>1, <1>3, <1>4, <1>5 DEF QueueInv, RowInv

\* The row leaves, or expires if it is too late for that.
LEMMA LeaveStep ==
  ASSUME QueueInv, NEW player \in Players, NEW at \in TransactionTimes,
         Leave(player, at)
  PROVE  QueueInv' /\ Frozen
<1>1. PICK e \in WaitingOf(player) :
        /\ queue' = [queue EXCEPT ![e] = IF queue[e].expireAt <= at THEN MarkExpired(queue[e])
                                         ELSE [queue[e] EXCEPT !.status = "left"]]
        /\ UNCHANGED <<lastId, matches, outbox, clock>>
  BY DEF Leave
<1>2. /\ e \in Entries /\ queue[e] \in Row /\ queue[e].status = "waiting"
      /\ queue \in [Entries -> Row] /\ clock \in Nat
  BY DEF WaitingOf, Waiting, QueueInv, TypeOK
<1>3. queue' \in [Entries -> Row]
  BY <1>1, <1>2, RowsTyped
<1>4. /\ queue'[e].status \in {"left", "expired"}
      /\ queue'[e].player = queue[e].player
      /\ queue'[e].revision = queue[e].revision /\ queue'[e].reminded = queue[e].reminded
      /\ \A f \in Entries : f # e => queue'[f] = queue[f]
  BY <1>1, <1>2 DEF MarkExpired, Row
<1> QED
  BY <1>1, <1>2, <1>3, <1>4, SilentStep

\* Only the thread of the row changes.
LEMMA BindPresenceThreadStep ==
  ASSUME QueueInv, NEW e \in Entries, BindPresenceThread(e)
  PROVE  QueueInv' /\ Frozen
<1>1. /\ queue \in [Entries -> Row] /\ clock \in Nat /\ queue[e] \in Row
      /\ queue[e].status = "waiting"
      /\ queue' = [queue EXCEPT ![e] = [queue[e] EXCEPT !.thread = TRUE]]
      /\ UNCHANGED <<lastId, matches, outbox, clock>>
  BY DEF QueueInv, TypeOK, BindPresenceThread
<1>2. queue' \in [Entries -> Row]
  BY <1>1, RowsTyped
<1>3. /\ queue'[e].status = "waiting" /\ queue'[e].player = queue[e].player
      /\ queue'[e].revision = queue[e].revision /\ queue'[e].reminded = queue[e].reminded
      /\ \A f \in Entries : f # e => queue'[f] = queue[f]
  BY <1>1 DEF Row
<1> QED
  BY <1>1, <1>2, <1>3, SilentStep

\* One reminder for one deadline.
LEMMA ProcessPresenceReminderStep ==
  ASSUME QueueInv, NEW e \in Entries, NEW revision \in 1..MaxRevision,
         NEW at \in TransactionTimes, ProcessPresenceReminder(e, revision, at)
  PROVE  QueueInv' /\ Frozen
<1> DEFINE notice == EventAbout("presence_reminder", e, revision)
<1>1. /\ queue \in [Entries -> Row] /\ clock \in Nat /\ queue[e] \in Row
      /\ revision \in Nat /\ revision # 0
      /\ queue[e].status = "waiting" /\ queue[e].revision = revision
      /\ queue' = [queue EXCEPT ![e] = [queue[e] EXCEPT !.reminded = revision]]
      /\ outbox' = outbox \cup {notice}
      /\ UNCHANGED <<lastId, matches, clock>>
  BY QueueAssumption DEF QueueInv, TypeOK, ProcessPresenceReminder, ReminderDue
<1>2. queue' \in [Entries -> Row]
  BY <1>1, RowsTyped
<1>3. /\ queue'[e].status = "waiting" /\ queue'[e].player = queue[e].player
      /\ queue'[e].revision = revision /\ queue'[e].reminded = revision
      /\ \A f \in Entries : f # e => queue'[f] = queue[f]
  BY <1>1 DEF Row
<1>4. notice \in Event /\ notice.type = "presence_reminder"
        /\ notice.entry = e /\ notice.revision = revision
  BY <1>1 DEF EventAbout, Event, EventType
<1>5. TypeOK'
  BY <1>1, <1>2, <1>4 DEF QueueInv, TypeOK
<1>6. Frozen /\ RowInv'
  <2>1. outbox' \subseteq Event
    BY <1>5 DEF TypeOK
  <2> HIDE DEF notice
  <2> QED
    BY <1>1, <1>2, <1>3, <1>4, <2>1, WaitingRowsChange
<1>7. RosterSound'
  BY <1>1, <1>3, <1>6, RosterKept
<1>8. ReminderPerDeadline'
  <2> SUFFICES ASSUME NEW f \in Entries, queue'[f].status = "waiting"
               PROVE  queue'[f].reminded # 0 <=>
                        EventAbout("presence_reminder", f, queue'[f].revision) \in outbox'
    BY DEF ReminderPerDeadline, Waiting
  <2>1. CASE f = e
    BY <1>1, <1>3, <2>1
  <2>2. CASE f # e
    <3>1. queue'[f] = queue[f]
      BY <1>3, <2>2
    <3>2. EventAbout("presence_reminder", f, queue[f].revision) \in outbox' <=>
            EventAbout("presence_reminder", f, queue[f].revision) \in outbox
      BY <1>1, <2>2 DEF EventAbout
    <3> QED
      BY <3>1, <3>2 DEF QueueInv, ReminderPerDeadline, Waiting
  <2> QED
    BY <2>1, <2>2
<1> QED
  BY <1>5, <1>6, <1>7, <1>8 DEF QueueInv, RowInv

\* process_expire for one row and cleanup_expired_entries for many: rows that
\* have run out leave, and a notice is sent of each at its revision.
LEMMA ExpirySteps ==
  ASSUME QueueInv, NEW gone \in SUBSET Waiting, NEW at \in TransactionTimes,
         \A e \in gone : queue[e].expireAt <= at,
         queue' = [e \in Entries |-> IF e \in gone THEN MarkExpired(queue[e]) ELSE queue[e]],
         outbox' = outbox \cup
           {EventAbout("queue_expired", e, queue[e].revision) : e \in gone},
         UNCHANGED <<lastId, matches, clock>>
  PROVE  QueueInv' /\ Frozen
<1>1. /\ queue \in [Entries -> Row] /\ clock \in Nat
      /\ gone \subseteq Entries /\ \A e \in gone : queue[e].status = "waiting"
  BY DEF QueueInv, TypeOK, Waiting
<1>2. queue' \in [Entries -> Row]
  BY <1>1, RowsTyped
<1>3. \A e \in gone :
        /\ queue'[e].status = "expired" /\ queue'[e].player = queue[e].player
        /\ queue'[e].revision = queue[e].revision
        /\ queue'[e].expireAt = queue[e].expireAt
        /\ queue[e].revision \in Nat
  BY <1>1 DEF MarkExpired, Row
<1>4. \A e \in Entries \ gone : queue'[e] = queue[e]
  OBVIOUS
<1>5. \A e \in gone : queue[e].expireAt <= clock
  <2>1. at \in Nat /\ at <= clock
    BY <1>1 DEF TransactionTimes
  <2>2. \A e \in gone : queue[e].expireAt \in Nat
    BY <1>1 DEF Row
  <2> QED
    BY <1>1, <2>1, <2>2
<1>6. ASSUME NEW ev \in outbox' \ outbox
      PROVE  /\ ev \in Event /\ ev.type = "queue_expired"
             /\ ev.entry \in gone /\ ev.revision = queue[ev.entry].revision
  <2>1. PICK e \in gone : ev = EventAbout("queue_expired", e, queue[e].revision)
    OBVIOUS
  <2> QED
    BY <1>1, <1>3, <2>1 DEF EventAbout, Event, EventType
<1>7. TypeOK'
  BY <1>2, <1>6 DEF QueueInv, TypeOK
<1>8. Frozen /\ RowInv'
  <2>1. outbox' \subseteq Event
    BY <1>7 DEF TypeOK
  <2>2. ASSUME NEW e \in Entries, queue'[e] # queue[e]
        PROVE  /\ queue[e].status = "waiting" /\ queue'[e].player = queue[e].player
               /\ queue[e].revision <= queue'[e].revision
    BY <1>1, <1>3, <1>4, <2>2
  <2>3. ASSUME NEW ev \in outbox' \ outbox
        PROVE  /\ queue[ev.entry].status = "waiting"
               /\ ev.type = "queue_expired"
               /\ queue'[ev.entry].status = "expired"
               /\ queue'[ev.entry].revision = ev.revision
               /\ queue'[ev.entry].expireAt <= clock'
    <3>1. /\ ev.type = "queue_expired" /\ ev.entry \in gone
          /\ ev.revision = queue[ev.entry].revision
      BY <1>6, <2>3
    <3> QED
      BY <1>1, <1>3, <1>5, <3>1
  <2> QED
    BY <1>1, <1>2, <2>1, <2>2, <2>3, WaitingRowsChange
<1>9. RosterSound'
  BY <1>3, <1>4, <1>8, RosterKept
<1>10. ReminderPerDeadline'
  <2> SUFFICES ASSUME NEW f \in Entries, queue'[f].status = "waiting"
               PROVE  queue'[f].reminded # 0 <=>
                        EventAbout("presence_reminder", f, queue'[f].revision) \in outbox'
    BY DEF ReminderPerDeadline, Waiting
  <2>1. queue'[f] = queue[f]
    BY <1>3, <1>4
  <2>2. EventAbout("presence_reminder", f, queue[f].revision) \in outbox' <=>
          EventAbout("presence_reminder", f, queue[f].revision) \in outbox
    BY <1>6 DEF EventAbout
  <2> QED
    BY <2>1, <2>2 DEF QueueInv, ReminderPerDeadline, Waiting
<1> QED
  BY <1>7, <1>8, <1>9, <1>10 DEF QueueInv, RowInv

\* A batch takes waiting rows of one class, whole or not at all.
LEMMA TryCreateBatchStep ==
  ASSUME QueueInv, NEW class \in Classes, NEW skipped \in LockedElsewhere,
         NEW at \in TransactionTimes, TryCreateBatch(class, skipped, at)
  PROVE  QueueInv' /\ Frozen
<1> DEFINE batch == FirstJoined(Matchable(class, at) \ skipped, BatchSize)
           made == [entries |-> batch, class |-> class]
<1>1. /\ Cardinality(batch) = BatchSize
      /\ queue' = [e \in Entries |-> IF e \in batch THEN Matched(queue[e]) ELSE queue[e]]
      /\ matches' = matches \cup {made}
      /\ outbox' = outbox \cup MatchCreatedEvents(batch)
      /\ UNCHANGED <<lastId, clock>>
  BY DEF TryCreateBatch
<1>2. \A e \in batch : e \in Entries /\ queue[e].status = "waiting" /\ queue[e].class = class
  BY DEF FirstJoined, Matchable, Waiting
<1> HIDE DEF batch
<1>3. queue \in [Entries -> Row] /\ clock \in Nat
  BY DEF QueueInv, TypeOK
<1>4. queue' \in [Entries -> Row]
  BY <1>1, <1>3, RowsTyped
<1>5. \A e \in batch :
        /\ queue'[e].status = "matched" /\ queue'[e].player = queue[e].player
        /\ queue'[e].class = class /\ queue'[e].revision = queue[e].revision
        /\ queue[e].revision \in Nat
  BY <1>1, <1>2, <1>3 DEF Matched, Row
<1>6. \A e \in Entries \ batch : queue'[e] = queue[e]
  BY <1>1
<1>7. ASSUME NEW ev \in outbox' \ outbox
      PROVE  /\ ev \in Event /\ ev.entry \in batch
             /\ ev.type \in {"match_created", "match_announced"}
  <2>1. PICK e \in batch : \/ ev = EventAbout("match_created", e, 0)
                           \/ ev = EventAbout("match_announced", e, 0)
    BY <1>1 DEF MatchCreatedEvents, FirstJoined
  <2> QED
    BY <1>2, <2>1 DEF EventAbout, Event, EventType
<1>8. TypeOK'
  <2>1. made \in Match
    BY <1>2 DEF Match
  <2> HIDE DEF made
  <2> QED
    BY <1>1, <1>4, <1>7, <2>1 DEF QueueInv, TypeOK
<1>9. Frozen /\ RowInv'
  <2>1. outbox' \subseteq Event
    BY <1>8 DEF TypeOK
  <2>2. ASSUME NEW e \in Entries, queue'[e] # queue[e]
        PROVE  /\ queue[e].status = "waiting" /\ queue'[e].player = queue[e].player
               /\ queue[e].revision <= queue'[e].revision
    BY <1>2, <1>5, <1>6, <2>2
  <2>3. ASSUME NEW ev \in outbox' \ outbox
        PROVE  /\ queue[ev.entry].status = "waiting"
               /\ ev.type \in {"match_created", "match_announced"}
    BY <1>2, <1>7
  <2> QED
    BY <1>1, <1>3, <1>4, <2>1, <2>2, <2>3, WaitingRowsChange
<1>10. RosterSound'
  <2>1. \A m \in matches : m.entries \subseteq Entries
    BY DEF QueueInv, TypeOK, Match
  <2>2. \A m \in matches : m.entries \cap batch = {}
    BY <1>2, <2>1 DEF QueueInv, RosterSound
  <2>3. ASSUME NEW m \in matches
        PROVE  /\ Cardinality({queue'[e].player : e \in m.entries}) = BatchSize
               /\ Cardinality(m.entries) = BatchSize
               /\ \A e \in m.entries : queue'[e].class = m.class
    <3>1. \A e \in m.entries : queue'[e] = queue[e]
      BY <1>6, <2>1, <2>2
    <3>2. {queue'[e].player : e \in m.entries} = {queue[e].player : e \in m.entries}
      BY <3>1
    <3> QED
      BY <3>1, <3>2 DEF QueueInv, RosterSound
  <2>4. Cardinality({queue'[e].player : e \in batch}) = BatchSize
    <3> DEFINE roster == {queue'[e].player : e \in batch}
               playerOf == [e \in batch |-> queue'[e].player]
    <3>1. \A e, f \in batch : queue[e].player = queue[f].player => e = f
      BY <1>2, <1>3 DEF QueueInv, RowsOwned, AtMostOneWaiting, WaitingOf, Waiting
    <3>2. playerOf \in Bijection(batch, roster)
      <4>1. playerOf \in [batch -> roster]
        OBVIOUS
      <4>2. IsInjective(playerOf)
        BY <1>5, <3>1 DEF IsInjective
      <4>3. \A p \in roster : \E e \in batch : playerOf[e] = p
        OBVIOUS
      <4> QED
        BY <4>1, <4>2, <4>3 DEF Bijection, Injection, Surjection
    <3>3. IsFiniteSet(batch)
      <4>1. IsFiniteSet(Entries)
        BY QueueAssumption, FS_Interval DEF Entries
      <4> QED
        BY <1>2, <4>1, FS_Subset, batch \in SUBSET Entries
    <3>4. Cardinality(roster) = Cardinality(batch)
      BY <3>2, <3>3, FS_Bijection DEF ExistsBijection
    <3> QED
      BY <1>1, <3>4
  <2>5. ASSUME NEW e \in Entries
        PROVE  /\ queue'[e].status = "matched" <=> \E m \in matches' : e \in m.entries
               /\ \A m, n \in matches' : e \in m.entries \cap n.entries => m = n
    <3>1. CASE e \in batch
      <4>1. queue'[e].status = "matched" /\ e \in made.entries /\ made \in matches'
        BY <1>1, <1>5, <3>1
      <4>2. \A m \in matches' : e \in m.entries => m = made
        BY <1>1, <2>2, <3>1
      <4> QED
        BY <4>1, <4>2
    <3>2. CASE e \notin batch
      BY <1>1, <1>6, <3>2 DEF QueueInv, RosterSound
    <3> QED
      BY <3>1, <3>2
  <2>6. ASSUME NEW m \in matches'
        PROVE  /\ Cardinality({queue'[e].player : e \in m.entries}) = BatchSize
               /\ Cardinality(m.entries) = BatchSize
               /\ \A e \in m.entries : queue'[e].class = m.class
    <3>1. CASE m = made
      <4>1. m.entries = batch /\ m.class = class
        BY <3>1
      <4> QED
        BY <1>1, <1>5, <2>4, <4>1
    <3> QED
      BY <1>1, <2>3, <3>1
  <2> QED
    BY <2>5, <2>6 DEF RosterSound
<1>11. ReminderPerDeadline'
  <2> SUFFICES ASSUME NEW f \in Entries, queue'[f].status = "waiting"
               PROVE  queue'[f].reminded # 0 <=>
                        EventAbout("presence_reminder", f, queue'[f].revision) \in outbox'
    BY DEF ReminderPerDeadline, Waiting
  <2>1. queue'[f] = queue[f]
    BY <1>5, <1>6
  <2>2. EventAbout("presence_reminder", f, queue[f].revision) \in outbox' <=>
          EventAbout("presence_reminder", f, queue[f].revision) \in outbox
    BY <1>1, <1>7 DEF EventAbout
  <2> QED
    BY <2>1, <2>2 DEF QueueInv, ReminderPerDeadline, Waiting
<1> QED
  BY <1>8, <1>9, <1>10, <1>11 DEF QueueInv, RowInv

-----------------------------------------------------------------------------
\* Every step keeps the invariant and leaves the rows alone that are gone.
LEMMA QueueStep ==
  ASSUME QueueInv, [Next]_vars
  PROVE  QueueInv' /\ Frozen
<1>1. ASSUME NEW p \in Players, NEW c \in Classes, NEW t \in TransactionTimes,
             JoinQueue(p, c, t)
      PROVE  QueueInv' /\ Frozen
  BY <1>1, JoinQueueStep
<1>2. ASSUME NEW p \in Players, NEW t \in TransactionTimes, Present(p, t)
      PROVE  QueueInv' /\ Frozen
  BY <1>2, PresentStep
<1>3. ASSUME NEW p \in Players, NEW t \in TransactionTimes, Leave(p, t)
      PROVE  QueueInv' /\ Frozen
  BY <1>3, LeaveStep
<1>4. ASSUME NEW e \in Entries, BindPresenceThread(e)
      PROVE  QueueInv' /\ Frozen
  BY <1>4, BindPresenceThreadStep
<1>5. ASSUME NEW e \in Entries, NEW r \in 1..MaxRevision, NEW t \in TransactionTimes,
             ProcessPresenceReminder(e, r, t)
      PROVE  QueueInv' /\ Frozen
  BY <1>5, ProcessPresenceReminderStep
<1>6. ASSUME NEW e \in Entries, NEW r \in 1..MaxRevision, NEW t \in TransactionTimes,
             ProcessExpire(e, r, t)
      PROVE  QueueInv' /\ Frozen
  <2>1. /\ e \in Waiting /\ queue[e].revision = r /\ queue[e].expireAt <= t
        /\ queue' = [queue EXCEPT ![e] = MarkExpired(queue[e])]
        /\ outbox' = outbox \cup {EventAbout("queue_expired", e, r)}
        /\ UNCHANGED <<lastId, matches, clock>>
    BY <1>6 DEF ProcessExpire, ExpiryDue, Waiting
  <2>2. queue' = [f \in Entries |-> IF f \in {e} THEN MarkExpired(queue[f]) ELSE queue[f]]
    BY <2>1 DEF QueueInv, TypeOK
  <2>3. outbox' = outbox \cup {EventAbout("queue_expired", f, queue[f].revision) : f \in {e}}
    BY <2>1
  <2> QED
    BY <2>1, <2>2, <2>3, ExpirySteps
<1>7. ASSUME NEW c \in Classes, NEW S \in LockedElsewhere, NEW t \in TransactionTimes,
             TryCreateBatch(c, S, t)
      PROVE  QueueInv' /\ Frozen
  BY <1>7, TryCreateBatchStep
<1>8. ASSUME NEW S \in LockedElsewhere, NEW t \in TransactionTimes,
             CleanupExpiredEntries(S, t)
      PROVE  QueueInv' /\ Frozen
  <2> DEFINE found == Overdue(t) \ S
  <2>1. found \in SUBSET Waiting /\ \A e \in found : queue[e].expireAt <= t
    BY DEF Overdue
  <2>2. /\ queue' = [e \in Entries |-> IF e \in found THEN MarkExpired(queue[e]) ELSE queue[e]]
        /\ outbox' = outbox \cup
             {EventAbout("queue_expired", e, queue[e].revision) : e \in found}
        /\ UNCHANGED <<lastId, matches, clock>>
    BY <1>8 DEF CleanupExpiredEntries
  <2> QED
    BY <2>1, <2>2, ExpirySteps
<1>9. CASE Tick \/ UNCHANGED vars
  <2>1. /\ UNCHANGED <<queue, lastId, matches, outbox>>
        /\ clock' \in Nat /\ clock <= clock' /\ queue' \in [Entries -> Row]
    BY <1>9 DEF Tick, vars, QueueInv, TypeOK
  <2> QED
    BY <2>1, SilentStep
<1> QED
  BY <1>1, <1>2, <1>3, <1>4, <1>5, <1>6, <1>7, <1>8, <1>9 DEF Next

\* The inductive invariant: fresh rows, reminders of the past and rows that belong
\* to one match (matching_queue.py).
THEOREM QueueInvariant == Spec => []QueueInv
<1>1. Init => QueueInv
  <2> SUFFICES ASSUME Init PROVE QueueInv
    OBVIOUS
  <2>1. AbsentRow \in Row /\ AbsentRow.status = "absent"
    BY DEF AbsentRow, Row
  <2>2. \A e \in Entries : queue[e] = AbsentRow
    BY DEF Init
  <2>3. TypeOK
    BY <2>1 DEF Init, TypeOK
  <2>4. Waiting = {}
    BY <2>1, <2>2 DEF Waiting
  <2>5. RosterSound
    BY <2>1, <2>2 DEF Init, RosterSound
  <2> QED
    BY <2>2, <2>3, <2>4, <2>5 DEF Init, QueueInv, FreshRows, RemindersPast, RowsOwned,
       AtMostOneWaiting, WaitingOf, ExpiryNoticeSound, ReminderPerDeadline
<1>2. QueueInv /\ [Next]_vars => QueueInv'
  BY QueueStep
<1> QED
  BY <1>1, <1>2, PTL DEF Spec

\* Every row, match and event has its type, whoever acts in whatever order.
THEOREM QueueTypeCorrect == Spec => []TypeOK
<1>1. QueueInv => TypeOK
  BY DEF QueueInv
<1> QED
  BY <1>1, QueueInvariant, PTL

\* No player ever has two places in the queue.
THEOREM OnePlaceEach == Spec => []AtMostOneWaiting
<1>1. QueueInv => AtMostOneWaiting
  BY DEF QueueInv
<1> QED
  BY <1>1, QueueInvariant, PTL

\* Every match is made of BatchSize different players of one class, and every
\* row is in the one match that it is MATCHED for.
THEOREM MatchesWellMade == Spec => []RosterSound
<1>1. QueueInv => RosterSound
  BY DEF QueueInv
<1> QED
  BY <1>1, QueueInvariant, PTL

\* Nobody is told of an expiry that did not happen.
THEOREM ExpiryNoticesTrue == Spec => []ExpiryNoticeSound
<1>1. QueueInv => ExpiryNoticeSound
  BY DEF QueueInv
<1> QED
  BY <1>1, QueueInvariant, PTL

\* A waiting row is marked as reminded exactly when a reminder for its current
\* deadline was sent.
THEOREM RemindersMatchDeadlines == Spec => []ReminderPerDeadline
<1>1. QueueInv => ReminderPerDeadline
  BY DEF QueueInv
<1> QED
  BY <1>1, QueueInvariant, PTL

\* A row that has left the queue is never written again.
THEOREM GoneForGood == Spec => TerminalRowsFrozen
<1>1. QueueInv /\ [Next]_vars =>
        [ \A e \in Entries :
            queue[e].status \in {"matched", "left", "expired"} => queue'[e] = queue[e] ]_vars
  BY QueueStep DEF Frozen, Terminal
<1> QED
  BY <1>1, QueueInvariant, PTL DEF Spec, TerminalRowsFrozen

-----------------------------------------------------------------------------
\* Whoever joined before a row of the batch and is not locked elsewhere is in
\* the batch too: fewer rows come before it.
LEMMA EarlierRowsTaken ==
  ASSUME QueueInv, NEW rows \in SUBSET Entries, NEW n \in Nat,
         NEW e \in FirstJoined(rows, n), NEW f \in rows,
         queue[f].joinedAt < queue[e].joinedAt
  PROVE  f \in FirstJoined(rows, n)
<1> DEFINE before(g) == {h \in rows : JoinedBefore(h, g)}
<1>1. \A g \in Entries : g \in Nat /\ queue[g].joinedAt \in Nat
  BY DEF QueueInv, TypeOK, Row, Entries
<1>2. before(f) \subseteq before(e)
  BY <1>1 DEF FirstJoined, JoinedBefore
<1>3. IsFiniteSet(before(e))
  <2>1. IsFiniteSet(Entries)
    BY QueueAssumption, FS_Interval DEF Entries
  <2> QED
    BY <2>1, FS_Subset, before(e) \in SUBSET Entries
<1>4. Cardinality(before(f)) <= Cardinality(before(e)) /\ IsFiniteSet(before(f))
  BY <1>2, <1>3, FS_Subset
<1>5. Cardinality(before(f)) \in Nat /\ Cardinality(before(e)) \in Nat
  BY <1>3, <1>4, FS_CardinalityType
<1>6. Cardinality(before(e)) < n
  BY DEF FirstJoined
<1> QED
  BY <1>4, <1>5, <1>6 DEF FirstJoined

\* When a match is made, only rows that are locked elsewhere are passed over.
LEMMA OnlyLockedPassedOver ==
  ASSUME QueueInv, NEW class \in Classes, NEW skipped \in LockedElsewhere,
         NEW at \in TransactionTimes, TryCreateBatch(class, skipped, at),
         NEW m \in matches' \ matches, NEW e \in m.entries
  PROVE  Cardinality({f \in Matchable(m.class, clock) \ m.entries :
                        queue[f].joinedAt < queue[e].joinedAt}) <= MaxSkipped
<1> DEFINE rows == Matchable(class, at) \ skipped
           batch == FirstJoined(rows, BatchSize)
           passed == {f \in Matchable(m.class, clock) \ m.entries :
                        queue[f].joinedAt < queue[e].joinedAt}
<1>1. m.entries = batch /\ m.class = class
  BY DEF TryCreateBatch
<1>2. at \in Nat /\ clock \in Nat /\ at <= clock
  BY DEF TransactionTimes, QueueInv, TypeOK
<1>3. rows \in SUBSET Entries
  BY DEF Matchable, Waiting
<1>4. passed \subseteq skipped
  <2> SUFFICES ASSUME NEW f \in passed, f \notin skipped PROVE FALSE
    OBVIOUS
  <2>1. queue[f].expireAt \in Nat /\ f \in Waiting
    BY DEF Matchable, Waiting, QueueInv, TypeOK, Row
  <2>2. f \in rows
    BY <1>1, <1>2, <2>1 DEF Matchable
  <2>3. f \in batch
    BY <1>1, <1>3, <2>2, EarlierRowsTaken, QueueAssumption
  <2> QED
    BY <1>1, <2>3
<1>5. IsFiniteSet(skipped) /\ Cardinality(skipped) <= MaxSkipped
  <2>1. IsFiniteSet(Entries)
    BY QueueAssumption, FS_Interval DEF Entries
  <2>2. skipped \in SUBSET Entries /\ Cardinality(skipped) <= MaxSkipped
    BY DEF LockedElsewhere, Waiting
  <2> QED
    BY <2>1, <2>2, FS_Subset
<1>6. /\ Cardinality(passed) <= Cardinality(skipped)
      /\ Cardinality(passed) \in Nat /\ Cardinality(skipped) \in Nat
  BY <1>4, <1>5, FS_Subset, FS_CardinalityType
<1> QED
  BY <1>5, <1>6, QueueAssumption

\* Nobody is passed over by more than the rows that happen to be locked.
THEOREM FewPassedOver == Spec => BoundedOvertaking
<1>1. QueueInv /\ [Next]_vars =>
        [ \A m \in matches' \ matches : \A e \in m.entries :
            Cardinality({f \in Matchable(m.class, clock) \ m.entries :
                           queue[f].joinedAt < queue[e].joinedAt}) <= MaxSkipped ]_vars
  <2> SUFFICES ASSUME QueueInv, [Next]_vars, NEW m \in matches' \ matches, NEW e \in m.entries
               PROVE  Cardinality({f \in Matchable(m.class, clock) \ m.entries :
                                     queue[f].joinedAt < queue[e].joinedAt}) <= MaxSkipped
    OBVIOUS
  <2>1. PICK c \in Classes, S \in LockedElsewhere, t \in TransactionTimes :
          TryCreateBatch(c, S, t)
    BY DEF Next, vars, JoinQueue, Present, Leave, BindPresenceThread,
       ProcessPresenceReminder, ProcessExpire, CleanupExpiredEntries, Tick
  <2> QED
    BY <2>1, OnlyLockedPassedOver
<1> QED
  BY <1>1, QueueInvariant, PTL DEF Spec, BoundedOvertaking

-----------------------------------------------------------------------------
(* The refinement of QueueMembership: what a step does to the waiting rows *)
(* and what that means for the tickets.                                    *)

\* A waiting row is the ticket of its player, before a step and after it.
LEMMA RowIsTicket ==
  ASSUME AtMostOneWaiting, NEW p \in Players, NEW e \in WaitingOf(p)
  PROVE  HeldTicket(p) = [number |-> e, class |-> queue[e].class]
<1>1. WaitingOf(p) = {e}
  BY DEF AtMostOneWaiting
<1> QED
  BY <1>1 DEF HeldTicket

\* The same after the step.
LEMMA RowIsTicketNext ==
  ASSUME AtMostOneWaiting', NEW p \in Players, NEW e \in WaitingOf(p)'
  PROVE  HeldTicket(p)' = [number |-> e, class |-> queue'[e].class]
<1>1. WaitingOf(p)' = {e}
  BY DEF AtMostOneWaiting
<1> QED
  BY <1>1 DEF HeldTicket

\* The tickets of the waiting rows, whichever rows these are.
Tickets == [p \in {queue[e].player : e \in Waiting} |-> HeldTicket(p)]

\* Rows leave the queue and the others keep their players and classes: their
\* players give their tickets up, and nobody else does.
LEMMA TicketsGivenUp ==
  ASSUME QueueInv, QueueInv', NEW gone \in SUBSET Waiting, Waiting' = Waiting \ gone,
         \A e \in Waiting' : /\ queue'[e].player = queue[e].player
                             /\ queue'[e].class = queue[e].class
  PROVE  LET S == {queue[e].player : e \in gone}
         IN  /\ S \subseteq DOMAIN Tickets /\ S \in SUBSET Players
             /\ Tickets' = [p \in DOMAIN Tickets \ S |-> Tickets[p]]
<1> DEFINE S == {queue[e].player : e \in gone}
           D == {queue[e].player : e \in Waiting}
<1>1. \A e \in Waiting : queue[e].player \in Players
  BY DEF QueueInv, RowsOwned
<1>2. \A e, f \in Waiting : queue[e].player = queue[f].player => e = f
  BY <1>1 DEF QueueInv, AtMostOneWaiting, WaitingOf
<1>3. D' = D \ S
  BY <1>2
<1>4. ASSUME NEW p \in D'
      PROVE  HeldTicket(p)' = HeldTicket(p)
  <2>1. PICK e \in Waiting' : p = queue'[e].player
    BY <1>4
  <2>2. e \in WaitingOf(p)' /\ e \in WaitingOf(p) /\ p \in Players
    BY <1>1, <2>1 DEF WaitingOf
  <2>3. HeldTicket(p) = [number |-> e, class |-> queue[e].class]
    BY <2>2, RowIsTicket DEF QueueInv
  <2>4. HeldTicket(p)' = [number |-> e, class |-> queue'[e].class]
    BY <2>2, RowIsTicketNext DEF QueueInv
  <2> QED
    BY <2>1, <2>3, <2>4
<1>5. Tickets = [p \in D |-> HeldTicket(p)]
  BY DEF Tickets
<1>6. Tickets' = [p \in D' |-> HeldTicket(p)']
  BY DEF Tickets
<1>7. S \subseteq D /\ S \in SUBSET Players
  BY <1>1
<1> HIDE DEF D, S
<1> QED
  <2>1. Tickets' = [p \in D \ S |-> Tickets[p]]
    BY <1>3, <1>4, <1>5, <1>6
  <2>2. DOMAIN Tickets = D
    BY <1>5
  <2>3. S \subseteq DOMAIN Tickets /\ S \in SUBSET Players /\ Tickets' = [p \in DOMAIN Tickets \ S |-> Tickets[p]]
    BY <1>7, <2>1, <2>2
  <2> QED
    BY <2>3 DEF S

Groups == {m.entries : m \in matches}

\* Tickets are given up, and a ticket is given out.
GivenUp(S) ==
  /\ S \subseteq DOMAIN Tickets
  /\ Tickets' = [p \in DOMAIN Tickets \ S |-> Tickets[p]]
  /\ UNCHANGED lastId

Entered(player, class) ==
  /\ lastId' = lastId + 1
  /\ Tickets' = [p \in DOMAIN Tickets \cup {player} |->
                   IF p = player THEN [number |-> lastId', class |-> class]
                   ELSE Tickets[p]]

\* The instance of QueueMembership counts as FiniteSets does.
LEMMA SameCardinality ==
  ASSUME NEW S
  PROVE  Membership!Cardinality(S) = Cardinality(S)
BY DEF Cardinality, Membership!Cardinality

\* These are steps of QueueMembership.
LEMMA TicketSteps ==
  /\ \A S \in SUBSET Players :
       S # {} /\ GivenUp(S) /\ UNCHANGED Groups => Membership!Next
  /\ \A S \in SUBSET Players, class \in Classes :
       /\ Cardinality(S) = BatchSize /\ GivenUp(S)
       /\ \A p \in S : Tickets[p].class = class
       /\ Groups' = Groups \cup {{Tickets[p].number : p \in S}}
       => Membership!Next
  /\ \A p \in Players, class \in Classes :
       Entered(p, class) /\ UNCHANGED Groups => Membership!Next
  /\ GivenUp({}) /\ UNCHANGED Groups => UNCHANGED Membership!vars
<1>1. ASSUME NEW S \in SUBSET Players, S # {}, GivenUp(S), UNCHANGED Groups
      PROVE  Membership!Next
  <2>1. Membership!Exit(S)
    BY <1>1 DEF GivenUp, Membership!Exit, Membership!Without, Membership!InQueue,
       Tickets, Groups
  <2> QED
    BY <2>1 DEF Membership!Next
<1>2. ASSUME NEW S \in SUBSET Players, NEW class \in Classes,
             Cardinality(S) = BatchSize, GivenUp(S),
             \A p \in S : Tickets[p].class = class,
             Groups' = Groups \cup {{Tickets[p].number : p \in S}}
      PROVE  Membership!Next
  <2>1. Membership!Form(S, class) <=>
          /\ S \subseteq DOMAIN Tickets /\ Cardinality(S) = BatchSize
          /\ \A p \in S : Tickets[p].class = class
          /\ Tickets' = [p \in DOMAIN Tickets \ S |-> Tickets[p]]
          /\ Groups' = Groups \cup {{Tickets[p].number : p \in S}}
          /\ UNCHANGED lastId
    BY SameCardinality DEF Membership!Form, Membership!Without, Membership!InQueue,
       Membership!TicketsOf, Tickets, Groups
  <2> QED
    BY <1>2, <2>1 DEF GivenUp, Membership!Next
<1>3. ASSUME NEW p \in Players, NEW class \in Classes, Entered(p, class), UNCHANGED Groups
      PROVE  Membership!Next
  <2>1. Membership!Enter(p, class)
    BY <1>3 DEF Entered, Membership!Enter, Membership!InQueue, Tickets, Groups
  <2> QED
    BY <2>1 DEF Membership!Next
<1>4. ASSUME GivenUp({}), UNCHANGED Groups
      PROVE  UNCHANGED Membership!vars
  <2>1. UNCHANGED Tickets
    <3>1. Tickets' = [p \in DOMAIN Tickets |-> Tickets[p]]
      BY <1>4 DEF GivenUp
    <3> QED
      BY <3>1 DEF Tickets
  <2> QED
    BY <1>4, <2>1 DEF GivenUp, Membership!vars, Tickets, Groups
<1> QED
  BY <1>1, <1>2, <1>3, <1>4

\* Rows that are left, expired or cleaned up, and steps that no ticket shows.
LEMMA RowsLeave ==
  ASSUME QueueInv, QueueInv', NEW gone \in SUBSET Waiting, Waiting' = Waiting \ gone,
         \A e \in Waiting' : /\ queue'[e].player = queue[e].player
                             /\ queue'[e].class = queue[e].class,
         UNCHANGED <<lastId, matches>>
  PROVE  Membership!Next \/ UNCHANGED Membership!vars
<1> DEFINE S == {queue[e].player : e \in gone}
<1>1. S \in SUBSET Players /\ GivenUp(S)
  BY TicketsGivenUp DEF GivenUp
<1>2. UNCHANGED Groups
  BY DEF Groups
<1> HIDE DEF S
<1> QED
  BY <1>1, <1>2, TicketSteps

\* join_queue: the new row is the player's ticket; an old one that had run out
\* is replaced by it.
LEMMA JoinEnters ==
  ASSUME QueueInv, QueueInv', NEW player \in Players, NEW class \in Classes,
         NEW at \in TransactionTimes, JoinQueue(player, class, at)
  PROVE  Membership!Next
<1> DEFINE n == lastId + 1
<1>1. /\ n \in Entries /\ lastId' = n /\ UNCHANGED matches
      /\ queue' = [e \in Entries |->
                     IF e = n THEN NewRow(player, class, at)
                     ELSE IF e \in WaitingOf(player) THEN MarkExpired(queue[e])
                     ELSE queue[e]]
  BY QueueAssumption DEF JoinQueue, QueueInv, TypeOK, Entries
<1>2. queue[n] = AbsentRow
  BY <1>1 DEF QueueInv, FreshRows, TypeOK
<1>3. \A e \in Entries : queue[e] \in Row /\ MarkExpired(queue[e]).status = "expired"
  BY RowsTyped DEF QueueInv, TypeOK
<1>4. Waiting' = (Waiting \ WaitingOf(player)) \cup {n}
  BY <1>1, <1>2, <1>3 DEF Waiting, WaitingOf, NewRow, AbsentRow
<1>5. n \notin Waiting
  BY <1>2 DEF Waiting, AbsentRow
<1>6. \A e \in Waiting : queue[e].player \in Players
  BY DEF QueueInv, RowsOwned
<1>7. queue'[n].player = player /\ queue'[n].class = class
  BY <1>1 DEF NewRow
<1>8. \A e \in Waiting \ WaitingOf(player) : queue'[e] = queue[e] /\ queue[e].player # player
  BY <1>1, <1>5 DEF WaitingOf, Waiting
<1>9. DOMAIN Tickets' = DOMAIN Tickets \cup {player}
  <2>1. {queue[e].player : e \in Waiting}' = {queue[e].player : e \in Waiting} \cup {player}
    <3>1. ASSUME NEW e \in Waiting
          PROVE  queue[e].player \in {queue'[f].player : f \in Waiting'} \cup {player}
      BY <1>4, <1>8 DEF WaitingOf
    <3>2. ASSUME NEW e \in Waiting'
          PROVE  queue'[e].player \in {queue[f].player : f \in Waiting} \cup {player}
      BY <1>4, <1>7, <1>8
    <3> QED
      BY <1>4, <1>7, <3>1, <3>2
  <2> QED
    BY <2>1 DEF Tickets
<1>10. HeldTicket(player)' = [number |-> n, class |-> class]
  <2>1. n \in WaitingOf(player)'
    BY <1>4, <1>7 DEF WaitingOf
  <2> QED
    BY <1>7, <2>1, RowIsTicketNext DEF QueueInv
<1>11. ASSUME NEW p \in DOMAIN Tickets, p # player
       PROVE  HeldTicket(p)' = HeldTicket(p)
  <2>1. PICK e \in Waiting : p = queue[e].player
    BY <1>11 DEF Tickets
  <2>2. e \in Waiting \ WaitingOf(player) /\ p \in Players
    BY <1>6, <1>11, <2>1 DEF WaitingOf
  <2>3. e \in WaitingOf(p) /\ e \in WaitingOf(p)' /\ queue'[e] = queue[e]
    BY <1>4, <1>8, <2>1, <2>2 DEF WaitingOf
  <2> QED
    BY <2>2, <2>3, RowIsTicket, RowIsTicketNext DEF QueueInv
<1> HIDE DEF n
<1>12. Entered(player, class)
  <2>1. Tickets' = [p \in DOMAIN Tickets' |-> HeldTicket(p)']
    BY DEF Tickets
  <2>2. \A p \in DOMAIN Tickets : Tickets[p] = HeldTicket(p)
    BY DEF Tickets
  <2> QED
    BY <1>1, <1>9, <1>10, <1>11, <2>1, <2>2 DEF Entered, n
<1> QED
  BY <1>1, <1>12, TicketSteps DEF Groups

\* _try_create_batch: the players of the batch are a group.
LEMMA BatchForms ==
  ASSUME QueueInv, QueueInv', NEW class \in Classes, NEW skipped \in LockedElsewhere,
         NEW at \in TransactionTimes, TryCreateBatch(class, skipped, at)
  PROVE  Membership!Next
<1> DEFINE batch == FirstJoined(Matchable(class, at) \ skipped, BatchSize)
           made == [entries |-> batch, class |-> class]
           S == {queue[e].player : e \in batch}
<1>1. /\ Cardinality(batch) = BatchSize
      /\ queue' = [e \in Entries |-> IF e \in batch THEN Matched(queue[e]) ELSE queue[e]]
      /\ matches' = matches \cup {made} /\ UNCHANGED lastId
  BY DEF TryCreateBatch
<1>2. batch \in SUBSET Waiting /\ \A e \in batch : queue[e].class = class
  BY DEF FirstJoined, Matchable
<1>3. made \in matches' /\ made.entries = batch
  BY <1>1
<1> HIDE DEF batch
<1>4. \A e \in Entries : queue[e] \in Row /\ Matched(queue[e]).status = "matched"
  BY RowsTyped DEF QueueInv, TypeOK
<1>5. \A e \in batch : queue'[e].player = queue[e].player
  BY <1>1, <1>2, <1>4 DEF Waiting, Matched, Row
<1>6. Waiting' = Waiting \ batch /\ \A e \in Waiting' : queue'[e] = queue[e]
  BY <1>1, <1>2, <1>4 DEF Waiting
<1>7. S \in SUBSET Players /\ GivenUp(S)
  BY <1>1, <1>2, <1>6, TicketsGivenUp DEF GivenUp
<1>8. Cardinality(S) = BatchSize
  <2>1. {queue'[e].player : e \in made.entries} = S
    BY <1>3, <1>5
  <2> QED
    BY <1>3, <2>1 DEF QueueInv, RosterSound
<1>9. ASSUME NEW e \in batch
      PROVE  Tickets[queue[e].player].number = e /\ Tickets[queue[e].player].class = class
  <2>1. queue[e].player \in Players /\ e \in WaitingOf(queue[e].player)
    BY <1>2 DEF QueueInv, RowsOwned, WaitingOf
  <2>2. queue[e].player \in {queue[f].player : f \in Waiting}
    BY <1>2
  <2>3. HeldTicket(queue[e].player) = [number |-> e, class |-> queue[e].class]
    BY <2>1, RowIsTicket DEF QueueInv
  <2> QED
    BY <1>2, <2>2, <2>3 DEF Tickets
<1>10. {Tickets[p].number : p \in S} = batch
  <2>1. \A e \in batch : Tickets[queue[e].player].number = e
    BY <1>9
  <2> QED
    BY <2>1
<1>11. \A p \in S : Tickets[p].class = class
  BY <1>9
<1>12. Groups' = Groups \cup {batch}
  BY <1>1, <1>3 DEF Groups
<1> HIDE DEF S
<1> QED
  BY <1>7, <1>8, <1>10, <1>11, <1>12, TicketSteps

\* The queue keeps the promise of QueueMembership.
THEOREM MembershipKept == Spec => ImplementsMembership
<1>1. Init => Membership!Init
  <2> SUFFICES ASSUME Init PROVE Membership!Init
    OBVIOUS
  <2>1. Waiting = {}
    BY DEF Init, Waiting, AbsentRow
  <2> QED
    BY <2>1 DEF Init, Membership!Init
<1>2. QueueInv /\ QueueInv' /\ [Next]_vars => [Membership!Next]_(Membership!vars)
  <2> SUFFICES ASSUME QueueInv, QueueInv', [Next]_vars
               PROVE  Membership!Next \/ UNCHANGED Membership!vars
    OBVIOUS
  <2>0. queue \in [Entries -> Row] /\ queue' \in [Entries -> Row]
    BY DEF QueueInv, TypeOK
  <2>1. CASE \E p \in Players, c \in Classes, t \in TransactionTimes : JoinQueue(p, c, t)
    BY <2>1, JoinEnters
  <2>2. CASE \E c \in Classes, S \in LockedElsewhere, t \in TransactionTimes :
               TryCreateBatch(c, S, t)
    BY <2>2, BatchForms
  <2>3. CASE \E p \in Players, t \in TransactionTimes : Present(p, t)
    <3>0. PICK p \in Players, t \in TransactionTimes : Present(p, t)
      BY <2>3
    <3>1. PICK e \in WaitingOf(p) :
            /\ queue' = [queue EXCEPT ![e] =
                           IF queue[e].expireAt <= t THEN MarkExpired(queue[e])
                           ELSE Refreshed(queue[e], t)]
            /\ UNCHANGED <<lastId, matches>>
      BY <3>0 DEF Present
    <3> DEFINE gone == IF queue[e].expireAt <= t THEN {e} ELSE {}
    <3>2. e \in Waiting /\ e \in Entries /\ queue[e] \in Row /\ queue[e].status = "waiting"
      BY <2>0 DEF WaitingOf, Waiting
    <3>3. /\ queue'[e].player = queue[e].player /\ queue'[e].class = queue[e].class
          /\ queue'[e].status = (IF queue[e].expireAt <= t THEN "expired" ELSE "waiting")
      BY <2>0, <3>1, <3>2 DEF MarkExpired, Refreshed, Row
    <3>4. \A f \in Entries : f # e => queue'[f] = queue[f]
      BY <2>0, <3>1
    <3>5. gone \in SUBSET Waiting /\ Waiting' = Waiting \ gone
      BY <3>2, <3>3, <3>4 DEF Waiting
    <3>6. \A f \in Waiting' : /\ queue'[f].player = queue[f].player
                              /\ queue'[f].class = queue[f].class
      BY <3>3, <3>4 DEF Waiting
    <3> QED
      BY <3>1, <3>5, <3>6, RowsLeave
  <2>4. CASE \E p \in Players, t \in TransactionTimes : Leave(p, t)
    <3>0. PICK p \in Players, t \in TransactionTimes : Leave(p, t)
      BY <2>4
    <3>1. PICK e \in WaitingOf(p) :
            /\ queue' = [queue EXCEPT ![e] =
                           IF queue[e].expireAt <= t THEN MarkExpired(queue[e])
                           ELSE [queue[e] EXCEPT !.status = "left"]]
            /\ UNCHANGED <<lastId, matches>>
      BY <3>0 DEF Leave
    <3>2. e \in Waiting /\ queue'[e].status \in {"expired", "left"}
      BY <2>0, <3>1 DEF WaitingOf, Waiting, MarkExpired, Row
    <3>3. \A f \in Entries : f # e => queue'[f] = queue[f]
      BY <2>0, <3>1
    <3>4. {e} \in SUBSET Waiting /\ Waiting' = Waiting \ {e} /\ \A f \in Waiting' : queue'[f] = queue[f]
      BY <3>2, <3>3 DEF Waiting
    <3> QED
      BY <3>1, <3>4, RowsLeave
  <2>5. CASE \/ \E e \in Entries, r \in 1..MaxRevision, t \in TransactionTimes :
                  ProcessExpire(e, r, t)
             \/ \E S \in LockedElsewhere, t \in TransactionTimes : CleanupExpiredEntries(S, t)
    <3>1. PICK gone \in SUBSET Waiting :
            /\ \A e \in gone : queue'[e].status = "expired"
            /\ \A e \in Entries \ gone : queue'[e] = queue[e]
            /\ UNCHANGED <<lastId, matches>>
      <4>1. ASSUME NEW e \in Entries, NEW r \in 1..MaxRevision, NEW t \in TransactionTimes,
                   ProcessExpire(e, r, t)
            PROVE  /\ {e} \in SUBSET Waiting
                   /\ \A f \in {e} : queue'[f].status = "expired"
                   /\ \A f \in Entries \ {e} : queue'[f] = queue[f]
                   /\ UNCHANGED <<lastId, matches>>
        BY <2>0, <4>1, RowsTyped DEF ProcessExpire, ExpiryDue, Waiting
      <4>2. ASSUME NEW S \in LockedElsewhere, NEW t \in TransactionTimes,
                   CleanupExpiredEntries(S, t)
            PROVE  LET found == Overdue(t) \ S
                   IN  /\ found \in SUBSET Waiting
                       /\ \A f \in found : queue'[f].status = "expired"
                       /\ \A f \in Entries \ found : queue'[f] = queue[f]
                       /\ UNCHANGED <<lastId, matches>>
        BY <2>0, <4>2, RowsTyped DEF CleanupExpiredEntries, Overdue, Waiting
      <4> QED
        BY <2>5, <4>1, <4>2
    <3>2. Waiting' = Waiting \ gone /\ \A e \in Waiting' : queue'[e] = queue[e]
      BY <3>1 DEF Waiting
    <3> QED
      BY <3>1, <3>2, RowsLeave
  <2>6. CASE \/ \E e \in Entries : BindPresenceThread(e)
             \/ \E e \in Entries, r \in 1..MaxRevision, t \in TransactionTimes :
                  ProcessPresenceReminder(e, r, t)
             \/ Tick
             \/ UNCHANGED vars
    <3>1. /\ \A e \in Entries : /\ queue'[e].status = queue[e].status
                                /\ queue'[e].player = queue[e].player
                                /\ queue'[e].class = queue[e].class
          /\ UNCHANGED <<lastId, matches>>
      BY <2>0, <2>6 DEF BindPresenceThread, ProcessPresenceReminder, Tick, vars, Row
    <3>2. Waiting' = Waiting \ {} /\ {} \in SUBSET Waiting
      BY <3>1 DEF Waiting
    <3>3. \A e \in Waiting' : /\ queue'[e].player = queue[e].player
                              /\ queue'[e].class = queue[e].class
      BY <3>1 DEF Waiting
    <3> QED
      BY <3>1, <3>2, <3>3, RowsLeave
  <2> QED
    BY <2>1, <2>2, <2>3, <2>4, <2>5, <2>6 DEF Next
<1> QED
  BY <1>1, <1>2, QueueInvariant, PTL DEF Spec, ImplementsMembership, Membership!Spec
=============================================================================
