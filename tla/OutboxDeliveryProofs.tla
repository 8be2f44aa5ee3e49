------------------------- MODULE OutboxDeliveryProofs -------------------------
(***************************************************************************)
(* What OutboxDelivery guarantees for any events and batches, any retry    *)
(* delays, any clock skew and any number of crashes, failures and lost     *)
(* connections.                                                            *)
(***************************************************************************)
EXTENDS OutboxDelivery, FiniteSetTheorems, TLAPS

\* No retry is set for a time that the model's clock could not reach, so that
\* Never means that there is no timer.
TimesBounded ==
  /\ clock <= MaxClock
  /\ cycle.at <= clock
  /\ \A e \in Events : rows[e].nextAt < Never

\* A process that is down has nothing in memory.
DownIsEmpty ==
  boot = "down" => /\ ~listening /\ waiting = {} /\ cycle = Idle
                   /\ timers = NoTimers

\* start() has one dispatch of its own at a time, in its first phase and in
\* its last.
StartupOnce ==
  /\ Task("startup") \in waiting => cycle.trigger # Task("startup")
  /\ Task("startup") \in waiting \/ cycle.trigger = Task("startup") =>
       boot \in {"first", "second"}

\* The event of a cycle is pending until it is dealt with, and what the cycle
\* has settled is not pending any more.
CycleShape ==
  /\ cycle # Idle => cycle.trigger # Task("none")
  /\ cycle.event # NoEvent => cycle.event \in Pending
  /\ cycle.event = NoEvent => ~cycle.posted
  /\ \A e \in cycle.settled : rows[e].status \in {"published", "discarded"}

\* A retry to come has a timer, or start() has still to read it, has read it and
\* has still to set the timer, or the cycle that failed has still to set it.
RetriesTimed ==
  ~pollNeeded =>
    \A e \in Pending \ Due :
      \/ boot \in {"down", "first", "scan"}
      \/ boot = "scanned" /\ scan[e] = rows[e].nextAt
      \/ e \in cycle.failed
      \/ timers[e] = rows[e].nextAt

\* What is due is looked at by a cycle that runs or waits, or has a timer that
\* has not rung yet.
DueNoticed ==
  boot = "up" /\ listening /\ ~pollNeeded =>
    \A e \in Due : waiting # {} \/ cycle # Idle \/ timers[e] = rows[e].nextAt

\* The inductive invariant. NothingForgotten follows from its last parts, which
\* say of every moment what becomes of an event; DuplicatesExplained needs that
\* the event of a cycle is pending.
DeliveryInv ==
  /\ TypeOK
  /\ TimesBounded
  /\ DownIsEmpty
  /\ StartupOnce
  /\ CycleShape
  /\ RetriesTimed
  /\ DueNoticed

-----------------------------------------------------------------------------
\* Every set of numbers that is not empty has a least one.
LEMMA LeastNumber ==
  ASSUME NEW T \in SUBSET Nat, T # {}
  PROVE  \E m \in T : \A n \in T : m <= n
<1> DEFINE R == OpToRel(<, Nat)
<1>1. IsWellFoundedOn(R, Nat)
  BY NatLessThanWellFounded
<1> HIDE DEF R
<1>2. PICK m \in T : \A n \in T : <<n, m>> \notin R
  BY <1>1, WFMin
<1>3. \A n \in T : ~(n < m)
  BY <1>2 DEF R, OpToRel
<1> QED
  BY <1>3

\* 2^n is the number of subsets of a set of n elements.
LEMMA PowerIsNatural ==
  ASSUME NEW n \in Nat
  PROVE  2^n \in Nat
<1>1. IsFiniteSet(1..n) /\ Cardinality(1..n) = n
  BY FS_Interval
<1>2. IsFiniteSet(SUBSET (1..n)) /\ Cardinality(SUBSET (1..n)) = 2^n
  BY <1>1, FS_SUBSET
<1> QED
  BY <1>2, FS_CardinalityType

\* The delay of a retry is a number, capped.
LEMMA RetryDelayBounded ==
  ASSUME NEW n \in Nat \ {0}
  PROVE  RetryDelay(n) \in Nat /\ RetryDelay(n) <= MaxDelay
<1>1. n - 1 \in Nat
  OBVIOUS
<1>2. 2^(n - 1) \in Nat
  BY <1>1, PowerIsNatural
<1>3. MaxDelay \in Nat
  BY OutboxAssumption
<1> HIDE DEF RetryDelay
<1> DEFINE power == 2^(n - 1)
<1>4. RetryDelay(n) = IF power <= MaxDelay THEN power ELSE MaxDelay
  BY DEF RetryDelay
<1> HIDE DEF power
<1> QED
  BY <1>2, <1>3, <1>4 DEF power

\* There is an event that is first in line, if any is due.
LEMMA FirstDueExists ==
  ASSUME TypeOK, Due # {}
  PROVE  FirstDue \in Due
<1>1. \A e \in Due : e \in Nat /\ rows[e].nextAt \in Nat
  BY DEF Due, Pending, TypeOK, Row, Events
<1> DEFINE times == {rows[e].nextAt : e \in Due}
<1>2. times \in SUBSET Nat /\ times # {}
  BY <1>1
<1>3. PICK m \in times : \A n \in times : m <= n
  <2> HIDE DEF times
  <2> QED
    BY <1>2, LeastNumber
<1> DEFINE first == {e \in Due : rows[e].nextAt = m}
<1>4. first \in SUBSET Nat /\ first # {}
  BY <1>1, <1>3
<1>5. PICK e \in first : \A f \in first : e <= f
  <2> HIDE DEF first
  <2> QED
    BY <1>4, LeastNumber
<1>6. e \in Due /\ rows[e].nextAt = m /\ m \in Nat
  BY <1>2, <1>3, <1>5
<1>7. ASSUME NEW f \in Due
      PROVE  \/ rows[e].nextAt < rows[f].nextAt
             \/ rows[e].nextAt = rows[f].nextAt /\ e <= f
  <2>1. m <= rows[f].nextAt /\ rows[f].nextAt \in Nat
    BY <1>1, <1>3
  <2>2. CASE rows[f].nextAt = m
    BY <1>5, <1>6, <2>2
  <2>3. CASE rows[f].nextAt # m
    BY <1>6, <2>1, <2>3
  <2> QED
    BY <2>2, <2>3
<1> QED
  BY <1>6, <1>7 DEF FirstDue

\* The tasks are told apart by their names.
LEMMA TaskNames ==
  /\ Task("none") \notin Tasks /\ Task("cancelled") \notin Tasks
  /\ Task("startup") # Task("dispatch")
  /\ Task("none") # Task("cancelled") /\ Task("none") # Task("startup")
  /\ Task("cancelled") # Task("startup")
  /\ {Task("startup"), Task("dispatch")} \subseteq Tasks
  /\ \A e \in Events : RetryTask(e) \in Tasks /\ RetryTask(e) # Task("startup")
BY DEF Tasks, Task, RetryTasks, RetryTask

\* The bounds are numbers, and "never" is after all of them.
LEMMA Bounds ==
  /\ MaxClock \in Nat /\ MaxDelay \in Nat /\ MaxMishaps \in Nat
  /\ Never \in Nat /\ MaxClock + MaxDelay < Never
BY OutboxAssumption DEF Never

\* What the dispatcher starts with has the right form.
LEMMA IdleTyped ==
  Idle \in Cycle /\ Never \in Nat /\ NoTimers \in [Events -> Nat]
BY OutboxAssumption DEF Idle, Cycle, Never, NoTimers, NoEvent, Events

-----------------------------------------------------------------------------
\* A commit that inserts events wakes a dispatcher that listens.
LEMMA EnqueueStep ==
  ASSUME DeliveryInv, NEW S \in Batches, NEW at \in 0..clock, Enqueue(S, at)
  PROVE  DeliveryInv'
<1>1. S \subseteq Events /\ clock \in Nat /\ at \in Nat /\ at <= clock /\ at < Never
  <2>1. clock \in Nat /\ clock <= MaxClock
    BY DEF DeliveryInv, TypeOK, TimesBounded
  <2> QED
    BY <2>1, Bounds, OutboxAssumption DEF Events
<1>2. /\ rows \in [Events -> Row] /\ \A e \in S : rows[e].status = "absent"
      /\ rows' = [e \in Events |->
                IF e \in S THEN [status |-> "pending", failures |-> 0, nextAt |-> at]
                ELSE rows[e]]
      /\ UNCHANGED <<posts, unconfirmed, boot, listening, timers, scan, cycle,
                     pollNeeded, mishaps, clock>>
      /\ waiting' = IF listening THEN Scheduled ELSE waiting
  BY DEF Enqueue, DeliveryInv, TypeOK
<1>3. rows' \in [Events -> Row] /\ \A e \in Events : rows'[e].nextAt < Never
  BY <1>1, <1>2 DEF Row, DeliveryInv, TimesBounded
<1>4. waiting \subseteq waiting' /\ waiting' \subseteq Tasks
      /\ (listening => waiting' # {})
      /\ (Task("startup") \in waiting' => Task("startup") \in waiting)
      /\ (~listening => waiting' = waiting)
  BY <1>2, TaskNames DEF Scheduled, DeliveryInv, TypeOK
<1>5. Pending' = Pending \cup S /\ Due' = Due \cup S /\ Pending \cap S = {}
  BY <1>1, <1>2, <1>3 DEF Pending, Due
<1>6. \A e \in Pending : rows'[e] = rows[e]
  BY <1>2, <1>5 DEF Pending
<1>7. TypeOK' /\ TimesBounded'
  BY <1>2, <1>3, <1>4 DEF DeliveryInv, TypeOK, TimesBounded
<1>8. DownIsEmpty' /\ StartupOnce'
  BY <1>2, <1>4 DEF DeliveryInv, DownIsEmpty, StartupOnce
<1>9. CycleShape'
  <2>1. \A e \in cycle.settled : e \in Events /\ rows'[e] = rows[e]
    BY <1>1, <1>2 DEF DeliveryInv, TypeOK, Cycle, CycleShape
  <2> QED
    BY <1>2, <1>5, <2>1 DEF DeliveryInv, CycleShape
<1>10. RetriesTimed'
  BY <1>2, <1>5, <1>6 DEF DeliveryInv, RetriesTimed, Due
<1>11. DueNoticed'
  BY <1>2, <1>4, <1>5, <1>6 DEF DeliveryInv, DueNoticed
<1> QED
  BY <1>7, <1>8, <1>9, <1>10, <1>11 DEF DeliveryInv

\* start() and the connections: nothing happens to the events.
LEMMA StartStep ==
  ASSUME DeliveryInv, Start
  PROVE  DeliveryInv'
<1>1. TypeOK' /\ TimesBounded' /\ DownIsEmpty'
  BY TaskNames DEF DeliveryInv, Start, TypeOK, TimesBounded, DownIsEmpty, table
<1>2. StartupOnce'
  BY TaskNames DEF DeliveryInv, Start, DownIsEmpty, StartupOnce, table, Idle
<1>3. CycleShape' /\ RetriesTimed' /\ DueNoticed'
  BY DEF DeliveryInv, Start, CycleShape, RetriesTimed, DueNoticed, table, Pending, Due
<1> QED
  BY <1>1, <1>2, <1>3 DEF DeliveryInv

\* The retries read at the start become tasks.
LEMMA ReadRetriesStep ==
  ASSUME DeliveryInv, ReadRetries
  PROVE  DeliveryInv'
<1>1. UNCHANGED <<table, listening, waiting, timers, cycle, pollNeeded, mishaps, clock>>
  BY DEF ReadRetries
<1>2. scan' \in [Events -> Nat]
  BY Bounds DEF ReadRetries, DeliveryInv, TypeOK, Row
<1>3. TypeOK' /\ TimesBounded' /\ DownIsEmpty'
  BY <1>1, <1>2 DEF DeliveryInv, ReadRetries, TypeOK, TimesBounded, DownIsEmpty, table
<1>4. StartupOnce'
  BY <1>1 DEF DeliveryInv, ReadRetries, StartupOnce
<1>5. CycleShape' /\ DueNoticed'
  BY <1>1 DEF DeliveryInv, ReadRetries, CycleShape, DueNoticed, table, Pending, Due
<1>6. \A e \in Pending \ Due : scan'[e] = rows[e].nextAt
  BY DEF ReadRetries, Pending, Due
<1>7. RetriesTimed'
  BY <1>1, <1>6 DEF ReadRetries, RetriesTimed, table, Pending, Due
<1> QED
  BY <1>3, <1>4, <1>5, <1>7 DEF DeliveryInv

\* A timer that is set too late or for too early a time is why pollNeeded exists.
LEMMA SetRetryTimersStep ==
  ASSUME DeliveryInv, SetRetryTimers
  PROVE  DeliveryInv'
<1>1. /\ boot = "scanned" /\ boot' = "second"
      /\ timers' = [e \in Events |-> IF e \in Scanned THEN scan[e] ELSE timers[e]]
      /\ waiting' = (waiting \ RetryTasks(Scanned)) \cup {Task("startup")}
      /\ \/ cycle' = cycle
         \/ /\ cycle.trigger \in RetryTasks(Scanned)
            /\ cycle' = [cycle EXCEPT !.trigger = Task("cancelled")]
      /\ scan' = NoTimers
      /\ pollNeeded' =
           (pollNeeded \/ \E e \in Scanned \cap Pending : rows[e].nextAt # scan[e])
      /\ UNCHANGED <<table, listening, mishaps, clock>>
  BY DEF SetRetryTimers
<1>2. /\ cycle' \in Cycle /\ cycle'.event = cycle.event /\ cycle'.posted = cycle.posted
      /\ cycle'.settled = cycle.settled /\ cycle'.failed = cycle.failed
      /\ cycle'.at = cycle.at
      /\ cycle'.trigger \in {cycle.trigger, Task("cancelled")}
      /\ (cycle' = cycle \/ cycle'.trigger = Task("cancelled"))
  BY <1>1 DEF DeliveryInv, TypeOK, Cycle
<1>3. TypeOK' /\ TimesBounded' /\ DownIsEmpty'
  <2>1. timers' \in [Events -> Nat] /\ scan' \in [Events -> Nat] /\ waiting' \subseteq Tasks
    BY <1>1, IdleTyped, TaskNames DEF DeliveryInv, TypeOK
  <2> QED
    BY <1>1, <1>2, <2>1 DEF DeliveryInv, TypeOK, TimesBounded, DownIsEmpty, table
<1>4. StartupOnce'
  BY <1>1, <1>2, TaskNames DEF DeliveryInv, StartupOnce
<1>5. UNCHANGED <<rows, clock>> /\ UNCHANGED Pending /\ UNCHANGED Due
  BY <1>1 DEF table, Pending, Due
<1>6. CycleShape'
  BY <1>1, <1>2, <1>5, TaskNames DEF DeliveryInv, CycleShape
<1>7. RetriesTimed'
  <2> SUFFICES ASSUME ~pollNeeded', NEW e \in Pending \ Due
               PROVE  e \in cycle'.failed \/ timers'[e] = rows'[e].nextAt
    BY <1>5 DEF RetriesTimed
  <2>1. e \in Events /\ ~pollNeeded
    BY <1>1 DEF Pending
  <2>2. CASE e \in Scanned
    BY <1>1, <1>5, <2>1, <2>2
  <2>3. CASE e \notin Scanned
    <3>1. scan[e] # rows[e].nextAt
      BY <2>1, <2>3 DEF Scanned, DeliveryInv, TimesBounded, TypeOK, Row
    <3> QED
      BY <1>1, <1>2, <1>5, <2>1, <2>3, <3>1 DEF DeliveryInv, RetriesTimed
  <2> QED
    BY <2>2, <2>3
<1>8. DueNoticed'
  BY <1>1 DEF DueNoticed
<1> QED
  BY <1>3, <1>4, <1>6, <1>7, <1>8 DEF DeliveryInv

\* A dispatch is asked for, by the listener that is back or by the poll.
LEMMA ScheduleStep ==
  ASSUME DeliveryInv, boot # "down", waiting' = waiting \cup {Task("dispatch")},
         listening' \in BOOLEAN,
         UNCHANGED <<table, boot, timers, scan, cycle, pollNeeded, mishaps, clock>>
  PROVE  DeliveryInv'
<1>1. TypeOK' /\ TimesBounded' /\ DownIsEmpty'
  BY TaskNames DEF DeliveryInv, TypeOK, TimesBounded, DownIsEmpty, table
<1>2. StartupOnce'
  BY TaskNames DEF DeliveryInv, StartupOnce
<1>3. CycleShape' /\ RetriesTimed' /\ DueNoticed'
  BY DEF DeliveryInv, CycleShape, RetriesTimed, DueNoticed, table, Pending, Due
<1> QED
  BY <1>1, <1>2, <1>3 DEF DeliveryInv

\* While the connection is lost the poll sees to what is due.
LEMMA LoseListenerStep ==
  ASSUME DeliveryInv, LoseListener
  PROVE  DeliveryInv'
<1>1. /\ listening /\ ~listening' /\ listening' \in BOOLEAN /\ mishaps' = mishaps + 1
      /\ UNCHANGED <<table, boot, waiting, timers, scan, cycle, pollNeeded, clock>>
  BY DEF LoseListener
<1>2. TypeOK' /\ TimesBounded'
  BY <1>1 DEF DeliveryInv, TypeOK, TimesBounded, table
<1>3. DownIsEmpty' /\ StartupOnce'
  BY <1>1 DEF DeliveryInv, DownIsEmpty, StartupOnce
<1>4. CycleShape' /\ RetriesTimed' /\ DueNoticed'
  BY <1>1 DEF DeliveryInv, CycleShape, RetriesTimed, DueNoticed, table, Pending, Due
<1> QED
  BY <1>2, <1>3, <1>4 DEF DeliveryInv

\* Time passes: what becomes due had a timer or a cycle.
LEMMA TickStep ==
  ASSUME DeliveryInv, Tick
  PROVE  DeliveryInv'
<1>1. /\ clock' = clock + 1 /\ clock < MaxClock /\ clock \in Nat
      /\ UNCHANGED <<table, boot, listening, waiting, timers, scan, cycle, pollNeeded, mishaps>>
  BY DEF Tick, memory, DeliveryInv, TypeOK
<1>2. TypeOK' /\ TimesBounded'
  BY <1>1, Bounds DEF DeliveryInv, TypeOK, TimesBounded, table, Cycle
<1>3. DownIsEmpty' /\ StartupOnce'
  BY <1>1 DEF DeliveryInv, DownIsEmpty, StartupOnce
<1>4. UNCHANGED Pending /\ Due \subseteq Due'
  BY <1>1 DEF Pending, Due, DeliveryInv, TypeOK, Row, table
<1>5. CycleShape' /\ RetriesTimed'
  BY <1>1, <1>4 DEF DeliveryInv, CycleShape, RetriesTimed, table
<1>6. DueNoticed'
  <2> SUFFICES ASSUME boot = "up", listening, ~pollNeeded, NEW e \in Due',
                      waiting = {}, cycle = Idle
               PROVE  timers[e] = rows[e].nextAt
    BY <1>1 DEF DueNoticed, table
  <2>1. e \in Pending
    BY <1>4 DEF Due
  <2>2. CASE e \in Due
    BY <2>2 DEF DeliveryInv, DueNoticed
  <2>3. CASE e \notin Due
    BY <2>1, <2>3 DEF DeliveryInv, RetriesTimed, Idle
  <2> QED
    BY <2>2, <2>3
<1> QED
  BY <1>2, <1>3, <1>5, <1>6 DEF DeliveryInv

\* A timer that rings in time leaves a due event to the task that it wakes.
LEMMA WakeRetryStep ==
  ASSUME DeliveryInv, NEW e \in Events, WakeRetry(e)
  PROVE  DeliveryInv'
<1>1. /\ timers[e] # Never
      /\ timers' = [timers EXCEPT ![e] = Never]
      /\ waiting' = waiting \cup {RetryTask(e)}
      /\ pollNeeded' = (pollNeeded \/ timers[e] > clock)
      /\ UNCHANGED <<table, boot, listening, scan, cycle, mishaps, clock>>
  BY DEF WakeRetry
<1>2. timers' \in [Events -> Nat] /\ waiting' \subseteq Tasks
  BY <1>1, IdleTyped, TaskNames DEF DeliveryInv, TypeOK
<1>3. boot # "down"
  BY <1>1 DEF DeliveryInv, DownIsEmpty, NoTimers
<1>4. TypeOK' /\ TimesBounded' /\ DownIsEmpty'
  BY <1>1, <1>2, <1>3 DEF DeliveryInv, TypeOK, TimesBounded, DownIsEmpty, table
<1>5. StartupOnce'
  BY <1>1, TaskNames DEF DeliveryInv, StartupOnce
<1>6. UNCHANGED Pending /\ UNCHANGED Due
  BY <1>1 DEF Pending, Due, table
<1>7. CycleShape' /\ DueNoticed'
  BY <1>1, <1>6 DEF DeliveryInv, CycleShape, DueNoticed, table
<1>8. RetriesTimed'
  <2> SUFFICES ASSUME ~pollNeeded', NEW f \in Pending \ Due
               PROVE  \/ boot \in {"down", "first", "scan"}
                      \/ boot = "scanned" /\ scan[f] = rows[f].nextAt
                      \/ f \in cycle.failed
                      \/ timers'[f] = rows[f].nextAt
    BY <1>1, <1>6 DEF RetriesTimed, table
  <2>1. ~pollNeeded /\ ~(timers[e] > clock)
    BY <1>1
  <2>2. timers[f] = rows[f].nextAt => f # e
    BY <2>1 DEF Pending, Due, DeliveryInv, TypeOK, Row
  <2>3. f \in Events
    BY DEF Pending
  <2> QED
    BY <1>1, <2>1, <2>2, <2>3 DEF DeliveryInv, RetriesTimed, TypeOK
<1> QED
  BY <1>4, <1>5, <1>7, <1>8 DEF DeliveryInv

-----------------------------------------------------------------------------
\* The dispatch cycle.
LEMMA BeginCycleStep ==
  ASSUME DeliveryInv, NEW trigger \in waiting, BeginCycle(trigger)
  PROVE  DeliveryInv'
<1>1. /\ cycle = Idle /\ waiting' = waiting \ {trigger}
      /\ cycle' = [Idle EXCEPT !.trigger = trigger]
      /\ UNCHANGED <<table, boot, listening, timers, scan, pollNeeded, mishaps, clock>>
  BY DEF BeginCycle
<1>2. trigger \in Tasks /\ waiting' \subseteq Tasks
  BY <1>1 DEF DeliveryInv, TypeOK
<1>3. /\ cycle' \in Cycle /\ cycle'.trigger = trigger /\ cycle'.event = NoEvent
      /\ cycle'.settled = {} /\ cycle'.failed = {} /\ ~cycle'.posted /\ cycle'.at = 0
      /\ cycle.trigger = Task("none") /\ cycle.failed = {}
  BY <1>1, <1>2, IdleTyped DEF Idle, Cycle
<1>4. cycle' # Idle /\ cycle'.trigger # Task("none")
  BY <1>2, <1>3, TaskNames DEF Idle
<1>5. TypeOK' /\ TimesBounded'
  BY <1>1, <1>2, <1>3 DEF DeliveryInv, TypeOK, TimesBounded, table
<1>6. DownIsEmpty' /\ StartupOnce'
  BY <1>1, <1>3, TaskNames DEF DeliveryInv, DownIsEmpty, StartupOnce
<1>7. UNCHANGED <<rows, clock>> /\ UNCHANGED Pending /\ UNCHANGED Due
  BY <1>1 DEF Pending, Due, table
<1>8. CycleShape' /\ DueNoticed'
  BY <1>3, <1>4 DEF CycleShape, DueNoticed
<1>9. RetriesTimed'
  BY <1>1, <1>3, <1>7 DEF DeliveryInv, RetriesTimed
<1> QED
  BY <1>5, <1>6, <1>8, <1>9 DEF DeliveryInv

\* While a cycle works and commits nothing, only its event and its progress
\* change.
LEMMA CycleMovesOn ==
  ASSUME DeliveryInv, cycle # Idle, cycle' \in Cycle,
         cycle'.trigger = cycle.trigger, cycle'.settled = cycle.settled,
         cycle'.failed = cycle.failed, cycle'.at <= clock,
         cycle'.event # NoEvent, cycle'.event \in Pending,
         posts' \in Seq(Events),
         UNCHANGED <<rows, unconfirmed, boot, listening, waiting, timers, scan,
                     pollNeeded, mishaps, clock>>
  PROVE  DeliveryInv'
<1>1. cycle' # Idle
  BY TaskNames DEF Idle
<1>2. TypeOK' /\ TimesBounded'
  BY DEF DeliveryInv, TypeOK, TimesBounded
<1>3. DownIsEmpty' /\ StartupOnce'
  BY DEF DeliveryInv, DownIsEmpty, StartupOnce
<1>4. UNCHANGED Pending /\ UNCHANGED Due
  BY DEF Pending, Due
<1>5. CycleShape' /\ RetriesTimed' /\ DueNoticed'
  BY <1>1, <1>4 DEF DeliveryInv, CycleShape, RetriesTimed, DueNoticed
<1> QED
  BY <1>2, <1>3, <1>5 DEF DeliveryInv

\* An event is claimed while it is due.
LEMMA ClaimStep ==
  ASSUME DeliveryInv, Claim
  PROVE  DeliveryInv'
<1>1. /\ cycle # Idle /\ cycle' = [cycle EXCEPT !.event = FirstDue, !.at = clock]
      /\ UNCHANGED <<table, boot, listening, waiting, timers, scan, pollNeeded, mishaps, clock>>
      /\ Due # {}
  BY DEF Claim
<1>2. FirstDue \in Pending /\ FirstDue \in Events /\ FirstDue # NoEvent
  BY <1>1, FirstDueExists DEF DeliveryInv, Due, Pending, Events, NoEvent
<1>3. cycle \in Cycle /\ clock \in Nat /\ posts \in Seq(Events)
  BY DEF DeliveryInv, TypeOK
<1> HIDE DEF FirstDue
<1>4. /\ cycle' \in Cycle /\ cycle'.event = FirstDue /\ cycle'.at = clock
      /\ cycle'.trigger = cycle.trigger /\ cycle'.settled = cycle.settled
      /\ cycle'.failed = cycle.failed
  BY <1>1, <1>2, <1>3 DEF Cycle
<1> QED
  BY <1>1, <1>2, <1>3, <1>4, CycleMovesOn DEF table

\* A post is made, refused or fails, and the cycle goes on to record it.
LEMMA PublishStep ==
  ASSUME DeliveryInv, Publish
  PROVE  DeliveryInv'
<1>1. /\ cycle # Idle /\ cycle.event # NoEvent /\ cycle' = [cycle EXCEPT !.posted = TRUE]
      /\ posts' = Append(posts, cycle.event)
      /\ UNCHANGED <<rows, unconfirmed, boot, listening, waiting, timers, scan,
                     pollNeeded, mishaps, clock>>
  BY DEF Publish, Working
<1>2. cycle.event \in Pending /\ cycle.event \in Events
  BY <1>1 DEF DeliveryInv, CycleShape, Pending
<1>3. cycle \in Cycle /\ posts \in Seq(Events) /\ cycle.at <= clock
  BY DEF DeliveryInv, TypeOK, TimesBounded
<1>4. /\ cycle' \in Cycle /\ cycle'.event = cycle.event /\ cycle'.at = cycle.at
      /\ cycle'.trigger = cycle.trigger /\ cycle'.settled = cycle.settled
      /\ cycle'.failed = cycle.failed
  BY <1>1, <1>3 DEF Cycle
<1>5. posts' \in Seq(Events)
  BY <1>1, <1>2, <1>3
<1> QED
  BY <1>1, <1>2, <1>3, <1>4, <1>5, CycleMovesOn

\* The event of the cycle is recorded as published, discarded or failed, and the
\* cycle remembers which.
LEMMA CommitStep ==
  ASSUME DeliveryInv, Working, NEW row \in Row, NEW settled, NEW failed,
         CommitAs(row, settled, failed), row.nextAt < Never,
         posts' \in Seq(Events), unconfirmed' \in [Events -> Nat],
         \/ /\ settled = {cycle.event} /\ failed = {}
            /\ row.status \in {"published", "discarded"}
         \/ settled = {} /\ failed = {cycle.event} /\ row.status = "pending"
  PROVE  DeliveryInv'
<1>1. /\ rows' = [rows EXCEPT ![cycle.event] = row]
      /\ cycle' = [cycle EXCEPT !.event = NoEvent, !.posted = FALSE, !.done = cycle.done + 1,
                                !.settled = cycle.settled \cup settled,
                                !.failed = cycle.failed \cup failed]
      /\ UNCHANGED <<boot, listening, waiting, timers, scan, pollNeeded, mishaps, clock>>
  BY DEF CommitAs
<1>2. /\ cycle # Idle /\ cycle.event \in Pending /\ cycle.event \in Events
      /\ rows[cycle.event].status = "pending"
  BY DEF Working, DeliveryInv, CycleShape, Pending
<1>3. cycle \in Cycle /\ rows \in [Events -> Row]
  BY DEF DeliveryInv, TypeOK
<1>4. /\ cycle' \in Cycle /\ cycle'.event = NoEvent /\ ~cycle'.posted
      /\ cycle'.trigger = cycle.trigger /\ cycle'.at = cycle.at
      /\ cycle'.settled = cycle.settled \cup settled
      /\ cycle'.failed = cycle.failed \cup failed
  <2> DEFINE settledNow == cycle.settled \cup settled
             failedNow == cycle.failed \cup failed
             doneNow == cycle.done + 1
  <2>1. settledNow \in SUBSET Events /\ failedNow \in SUBSET Events /\ doneNow \in Nat
    BY <1>2, <1>3 DEF Cycle
  <2>2. cycle' = [cycle EXCEPT !.event = NoEvent, !.posted = FALSE, !.done = doneNow,
                               !.settled = settledNow, !.failed = failedNow]
    BY <1>1
  <2> HIDE DEF settledNow, failedNow, doneNow
  <2>3. /\ cycle' \in Cycle /\ cycle'.event = NoEvent /\ ~cycle'.posted
        /\ cycle'.trigger = cycle.trigger /\ cycle'.at = cycle.at
        /\ cycle'.settled = settledNow /\ cycle'.failed = failedNow
    BY <1>3, <2>1, <2>2 DEF Cycle
  <2> QED
    BY <2>3 DEF settledNow, failedNow
<1>5. cycle' # Idle /\ cycle'.trigger # Task("none")
  BY <1>2, <1>4 DEF DeliveryInv, CycleShape, Idle
<1>6. /\ rows' \in [Events -> Row] /\ rows'[cycle.event] = row
      /\ \A e \in Events : e # cycle.event => rows'[e] = rows[e]
  BY <1>1, <1>2, <1>3
<1>7. TypeOK' /\ TimesBounded'
  BY <1>1, <1>4, <1>6 DEF DeliveryInv, TypeOK, TimesBounded
<1>8. DownIsEmpty' /\ StartupOnce'
  BY <1>1, <1>2, <1>4 DEF DeliveryInv, DownIsEmpty, StartupOnce
<1>9. CycleShape'
  <2>1. ASSUME NEW e \in cycle'.settled
        PROVE  rows'[e].status \in {"published", "discarded"}
    <3>1. CASE e \in settled
      BY <1>6, <3>1
    <3>2. CASE e \in cycle.settled
      <4>1. e # cycle.event /\ e \in Events
        BY <1>2, <1>3, <3>2 DEF DeliveryInv, CycleShape, Cycle
      <4> QED
        BY <1>6, <3>2, <4>1 DEF DeliveryInv, CycleShape
    <3> QED
      BY <1>4, <3>1, <3>2
  <2> QED
    BY <1>4, <1>5, <2>1 DEF CycleShape
<1>10. \A e \in Pending' : \/ e \in failed
                           \/ e \in Pending /\ rows'[e] = rows[e]
  BY <1>6 DEF Pending
<1>11. RetriesTimed'
  BY <1>1, <1>4, <1>10 DEF DeliveryInv, RetriesTimed, Due
<1>12. DueNoticed'
  BY <1>5 DEF DueNoticed
<1> QED
  BY <1>7, <1>8, <1>9, <1>11, <1>12 DEF DeliveryInv

\* What was posted is recorded as posted.
LEMMA RecordStep ==
  ASSUME DeliveryInv, RecordPublished \/ RecordDiscarded
  PROVE  DeliveryInv'
<1> DEFINE published == [rows[cycle.event] EXCEPT !.status = "published"]
           discarded == [rows[cycle.event] EXCEPT !.status = "discarded"]
<1>1. /\ Working /\ UNCHANGED <<posts, unconfirmed>>
      /\ \/ CommitAs(published, {cycle.event}, {})
         \/ CommitAs(discarded, {cycle.event}, {})
  BY DEF RecordPublished, RecordDiscarded
<1>2. cycle.event \in Events /\ rows[cycle.event] \in Row /\ rows[cycle.event].nextAt < Never
  BY <1>1 DEF Working, DeliveryInv, CycleShape, Pending, TypeOK, TimesBounded
<1>3. /\ published \in Row /\ published.nextAt < Never /\ published.status = "published"
      /\ discarded \in Row /\ discarded.nextAt < Never /\ discarded.status = "discarded"
  BY <1>2 DEF Row
<1>4. posts' \in Seq(Events) /\ unconfirmed' \in [Events -> Nat]
  BY <1>1 DEF DeliveryInv, TypeOK
<1> HIDE DEF published, discarded
<1> QED
  BY <1>1, <1>3, <1>4, CommitStep

\* What failed is due again later, and a task is to wake for it.
LEMMA RecordFailureStep ==
  ASSUME DeliveryInv, NEW reached \in BOOLEAN, RecordFailure(reached)
  PROVE  DeliveryInv'
<1> DEFINE old == rows[cycle.event]
           row == Failed(old, cycle.at)
<1>1. /\ Working /\ CommitAs(row, {}, {cycle.event})
      /\ posts' = IF reached THEN Append(posts, cycle.event) ELSE posts
      /\ unconfirmed' = IF reached
                        THEN [unconfirmed EXCEPT ![cycle.event] = unconfirmed[cycle.event] + 1]
                        ELSE unconfirmed
  BY DEF RecordFailure
<1>2. cycle.event \in Events /\ old \in Row /\ old.status = "pending"
  BY <1>1 DEF Working, DeliveryInv, CycleShape, Pending, TypeOK
<1>3. cycle.at \in Nat /\ cycle.at <= MaxClock
  BY Bounds DEF DeliveryInv, TypeOK, Cycle, TimesBounded
<1> HIDE DEF old
<1> DEFINE delay == RetryDelay(old.failures + 1)
<1>4. old.failures + 1 \in Nat /\ delay \in Nat /\ delay <= MaxDelay
  BY <1>2, RetryDelayBounded DEF Row
<1>5. row = [old EXCEPT !.failures = old.failures + 1, !.nextAt = cycle.at + delay]
  BY DEF Failed
<1> HIDE DEF delay, row
<1>6. cycle.at + delay \in Nat /\ cycle.at + delay < Never
  BY <1>3, <1>4, Bounds
<1>7. row \in Row /\ row.nextAt < Never /\ row.status = "pending"
  BY <1>2, <1>4, <1>5, <1>6 DEF Row
<1>8. posts' \in Seq(Events) /\ unconfirmed' \in [Events -> Nat]
  BY <1>1, <1>2 DEF DeliveryInv, TypeOK
<1> QED
  BY <1>1, <1>7, <1>8, CommitStep

\* A cycle ends: either nothing is due any more, or another one follows. Its
\* failures get their timers now, unless its task was cancelled.
LEMMA EndCycleStep ==
  ASSUME DeliveryInv, EndCycle
  PROVE  DeliveryInv'
<1>1. /\ cycle # Idle /\ cycle' = Idle
      /\ cycle.done >= BatchSize \/ Due = {}
      /\ UNCHANGED <<table, listening, scan, mishaps, clock>>
  BY DEF EndCycle
<1>2. /\ Idle.trigger = Task("none") /\ Idle.event = NoEvent /\ ~Idle.posted
      /\ Idle.settled = {} /\ Idle.at = 0
  BY DEF Idle
<1>3. UNCHANGED <<rows, clock>> /\ UNCHANGED Pending /\ UNCHANGED Due
  BY <1>1 DEF Pending, Due, table
<1>4. CycleShape'
  BY <1>1, <1>2 DEF CycleShape
<1>5. TimesBounded'
  BY <1>1, <1>2, <1>3 DEF DeliveryInv, TimesBounded, TypeOK
<1>6. CASE cycle.trigger = Task("cancelled")
  <2>1. pollNeeded' = TRUE /\ UNCHANGED <<boot, waiting, timers>>
    BY <1>6 DEF EndCycle
  <2>2. TypeOK'
    BY <1>1, <2>1, IdleTyped DEF DeliveryInv, TypeOK, table
  <2>3. DownIsEmpty' /\ StartupOnce'
    BY <1>1, <1>2, <2>1, TaskNames DEF DeliveryInv, DownIsEmpty, StartupOnce
  <2>4. RetriesTimed' /\ DueNoticed'
    BY <2>1 DEF RetriesTimed, DueNoticed
  <2> QED
    BY <1>4, <1>5, <2>2, <2>3, <2>4 DEF DeliveryInv
<1>7. CASE cycle.trigger # Task("cancelled")
  <2>1. /\ timers' = RetryTimersAfter
        /\ waiting' = (waiting \ RetryTasks(cycle.settled \cup cycle.failed)) \cup Again(cycle.done)
        /\ boot' = (IF cycle.trigger # Task("startup") THEN boot
                    ELSE IF boot = "first" THEN "scan" ELSE "up")
        /\ UNCHANGED pollNeeded
    BY <1>7 DEF EndCycle
  <2>2. /\ waiting' \subseteq Tasks
        /\ Task("startup") \in waiting' => Task("startup") \in waiting
        /\ cycle.done >= BatchSize => waiting' # {}
    BY <2>1, TaskNames DEF Again, DeliveryInv, TypeOK
  <2>3. timers' \in [Events -> Nat]
    BY <2>1, IdleTyped DEF RetryTimersAfter, DeliveryInv, TypeOK, Row
  <2>4. TypeOK'
    <3>1. boot' \in {"down", "first", "scan", "scanned", "second", "up"}
      BY <2>1 DEF DeliveryInv, TypeOK
    <3> QED
      BY <1>1, <2>1, <2>2, <2>3, <3>1, IdleTyped DEF DeliveryInv, TypeOK, table
  <2>5. DownIsEmpty'
    BY <1>1, <2>1 DEF DeliveryInv, DownIsEmpty
  <2>6. StartupOnce'
    <3>1. cycle'.trigger # Task("startup")
      BY <1>1, <1>2, TaskNames
    <3>2. Task("startup") \in waiting' => boot' \in {"first", "second"}
      BY <2>1, <2>2 DEF DeliveryInv, StartupOnce
    <3> QED
      BY <3>1, <3>2 DEF StartupOnce
  <2>7. ASSUME NEW e \in Pending
        PROVE  timers'[e] = (IF e \in cycle.failed THEN rows[e].nextAt ELSE timers[e])
    <3>1. e \notin cycle.settled /\ e \in Events
      BY DEF DeliveryInv, CycleShape, Pending
    <3> QED
      BY <2>1, <3>1 DEF RetryTimersAfter
  <2>8. RetriesTimed'
    <3> SUFFICES ASSUME ~pollNeeded', NEW e \in Pending \ Due,
                        boot' \notin {"down", "first", "scan"},
                        ~(boot' = "scanned" /\ scan[e] = rows[e].nextAt)
                 PROVE  timers'[e] = rows[e].nextAt
      BY <1>1, <1>3 DEF RetriesTimed
    <3>1. boot \notin {"down", "first", "scan"} /\ ~(boot = "scanned" /\ scan[e] = rows[e].nextAt)
      <4>1. CASE cycle.trigger = Task("startup")
        BY <2>1, <4>1 DEF DeliveryInv, StartupOnce
      <4>2. CASE cycle.trigger # Task("startup")
        BY <2>1, <4>2
      <4> QED
        BY <4>1, <4>2
    <3>2. e \in cycle.failed \/ timers[e] = rows[e].nextAt
      BY <2>1, <3>1 DEF DeliveryInv, RetriesTimed
    <3> QED
      BY <2>7, <3>2
  <2>9. DueNoticed'
    BY <1>1, <1>3, <2>2 DEF DueNoticed
  <2> QED
    BY <1>4, <1>5, <2>4, <2>5, <2>6, <2>8, <2>9 DEF DeliveryInv
<1> QED
  BY <1>6, <1>7

\* The transaction of the cycle's event is rolled back and the cycle is over,
\* with the process or without it.
LEMMA RollBackTyped ==
  ASSUME DeliveryInv, RollBack
  PROVE  UNCHANGED <<rows, posts>> /\ unconfirmed' \in [Events -> Nat]
<1>1. cycle.posted => cycle.event \in Events
  BY DEF DeliveryInv, CycleShape, Pending
<1> QED
  BY <1>1 DEF RollBack, DeliveryInv, TypeOK

\* A process that ends leaves the table and nothing else.
LEMMA DownStep ==
  ASSUME DeliveryInv, Down, RollBack, mishaps' \in Nat, UNCHANGED clock
  PROVE  DeliveryInv'
<1>1. /\ boot' = "down" /\ listening' = FALSE /\ waiting' = {}
      /\ timers' = NoTimers /\ scan' = NoTimers
      /\ cycle' = Idle /\ pollNeeded' = FALSE
  BY DEF Down
<1>2. UNCHANGED <<rows, posts>> /\ unconfirmed' \in [Events -> Nat]
  BY RollBackTyped
<1>3. /\ Idle.trigger = Task("none") /\ Idle.event = NoEvent /\ ~Idle.posted
      /\ Idle.settled = {} /\ Idle.at = 0
  BY DEF Idle
<1>4. TypeOK'
  BY <1>1, <1>2, IdleTyped DEF DeliveryInv, TypeOK
<1>5. TimesBounded' /\ DownIsEmpty' /\ StartupOnce'
  BY <1>1, <1>2, <1>3, TaskNames DEF DeliveryInv, TypeOK, TimesBounded, DownIsEmpty, StartupOnce
<1>6. CycleShape' /\ RetriesTimed' /\ DueNoticed'
  BY <1>1, <1>3 DEF CycleShape, RetriesTimed, DueNoticed
<1> QED
  BY <1>4, <1>5, <1>6 DEF DeliveryInv

\* A transaction that fails ends the cycle and changes no row.
LEMMA AbortStep ==
  ASSUME DeliveryInv, Abort, mishaps' \in Nat
  PROVE  DeliveryInv'
<1>1. CASE Down
  BY <1>1, DownStep DEF Abort
<1>2. CASE ~Down
  <2>1. /\ RollBack /\ cycle # Idle /\ cycle' = Idle /\ pollNeeded' = TRUE
        /\ UNCHANGED <<boot, listening, waiting, timers, scan, clock>>
    BY <1>2 DEF Abort
  <2>2. UNCHANGED <<rows, posts>> /\ unconfirmed' \in [Events -> Nat]
    BY <2>1, RollBackTyped
  <2>3. /\ Idle.trigger = Task("none") /\ Idle.event = NoEvent /\ ~Idle.posted
        /\ Idle.settled = {} /\ Idle.at = 0
    BY DEF Idle
  <2>4. TypeOK'
    BY <2>1, <2>2, IdleTyped DEF DeliveryInv, TypeOK
  <2>5. TimesBounded' /\ DownIsEmpty' /\ StartupOnce'
    BY <2>1, <2>2, <2>3, TaskNames DEF DeliveryInv, TypeOK, TimesBounded, DownIsEmpty, StartupOnce
  <2>6. CycleShape' /\ RetriesTimed' /\ DueNoticed'
    BY <2>1, <2>3 DEF CycleShape, RetriesTimed, DueNoticed
  <2> QED
    BY <2>4, <2>5, <2>6 DEF DeliveryInv
<1> QED
  BY <1>1, <1>2

-----------------------------------------------------------------------------
\* The inductive invariant: the shape of a cycle, bounded times, and something that
\* wakes the dispatcher for whatever is due (outbox.py).
THEOREM DeliveryInvariant == Spec => []DeliveryInv
<1>1. Init => DeliveryInv
  <2> SUFFICES ASSUME Init PROVE DeliveryInv
    OBVIOUS
  <2>1. /\ Idle.trigger = Task("none") /\ Idle.event = NoEvent /\ ~Idle.posted
        /\ Idle.settled = {} /\ Idle.at = 0
    BY DEF Idle
  <2>2. TypeOK
    <3>1. [status |-> "absent", failures |-> 0, nextAt |-> 0] \in Row
      BY DEF Row
    <3>2. <<>> \in Seq(Events)
      OBVIOUS
    <3> QED
      BY <3>1, <3>2, IdleTyped DEF Init, TypeOK
  <2>3. TimesBounded
    BY <2>1, Bounds DEF Init, TimesBounded
  <2>4. Pending = {}
    BY DEF Init, Pending
  <2>5. DownIsEmpty /\ StartupOnce /\ CycleShape /\ RetriesTimed /\ DueNoticed
    BY <2>1, <2>4, TaskNames DEF Init, DownIsEmpty, StartupOnce, CycleShape, RetriesTimed, DueNoticed
  <2> QED
    BY <2>2, <2>3, <2>5 DEF DeliveryInv
<1>2. DeliveryInv /\ [Next]_vars => DeliveryInv'
  <2> SUFFICES ASSUME DeliveryInv, [Next]_vars PROVE DeliveryInv'
    OBVIOUS
  <2>1. mishaps \in Nat /\ mishaps + 1 \in Nat
    BY DEF DeliveryInv, TypeOK
  <2>2. CASE \E S \in Batches, at \in {t \in 0..clock : clock <= t + MaxLag} : Enqueue(S, at)
    BY <2>2, EnqueueStep
  <2>3. CASE Start \/ ReadRetries \/ SetRetryTimers
    BY <2>3, StartStep, ReadRetriesStep, SetRetryTimersStep
  <2>4. CASE Reconnect \/ Poll
    BY <2>4, ScheduleStep DEF Reconnect, Poll, Scheduled, DeliveryInv, TypeOK
  <2>5. CASE \E t \in waiting : BeginCycle(t)
    BY <2>5, BeginCycleStep
  <2>6. CASE CycleStep
    BY <2>6, ClaimStep, PublishStep, RecordStep, EndCycleStep DEF CycleStep
  <2>7. CASE Mishap
    <3>1. CASE LoseListener
      BY <3>1, LoseListenerStep
    <3>2. CASE Crash
      BY <2>1, <3>2, DownStep DEF Crash
    <3>3. CASE FailCycle \/ OverflowDelay
      BY <2>1, <3>3, AbortStep DEF FailCycle, OverflowDelay
    <3>4. CASE \E reached \in BOOLEAN : RecordFailure(reached)
      BY <3>4, RecordFailureStep
    <3> QED
      BY <2>7, <3>1, <3>2, <3>3, <3>4 DEF Mishap
  <2>8. CASE \E e \in Events : WakeRetry(e)
    BY <2>8, WakeRetryStep
  <2>9. CASE Tick
    BY <2>9, TickStep
  <2>10. CASE UNCHANGED vars
    <3>1. UNCHANGED <<rows, posts, unconfirmed, boot, listening, waiting, timers, scan, cycle,
                      pollNeeded, mishaps, clock>>
      BY <2>10 DEF vars, table, memory
    <3>2. TypeOK' /\ TimesBounded' /\ DownIsEmpty' /\ StartupOnce'
      BY <3>1 DEF DeliveryInv, TypeOK, TimesBounded, DownIsEmpty, StartupOnce
    <3>3. CycleShape' /\ RetriesTimed' /\ DueNoticed'
      BY <3>1 DEF DeliveryInv, CycleShape, RetriesTimed, DueNoticed, Pending, Due
    <3> QED
      BY <3>2, <3>3 DEF DeliveryInv
  <2> QED
    BY <2>2, <2>3, <2>4, <2>5, <2>6, <2>7, <2>8, <2>9, <2>10 DEF Next
<1> QED
  BY <1>1, <1>2, PTL DEF Spec

\* The rows, the timers and the cycle have their types, and no event is left
\* without something that will wake the dispatcher for it.
THEOREM OutboxCorrect == Spec => []OutboxInv
<1>1. DeliveryInv => OutboxInv
  <2> SUFFICES ASSUME DeliveryInv, boot = "up", cycle = Idle, waiting = {}, listening,
                      ~pollNeeded, NEW e \in Pending
               PROVE  timers[e] = rows[e].nextAt
    BY DEF DeliveryInv, OutboxInv, NothingForgotten
  <2>1. CASE e \in Due
    BY <2>1 DEF DeliveryInv, DueNoticed
  <2>2. CASE e \notin Due
    BY <2>2 DEF DeliveryInv, RetriesTimed, Idle
  <2> QED
    BY <2>1, <2>2
<1> QED
  BY <1>1, DeliveryInvariant, PTL

-----------------------------------------------------------------------------
\* Another post is counted once, for its own event.
LEMMA OnePostMore ==
  ASSUME posts \in Seq(Events), NEW n \in Events, posts' = Append(posts, n)
  PROVE  \A e \in Events : TimesPosted(e)' = TimesPosted(e) + (IF e = n THEN 1 ELSE 0)
<1> SUFFICES ASSUME NEW e \in Events
             PROVE  TimesPosted(e)' = TimesPosted(e) + (IF e = n THEN 1 ELSE 0)
  OBVIOUS
<1> DEFINE before == {i \in DOMAIN posts : posts[i] = e}
           after == {i \in DOMAIN posts' : posts'[i] = e}
           next == Len(posts) + 1
<1>1. /\ Len(posts) \in Nat /\ DOMAIN posts = 1..Len(posts)
      /\ DOMAIN posts' = 1..next
      /\ \A i \in 1..Len(posts) : posts'[i] = posts[i]
      /\ posts'[next] = n
  OBVIOUS
<1>2. IsFiniteSet(before) /\ Cardinality(before) \in Nat
  <2>1. IsFiniteSet(1..Len(posts)) /\ before \in SUBSET (1..Len(posts))
    BY <1>1, FS_Interval
  <2> HIDE DEF before
  <2> QED
    BY <2>1, FS_Subset, FS_CardinalityType
<1>3. next \notin before
  BY <1>1
<1>4. after = IF e = n THEN before \cup {next} ELSE before
  BY <1>1
<1>5. Cardinality(after) = Cardinality(before) + (IF e = n THEN 1 ELSE 0)
  <2> HIDE DEF before, after, next
  <2>1. Cardinality(before \cup {next}) = Cardinality(before) + 1
    BY <1>2, <1>3, FS_AddElement
  <2> QED
    BY <1>2, <1>4, <2>1
<1> QED
  BY <1>5 DEF TimesPosted

\* How often an event was posted is a number.
LEMMA PostsCounted ==
  ASSUME TypeOK, NEW e \in Events
  PROVE  TimesPosted(e) \in Nat
<1>1. IsFiniteSet(DOMAIN posts)
  <2>1. Len(posts) \in Nat /\ DOMAIN posts = 1..Len(posts)
    BY DEF TypeOK
  <2> QED
    BY <2>1, FS_Interval
<1> QED
  BY <1>1, FS_Subset, FS_CardinalityType DEF TimesPosted

\* The posts that are on record or about to be, and those that were lost.
Accounted(e) ==
  unconfirmed[e] + (IF rows[e].status = "published" THEN 1 ELSE 0)
    + (IF cycle.posted /\ cycle.event = e THEN 1 ELSE 0)

\* A transaction that is rolled back turns the post it waited to record into a
\* lost one.
LEMMA RollBackAccounted ==
  ASSUME DeliveryInv, RollBack, cycle' = Idle, NEW e \in Events
  PROVE  TimesPosted(e)' = TimesPosted(e) /\ Accounted(e)' = Accounted(e)
<1>1. ~Idle.posted
  BY DEF Idle
<1>2. cycle.posted => cycle.event \in Events
  BY DEF DeliveryInv, CycleShape, Pending
<1>3. unconfirmed \in [Events -> Nat]
  BY DEF DeliveryInv, TypeOK
<1>4. unconfirmed'[e] = unconfirmed[e] + (IF cycle.posted /\ cycle.event = e THEN 1 ELSE 0)
  BY <1>2, <1>3 DEF RollBack
<1> QED
  BY <1>1, <1>3, <1>4 DEF RollBack, TimesPosted, Accounted

\* What a step adds to the posts it adds to what accounts for them.
LEMMA PostsAccounted ==
  ASSUME DeliveryInv, [Next]_vars, NEW e \in Events, TimesPosted(e) = Accounted(e)
  PROVE  TimesPosted(e)' = Accounted(e)'
<1>1. /\ posts \in Seq(Events) /\ unconfirmed \in [Events -> Nat] /\ cycle \in Cycle
      /\ rows \in [Events -> Row] /\ TimesPosted(e) \in Nat
  BY PostsCounted DEF DeliveryInv, TypeOK
<1>2. Working => /\ cycle.event \in Events /\ rows[cycle.event].status = "pending"
                 /\ cycle.event # NoEvent
  BY DEF Working, DeliveryInv, CycleShape, Pending
<1>3. cycle.event = NoEvent => ~cycle.posted
  BY DEF DeliveryInv, CycleShape
<1>4. ~Idle.posted
  BY DEF Idle
<1>5. ASSUME UNCHANGED <<posts, unconfirmed>>, UNCHANGED rows[e].status,
             cycle'.posted /\ cycle'.event = e <=> cycle.posted /\ cycle.event = e
      PROVE  TimesPosted(e)' = Accounted(e)'
  BY <1>5 DEF TimesPosted, Accounted
<1>6. CASE \E S \in Batches, at \in {t \in 0..clock : clock <= t + MaxLag} : Enqueue(S, at)
  <2>1. /\ UNCHANGED <<posts, unconfirmed, cycle>>
        /\ rows'[e].status = "published" <=> rows[e].status = "published"
    BY <1>1, <1>6 DEF Enqueue
  <2> QED
    BY <2>1 DEF TimesPosted, Accounted
<1>7. CASE \/ Start \/ ReadRetries \/ Reconnect \/ Poll \/ LoseListener \/ Tick
           \/ \E x \in Events : WakeRetry(x)
           \/ UNCHANGED vars
  <2>1. UNCHANGED <<rows, posts, unconfirmed, cycle>>
    BY <1>7 DEF Start, ReadRetries, Reconnect, Poll, LoseListener, Tick, WakeRetry, vars,
       table, memory
  <2> QED
    BY <1>5, <2>1
<1>8. CASE SetRetryTimers
  <2>1. /\ UNCHANGED <<rows, posts, unconfirmed>>
        /\ cycle'.posted = cycle.posted /\ cycle'.event = cycle.event
    BY <1>1, <1>8 DEF SetRetryTimers, table, Cycle
  <2> QED
    BY <1>5, <2>1
<1>9. CASE \E t \in waiting : BeginCycle(t)
  <2>1. /\ UNCHANGED <<rows, posts, unconfirmed>>
        /\ ~cycle.posted /\ ~cycle'.posted
    BY <1>9 DEF BeginCycle, table, Idle
  <2> QED
    BY <1>5, <2>1
<1>10. CASE Claim
  <2>1. /\ UNCHANGED <<rows, posts, unconfirmed>>
        /\ ~cycle.posted /\ cycle'.posted = cycle.posted
    BY <1>1, <1>3, <1>10 DEF Claim, table, Cycle
  <2> QED
    BY <1>5, <2>1
<1>11. CASE Publish
  <2>1. /\ UNCHANGED <<rows, unconfirmed>> /\ Working /\ ~cycle.posted
        /\ posts' = Append(posts, cycle.event)
        /\ cycle'.posted /\ cycle'.event = cycle.event
    BY <1>1, <1>11 DEF Publish, Cycle
  <2>2. TimesPosted(e)' = TimesPosted(e) + (IF e = cycle.event THEN 1 ELSE 0)
    BY <1>1, <1>2, <2>1, OnePostMore
  <2> QED
    BY <1>1, <2>1, <2>2 DEF Accounted
<1>12. CASE RecordPublished
  <2>1. /\ UNCHANGED <<posts, unconfirmed>> /\ Working /\ cycle.posted /\ ~cycle'.posted
        /\ rows'[cycle.event].status = "published"
        /\ e # cycle.event => rows'[e] = rows[e]
    BY <1>1, <1>2, <1>12 DEF RecordPublished, CommitAs, Cycle, Row
  <2> QED
    BY <1>1, <1>2, <2>1 DEF TimesPosted, Accounted
<1>13. CASE RecordDiscarded
  <2>1. /\ UNCHANGED <<posts, unconfirmed>> /\ Working /\ ~cycle.posted /\ ~cycle'.posted
        /\ rows'[cycle.event].status = "discarded"
        /\ e # cycle.event => rows'[e] = rows[e]
    BY <1>1, <1>2, <1>13 DEF RecordDiscarded, CommitAs, Cycle, Row
  <2> QED
    BY <1>1, <1>2, <2>1 DEF TimesPosted, Accounted
<1>14. CASE EndCycle
  <2>1. /\ UNCHANGED <<rows, posts, unconfirmed>> /\ cycle.event = NoEvent /\ cycle' = Idle
    BY <1>14 DEF EndCycle, table
  <2> QED
    BY <1>3, <1>4, <1>5, <2>1
<1>15. CASE Crash \/ FailCycle \/ OverflowDelay
  <2>1. RollBack /\ cycle' = Idle
    BY <1>15 DEF Crash, FailCycle, OverflowDelay, Abort, Down
  <2> QED
    BY <2>1, RollBackAccounted
<1>16. ASSUME NEW reached \in BOOLEAN, RecordFailure(reached)
       PROVE  TimesPosted(e)' = Accounted(e)'
  <2> DEFINE row == Failed(rows[cycle.event], cycle.at)
  <2>1. /\ Working /\ ~cycle.posted /\ CommitAs(row, {}, {cycle.event})
        /\ posts' = (IF reached THEN Append(posts, cycle.event) ELSE posts)
        /\ unconfirmed' = IF reached
                          THEN [unconfirmed EXCEPT ![cycle.event] = unconfirmed[cycle.event] + 1]
                          ELSE unconfirmed
    BY <1>16 DEF RecordFailure
  <2>2. row.status = rows[cycle.event].status
    BY <1>1, <1>2, <2>1 DEF Failed, Row
  <2> HIDE DEF row
  <2>3. ~cycle'.posted /\ rows'[e].status = rows[e].status
    BY <1>1, <1>2, <2>1, <2>2 DEF CommitAs, Cycle
  <2>4. CASE reached
    <3>1. TimesPosted(e)' = TimesPosted(e) + (IF e = cycle.event THEN 1 ELSE 0)
      BY <1>1, <1>2, <2>1, <2>4, OnePostMore
    <3>2. unconfirmed'[e] = unconfirmed[e] + (IF e = cycle.event THEN 1 ELSE 0)
      BY <1>1, <1>2, <2>1, <2>4
    <3> QED
      BY <1>1, <2>1, <2>3, <3>1, <3>2 DEF Accounted
  <2>5. CASE ~reached
    BY <1>5, <2>1, <2>3, <2>5
  <2> QED
    BY <2>4, <2>5
<1> QED
  BY <1>6, <1>7, <1>8, <1>9, <1>10, <1>11, <1>12, <1>13, <1>14, <1>15, <1>16
     DEF Next, CycleStep, Mishap

\* An event was posted as often as it is on record, was posted in vain and waits
\* to be recorded.
THEOREM DuplicatesAccounted == Spec => []DuplicatesExplained
<1>1. Init => DuplicatesExplained
  <2> SUFFICES ASSUME Init, NEW e \in Events PROVE TimesPosted(e) = Accounted(e)
    BY DEF DuplicatesExplained, Accounted
  <2>1. {i \in DOMAIN posts : posts[i] = e} = {}
    BY DEF Init
  <2>2. TimesPosted(e) = 0
    BY <2>1, FS_EmptySet DEF TimesPosted
  <2>3. /\ unconfirmed[e] = 0 /\ rows[e].status = "absent" /\ ~cycle.posted
    BY DEF Init, Idle
  <2> QED
    BY <2>2, <2>3 DEF Accounted
<1>2. DeliveryInv /\ DuplicatesExplained /\ [Next]_vars => DuplicatesExplained'
  BY PostsAccounted DEF DuplicatesExplained, Accounted
<1> QED
  BY <1>1, <1>2, DeliveryInvariant, PTL DEF Spec

-----------------------------------------------------------------------------
(* The refinement of AtLeastOnce.                                          *)

Accepted == {e \in Events : rows[e].status # "absent"}
Delivered == {e \in Events : rows[e].status = "published"}
Dropped == {e \in Events : rows[e].status = "discarded"}
Shown == [e \in Events |-> TimesPosted(e)]

\* The steps of AtLeastOnce in these terms.
LEMMA ChannelSteps ==
  /\ \A S \in SUBSET Events :
       Accepted' = Accepted \cup S /\ UNCHANGED <<Delivered, Dropped, Shown>>
       => Channel!Next
  /\ \A n \in Pending :
       UNCHANGED <<Accepted, Delivered, Dropped>> /\ Shown' = [Shown EXCEPT ![n] = Shown[n] + 1]
       => Channel!Next
  /\ \A n \in Pending :
       /\ Shown[n] > 0 /\ Delivered' = Delivered \cup {n}
       /\ UNCHANGED <<Accepted, Dropped, Shown>>
       => Channel!Next
  /\ \A n \in Pending :
       Dropped' = Dropped \cup {n} /\ UNCHANGED <<Accepted, Delivered, Shown>>
       => Channel!Next
  /\ UNCHANGED <<Accepted, Delivered, Dropped, Shown>> => UNCHANGED Channel!vars
<1>1. ASSUME NEW S \in SUBSET Events, Accepted' = Accepted \cup S,
             UNCHANGED <<Delivered, Dropped, Shown>>
      PROVE  Channel!Next
  <2>1. Channel!Accept(S)
    BY <1>1 DEF Channel!Accept, Accepted, Delivered, Dropped, Shown
  <2> QED
    BY <2>1 DEF Channel!Next
<1>2. \A n \in Pending : n \in Channel!Open /\ n \in Events
  BY DEF Channel!Open, Pending
<1>3. ASSUME NEW n \in Pending, UNCHANGED <<Accepted, Delivered, Dropped>>,
             Shown' = [Shown EXCEPT ![n] = Shown[n] + 1]
      PROVE  Channel!Next
  <2>1. Channel!Show(n)
    BY <1>2, <1>3 DEF Channel!Show, Accepted, Delivered, Dropped, Shown
  <2> QED
    BY <1>2, <2>1 DEF Channel!Next
<1>4. ASSUME NEW n \in Pending, Shown[n] > 0, Delivered' = Delivered \cup {n},
             UNCHANGED <<Accepted, Dropped, Shown>>
      PROVE  Channel!Next
  <2>1. Channel!Confirm(n)
    BY <1>2, <1>4 DEF Channel!Confirm, Accepted, Delivered, Dropped, Shown
  <2> QED
    BY <1>2, <2>1 DEF Channel!Next
<1>5. ASSUME NEW n \in Pending, Dropped' = Dropped \cup {n},
             UNCHANGED <<Accepted, Delivered, Shown>>
      PROVE  Channel!Next
  <2>1. Channel!GiveUp(n)
    BY <1>2, <1>5 DEF Channel!GiveUp, Accepted, Delivered, Dropped, Shown
  <2> QED
    BY <1>2, <2>1 DEF Channel!Next
<1>6. ASSUME UNCHANGED <<Accepted, Delivered, Dropped, Shown>>
      PROVE  UNCHANGED Channel!vars
  BY <1>6 DEF Channel!vars, Accepted, Delivered, Dropped, Shown
<1> QED
  BY <1>1, <1>3, <1>4, <1>5, <1>6

\* What every action does to the statuses and the posts.
LEMMA ChannelStep ==
  ASSUME DeliveryInv, DuplicatesExplained, [Next]_vars
  PROVE  Channel!Next \/ UNCHANGED Channel!vars
<1>1. /\ rows \in [Events -> Row] /\ posts \in Seq(Events) /\ cycle \in Cycle
  BY DEF DeliveryInv, TypeOK
<1>2. Working => /\ cycle.event \in Events /\ rows[cycle.event].status = "pending"
                 /\ cycle.event \in Pending
  BY DEF Working, DeliveryInv, CycleShape, Pending
<1>3. UNCHANGED posts => UNCHANGED Shown
  BY DEF Shown, TimesPosted
<1>4. ASSUME UNCHANGED posts, \A e \in Events : rows'[e].status = rows[e].status
      PROVE  UNCHANGED Channel!vars
  BY <1>3, <1>4, ChannelSteps DEF Accepted, Delivered, Dropped
<1>5. ASSUME NEW n \in Pending, posts' = Append(posts, n),
             \A e \in Events : rows'[e].status = rows[e].status
      PROVE  Channel!Next
  <2>1. n \in Events
    BY DEF Pending
  <2>2. \A e \in Events : TimesPosted(e)' = TimesPosted(e) + (IF e = n THEN 1 ELSE 0)
    BY <1>1, <1>5, <2>1, OnePostMore
  <2>3. \A e \in Events : TimesPosted(e) \in Nat
    BY PostsCounted DEF DeliveryInv
  <2>4. Shown' = [Shown EXCEPT ![n] = Shown[n] + 1]
    <3>1. Shown = [e \in Events |-> TimesPosted(e)]
      BY DEF Shown
    <3>2. Shown' = [e \in Events |-> TimesPosted(e)']
      BY DEF Shown
    <3>3. \A e \in Events : Shown'[e] = [Shown EXCEPT ![n] = Shown[n] + 1][e]
      BY <2>1, <2>2, <2>3, <3>1, <3>2
    <3> QED
      BY <3>1, <3>2, <3>3
  <2>5. UNCHANGED <<Accepted, Delivered, Dropped>>
    BY <1>5 DEF Accepted, Delivered, Dropped
  <2> QED
    BY <2>4, <2>5, ChannelSteps
<1>6. CASE \E S \in Batches, at \in {t \in 0..clock : clock <= t + MaxLag} : Enqueue(S, at)
  <2>1. PICK S \in Batches, at \in {t \in 0..clock : clock <= t + MaxLag} : Enqueue(S, at)
    BY <1>6
  <2>2. S \in SUBSET Events
    BY OutboxAssumption DEF Events
  <2>3. /\ UNCHANGED posts
        /\ \A e \in S : rows[e].status = "absent" /\ rows'[e].status = "pending"
        /\ \A e \in Events \ S : rows'[e].status = rows[e].status
    BY <1>1, <2>1, <2>2 DEF Enqueue
  <2>4. Accepted' = Accepted \cup S /\ UNCHANGED <<Delivered, Dropped>>
    BY <2>2, <2>3 DEF Accepted, Delivered, Dropped
  <2> QED
    BY <1>3, <2>2, <2>3, <2>4, ChannelSteps
<1>7. CASE Publish
  <2>1. /\ cycle.event \in Pending /\ posts' = Append(posts, cycle.event) /\ UNCHANGED rows
    BY <1>2, <1>7 DEF Publish
  <2> QED
    BY <1>5, <2>1
<1>8. CASE RecordPublished
  <2>1. /\ UNCHANGED <<posts, unconfirmed>> /\ Working /\ cycle.posted
        /\ rows'[cycle.event].status = "published"
        /\ \A e \in Events : e # cycle.event => rows'[e] = rows[e]
    BY <1>1, <1>2, <1>8 DEF RecordPublished, CommitAs, Row
  <2>2. Shown[cycle.event] > 0
    <3>1. unconfirmed[cycle.event] \in Nat
      BY <1>2, <2>1 DEF DeliveryInv, TypeOK
    <3>2. TimesPosted(cycle.event) = unconfirmed[cycle.event] + 0 + 1
      BY <1>2, <2>1 DEF DuplicatesExplained
    <3> QED
      BY <1>2, <2>1, <3>1, <3>2 DEF Shown
  <2>3. Delivered' = Delivered \cup {cycle.event} /\ UNCHANGED <<Accepted, Dropped>>
    BY <1>2, <2>1 DEF Accepted, Delivered, Dropped
  <2> QED
    BY <1>2, <1>3, <2>1, <2>2, <2>3, ChannelSteps
<1>9. CASE RecordDiscarded
  <2>1. /\ UNCHANGED posts /\ Working
        /\ rows'[cycle.event].status = "discarded"
        /\ \A e \in Events : e # cycle.event => rows'[e] = rows[e]
    BY <1>1, <1>2, <1>9 DEF RecordDiscarded, CommitAs, Row
  <2>2. Dropped' = Dropped \cup {cycle.event} /\ UNCHANGED <<Accepted, Delivered>>
    BY <1>2, <2>1 DEF Accepted, Delivered, Dropped
  <2> QED
    BY <1>2, <1>3, <2>1, <2>2, ChannelSteps
<1>10. ASSUME NEW reached \in BOOLEAN, RecordFailure(reached)
       PROVE  Channel!Next \/ UNCHANGED Channel!vars
  <2> DEFINE row == Failed(rows[cycle.event], cycle.at)
  <2>1. /\ Working /\ CommitAs(row, {}, {cycle.event})
        /\ posts' = (IF reached THEN Append(posts, cycle.event) ELSE posts)
    BY <1>10 DEF RecordFailure
  <2>2. row.status = rows[cycle.event].status
    BY <1>1, <1>2, <2>1 DEF Failed, Row
  <2> HIDE DEF row
  <2>3. \A e \in Events : rows'[e].status = rows[e].status
    BY <1>1, <1>2, <2>1, <2>2 DEF CommitAs
  <2> QED
    BY <1>2, <1>4, <1>5, <2>1, <2>3
<1>11. CASE \/ Start \/ ReadRetries \/ SetRetryTimers \/ Reconnect \/ Poll
            \/ \E t \in waiting : BeginCycle(t)
            \/ Claim \/ EndCycle \/ LoseListener \/ Crash \/ FailCycle \/ OverflowDelay
            \/ \E e \in Events : WakeRetry(e)
            \/ Tick \/ UNCHANGED vars
  <2>1. UNCHANGED <<rows, posts>>
    BY <1>11 DEF Start, ReadRetries, SetRetryTimers, Reconnect, Poll, BeginCycle, Claim,
       EndCycle, LoseListener, Crash, FailCycle, OverflowDelay, Abort, RollBack, WakeRetry,
       Tick, vars, table
  <2> QED
    BY <1>4, <2>1
<1> QED
  BY <1>6, <1>7, <1>8, <1>9, <1>10, <1>11 DEF Next, CycleStep, Mishap

\* Whatever crashes, fails and is lost, the outbox keeps the promise of
\* AtLeastOnce.
THEOREM ChannelKept == Spec => ImplementsChannel
<1>1. Init => Channel!Init
  <2> SUFFICES ASSUME Init PROVE Channel!Init
    OBVIOUS
  <2>1. /\ \A e \in Events : rows[e].status = "absent"
        /\ posts = <<>>
    BY DEF Init
  <2>2. \A e \in Events : TimesPosted(e) = 0
    <3> SUFFICES ASSUME NEW e \in Events PROVE TimesPosted(e) = 0
      OBVIOUS
    <3>1. {i \in DOMAIN posts : posts[i] = e} = {}
      BY <2>1
    <3> QED
      BY <3>1, FS_EmptySet DEF TimesPosted
  <2> QED
    BY <2>1, <2>2 DEF Channel!Init
<1>2. DeliveryInv /\ DuplicatesExplained /\ [Next]_vars => [Channel!Next]_(Channel!vars)
  BY ChannelStep
<1> QED
  BY <1>1, <1>2, DeliveryInvariant, DuplicatesAccounted, PTL
     DEF Spec, ImplementsChannel, Channel!Spec
=============================================================================
