------------------------------ MODULE RatingLedger -----------------------------
(***************************************************************************)
(* The ratings of the players of one season and one match format: what a   *)
(* finalization applies to them and how the correction of a result rolls   *)
(* them back and replays every later match (match_flow.py, rating.py,      *)
(* rating_replay.py).                                                      *)
(*                                                                         *)
(* A transaction takes its advisory locks one after another and keeps them *)
(* until it ends. What it reads it reads after the locks that protect it,  *)
(* with one exception: a correction lists the matches to replay before it  *)
(* holds their locks and those of their players. PostgreSQL ends one of    *)
(* the transactions that wait for each other in a circle.                  *)
(*                                                                         *)
(* A rating is the number of games and the term of the formula that made   *)
(* it: the match, its result and the ratings all participants had before.  *)
(* Two equal terms are equal ratings, and no arithmetic is needed.         *)
(***************************************************************************)
EXTENDS Integers, Sequences, FiniteSets, SequencesExt, Functions

CONSTANTS
  Roster,        (* Roster[m] lists the players of match m, by team          *)
  Results,       (* results that matches may have                            *)
  None,
  MaxLate,       (* how late the timer of a report deadline may be           *)
  MaxClock, MaxCorrections                          (* bounds of the model   *)

Matches == DOMAIN Roster
PlayersOf(m) == Range(Roster[m])
Players == UNION {PlayersOf(m) : m \in Matches}

ASSUME LedgerAssumption ==
  /\ Roster \in Seq(Seq(Nat))
  /\ "VOID" \in Results
  /\ {MaxLate, MaxClock, MaxCorrections} \subseteq Nat

VARIABLES
  finalized,     (* finalized_match_results: result and rated_at, by match   *)
  before,        (* the rating_before of the participants, by match          *)
  rating,        (* player_format_stats, by player                           *)
  lastPlayed,    (* player_format_stats.last_played_at                       *)
  transactions,  (* those under way                                          *)
  corrections,   (* how many corrections have begun                          *)
  clock,         (* now(): no two transactions begin at the same time        *)
  applied        (* history: the matches in the order of their commits       *)

vars == <<finalized, before, rating, lastPlayed, transactions, corrections,
          clock, applied>>

\* Ids of transactions: a match for its finalization, or a correction.
Finalization(m) == <<"finalize", m>>
Correction(n) == <<"correct", n>>

MatchLock(m) == <<"match", m>>
PlayerLock(p) == <<"player", p>>

\* Slip: players are locked as they are listed, match by match.
LocksAsListed(ms) ==
  FoldLeft(LAMBDA acc, m : acc \o [i \in DOMAIN Roster[m] |-> PlayerLock(Roster[m][i])], <<>>, ms)

\* sorted(): each member stands behind those that are less.
Ascending(ids) ==
  [i \in 1..Cardinality(ids) |->
     CHOOSE x \in ids : Cardinality({y \in ids : y < x}) = i - 1]

\* The players of the matches "ms", each once and in the order of their ids.
PlayerLocks(ms) ==
  LET players == Ascending(UNION {PlayersOf(m) : m \in Range(ms)})
  IN  [i \in DOMAIN players |-> PlayerLock(players[i])]

MatchLocks(ms) ==
  LET ids == Ascending(Range(ms))
  IN  [i \in DOMAIN ids |-> MatchLock(ids[i])]

Locks == {MatchLock(m) : m \in Matches} \cup {PlayerLock(p) : p \in Players}

TypeOK ==
  /\ DOMAIN finalized \subseteq Matches
  /\ \A m \in DOMAIN finalized :
       finalized[m].result \in Results /\ finalized[m].rated_at \in 0..clock
  /\ DOMAIN before = DOMAIN finalized
  /\ \A m \in DOMAIN before : DOMAIN before[m] = PlayersOf(m)
  /\ DOMAIN rating = Players /\ DOMAIN lastPlayed = Players
  /\ Range(applied) = DOMAIN finalized /\ Len(applied) = Cardinality(DOMAIN finalized)
  /\ \A id \in DOMAIN transactions :
       LET t == transactions[id]
       IN  /\ t.match \in Matches /\ t.result \in Results /\ t.at \in 0..clock
           /\ t.needs \in Seq(Locks) /\ t.held \subseteq Locks
           /\ t.listed # None => t.match \in Range(t.listed)
  /\ corrections \in 0..MaxCorrections /\ clock \in 0..MaxClock

Unrated == [games |-> 0, term |-> <<>>]

Init ==
  /\ finalized = [m \in {} |-> None]
  /\ before = [m \in {} |-> None]
  /\ rating = [p \in Players |-> Unrated]
  /\ lastPlayed = [p \in Players |-> None]
  /\ transactions = [id \in {} |-> None]
  /\ corrections = 0 /\ clock = 0
  /\ applied = <<>>

-----------------------------------------------------------------------------
Rated(now, m, result) ==
  [p \in DOMAIN now |->
     IF p \notin PlayersOf(m) THEN now[p]
     ELSE [games |-> now[p].games + 1,
           term  |-> <<m, result, Restrict(now, PlayersOf(m))>>]]

\* calculate_rating_updates: a void match changes nothing.
RatingUpdates(now, m, result) == IF result = "VOID" THEN now ELSE Rated(now, m, result)

\* ORDER BY rated_at, match_id
RatedBefore(table, m, n) ==
  \/ table[m].rated_at < table[n].rated_at
  \/ table[m].rated_at = table[n].rated_at /\ m < n

RatingOrder(table, S) ==
  [i \in 1..Cardinality(S) |->
     CHOOSE m \in S : Cardinality({n \in S : RatedBefore(table, n, m)}) = i - 1]

\* The ratings after each of the matches "order", when they begin at "start".
RatingsAfter(start, order, table) ==
  LET after[i \in 0..Len(order)] ==
        IF i = 0 THEN start
        ELSE RatingUpdates(after[i - 1], order[i], table[order[i]].result)
  IN  after

\* Slip: only the corrected match is rolled back.
RollBackTarget(now, replayed) ==
  [p \in DOMAIN now |-> IF p \in PlayersOf(replayed[1]) THEN before[replayed[1]][p] ELSE now[p]]

\* The first half of replay_rating_history goes back from the last match to the
\* first: each player ends with what is recorded for the first match with him.
RollBack(now, replayed) ==
  [p \in DOMAIN now |->
     LET his == {i \in DOMAIN replayed : p \in PlayersOf(replayed[i])}
     IN  IF his = {} THEN now[p]
         ELSE before[replayed[CHOOSE i \in his : \A j \in his : i <= j]][p]]

\* The second half goes forward again and records the ratings before each match.
Replay(now, replayed, table) ==
  LET after == RatingsAfter(RollBack(now, replayed), replayed, table)
      place(m) == CHOOSE i \in DOMAIN replayed : replayed[i] = m
  IN  [rating |-> after[Len(replayed)],
       before |-> [m \in DOMAIN before |->
                     IF m \in Range(replayed)
                     THEN Restrict(after[place(m) - 1], PlayersOf(m)) ELSE before[m]]]

\* _refresh_last_played_at_for_players
LastPlayed(table, p) ==
  LET times == {table[m].rated_at : m \in {n \in DOMAIN table :
                  p \in PlayersOf(n) /\ table[n].result # "VOID"}}
  IN  IF times = {} THEN None ELSE CHOOSE t \in times : \A u \in times : u <= t

-----------------------------------------------------------------------------
Held(id) == transactions[id].held
Takes(id) == Head(transactions[id].needs)

\* "id" has to wait for "other".
WaitsFor(id, other) ==
  /\ id # other /\ transactions[id].needs # <<>>
  /\ Takes(id) \in Held(other)

Begin(id, t) ==
  /\ clock < MaxClock
  /\ id \notin DOMAIN transactions
  /\ transactions' = [i \in DOMAIN transactions \cup {id} |->
                        IF i = id THEN t ELSE transactions[i]]
  /\ clock' = clock + 1

\* approve_provisional_result and process_approval_deadline rate the match at
\* now(), process_report_deadline at the deadline, which may be past.
BeginFinalization(m, result, at) ==
  /\ m \notin DOMAIN finalized
  /\ Begin(Finalization(m),
           [match |-> m, result |-> result, at |-> at, held |-> {}, listed |-> None,
            needs |-> <<MatchLock(m)>> \o PlayerLocks(<<m>>)])
  /\ UNCHANGED <<finalized, before, rating, lastPlayed, corrections, applied>>

\* override_match_result
BeginCorrection(m, result) ==
  /\ m \in DOMAIN finalized
  /\ corrections < MaxCorrections
  /\ corrections' = corrections + 1
  /\ Begin(Correction(corrections + 1),
           [match |-> m, result |-> result, at |-> clock + 1, held |-> {}, listed |-> None,
            needs |-> <<MatchLock(m)>> \o PlayerLocks(<<m>>)])
  /\ UNCHANGED <<finalized, before, rating, lastPlayed, applied>>

\* A lock that the transaction already has is taken again at once.
TakeLock(id) ==
  /\ transactions[id].needs # <<>>
  /\ \A other \in DOMAIN transactions : ~WaitsFor(id, other)
  /\ transactions' = [transactions EXCEPT ![id].held = @ \cup {Takes(id)},
                                          ![id].needs = Tail(@)]
  /\ UNCHANGED <<finalized, before, rating, lastPlayed, corrections, clock, applied>>

End(id) == transactions' = [i \in DOMAIN transactions \ {id} |-> transactions[i]]

\* _finalize_match_locked, from the player locks on
CommitFinalization(m) ==
  LET id == Finalization(m)
      t == transactions[id]
  IN  /\ id \in DOMAIN transactions /\ t.needs = <<>>
      /\ finalized' = [n \in DOMAIN finalized \cup {m} |->
           IF n = m THEN [result |-> t.result, rated_at |-> t.at] ELSE finalized[n]]
      /\ before' = [n \in DOMAIN before \cup {m} |->
           IF n = m THEN Restrict(rating, PlayersOf(m)) ELSE before[n]]
      /\ rating' = RatingUpdates(rating, m, t.result)
      /\ lastPlayed' = [p \in Players |->
           IF p \in PlayersOf(m) /\ t.result # "VOID" THEN t.at ELSE lastPlayed[p]]
      /\ applied' = Append(applied, m)
      /\ End(id)
      /\ UNCHANGED <<corrections, clock>>

\* affected_match_ids
Affected(m) == {n \in DOMAIN finalized : n = m \/ RatedBefore(finalized, m, n)}

\* _recalculate_ratings_after_match_correction_locked lists the matches to
\* replay and goes on to lock them and then their players.
ListAffected(id) ==
  LET t == transactions[id]
      listed == RatingOrder(finalized, Affected(t.match))
  IN  /\ id \in {Correction(n) : n \in 1..MaxCorrections}
      /\ t.needs = <<>> /\ t.listed = None
      /\ transactions' = [transactions EXCEPT
           ![id].listed = listed,
           ![id].needs = MatchLocks(listed) \o PlayerLocks(listed)]
      /\ UNCHANGED <<finalized, before, rating, lastPlayed, corrections, clock, applied>>

CommitCorrection(id) ==
  LET t == transactions[id]
      table == [finalized EXCEPT ![t.match].result = t.result]
      done == Replay(rating, t.listed, table)
      replayed == UNION {PlayersOf(m) : m \in Range(t.listed)}
  IN  /\ t.listed # None /\ t.needs = <<>>
      /\ finalized' = table
      /\ rating' = done.rating
      /\ before' = done.before
      /\ lastPlayed' = [p \in Players |->
           IF p \in replayed THEN LastPlayed(table, p) ELSE lastPlayed[p]]
      /\ End(id)
      /\ UNCHANGED <<corrections, clock, applied>>

\* The transactions of "S" wait for each other.
Circle(S) ==
  /\ S # {}
  /\ \A t \in S : (\E u \in S : WaitsFor(t, u)) /\ (\E u \in S : WaitsFor(u, t))

\* PostgreSQL ends a transaction of a circle. The timers and the players try
\* again; an admin gets an error.
Abort(id) ==
  /\ \E S \in SUBSET DOMAIN transactions : id \in S /\ Circle(S)
  /\ End(id)
  /\ UNCHANGED <<finalized, before, rating, lastPlayed, corrections, clock, applied>>

\* What a transaction that is under way does next.
Proceed(id) ==
  \/ TakeLock(id)
  \/ \E m \in Matches : id = Finalization(m) /\ CommitFinalization(m)
  \/ ListAffected(id)
  \/ CommitCorrection(id)
  \/ Abort(id)

RatedAt == {t \in 0..clock + 1 : t + MaxLate > clock}

Next ==
  \/ \E m \in Matches, result \in Results, at \in RatedAt : BeginFinalization(m, result, at)
  \/ \E m \in Matches, result \in Results : BeginCorrection(m, result)
  \/ \E id \in DOMAIN transactions : Proceed(id)

Spec == Init /\ [][Next]_vars

-----------------------------------------------------------------------------
\* The matches of each player were applied in the order of their ratings.
InOrder ==
  \A i, j \in DOMAIN applied :
    i < j /\ PlayersOf(applied[i]) \cap PlayersOf(applied[j]) # {}
      => RatedBefore(finalized, applied[i], applied[j])

\* What every player's rating has to be after the matches "S": all of them, in
\* their order, with the results that are now on record.
Reference(S) ==
  RatingsAfter([p \in Players |-> Unrated], RatingOrder(finalized, S), finalized)[Cardinality(S)]

\* However corrections and finalizations interleave, every rating is that of
\* all matches replayed from the season's start: none is forgotten and none
\* counted twice (while no match was applied after one that is rated later).
\* And the last game of a player is the last one that counts.
RatingsAreReplay ==
  InOrder => /\ rating = Reference(DOMAIN finalized)
             /\ \A p \in Players : lastPlayed[p] = LastPlayed(finalized, p)

\* What a later correction will go back to is what a replay would have found.
SnapshotsAreReplay ==
  InOrder => \A m \in DOMAIN finalized :
    before[m] = Restrict(Reference({n \in DOMAIN finalized : RatedBefore(finalized, n, m)}),
                         PlayersOf(m))

\* The types, the ratings and the snapshots.
LedgerInv == TypeOK /\ RatingsAreReplay /\ SnapshotsAreReplay

\* Finalizations alone never wait for each other in a circle: it takes a
\* correction, which takes locks in another order. (With a finalization this
\* needs a player with a lower id, two corrections need only a common one.)
CirclesNeedCorrection ==
  \A S \in SUBSET {Finalization(m) : m \in Matches} :
    S \subseteq DOMAIN transactions => ~Circle(S)
=============================================================================
