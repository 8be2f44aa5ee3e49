------------------------------ MODULE SeasonsProofs -----------------------------
(***************************************************************************)
(* What Seasons guarantees for any number of players, seasons, matches and *)
(* forced ends, any length of a month and any delay of a transaction.      *)
(***************************************************************************)
EXTENDS Seasons, FiniteSetTheorems, SequenceTheorems, TLAPS

MatchRow == [season : Nat, players : SUBSET Players, at : Nat \cup {None},
             phase : {"creating", "open", "checked", "final"},
             born : Nat \cup {None}, last : BOOLEAN]

\* The rows have their columns, and a match that can be seen knows since when.
RowsTyped ==
  /\ clock \in Nat /\ members \subseteq Players
  /\ seasons \in Seq(Season)
  /\ \A key \in DOMAIN stats : stats[key] \in Row
  /\ matches \in Seq(MatchRow)
  /\ \A m \in DOMAIN matches :
       /\ matches[m].season \in DOMAIN seasons
       /\ matches[m].phase \in {"open", "checked"} => matches[m].born \in Nat
  /\ announced \in [SeasonId -> Nat]

\* What a maintenance has read stays true: new seasons are not completed, and a
\* season that was over remains so.
KeepersSound ==
  \A k \in Keeper : keepers[k] # None =>
    /\ keepers[k].at \in Nat /\ keepers[k].at <= clock
    /\ keepers[k].plan \in Seq(Season)
    /\ \A i \in DOMAIN keepers[k].plan : ~keepers[k].plan[i].completed
    /\ keepers[k].unfinished \subseteq DOMAIN seasons
    /\ \A s \in keepers[k].unfinished : seasons[s].end <= clock

\* The season s is over, and all its matches but those of "own" are final, or
\* became visible when it was over.
Over(s, own) ==
  /\ seasons[s].end <= clock
  /\ \A m \in OpenMatches(s) \ own : matches[m].born >= seasons[s].end

\* What a finalization has found out about its season is still so when it commits.
ChecksSound ==
  \A m \in DOMAIN matches : matches[m].last =>
    matches[m].phase = "checked" /\ Over(matches[m].season, {m})

\* The inductive invariant.
SeasonsSound == RowsTyped /\ KeepersSound /\ ChecksSound /\ CompletionSound

-----------------------------------------------------------------------------
\* ORDER BY start_at DESC finds a season.
LEMMA LastOfExists ==
  ASSUME NEW S, IsFiniteSet(S), S # {}, \A s \in S : seasons[s].start \in Nat
  PROVE  LastOf(S) \in S
<1> DEFINE Later(s) == {t \in S : seasons[s].start < seasons[t].start}
           Sets == {Later(s) : s \in S}
<1>1. Sets \subseteq FiniteSubsetsOf(S) /\ Sets # {}
  <2>1. \A s \in S : Later(s) \in SUBSET S
    OBVIOUS
  <2>2. FiniteSubsetsOf(S) = SUBSET S
    BY FS_FiniteSubsetsOfFinite
  <2> HIDE DEF Later
  <2> QED
    BY <2>1, <2>2
<1>2. PICK x \in Sets : \A y \in Sets : <<y, x>> \notin StrictSubsetOrdering(S)
  <2> HIDE DEF Sets
  <2>1. IsWellFoundedOn(StrictSubsetOrdering(S), FiniteSubsetsOf(S))
    BY FS_StrictSubsetOrderingWellFounded
  <2> QED
    BY <1>1, <2>1, WFMin
<1>3. PICK s \in S : x = Later(s)
  BY <1>2
<1>4. \A t \in S : seasons[t].start <= seasons[s].start
  <2> SUFFICES ASSUME NEW t \in S, seasons[s].start < seasons[t].start
               PROVE  FALSE
    OBVIOUS
  <2>1. t \in Later(s) /\ t \notin Later(t)
    OBVIOUS
  <2>2. Later(t) \subseteq Later(s) /\ Later(s) \subseteq S
    OBVIOUS
  <2> HIDE DEF Later
  <2>3. <<Later(t), Later(s)>> \in StrictSubsetOrdering(S)
    BY <2>1, <2>2 DEF StrictSubsetOrdering
  <2> QED
    BY <1>2, <1>3, <2>3
<1> QED
  BY <1>4 DEF LastOf

\* The season that starts last is one of those that are looked at.
LEMMA LastSeason ==
  ASSUME RowsTyped, NEW S, S \subseteq DOMAIN seasons, S # {}
  PROVE  LastOf(S) \in S
<1>1. IsFiniteSet(DOMAIN seasons)
  <2>1. DOMAIN seasons = 1..Len(seasons) /\ Len(seasons) \in Nat
    BY DEF RowsTyped
  <2> QED
    BY <2>1, FS_Interval
<1>2. IsFiniteSet(S)
  BY <1>1, FS_Subset
<1>3. \A s \in DOMAIN seasons : seasons[s] \in Season
  BY DEF RowsTyped
<1>4. \A s \in S : seasons[s].start \in Nat
  BY <1>3 DEF Season
<1> QED
  BY <1>2, <1>4, LastOfExists

\* The boundaries of the months.
LEMMA BoundaryTyped ==
  ASSUME NEW t \in Nat
  PROVE  LastBoundary(t) \in Nat /\ t \div Length \in Nat
<1>1. Length \in Nat /\ Length > 0
  BY SeasonsAssumption
<1>2. t \div Length \in Nat
  BY <1>1
<1>3. \A x, y \in Nat : x * y \in Nat
  OBVIOUS
<1> QED
  BY <1>1, <1>2, <1>3 DEF LastBoundary

\* How many seasons are missing is a number.
LEMMA MissingTyped ==
  ASSUME NEW tail \in Nat, clock \in Nat
  PROVE  Missing(tail) \in Nat
<1>1. CASE tail > clock
  BY <1>1 DEF Missing
<1>2. CASE tail <= clock
  <2>1. Length \in Nat /\ Length > 0
    BY SeasonsAssumption
  <2>2. tail \div Length <= clock \div Length
    BY <2>1, <1>2
  <2> QED
    BY <2>2, <1>2, BoundaryTyped DEF Missing
<1> QED
  BY <1>1, <1>2

\* New seasons are rows of the table and not completed.
LEMMA PlanTyped ==
  ASSUME NEW from \in Nat, NEW n \in Nat
  PROVE  /\ SeasonsFrom(from, n) \in Seq(Season)
         /\ \A i \in DOMAIN SeasonsFrom(from, n) : ~SeasonsFrom(from, n)[i].completed
<1>1. LastBoundary(from) \in Nat /\ Length \in Nat
  BY BoundaryTyped, SeasonsAssumption
<1>2. \A x, y \in Nat : x * y \in Nat
  OBVIOUS
<1>3. \A i \in 1..n : LastBoundary(from) + (i - 1) * Length \in Nat
                      /\ LastBoundary(from) + i * Length \in Nat
  <2> SUFFICES ASSUME NEW i \in 1..n
               PROVE  LastBoundary(from) + (i - 1) * Length \in Nat
                      /\ LastBoundary(from) + i * Length \in Nat
    OBVIOUS
  <2>1. i - 1 \in Nat /\ i \in Nat
    OBVIOUS
  <2>2. (i - 1) * Length \in Nat /\ i * Length \in Nat
    BY <1>1, <1>2, <2>1
  <2> QED
    BY <1>1, <2>2
<1>4. \A i \in 1..n : [start |-> IF i = 1 THEN from ELSE LastBoundary(from) + (i - 1) * Length,
                       end |-> LastBoundary(from) + i * Length,
                       completed |-> FALSE] \in Season
  BY <1>3 DEF Season
<1> QED
  BY <1>4 DEF SeasonsFrom

-----------------------------------------------------------------------------
\* What the statistics of a player may become.
Kept(old, new) ==
  \A key \in DOMAIN old :
    /\ key \in DOMAIN new
    /\ new[key].games >= old[key].games
    /\ old[key].carryover # "pending" => new[key].carryover = old[key].carryover

\* New rows take none away.
LEMMA WithRowsKept ==
  ASSUME NEW table, \A key \in DOMAIN table : table[key] \in Row, NEW players, NEW ids
  PROVE  /\ Kept(table, WithRows(table, players, ids))
         /\ \A key \in DOMAIN WithRows(table, players, ids) :
              WithRows(table, players, ids)[key] \in Row
BY DEF Kept, WithRows, NewRow, Row

\* A carry-over that is decided stays so.
LEMMA DecidedKept ==
  ASSUME NEW table, \A key \in DOMAIN table : table[key] \in Row, NEW players, NEW s
  PROVE  /\ DOMAIN Decided(table, players, s) = DOMAIN table
         /\ Kept(table, Decided(table, players, s))
         /\ \A key \in DOMAIN table : Decided(table, players, s)[key] \in Row
<1>1. DOMAIN Decided(table, players, s) = DOMAIN table
  BY DEF Decided
<1>2. ASSUME NEW key \in DOMAIN table
      PROVE  /\ Decided(table, players, s)[key] \in Row
             /\ Decided(table, players, s)[key].games = table[key].games
             /\ table[key].carryover # "pending" =>
                  Decided(table, players, s)[key].carryover = table[key].carryover
  BY <1>2 DEF Decided, Row
<1> QED
  BY <1>1, <1>2 DEF Kept, Row

\* No step takes a row, a game or a decision away.
LEMMA StatsStep ==
  ASSUME RowsTyped, [Next]_vars
  PROVE  Kept(stats, stats') /\ \A key \in DOMAIN stats' : stats'[key] \in Row
<1>1. \A key \in DOMAIN stats : stats[key] \in Row
  BY DEF RowsTyped
<1>2. CASE UNCHANGED stats
  BY <1>1, <1>2 DEF Kept, Row
<1>3. ASSUME NEW p \in Players, CommitRegistration(p)
      PROVE  Kept(stats, stats') /\ \A key \in DOMAIN stats' : stats'[key] \in Row
  BY <1>1, <1>3, WithRowsKept DEF CommitRegistration
<1>4. ASSUME NEW p \in members, NEW at \in TransactionTimes, JoinQueue(p, at)
      PROVE  Kept(stats, stats') /\ \A key \in DOMAIN stats' : stats'[key] \in Row
  BY <1>1, <1>4, DecidedKept DEF JoinQueue
<1>5. ASSUME NEW m \in DOMAIN matches, CommitMatch(m)
      PROVE  Kept(stats, stats') /\ \A key \in DOMAIN stats' : stats'[key] \in Row
  BY <1>1, <1>5, DecidedKept DEF CommitMatch
<1>6. ASSUME NEW m \in DOMAIN matches, NEW void \in BOOLEAN, CommitResult(m, void)
      PROVE  Kept(stats, stats') /\ \A key \in DOMAIN stats' : stats'[key] \in Row
  <2> DEFINE ready == Decided(stats, matches[m].players, matches[m].season)
             his == matches[m].players \X {matches[m].season}
  <2>1. stats' = [key \in DOMAIN ready |->
                    IF ~void /\ key \in his
                    THEN [ready[key] EXCEPT !.games = @ + 1] ELSE ready[key]]
    BY <1>6 DEF CommitResult
  <2>2. /\ DOMAIN ready = DOMAIN stats /\ Kept(stats, ready)
        /\ \A key \in DOMAIN stats : ready[key] \in Row
    BY <1>1, DecidedKept
  <2> HIDE DEF ready, his
  <2>3. ASSUME NEW key \in DOMAIN stats
        PROVE  /\ stats'[key] \in Row
               /\ stats'[key].games >= ready[key].games
               /\ stats'[key].carryover = ready[key].carryover
    BY <2>1, <2>2, <2>3 DEF Row
  <2> QED
    BY <1>1, <2>1, <2>2, <2>3 DEF Kept, Row
<1>7. ASSUME NEW k \in Keeper, CommitSeasons(k)
      PROVE  Kept(stats, stats') /\ \A key \in DOMAIN stats' : stats'[key] \in Row
  BY <1>1, <1>7, WithRowsKept DEF CommitSeasons
<1> QED
  <2>1. CASE Next
    BY <2>1, <1>2, <1>3, <1>4, <1>5, <1>6, <1>7
       DEF Next, Play, Maintain, BeginRegistration, BeginMatch, FinalizeMatch,
           BeginMaintenance, RollBackSeasons, ForceEnd, Tick
  <2> QED
    BY <2>1, <1>2 DEF vars

-----------------------------------------------------------------------------
\* What is over stays over, when the season keeps its end and no match becomes
\* visible but from now on.
LEMMA OverKept ==
  ASSUME RowsTyped, clock' \in Nat, clock <= clock', NEW s \in DOMAIN seasons, NEW own,
         seasons'[s].end = seasons[s].end,
         \A m \in DOMAIN matches' : matches'[m].phase \in {"open", "checked"} =>
           \/ /\ m \in DOMAIN matches /\ matches[m].phase \in {"open", "checked"}
              /\ matches'[m].season = matches[m].season
              /\ matches'[m].born = matches[m].born
           \/ matches'[m].born = clock,
         Over(s, own)
  PROVE  Over(s, own)'
<1>1. seasons[s].end \in Nat
  <2>1. seasons[s] \in Season
    BY DEF RowsTyped
  <2> QED
    BY <2>1 DEF Season
<1>2. seasons'[s].end <= clock'
  BY <1>1 DEF Over, RowsTyped
<1>3. ASSUME NEW m \in OpenMatches(s)' \ own
      PROVE  matches'[m].born >= seasons'[s].end
  <2>1. /\ m \in DOMAIN matches' /\ matches'[m].season = s
        /\ matches'[m].phase \in {"open", "checked"}
    BY <1>3 DEF OpenMatches
  <2>2. CASE m \in OpenMatches(s) /\ matches'[m].born = matches[m].born
    BY <2>2, <1>3 DEF Over
  <2>3. CASE matches'[m].born = clock
    BY <2>3, <1>1 DEF Over, RowsTyped
  <2> QED
    BY <2>1, <2>2, <2>3 DEF OpenMatches
<1> QED
  BY <1>2, <1>3 DEF Over

\* The seasons that are completed are over, and announced.
LEMMA CompletionIsOver ==
  CompletionSound <=>
    /\ \A s \in DOMAIN seasons : seasons[s].completed => Over(s, {})
    /\ \A s \in SeasonId :
         announced[s] = IF s \in DOMAIN seasons /\ seasons[s].completed THEN 1 ELSE 0
BY DEF CompletionSound, Over

\* A step that leaves seasons, visible matches and the maintenance alone.
LEMMA QuietStep ==
  ASSUME SeasonsSound, UNCHANGED <<seasons, matches, announced>>,
         clock' \in Nat, clock <= clock', members' \subseteq Players,
         \A key \in DOMAIN stats' : stats'[key] \in Row
  PROVE  /\ RowsTyped' /\ ChecksSound' /\ CompletionSound'
         /\ UNCHANGED keepers => KeepersSound'
<1>1. RowsTyped'
  BY DEF SeasonsSound, RowsTyped
<1>2. ASSUME NEW s \in DOMAIN seasons, NEW own, Over(s, own)
      PROVE  Over(s, own)'
  BY <1>2, OverKept DEF SeasonsSound
<1>3. ChecksSound'
  <2> SUFFICES ASSUME NEW m \in DOMAIN matches, matches[m].last
               PROVE  matches[m].phase = "checked" /\ Over(matches[m].season, {m})'
    BY DEF ChecksSound, Over, OpenMatches
  <2>1. matches[m].phase = "checked" /\ Over(matches[m].season, {m})
    BY DEF SeasonsSound, ChecksSound
  <2>2. matches[m].season \in DOMAIN seasons
    BY DEF SeasonsSound, RowsTyped
  <2> QED
    BY <2>1, <2>2, <1>2
<1>4. CompletionSound'
  <2>1. \A s \in DOMAIN seasons : seasons[s].completed => Over(s, {})'
    BY <1>2, CompletionIsOver DEF SeasonsSound
  <2> QED
    BY <2>1 DEF SeasonsSound, CompletionSound, Over, OpenMatches
<1>5. ASSUME UNCHANGED keepers
      PROVE  KeepersSound'
  <2> SUFFICES ASSUME NEW k \in Keeper, keepers[k] # None
               PROVE  /\ keepers[k].at \in Nat /\ keepers[k].at <= clock'
                      /\ keepers[k].plan \in Seq(Season)
                      /\ \A i \in DOMAIN keepers[k].plan : ~keepers[k].plan[i].completed
                      /\ keepers[k].unfinished \subseteq DOMAIN seasons
                      /\ \A s \in keepers[k].unfinished : seasons[s].end <= clock'
    BY <1>5 DEF KeepersSound
  <2>1. /\ keepers[k].at \in Nat /\ keepers[k].at <= clock
        /\ keepers[k].plan \in Seq(Season)
        /\ \A i \in DOMAIN keepers[k].plan : ~keepers[k].plan[i].completed
        /\ keepers[k].unfinished \subseteq DOMAIN seasons
        /\ \A s \in keepers[k].unfinished : seasons[s].end <= clock
    BY DEF SeasonsSound, KeepersSound
  <2>2. clock \in Nat /\ \A s \in DOMAIN seasons : seasons[s] \in Season
    BY DEF SeasonsSound, RowsTyped
  <2>3. \A s \in DOMAIN seasons : seasons[s].end \in Nat
    BY <2>2 DEF Season
  <2> QED
    BY <2>1, <2>2, <2>3
<1> QED
  BY <1>1, <1>3, <1>4, <1>5

-----------------------------------------------------------------------------
\* A step of the matches that completes nothing: it creates or changes one, and
\* what it marks as the last match of its season is that.
LEMMA MatchStep ==
  ASSUME SeasonsSound, UNCHANGED <<seasons, announced, keepers, members, clock>>,
         \A key \in DOMAIN stats' : stats'[key] \in Row,
         matches' \in Seq(MatchRow),
         NEW m \in DOMAIN matches',
         DOMAIN matches' = DOMAIN matches \cup {m},
         \A n \in DOMAIN matches : n # m => matches'[n] = matches[n],
         NEW s \in DOMAIN seasons, matches'[m].season = s,
         matches'[m].phase \in {"open", "checked"} =>
           \/ matches'[m].born = clock
           \/ /\ m \in DOMAIN matches /\ matches[m].phase \in {"open", "checked"}
              /\ matches[m].season = s
              /\ matches'[m].born = matches[m].born,
         matches'[m].last => matches'[m].phase = "checked" /\ Over(s, {m})'
  PROVE  SeasonsSound'
<1>1. RowsTyped'
  BY DEF SeasonsSound, RowsTyped
<1>2. ASSUME NEW q \in DOMAIN seasons, NEW own, Over(q, own)
      PROVE  Over(q, own)'
  <2>1. clock \in Nat /\ clock' \in Nat /\ clock <= clock'
    BY DEF SeasonsSound, RowsTyped
  <2> QED
    BY <1>2, <2>1, OverKept DEF SeasonsSound
<1>3. KeepersSound'
  BY DEF SeasonsSound, KeepersSound
<1>4. ChecksSound'
  <2> SUFFICES ASSUME NEW n \in DOMAIN matches', matches'[n].last,
                      NEW q, q = matches'[n].season
               PROVE  matches'[n].phase = "checked" /\ Over(q, {n})'
    BY DEF ChecksSound
  <2>1. CASE n = m
    BY <2>1
  <2>2. CASE n # m
    <3>1. n \in DOMAIN matches /\ matches'[n] = matches[n]
      BY <2>2
    <3>2. matches[n].phase = "checked" /\ Over(q, {n})
      BY <3>1 DEF SeasonsSound, ChecksSound
    <3>3. q \in DOMAIN seasons
      BY <3>1 DEF SeasonsSound, RowsTyped
    <3> QED
      BY <3>1, <3>2, <3>3, <1>2
  <2> QED
    BY <2>1, <2>2
<1>5. CompletionSound'
  <2>1. \A q \in DOMAIN seasons : seasons[q].completed => Over(q, {})'
    BY <1>2, CompletionIsOver DEF SeasonsSound
  <2> QED
    BY <2>1 DEF SeasonsSound, CompletionSound, Over, OpenMatches
<1> QED
  BY <1>1, <1>3, <1>4, <1>5 DEF SeasonsSound

\* A match that is being created is not seen by anybody.
LEMMA BeginMatchStep ==
  ASSUME SeasonsSound, [Next]_vars, NEW P \in SUBSET members, BeginMatch(P)
  PROVE  SeasonsSound'
<1>0. PICK s : s = LastOf(Active(clock))
  OBVIOUS
<1> DEFINE new == [season |-> s, players |-> P, at |-> clock, phase |-> "creating",
                   born |-> None, last |-> FALSE]
<1>1. s \in DOMAIN seasons /\ s \in Nat
  <2>1. Active(clock) # {} /\ Active(clock) \subseteq DOMAIN seasons
    BY DEF BeginMatch, PairAt, Active
  <2>2. s \in DOMAIN seasons
    BY <1>0, <2>1, LastSeason DEF SeasonsSound
  <2>3. seasons \in Seq(Season)
    BY DEF SeasonsSound, RowsTyped
  <2> QED
    BY <2>2, <2>3
<1>2. new \in MatchRow
  BY <1>1 DEF MatchRow, SeasonsSound, RowsTyped
<1>3. matches \in Seq(MatchRow)
  BY DEF SeasonsSound, RowsTyped
<1>4. matches' = Append(matches, new)
  BY <1>0 DEF BeginMatch
<1>5. /\ matches' \in Seq(MatchRow)
      /\ Len(matches) + 1 \in DOMAIN matches'
      /\ DOMAIN matches' = DOMAIN matches \cup {Len(matches) + 1}
      /\ \A n \in DOMAIN matches : n # Len(matches) + 1 => matches'[n] = matches[n]
      /\ matches'[Len(matches) + 1] = new
  <2> HIDE DEF new
  <2> QED
    BY <1>2, <1>3, <1>4
<1>6. \A key \in DOMAIN stats' : stats'[key] \in Row
  BY StatsStep DEF SeasonsSound
<1>7. UNCHANGED <<seasons, announced, keepers, members, clock>>
  BY DEF BeginMatch
<1>8. new.season = s /\ new.phase = "creating" /\ ~new.last
  OBVIOUS
<1> HIDE DEF new
<1> QED
  BY <1>1, <1>5, <1>6, <1>7, <1>8, MatchStep

\* The matches when one of them changes.
LEMMA MatchRows ==
  ASSUME RowsTyped, NEW m \in DOMAIN matches, NEW row \in MatchRow,
         matches' = [matches EXCEPT ![m] = row]
  PROVE  /\ matches' \in Seq(MatchRow) /\ m \in DOMAIN matches'
         /\ DOMAIN matches' = DOMAIN matches \cup {m}
         /\ \A n \in DOMAIN matches : n # m => matches'[n] = matches[n]
         /\ matches'[m] = row
<1>1. matches \in Seq(MatchRow)
  BY DEF RowsTyped
<1>2. DOMAIN matches = 1..Len(matches) /\ \A n \in DOMAIN matches : matches[n] \in MatchRow
  BY <1>1
<1>3. matches' \in Seq(MatchRow)
  BY <1>1, ExceptSeq
<1> QED
  BY <1>2, <1>3

\* A match that becomes visible was not there when its season was completed, or the
\* season had ended.
LEMMA CommitMatchStep ==
  ASSUME SeasonsSound, [Next]_vars, NEW m \in DOMAIN matches, CommitMatch(m)
  PROVE  SeasonsSound'
<1> DEFINE row == [matches[m] EXCEPT !.phase = "open", !.at = None, !.born = clock]
<1>1. matches[m] \in MatchRow /\ matches[m].season \in DOMAIN seasons
  BY DEF SeasonsSound, RowsTyped
<1>2. ~matches[m].last
  BY DEF CommitMatch, SeasonsSound, ChecksSound
<1>3. row \in MatchRow /\ row.season = matches[m].season /\ row.born = clock /\ ~row.last
  BY <1>1, <1>2 DEF MatchRow, SeasonsSound, RowsTyped
<1>4. matches' = [matches EXCEPT ![m] = row]
  BY DEF CommitMatch
<1>5. \A key \in DOMAIN stats' : stats'[key] \in Row
  BY StatsStep DEF SeasonsSound
<1>6. UNCHANGED <<seasons, announced, keepers, members, clock>>
  BY DEF CommitMatch
<1> HIDE DEF row
<1>7. /\ matches' \in Seq(MatchRow) /\ m \in DOMAIN matches'
      /\ DOMAIN matches' = DOMAIN matches \cup {m}
      /\ \A n \in DOMAIN matches : n # m => matches'[n] = matches[n]
      /\ matches'[m] = row
  BY <1>3, <1>4, MatchRows DEF SeasonsSound
<1> QED
  BY <1>1, <1>3, <1>5, <1>6, <1>7, MatchStep

\* What a finalization finds out about its season.
LEMMA FinalizeMatchStep ==
  ASSUME SeasonsSound, [Next]_vars, NEW m \in DOMAIN matches, NEW at \in TransactionTimes,
         FinalizeMatch(m, at)
  PROVE  SeasonsSound'
<1>0. PICK s : s = matches[m].season
  OBVIOUS
<1> DEFINE row == [matches[m] EXCEPT !.phase = "checked", !.at = at,
                                     !.last = MayComplete(s, {m}, at)]
<1>1. matches[m] \in MatchRow /\ s \in DOMAIN seasons /\ seasons[s] \in Season
  BY <1>0 DEF SeasonsSound, RowsTyped
<1>2. at \in Nat /\ at <= clock /\ clock \in Nat
  BY DEF TransactionTimes, SeasonsSound, RowsTyped
<1>3. row \in MatchRow /\ row.season = s /\ row.born = matches[m].born
      /\ row.phase = "checked" /\ row.last = MayComplete(s, {m}, at)
  <2>1. MayComplete(s, {m}, at) \in BOOLEAN
    BY DEF MayComplete
  <2> QED
    BY <1>0, <1>1, <1>2, <2>1 DEF MatchRow
<1>4. matches' = [matches EXCEPT ![m] = row]
  BY <1>0 DEF FinalizeMatch
<1>5. \A key \in DOMAIN stats' : stats'[key] \in Row
  BY StatsStep DEF SeasonsSound
<1>6. UNCHANGED <<seasons, announced, keepers, members, clock>>
  BY DEF FinalizeMatch
<1>7. matches[m].phase = "open"
  BY DEF FinalizeMatch
<1> HIDE DEF row
<1>8. /\ matches' \in Seq(MatchRow) /\ m \in DOMAIN matches'
      /\ DOMAIN matches' = DOMAIN matches \cup {m}
      /\ \A n \in DOMAIN matches : n # m => matches'[n] = matches[n]
      /\ matches'[m] = row
  BY <1>3, <1>4, MatchRows DEF SeasonsSound
<1>9. ASSUME row.last
      PROVE  Over(s, {m})'
  <2>1. seasons[s].end <= clock
    <3>1. seasons[s].end <= at /\ seasons[s].end \in Nat
      BY <1>1, <1>3, <1>9 DEF MayComplete, Season
    <3> QED
      BY <3>1, <1>2
  <2>2. OpenMatches(s) \subseteq {m}
    BY <1>3, <1>9 DEF MayComplete, NoneLeft
  <2>3. OpenMatches(s)' \ {m} \subseteq OpenMatches(s)
    BY <1>8 DEF OpenMatches
  <2> QED
    BY <2>1, <2>2, <2>3, <1>6 DEF Over
<1> QED
  BY <1>0, <1>1, <1>3, <1>5, <1>6, <1>7, <1>8, <1>9, MatchStep

-----------------------------------------------------------------------------
\* Completing seasons changes nothing else about them.
LEMMA CompletedRows ==
  ASSUME NEW rows \in Seq(Season), NEW S
  PROVE  /\ Completed(rows, S) \in Seq(Season)
         /\ DOMAIN Completed(rows, S) = DOMAIN rows
         /\ \A s \in DOMAIN rows :
              /\ Completed(rows, S)[s].end = rows[s].end
              /\ Completed(rows, S)[s].completed = (rows[s].completed \/ s \in S)
<1>1. DOMAIN rows = 1..Len(rows) /\ \A s \in DOMAIN rows : rows[s] \in Season
  OBVIOUS
<1>2. \A s \in DOMAIN rows : [rows[s] EXCEPT !.completed = @ \/ s \in S] \in Season
  BY <1>1 DEF Season
<1>3. DOMAIN Completed(rows, S) = DOMAIN rows
      /\ \A s \in DOMAIN rows :
           Completed(rows, S)[s] = [rows[s] EXCEPT !.completed = @ \/ s \in S]
  BY DEF Completed
<1>4. Completed(rows, S) \in Seq(Season)
  BY <1>1, <1>2 DEF Completed
<1> QED
  BY <1>1, <1>3, <1>4 DEF Season

\* A step that completes the seasons S, which are over.
LEMMA CompletionStep ==
  ASSUME CompletionSound, announced \in [SeasonId -> Nat],
         NEW S, S \subseteq DOMAIN seasons', announced' = Announce(S),
         DOMAIN seasons \subseteq DOMAIN seasons',
         \A s \in DOMAIN seasons :
           seasons'[s].completed = (seasons[s].completed \/ s \in S),
         \A s \in DOMAIN seasons' \ DOMAIN seasons : seasons'[s].completed = (s \in S),
         \A s \in S : Over(s, {})',
         \A s \in DOMAIN seasons : Over(s, {}) => Over(s, {})'
  PROVE  CompletionSound' /\ announced' \in [SeasonId -> Nat]
<1>1. announced' \in [SeasonId -> Nat]
      /\ \A s \in SeasonId : announced'[s] = IF s \in S THEN 1 ELSE announced[s]
  BY DEF Announce
<1>2. ASSUME NEW s \in DOMAIN seasons', seasons'[s].completed
      PROVE  Over(s, {})'
  <2>1. CASE s \in S
    BY <2>1
  <2>2. CASE s \notin S
    <3>1. s \in DOMAIN seasons /\ seasons[s].completed
      BY <1>2, <2>2
    <3> QED
      BY <3>1, CompletionIsOver
  <2> QED
    BY <2>1, <2>2
<1>3. ASSUME NEW s \in SeasonId
      PROVE  announced'[s] = IF s \in DOMAIN seasons' /\ seasons'[s].completed THEN 1 ELSE 0
  BY <1>1, CompletionIsOver
<1>4. (\A s \in DOMAIN seasons : seasons[s].completed => Over(s, {}))'
      /\ (\A s \in SeasonId :
           announced[s] = IF s \in DOMAIN seasons /\ seasons[s].completed THEN 1 ELSE 0)'
  BY <1>2, <1>3
<1> QED
  BY <1>1, <1>4 DEF CompletionSound, Over

\* A finalization completes its season if it found nothing left.
LEMMA CommitResultStep ==
  ASSUME SeasonsSound, [Next]_vars, NEW m \in DOMAIN matches, NEW void \in BOOLEAN,
         CommitResult(m, void)
  PROVE  SeasonsSound'
<1>0. PICK s, S : s = matches[m].season /\ S = IF matches[m].last THEN {s} ELSE {}
  OBVIOUS
<1> DEFINE row == [matches[m] EXCEPT !.phase = "final", !.at = None, !.born = None, !.last = FALSE]
<1>1. matches[m] \in MatchRow /\ s \in DOMAIN seasons
  BY <1>0 DEF SeasonsSound, RowsTyped
<1>2. row \in MatchRow /\ row.season = s /\ row.phase = "final" /\ ~row.last
  BY <1>0, <1>1 DEF MatchRow
<1>3. /\ matches' = [matches EXCEPT ![m] = row]
      /\ seasons' = Completed(seasons, S) /\ announced' = Announce(S)
      /\ UNCHANGED <<members, keepers, clock>>
  BY <1>0 DEF CommitResult
<1> HIDE DEF row
<1>4. /\ matches' \in Seq(MatchRow)
      /\ DOMAIN matches' = DOMAIN matches
      /\ \A n \in DOMAIN matches : n # m => matches'[n] = matches[n]
      /\ matches'[m] = row
  BY <1>2, <1>3, MatchRows DEF SeasonsSound
<1>5. /\ seasons' \in Seq(Season) /\ DOMAIN seasons' = DOMAIN seasons
      /\ \A q \in DOMAIN seasons :
           /\ seasons'[q].end = seasons[q].end
           /\ seasons'[q].completed = (seasons[q].completed \/ q \in S)
  BY <1>3, CompletedRows DEF SeasonsSound, RowsTyped
<1>6. ASSUME NEW q \in DOMAIN seasons, NEW own, Over(q, own)
      PROVE  Over(q, own)'
  <2>1. clock' \in Nat /\ clock <= clock'
    BY <1>3 DEF SeasonsSound, RowsTyped
  <2>2. \A n \in DOMAIN matches' : matches'[n].phase \in {"open", "checked"} =>
          n \in DOMAIN matches /\ matches'[n] = matches[n]
    BY <1>2, <1>4
  <2> QED
    BY <1>5, <1>6, <2>1, <2>2, OverKept DEF SeasonsSound
<1>7. ASSUME matches[m].last
      PROVE  Over(s, {})'
  <2>1. Over(s, {m})
    BY <1>0, <1>7 DEF SeasonsSound, ChecksSound
  <2>2. OpenMatches(s)' \subseteq OpenMatches(s) \ {m}
    BY <1>2, <1>4 DEF OpenMatches
  <2>3. \A n \in OpenMatches(s)' : matches'[n] = matches[n]
    BY <1>4, <2>2 DEF OpenMatches
  <2> QED
    BY <1>1, <1>3, <1>5, <2>1, <2>2, <2>3 DEF Over
<1>8. CompletionSound' /\ announced' \in [SeasonId -> Nat]
  <2>1. S \subseteq DOMAIN seasons' /\ \A q \in S : Over(q, {})'
    BY <1>0, <1>1, <1>5, <1>7
  <2>2. CompletionSound /\ announced \in [SeasonId -> Nat]
    BY DEF SeasonsSound, RowsTyped
  <2>3. announced' = Announce(S)
    BY <1>3
  <2> QED
    BY <1>5, <1>6, <2>1, <2>2, <2>3, CompletionStep
<1>9. RowsTyped'
  <2>1. \A key \in DOMAIN stats' : stats'[key] \in Row
    BY StatsStep DEF SeasonsSound
  <2>2. \A n \in DOMAIN matches' :
          /\ matches'[n].season \in DOMAIN seasons'
          /\ matches'[n].phase \in {"open", "checked"} => matches'[n].born \in Nat
    BY <1>1, <1>2, <1>4, <1>5 DEF SeasonsSound, RowsTyped
  <2> QED
    BY <1>3, <1>4, <1>5, <1>8, <2>1, <2>2 DEF SeasonsSound, RowsTyped
<1>10. KeepersSound'
  BY <1>3, <1>5 DEF SeasonsSound, KeepersSound
<1>11. ChecksSound'
  <2> SUFFICES ASSUME NEW n \in DOMAIN matches', matches'[n].last,
                      NEW q, q = matches'[n].season
               PROVE  matches'[n].phase = "checked" /\ Over(q, {n})'
    BY DEF ChecksSound
  <2>1. n \in DOMAIN matches /\ matches'[n] = matches[n]
    BY <1>2, <1>4
  <2>2. matches[n].phase = "checked" /\ Over(q, {n})
    BY <2>1 DEF SeasonsSound, ChecksSound
  <2>3. q \in DOMAIN seasons
    BY <2>1 DEF SeasonsSound, RowsTyped
  <2> QED
    BY <2>1, <2>2, <2>3, <1>6
<1> QED
  BY <1>8, <1>9, <1>10, <1>11 DEF SeasonsSound

\* A maintenance completes the seasons that are over and have nothing left.
LEMMA CommitSeasonsStep ==
  ASSUME SeasonsSound, [Next]_vars, NEW k \in Keeper, CommitSeasons(k)
  PROVE  SeasonsSound'
<1>0. PICK job, created, rows, S :
        /\ job = keepers[k] /\ rows = seasons \o job.plan
        /\ created = Len(seasons) + 1 .. Len(seasons) + Len(job.plan)
        /\ S = {s \in job.unfinished : NoneLeft(s, {})}
               \cup {s \in created : k = "worker" /\ rows[s].end <= job.at}
  OBVIOUS
<1>1. /\ job.at \in Nat /\ job.at <= clock /\ clock \in Nat
      /\ job.plan \in Seq(Season)
      /\ \A i \in DOMAIN job.plan : ~job.plan[i].completed
      /\ job.unfinished \subseteq DOMAIN seasons
      /\ \A s \in job.unfinished : seasons[s].end <= clock
  BY <1>0 DEF CommitSeasons, SeasonsSound, KeepersSound, RowsTyped
<1>2. /\ seasons' = Completed(rows, S) /\ announced' = Announce(S)
      /\ keepers' = [keepers EXCEPT ![k] = None]
      /\ UNCHANGED <<members, matches, clock>>
  BY <1>0 DEF CommitSeasons
<1>3. /\ rows \in Seq(Season)
      /\ DOMAIN rows = DOMAIN seasons \cup created
      /\ DOMAIN seasons \cap created = {}
      /\ \A s \in DOMAIN seasons : rows[s] = seasons[s]
      /\ \A s \in created : ~rows[s].completed
  <2>1. seasons \in Seq(Season)
    BY DEF SeasonsSound, RowsTyped
  <2>2. /\ rows \in Seq(Season) /\ Len(rows) = Len(seasons) + Len(job.plan)
        /\ \A i \in 1..Len(seasons) : rows[i] = seasons[i]
        /\ \A i \in created : rows[i] = job.plan[i - Len(seasons)]
    BY <1>0, <1>1, <2>1
  <2>3. \A i \in created : i - Len(seasons) \in DOMAIN job.plan
    BY <1>0, <1>1, <2>1
  <2> QED
    BY <1>0, <1>1, <2>1, <2>2, <2>3
<1>4. /\ seasons' \in Seq(Season) /\ DOMAIN seasons' = DOMAIN rows
      /\ \A s \in DOMAIN rows : /\ seasons'[s].end = rows[s].end
                               /\ seasons'[s].completed = (rows[s].completed \/ s \in S)
  BY <1>2, <1>3, CompletedRows
<1>5. ASSUME NEW s \in DOMAIN seasons, NEW own, Over(s, own)
      PROVE  Over(s, own)'
  <2>1. clock' \in Nat /\ clock <= clock'
    BY <1>1, <1>2
  <2>2. seasons'[s].end = seasons[s].end
    BY <1>3, <1>4
  <2> QED
    BY <1>2, <1>5, <2>1, <2>2, OverKept DEF SeasonsSound
<1>6. S \subseteq DOMAIN seasons' /\ \A s \in S : Over(s, {})'
  <2>1. S \subseteq DOMAIN rows
    BY <1>0, <1>1, <1>3
  <2>2. ASSUME NEW s \in S
        PROVE  seasons'[s].end <= clock /\ OpenMatches(s) = {}
    <3>1. CASE s \in job.unfinished /\ NoneLeft(s, {})
      BY <3>1, <1>1, <1>3, <1>4 DEF NoneLeft
    <3>2. CASE s \in created /\ rows[s].end <= job.at
      <4>0. rows[s] \in Season
        BY <1>3, <3>2
      <4>1. rows[s].end \in Nat
        BY <4>0 DEF Season
      <4>2. OpenMatches(s) = {}
        BY <1>3, <3>2 DEF OpenMatches, SeasonsSound, RowsTyped
      <4> QED
        BY <1>1, <1>3, <1>4, <3>2, <4>1, <4>2
    <3> QED
      BY <1>0, <2>2, <3>1, <3>2
  <2>3. \A s \in S : OpenMatches(s)' = {}
    BY <1>2, <2>2 DEF OpenMatches
  <2> QED
    BY <1>2, <1>4, <2>1, <2>2, <2>3 DEF Over
<1>7. CompletionSound' /\ announced' \in [SeasonId -> Nat]
  <2>1. CompletionSound /\ announced \in [SeasonId -> Nat]
    BY DEF SeasonsSound, RowsTyped
  <2>2. \A s \in DOMAIN seasons : seasons'[s].completed = (seasons[s].completed \/ s \in S)
    BY <1>3, <1>4
  <2>3. \A s \in DOMAIN seasons' \ DOMAIN seasons : seasons'[s].completed = (s \in S)
    BY <1>3, <1>4
  <2>4. announced' = Announce(S) /\ DOMAIN seasons \subseteq DOMAIN seasons'
    BY <1>2, <1>3, <1>4
  <2> QED
    BY <1>5, <1>6, <2>1, <2>2, <2>3, <2>4, CompletionStep
<1>8. RowsTyped'
  <2>1. \A key \in DOMAIN stats' : stats'[key] \in Row
    BY StatsStep DEF SeasonsSound
  <2> QED
    BY <1>2, <1>3, <1>4, <1>7, <2>1 DEF SeasonsSound, RowsTyped
<1>9. KeepersSound'
  <2> SUFFICES ASSUME NEW j \in Keeper, keepers'[j] # None
               PROVE  /\ keepers'[j].at \in Nat /\ keepers'[j].at <= clock'
                      /\ keepers'[j].plan \in Seq(Season)
                      /\ \A i \in DOMAIN keepers'[j].plan : ~keepers'[j].plan[i].completed
                      /\ keepers'[j].unfinished \subseteq DOMAIN seasons'
                      /\ \A s \in keepers'[j].unfinished : seasons'[s].end <= clock'
    BY DEF KeepersSound
  <2>1. keepers'[j] = keepers[j]
    BY <1>2
  <2> QED
    BY <1>2, <1>3, <1>4, <2>1 DEF SeasonsSound, KeepersSound
<1>10. ChecksSound'
  <2> SUFFICES ASSUME NEW n \in DOMAIN matches', matches'[n].last,
                      NEW q, q = matches'[n].season
               PROVE  matches'[n].phase = "checked" /\ Over(q, {n})'
    BY DEF ChecksSound
  <2>1. matches[n].phase = "checked" /\ Over(q, {n}) /\ q \in DOMAIN seasons
    BY <1>2 DEF SeasonsSound, ChecksSound, RowsTyped
  <2> QED
    BY <1>2, <1>5, <2>1
<1> QED
  BY <1>7, <1>8, <1>9, <1>10 DEF SeasonsSound

\* What a maintenance reads is so when it reads it.
LEMMA BeginMaintenanceStep ==
  ASSUME SeasonsSound, [Next]_vars, NEW k \in Keeper, BeginMaintenance(k)
  PROVE  SeasonsSound'
<1>0. PICK tail : tail = IF seasons = <<>> THEN LastBoundary(clock)
                         ELSE IF Active(clock) # {} THEN seasons[LastOf(Active(clock))].end
                         ELSE seasons[LastOf(DOMAIN seasons)].end
  OBVIOUS
<1>1. clock \in Nat /\ seasons \in Seq(Season)
      /\ \A s \in DOMAIN seasons : seasons[s] \in Season
  BY DEF SeasonsSound, RowsTyped
<1>2. tail \in Nat
  <2>1. CASE seasons = <<>>
    BY <1>0, <1>1, <2>1, BoundaryTyped
  <2>2. CASE seasons # <<>> /\ Active(clock) # {}
    <3>1. LastOf(Active(clock)) \in DOMAIN seasons
      BY <2>2, LastSeason DEF Active, SeasonsSound
    <3> QED
      BY <1>0, <1>1, <2>2, <3>1 DEF Season
  <2>3. CASE seasons # <<>> /\ Active(clock) = {}
    <3>1. DOMAIN seasons # {}
      BY <1>1, <2>3
    <3>2. LastOf(DOMAIN seasons) \in DOMAIN seasons
      BY <3>1, LastSeason DEF SeasonsSound
    <3> QED
      BY <1>0, <1>1, <2>3, <3>2 DEF Season
  <2> QED
    BY <2>1, <2>2, <2>3
<1>3. PICK plan, unfinished :
        /\ plan = SeasonsFrom(tail, Missing(tail))
        /\ unfinished = IF k = "worker" THEN Unfinished ELSE {}
        /\ keepers' = [keepers EXCEPT ![k] =
             [at |-> clock, plan |-> plan, seen |-> members, unfinished |-> unfinished,
              forced |-> forced]]
  BY <1>0 DEF BeginMaintenance
<1>4. plan \in Seq(Season) /\ \A i \in DOMAIN plan : ~plan[i].completed
  BY <1>1, <1>2, <1>3, MissingTyped, PlanTyped
<1>5. unfinished \subseteq DOMAIN seasons /\ \A s \in unfinished : seasons[s].end <= clock
  BY <1>3 DEF Unfinished
<1>6. UNCHANGED <<seasons, members, stats, matches, announced, clock>>
  BY DEF BeginMaintenance
<1>7. KeepersSound'
  <2> SUFFICES ASSUME NEW j \in Keeper, keepers'[j] # None
               PROVE  /\ keepers'[j].at \in Nat /\ keepers'[j].at <= clock
                      /\ keepers'[j].plan \in Seq(Season)
                      /\ \A i \in DOMAIN keepers'[j].plan : ~keepers'[j].plan[i].completed
                      /\ keepers'[j].unfinished \subseteq DOMAIN seasons
                      /\ \A s \in keepers'[j].unfinished : seasons[s].end <= clock
    BY <1>6 DEF KeepersSound
  <2>1. CASE j = k /\ k \in DOMAIN keepers
    BY <1>1, <1>3, <1>4, <1>5, <2>1
  <2>2. CASE keepers'[j] = keepers[j]
    BY <2>2 DEF SeasonsSound, KeepersSound
  <2> QED
    BY <1>3, <2>1, <2>2
<1> QED
  BY <1>1, <1>6, <1>7, QuietStep DEF SeasonsSound, RowsTyped

\* A season that is ended by force was not completed.
LEMMA ForceEndStep ==
  ASSUME SeasonsSound, [Next]_vars, ForceEnd
  PROVE  SeasonsSound'
<1>0. PICK active, upcoming :
        /\ active = LastOf(Active(clock))
        /\ upcoming = LastOf(Following(active))
        /\ seasons' = [seasons EXCEPT ![active].end = clock, ![upcoming].start = clock]
  BY DEF ForceEnd
<1>1. clock \in Nat /\ seasons \in Seq(Season)
      /\ \A s \in DOMAIN seasons : seasons[s] \in Season
  BY DEF SeasonsSound, RowsTyped
<1>2. active \in DOMAIN seasons /\ clock < seasons[active].end
  <2>1. Active(clock) # {} /\ Active(clock) \subseteq DOMAIN seasons
    BY DEF ForceEnd, PairAt, Active
  <2>2. active \in Active(clock)
    BY <1>0, <2>1, LastSeason DEF SeasonsSound
  <2> QED
    BY <2>2 DEF Active
<1>3. /\ DOMAIN seasons' = DOMAIN seasons
      /\ \A s \in DOMAIN seasons :
           /\ seasons'[s] \in Season
           /\ seasons'[s].completed = seasons[s].completed
           /\ s # active => seasons'[s].end = seasons[s].end
  <2>1. DOMAIN seasons' = DOMAIN seasons
    BY <1>0
  <2>2. ASSUME NEW s \in DOMAIN seasons
        PROVE  seasons'[s] =
                 [start |-> IF s = upcoming THEN clock ELSE seasons[s].start,
                  end |-> IF s = active THEN clock ELSE seasons[s].end,
                  completed |-> seasons[s].completed]
    BY <1>0, <1>1, <2>2 DEF Season
  <2> QED
    BY <1>1, <2>1, <2>2 DEF Season
<1>4. seasons' \in Seq(Season)
  <2>1. DOMAIN seasons = 1..Len(seasons) /\ Len(seasons) \in Nat
    BY <1>1
  <2>2. seasons' = [s \in 1..Len(seasons) |-> seasons'[s]]
    BY <1>0, <2>1
  <2> QED
    BY <1>3, <2>1, <2>2
<1>5. UNCHANGED <<members, stats, matches, keepers, announced, clock>>
  BY DEF ForceEnd
<1>6. ASSUME NEW s \in DOMAIN seasons, NEW own, Over(s, own)
      PROVE  Over(s, own)'
  <2>1. s # active
    BY <1>1, <1>2, <1>6 DEF Over, Season
  <2> QED
    BY <1>1, <1>3, <1>5, <1>6, <2>1, OverKept DEF SeasonsSound
<1>7. RowsTyped'
  BY <1>3, <1>4, <1>5 DEF SeasonsSound, RowsTyped
<1>8. KeepersSound'
  <2>1. ASSUME NEW s \in DOMAIN seasons, seasons[s].end <= clock
        PROVE  seasons'[s].end <= clock
    <3>1. s # active
      BY <1>1, <1>2, <2>1 DEF Season
    <3> QED
      BY <1>3, <2>1, <3>1
  <2> QED
    BY <1>3, <1>5, <2>1 DEF SeasonsSound, KeepersSound
<1>9. ChecksSound'
  <2> SUFFICES ASSUME NEW n \in DOMAIN matches', matches'[n].last,
                      NEW q, q = matches'[n].season
               PROVE  matches'[n].phase = "checked" /\ Over(q, {n})'
    BY DEF ChecksSound
  <2>1. matches[n].phase = "checked" /\ Over(q, {n}) /\ q \in DOMAIN seasons
    BY <1>5 DEF SeasonsSound, ChecksSound, RowsTyped
  <2> QED
    BY <1>5, <1>6, <2>1
<1>10. CompletionSound'
  <2>1. (\A s \in DOMAIN seasons : seasons[s].completed => Over(s, {}))'
    BY <1>3, <1>6, CompletionIsOver DEF SeasonsSound
  <2>2. (\A s \in SeasonId :
           announced[s] = IF s \in DOMAIN seasons /\ seasons[s].completed THEN 1 ELSE 0)'
    BY <1>3, <1>5, CompletionIsOver DEF SeasonsSound
  <2> QED
    BY <2>1, <2>2 DEF CompletionSound, Over
<1> QED
  BY <1>7, <1>8, <1>9, <1>10 DEF SeasonsSound

\* Every step keeps the invariant.
LEMMA SeasonsStep ==
  ASSUME SeasonsSound, [Next]_vars
  PROVE  SeasonsSound'
<1>0. clock \in Nat /\ members \subseteq Players
      /\ \A key \in DOMAIN stats' : stats'[key] \in Row
  BY StatsStep DEF SeasonsSound, RowsTyped
<1>1. CASE UNCHANGED <<seasons, matches, announced, keepers, members, clock>>
  BY <1>0, <1>1, QuietStep DEF SeasonsSound
<1>2. ASSUME NEW p \in Players, BeginRegistration(p)
      PROVE  SeasonsSound'
  BY <1>1, <1>2 DEF BeginRegistration
<1>3. ASSUME NEW p \in Players, CommitRegistration(p)
      PROVE  SeasonsSound'
  BY <1>0, <1>3, QuietStep DEF CommitRegistration, SeasonsSound
<1>4. ASSUME NEW p \in members, NEW at \in TransactionTimes, JoinQueue(p, at)
      PROVE  SeasonsSound'
  BY <1>1, <1>4 DEF JoinQueue
<1>5. CASE Play
  BY <1>5, BeginMatchStep, CommitMatchStep, FinalizeMatchStep, CommitResultStep DEF Play
<1>6. ASSUME NEW k \in Keeper, Maintain(k)
      PROVE  SeasonsSound'
  <2>1. CASE RollBackSeasons(k)
    <3>1. KeepersSound'
      BY <2>1 DEF RollBackSeasons, SeasonsSound, KeepersSound
    <3> QED
      BY <1>0, <2>1, <3>1, QuietStep DEF RollBackSeasons, SeasonsSound
  <2> QED
    BY <1>6, <2>1, BeginMaintenanceStep, CommitSeasonsStep DEF Maintain
<1>7. CASE ForceEnd
  BY <1>7, ForceEndStep
<1>8. CASE Tick
  BY <1>0, <1>8, QuietStep DEF Tick, SeasonsSound
<1>9. CASE UNCHANGED vars
  BY <1>1, <1>9 DEF vars
<1> QED
  BY <1>2, <1>3, <1>4, <1>5, <1>6, <1>7, <1>8, <1>9 DEF Next

-----------------------------------------------------------------------------
\* The inductive invariant: what is read before a commit is still good at it.
THEOREM SeasonsInvariant == Spec => []SeasonsSound
<1>1. Init => SeasonsSound
  <2> SUFFICES ASSUME Init PROVE SeasonsSound
    OBVIOUS
  <2>1. seasons = <<>> /\ matches = <<>> /\ \A k \in Keeper : keepers[k] = None
    BY DEF Init
  <2>2. RowsTyped
    BY <2>1 DEF Init, RowsTyped
  <2>3. KeepersSound /\ ChecksSound
    BY <2>1 DEF KeepersSound, ChecksSound
  <2>4. CompletionSound
    BY <2>1 DEF Init, CompletionSound
  <2> QED
    BY <2>2, <2>3, <2>4 DEF SeasonsSound
<1> QED
  BY <1>1, SeasonsStep, PTL DEF Spec

\* A completed season is over, has no match left that was visible when it ended,
\* and is announced exactly once, whoever completes it, and whatever else is
\* committed between the check and the commit of a finalization (seasons.py).
THEOREM CompletionIsSound == Spec => []CompletionSound
<1>1. SeasonsSound => CompletionSound
  BY DEF SeasonsSound
<1> QED
  BY <1>1, SeasonsInvariant, PTL

\* No step takes a statistics row or a game away, or decides a carry-over anew
\* (resolve_player_format_stats_for_season).
THEOREM CarryoverIsFinal == Spec => CarryoverFinal
<1>1. SeasonsSound /\ [Next]_vars =>
        [ \A key \in DOMAIN stats :
            /\ key \in DOMAIN stats'
            /\ stats'[key].games >= stats[key].games
            /\ stats[key].carryover # "pending" =>
                 stats'[key].carryover = stats[key].carryover ]_vars
  BY StatsStep DEF SeasonsSound, Kept
<1> QED
  BY <1>1, SeasonsInvariant, PTL DEF Spec, CarryoverFinal

-----------------------------------------------------------------------------
\* Every maintenance under way began at most a month ago and has seen at most
\* one forced end.
Timely ==
  \A k \in Keeper : keepers[k] # None =>
    clock <= keepers[k].at + Length /\ forced <= keepers[k].forced + 1

\* The chain, of seasons that last.
Lined ==
  /\ \A s \in DOMAIN seasons : seasons[s].start < seasons[s].end
  /\ SeasonsChain

\* A planned season and one that exists have both boundaries in common, but for
\* one boundary that each forced end may have moved.
Meets(x, y, moves) ==
  \/ x.start = y.start /\ x.end = y.end
  \/ moves >= 1 /\ (x.start = y.start \/ x.end = y.end)
  \/ moves >= 2

Beaten(job) ==
  \E i \in DOMAIN job.plan, s \in DOMAIN seasons :
    Meets(seasons[s], job.plan[i], forced - job.forced)

\* What is to be created goes on from the last season.
Fits(job) ==
  LET n == Len(job.plan)
      from == job.plan[1].start
  IN  /\ Len(seasons) + n <= MaxSeasons
      /\ IF seasons = <<>> THEN n >= 2 /\ from = LastBoundary(job.at)
         ELSE from = seasons[Len(seasons)].end

\* A maintenance whose plan does not fit any more is going to fail.
PlanFits(job) ==
  /\ job.forced \in 0..forced
  /\ Len(job.plan) <= MaxSeasons
  /\ job.plan # <<>> =>
       /\ job.plan = SeasonsFrom(job.plan[1].start, Len(job.plan))
       /\ Fits(job) \/ Beaten(job)

PlansFit == \A k \in Keeper : keepers[k] # None => PlanFits(keepers[k])

\* What was read of players and seasons is still there.
ReadersSound ==
  /\ \A p \in DOMAIN registering : registering[p].seen \subseteq DOMAIN seasons
  /\ \A k \in Keeper : keepers[k] # None => keepers[k].seen \subseteq members

ChainSound == TypeOK /\ Lined /\ ReadersSound /\ PlansFit

-----------------------------------------------------------------------------
\* Multiples of a month.
LEMMA Products ==
  ASSUME NEW i \in Nat, NEW j \in Nat
  PROVE  /\ i * Length \in Nat
         /\ i < j => i * Length + Length <= j * Length
<1>1. Length \in Nat /\ Length > 0
  BY SeasonsAssumption
<1>2. i * Length \in Nat
  BY <1>1
<1>3. ASSUME i < j
      PROVE  i * Length + Length <= j * Length
  <2>1. (j - i - 1) * Length >= 0
    BY <1>1, <1>3
  <2>2. j * Length = i * Length + Length + (j - i - 1) * Length
    BY <1>1
  <2> QED
    BY <1>1, <1>2, <2>1, <2>2
<1> QED
  BY <1>2, <1>3

\* The boundary before a time, and that of a boundary.
LEMMA Boundaries ==
  ASSUME NEW t \in Nat
  PROVE  /\ LastBoundary(t) \in Nat
         /\ LastBoundary(t) <= t /\ t < LastBoundary(t) + Length
         /\ LastBoundary(LastBoundary(t)) = LastBoundary(t)
<1>1. Length \in Nat /\ Length > 0
  BY SeasonsAssumption
<1> DEFINE q == t \div Length
           r == LastBoundary(t) \div Length
<1>2. q \in Nat /\ LastBoundary(t) = q * Length /\ LastBoundary(t) \in Nat
  BY BoundaryTyped DEF LastBoundary
<1>3. q * Length <= t /\ t < q * Length + Length
  BY <1>1
<1>4. r \in Nat /\ r * Length <= LastBoundary(t) /\ LastBoundary(t) < r * Length + Length
  BY <1>1, <1>2
<1> HIDE DEF q, r
<1>5. r = q
  <2>1. ~(r < q)
    BY <1>1, <1>2, <1>4, Products
  <2>2. ~(q < r)
    BY <1>1, <1>2, <1>4, Products
  <2> QED
    BY <1>2, <1>4, <2>1, <2>2
<1> QED
  BY <1>2, <1>3, <1>5 DEF LastBoundary, r

\* Times at most a month apart are in the same month or in neighbouring ones.
LEMMA NeighbourMonths ==
  ASSUME NEW t \in Nat, NEW u \in Nat, t <= u, u <= t + Length
  PROVE  LastBoundary(u) = LastBoundary(t) \/ LastBoundary(u) = LastBoundary(t) + Length
<1>1. Length \in Nat /\ Length > 0
  BY SeasonsAssumption
<1> DEFINE p == t \div Length
           q == u \div Length
<1>2. p \in Nat /\ q \in Nat
  BY BoundaryTyped
<1>3. LastBoundary(t) = p * Length /\ LastBoundary(u) = q * Length
  BY DEF LastBoundary
<1>4. /\ p * Length <= t /\ t < p * Length + Length
      /\ q * Length <= u /\ u < q * Length + Length
  BY <1>3, Boundaries
<1> HIDE DEF p, q
<1>5. p <= q
  <2>1. ~(q < p)
    BY <1>1, <1>2, <1>4, Products
  <2> QED
    BY <1>2, <2>1
<1>6. q <= p + 1
  <2>1. ASSUME p + 1 < q
        PROVE  FALSE
    <3>1. (p + 1) * Length = p * Length + Length
      BY <1>1, <1>2
    <3>2. (p + 1) * Length + Length <= q * Length
      BY <1>2, <2>1, Products
    <3>3. p * Length \in Nat /\ q * Length \in Nat
      BY <1>2, Products
    <3> QED
      BY <1>1, <1>4, <3>1, <3>2, <3>3
  <2> QED
    BY <1>2, <2>1
<1>7. (p + 1) * Length = p * Length + Length
  BY <1>1, <1>2
<1>8. q = p \/ q = p + 1
  BY <1>2, <1>5, <1>6
<1> QED
  BY <1>3, <1>7, <1>8

\* A plan for n months from a time on: its seasons follow each other.
Follows(plan, from, n) ==
  /\ plan \in Seq(Season) /\ Len(plan) = n /\ DOMAIN plan = 1..n
  /\ n >= 1 => plan[1].start = from /\ plan[1].end = LastBoundary(from) + Length
  /\ \A i \in 1..n : plan[i].start < plan[i].end /\ from <= plan[i].start
  /\ \A i, j \in 1..n : i < j => plan[i].end <= plan[j].start
  /\ \A i \in 1..n : i > 1 => plan[i].start = plan[i - 1].end
  /\ \A i \in 1..n : plan[i].end = LastBoundary(from) + i * Length

\* What is planned follows each other.
LEMMA PlanLined ==
  ASSUME NEW from \in Nat, NEW n \in Nat, NEW plan, plan = SeasonsFrom(from, n)
  PROVE  Follows(plan, from, n)
<1>1. Length \in Nat /\ Length > 0
  BY SeasonsAssumption
<1>2. plan \in Seq(Season)
  BY PlanTyped
<1>3. Len(plan) = n /\ DOMAIN plan = 1..n
  BY <1>2 DEF SeasonsFrom
<1>4. \A i \in 1..n :
        /\ plan[i].start = IF i = 1 THEN from ELSE LastBoundary(from) + (i - 1) * Length
        /\ plan[i].end = LastBoundary(from) + i * Length
  BY DEF SeasonsFrom
<1>5. /\ LastBoundary(from) \in Nat
      /\ LastBoundary(from) <= from /\ from < LastBoundary(from) + Length
  BY Boundaries
<1>6. 1 * Length = Length
  BY <1>1
<1>7. n >= 1 => plan[1].start = from /\ plan[1].end = LastBoundary(from) + Length
  BY <1>4, <1>6
<1>8. ASSUME NEW i \in 1..n
      PROVE  plan[i].start < plan[i].end /\ from <= plan[i].start
  <2>1. CASE i = 1
    BY <1>5, <1>7, <2>1
  <2>2. CASE i > 1
    <3>1. /\ (i - 1) * Length \in Nat /\ i * Length \in Nat
          /\ (i - 1) * Length + Length <= i * Length
      BY <2>2, Products
    <3>2. 0 * Length + Length <= (i - 1) * Length /\ 0 * Length = 0
      BY <2>2, <1>1, Products
    <3> QED
      BY <1>1, <1>4, <1>5, <2>2, <3>1, <3>2
  <2> QED
    BY <2>1, <2>2
<1>9. ASSUME NEW i \in 1..n, NEW j \in 1..n, i < j
      PROVE  plan[i].end <= plan[j].start
  <2>1. i * Length \in Nat /\ (j - 1) * Length \in Nat /\ (i = j - 1 \/ i < j - 1)
    BY <1>9, Products
  <2>2. i * Length <= (j - 1) * Length
    BY <1>1, <1>9, <2>1, Products
  <2> QED
    BY <1>4, <1>5, <1>9, <2>1, <2>2
<1>10. ASSUME NEW i \in 1..n, i > 1
       PROVE  plan[i].start = plan[i - 1].end
  <2>1. i - 1 \in 1..n /\ i # 1
    BY <1>10
  <2> QED
    BY <1>4, <2>1
<1> QED
  BY <1>2, <1>3, <1>4, <1>7, <1>8, <1>9, <1>10 DEF Follows

\* The rows keep their boundaries when seasons are completed.
LEMMA CompletedBounds ==
  ASSUME NEW rows \in Seq(Season), NEW S
  PROVE  /\ Len(Completed(rows, S)) = Len(rows)
         /\ \A s \in DOMAIN rows :
              /\ Completed(rows, S)[s].start = rows[s].start
              /\ Completed(rows, S)[s].end = rows[s].end
<1>1. DOMAIN rows = 1..Len(rows) /\ \A s \in DOMAIN rows : rows[s] \in Season
  OBVIOUS
<1>2. Completed(rows, S) \in Seq(Season) /\ DOMAIN Completed(rows, S) = DOMAIN rows
  BY CompletedRows
<1>3. \A s \in DOMAIN rows :
        Completed(rows, S)[s] = [rows[s] EXCEPT !.completed = @ \/ s \in S]
  BY DEF Completed
<1> QED
  BY <1>1, <1>2, <1>3 DEF Season

\* The boundaries are times.
LEMMA SeasonTimes ==
  ASSUME RowsTyped
  PROVE  /\ Len(seasons) \in Nat /\ DOMAIN seasons = 1..Len(seasons)
         /\ seasons \in Seq(Season)
         /\ \A s \in DOMAIN seasons : seasons[s].start \in Nat /\ seasons[s].end \in Nat
<1>1. seasons \in Seq(Season)
  BY DEF RowsTyped
<1>2. \A s \in DOMAIN seasons : seasons[s] \in Season
  BY <1>1
<1> QED
  BY <1>1, <1>2 DEF Season

\* One season at a time is active.
LEMMA OneActive ==
  ASSUME RowsTyped, Lined, NEW at \in Nat, NEW s \in Active(at), NEW t \in Active(at)
  PROVE  s = t
<1>1. /\ s \in DOMAIN seasons /\ seasons[s].start <= at /\ at < seasons[s].end
      /\ t \in DOMAIN seasons /\ seasons[t].start <= at /\ at < seasons[t].end
  BY DEF Active
<1>2. ~(s < t) /\ ~(t < s)
  BY <1>1, SeasonTimes DEF Lined, SeasonsChain
<1> QED
  BY <1>1, <1>2, SeasonTimes

\* The season that follows another is the next row.
LEMMA FollowingIsNext ==
  ASSUME RowsTyped, Lined, NEW s \in DOMAIN seasons, NEW n \in Following(s)
  PROVE  n = s + 1 /\ n \in DOMAIN seasons
<1>1. n \in DOMAIN seasons /\ seasons[n].start = seasons[s].end
  BY DEF Following
<1>2. ~(n <= s)
  <2>1. n # s
    BY <1>1, SeasonTimes DEF Lined
  <2>2. ~(n < s)
    BY <1>1, SeasonTimes DEF Lined, SeasonsChain
  <2> QED
    BY <1>1, <2>1, <2>2, SeasonTimes
<1>3. ~(s + 1 < n)
  <2> SUFFICES ASSUME s + 1 < n PROVE FALSE
    OBVIOUS
  <2>1. s + 1 \in DOMAIN seasons
    BY <1>1, SeasonTimes
  <2>2. /\ seasons[s].end <= seasons[s + 1].start
        /\ seasons[s + 1].start < seasons[s + 1].end
        /\ seasons[s + 1].end <= seasons[n].start
    BY <1>1, <2>1, SeasonTimes DEF Lined, SeasonsChain
  <2> QED
    BY <1>1, <2>1, <2>2, SeasonTimes
<1> QED
  BY <1>1, <1>2, <1>3, SeasonTimes

\* The row that is last is the season that starts last.
LEMMA LastRowIsLast ==
  ASSUME RowsTyped, Lined, seasons # <<>>
  PROVE  LastOf(DOMAIN seasons) = Len(seasons) /\ Len(seasons) \in DOMAIN seasons
<1>1. Len(seasons) \in DOMAIN seasons /\ DOMAIN seasons # {}
  BY SeasonTimes
<1>2. \A t \in DOMAIN seasons : seasons[t].start <= seasons[Len(seasons)].start
  <2> SUFFICES ASSUME NEW t \in DOMAIN seasons, t # Len(seasons)
               PROVE  seasons[t].start <= seasons[Len(seasons)].start
    BY <1>1, SeasonTimes
  <2>1. seasons[t].start < seasons[t].end /\ seasons[t].end <= seasons[Len(seasons)].start
    BY <1>1, SeasonTimes DEF Lined, SeasonsChain
  <2> QED
    BY <1>1, <2>1, SeasonTimes
<1>3. \A s \in DOMAIN seasons :
        (\A t \in DOMAIN seasons : seasons[t].start <= seasons[s].start) => s = Len(seasons)
  <2> SUFFICES ASSUME NEW s \in DOMAIN seasons, s # Len(seasons),
                      seasons[Len(seasons)].start <= seasons[s].start
               PROVE  FALSE
    BY <1>1
  <2>1. seasons[s].start < seasons[s].end /\ seasons[s].end <= seasons[Len(seasons)].start
    BY <1>1, SeasonTimes DEF Lined, SeasonsChain
  <2> QED
    BY <1>1, <2>1, SeasonTimes
<1> QED
  BY <1>1, <1>2, <1>3 DEF LastOf

-----------------------------------------------------------------------------
\* A step that leaves the seasons and the maintenances alone.
LEMMA ChainAlone ==
  ASSUME Lined, PlansFit, UNCHANGED <<seasons, forced, keepers>>
  PROVE  Lined' /\ PlansFit'
BY DEF Lined, SeasonsChain, PlansFit, PlanFits, Fits, Beaten

\* A maintenance begins where the last season ends.
LEMMA BeginMaintenanceChain ==
  ASSUME SeasonsSound, ChainSound, NEW k \in Keeper, BeginMaintenance(k)
  PROVE  Lined' /\ PlansFit'
<1>0. PICK tail, plan, unfinished :
        /\ tail = IF seasons = <<>> THEN LastBoundary(clock)
                  ELSE IF Active(clock) # {} THEN seasons[LastOf(Active(clock))].end
                  ELSE seasons[LastOf(DOMAIN seasons)].end
        /\ Len(seasons) + Missing(tail) <= MaxSeasons
        /\ plan = SeasonsFrom(tail, Missing(tail))
        /\ keepers' = [keepers EXCEPT ![k] =
             [at |-> clock, plan |-> plan, seen |-> members, unfinished |-> unfinished,
              forced |-> forced]]
        /\ UNCHANGED <<seasons, forced>>
  BY DEF BeginMaintenance
<1>1. /\ RowsTyped /\ Lined /\ clock \in Nat /\ forced \in Nat /\ Len(seasons) \in Nat
      /\ MaxSeasons \in Nat
  BY SeasonTimes, SeasonsAssumption DEF SeasonsSound, ChainSound, RowsTyped, TypeOK
<1>2. Lined'
  BY <1>0, <1>1 DEF Lined, SeasonsChain
<1>3. tail \in Nat
  <2>1. CASE seasons = <<>>
    BY <1>0, <1>1, <2>1, BoundaryTyped
  <2>2. CASE seasons # <<>> /\ Active(clock) # {}
    <3>1. LastOf(Active(clock)) \in DOMAIN seasons
      BY <1>1, <2>2, LastSeason DEF Active
    <3> QED
      BY <1>0, <1>1, <2>2, <3>1, SeasonTimes
  <2>3. CASE seasons # <<>> /\ Active(clock) = {}
    BY <1>0, <1>1, <2>3, LastRowIsLast, SeasonTimes
  <2> QED
    BY <2>1, <2>2, <2>3
<1>4. Missing(tail) \in Nat
  BY <1>1, <1>3, MissingTyped
<1>5. /\ Len(plan) = Missing(tail)
      /\ plan # <<>> => Missing(tail) >= 1 /\ plan[1].start = tail
  <2>1. /\ plan \in Seq(Season) /\ Len(plan) = Missing(tail)
        /\ Missing(tail) >= 1 => plan[1].start = tail
    <3> DEFINE n == Missing(tail)
    <3>1. n \in Nat /\ plan = SeasonsFrom(tail, n)
      BY <1>0, <1>4
    <3> HIDE DEF n
    <3>2. plan \in Seq(Season) /\ Len(plan) = n /\ (n >= 1 => plan[1].start = tail)
      BY <1>3, <3>1, PlanLined DEF Follows
    <3> QED
      BY <3>2 DEF n
  <2>2. plan # <<>> => Len(plan) # 0
    BY <2>1
  <2> QED
    BY <1>4, <2>1, <2>2
<1>6. ASSUME plan # <<>>, seasons = <<>>
      PROVE  Missing(tail) >= 2 /\ tail = LastBoundary(clock)
  <2>1. tail = LastBoundary(clock) /\ tail <= clock
    BY <1>0, <1>1, <1>6, Boundaries
  <2>2. ~PairAt(clock)
    BY <1>6 DEF PairAt, Active
  <2>3. Missing(tail) = (clock \div Length) - (tail \div Length) + 2
    BY <1>1, <1>3, <2>1, <2>2 DEF Missing
  <2>4. tail \div Length <= clock \div Length
    BY <1>1, <1>3, <2>1, SeasonsAssumption
  <2> QED
    BY <1>1, <1>3, <2>1, <2>3, <2>4, BoundaryTyped
<1>7. ASSUME plan # <<>>, seasons # <<>>
      PROVE  tail = seasons[Len(seasons)].end
  <2>1. ~PairAt(clock)
    BY <1>5, <1>7 DEF Missing
  <2>2. CASE Active(clock) # {}
    <3> DEFINE a == LastOf(Active(clock))
    <3>1. a \in Active(clock) /\ a \in DOMAIN seasons
      BY <1>1, <2>2, LastSeason DEF Active
    <3> HIDE DEF a
    <3>2. Following(a) = {}
      BY <2>1, <3>1 DEF PairAt
    <3>3. a + 1 \notin DOMAIN seasons
      BY <1>1, <3>1, <3>2, SeasonTimes DEF Following, Lined, SeasonsChain
    <3>4. a = Len(seasons)
      BY <1>1, <3>1, <3>3, SeasonTimes
    <3> QED
      BY <1>0, <1>7, <2>2, <3>4 DEF a
  <2>3. CASE Active(clock) = {}
    BY <1>0, <1>1, <1>7, <2>3, LastRowIsLast
  <2> QED
    BY <2>2, <2>3
<1>8. ASSUME NEW job, job = [at |-> clock, plan |-> plan, seen |-> members,
                             unfinished |-> unfinished, forced |-> forced]
      PROVE  PlanFits(job)'
  <2>1. /\ job.at = clock /\ job.plan = plan /\ job.forced = forced
        /\ seasons' = seasons /\ forced' = forced
    BY <1>0, <1>8
  <2>2. job.forced \in 0..forced'
    BY <1>1, <2>1
  <2>3. Len(job.plan) <= MaxSeasons
    BY <1>0, <1>1, <1>4, <1>5, <2>1
  <2>4. ASSUME job.plan # <<>>
        PROVE  job.plan = SeasonsFrom(job.plan[1].start, Len(job.plan)) /\ Fits(job)'
    <3>1. job.plan = SeasonsFrom(job.plan[1].start, Len(job.plan))
      BY <1>0, <1>5, <2>1, <2>4
    <3>2. Len(seasons) + Len(job.plan) <= MaxSeasons
      BY <1>0, <1>5, <2>1
    <3>3. IF seasons = <<>> THEN Len(job.plan) >= 2 /\ job.plan[1].start = LastBoundary(job.at)
          ELSE job.plan[1].start = seasons[Len(seasons)].end
      BY <1>5, <1>6, <1>7, <2>1, <2>4
    <3> QED
      BY <2>1, <3>1, <3>2, <3>3 DEF Fits
  <2> QED
    BY <2>2, <2>3, <2>4 DEF PlanFits
<1>9. PlansFit'
  <2> SUFFICES ASSUME NEW j \in Keeper, keepers'[j] # None, NEW job, job = keepers'[j]
               PROVE  PlanFits(job)'
    BY DEF PlansFit
  <2>1. CASE j = k /\ k \in DOMAIN keepers
    BY <1>0, <1>8, <2>1
  <2>2. CASE keepers'[j] = keepers[j]
    <3>1. PlanFits(job)
      BY <2>2 DEF ChainSound, PlansFit
    <3> QED
      BY <1>0, <3>1 DEF PlanFits, Fits, Beaten
  <2> QED
    BY <1>0, <2>1, <2>2
<1> QED
  BY <1>2, <1>9

\* A step that completes seasons or ends maintenances, and moves no boundary.
LEMMA BoundsAlone ==
  ASSUME Lined, PlansFit, forced' = forced,
         DOMAIN seasons' = DOMAIN seasons, Len(seasons') = Len(seasons),
         seasons = <<>> <=> seasons' = <<>>,
         \A s \in DOMAIN seasons :
           seasons'[s].start = seasons[s].start /\ seasons'[s].end = seasons[s].end,
         seasons # <<>> => Len(seasons) \in DOMAIN seasons,
         \A s \in DOMAIN seasons : s > 1 => s - 1 \in DOMAIN seasons,
         \A k \in Keeper : keepers'[k] \in {None, keepers[k]}
  PROVE  Lined' /\ PlansFit'
<1>1. Lined'
  BY DEF Lined, SeasonsChain
<1>2. ASSUME NEW k \in Keeper, keepers'[k] # None, NEW job, job = keepers'[k]
      PROVE  PlanFits(job)'
  <2>1. PlanFits(job)
    BY <1>2 DEF PlansFit
  <2>2. Fits(job) => Fits(job)'
    BY DEF Fits
  <2>3. Beaten(job) => Beaten(job)'
    BY DEF Beaten, Meets
  <2> QED
    BY <2>1, <2>2, <2>3 DEF PlanFits
<1> QED
  BY <1>1, <1>2 DEF PlansFit

\* At most one of several plans for the same seasons is carried out: the first
\* one to be committed beats the others.
LEMMA FirstBeatsOthers ==
  ASSUME RowsTyped, MaxSeasons \in Nat,
         NEW job, job.plan # <<>>, PlanFits(job), Fits(job), job.at \in Nat, job.plan \in Seq(Season),
         NEW other, other.plan # <<>>, PlanFits(other), Fits(other), other.at \in Nat,
         other.plan \in Seq(Season),
         job.at <= other.at + Length, other.at <= job.at + Length
  PROVE  \E i \in DOMAIN other.plan, s \in DOMAIN job.plan :
           /\ other.plan[i].start = job.plan[s].start
           /\ other.plan[i].end = job.plan[s].end
<1>0. Length \in Nat /\ Length > 0
  BY SeasonsAssumption
<1> DEFINE n == Len(job.plan)
           m == Len(other.plan)
           from == job.plan[1].start
           start == other.plan[1].start
<1>1. n \in Nat /\ n >= 1 /\ m \in Nat /\ m >= 1
  OBVIOUS
<1>2. from \in Nat /\ start \in Nat
  <2>1. job.plan[1] \in Season /\ other.plan[1] \in Season
    BY <1>1
  <2> QED
    BY <2>1 DEF Season
<1>3. job.plan = SeasonsFrom(from, n) /\ other.plan = SeasonsFrom(start, m)
  BY DEF PlanFits
<1>7. job.plan[1].start = from /\ other.plan[1].start = start
      /\ DOMAIN job.plan = 1..n /\ DOMAIN other.plan = 1..m
  OBVIOUS
<1>8. seasons = <<>> => /\ n >= 2 /\ from = LastBoundary(job.at)
                       /\ m >= 2 /\ start = LastBoundary(other.at)
  BY DEF Fits
<1>6. seasons # <<>> => start = from
  BY DEF Fits
<1> HIDE DEF n, m, from, start
<1>9. Follows(job.plan, from, n) /\ Follows(other.plan, start, m)
  BY <1>1, <1>2, <1>3, PlanLined
<1>4. CASE start = from
  <2>1. job.plan[1].end = LastBoundary(from) + Length
    BY <1>1, <1>9 DEF Follows
  <2>2. other.plan[1].end = LastBoundary(start) + Length
    BY <1>1, <1>9 DEF Follows
  <2>3. 1 \in DOMAIN job.plan /\ 1 \in DOMAIN other.plan
    BY <1>1, <1>7
  <2> QED
    BY <1>4, <1>7, <2>1, <2>2, <2>3
<1>5. CASE seasons = <<>>
  <2>1. /\ n >= 2 /\ from = LastBoundary(job.at)
        /\ m >= 2 /\ start = LastBoundary(other.at)
    BY <1>5, <1>8
  <2>2. /\ LastBoundary(from) = from /\ LastBoundary(start) = start
    BY <2>1, Boundaries
  <2>3. start = from \/ start = from + Length \/ from = start + Length
    <3>1. CASE job.at <= other.at
      BY <2>1, <3>1, NeighbourMonths
    <3>2. CASE other.at <= job.at
      BY <2>1, <3>2, NeighbourMonths
    <3> QED
      BY <3>1, <3>2
  <2>4. /\ 1 \in 1..n /\ 2 \in 1..n /\ 1 \in 1..m /\ 2 \in 1..m
        /\ 1 * Length = Length /\ 2 * Length = Length + Length
    BY <1>0, <1>1, <2>1
  <2>5. /\ DOMAIN job.plan = 1..n
        /\ job.plan[1].end = from + Length
        /\ job.plan[2].start = from + Length
        /\ job.plan[2].end = from + Length + Length
    <3>1. /\ DOMAIN job.plan = 1..n
          /\ \A i \in 1..n : i > 1 => job.plan[i].start = job.plan[i - 1].end
          /\ \A i \in 1..n : job.plan[i].end = LastBoundary(from) + i * Length
      BY <1>9 DEF Follows
    <3>2. job.plan[1].end = from + Length /\ job.plan[2].end = from + (Length + Length)
      BY <2>2, <2>4, <3>1
    <3>3. job.plan[2].start = job.plan[1].end
      BY <2>4, <3>1
    <3> QED
      BY <1>0, <1>2, <3>1, <3>2, <3>3
  <2>6. /\ DOMAIN other.plan = 1..m
        /\ other.plan[1].end = start + Length
        /\ other.plan[2].start = start + Length
        /\ other.plan[2].end = start + Length + Length
    <3>1. /\ DOMAIN other.plan = 1..m
          /\ \A i \in 1..m : i > 1 => other.plan[i].start = other.plan[i - 1].end
          /\ \A i \in 1..m : other.plan[i].end = LastBoundary(start) + i * Length
      BY <1>9 DEF Follows
    <3>2. other.plan[1].end = start + Length /\ other.plan[2].end = start + (Length + Length)
      BY <2>2, <2>4, <3>1
    <3>3. other.plan[2].start = other.plan[1].end
      BY <2>4, <3>1
    <3> QED
      BY <1>0, <1>2, <3>1, <3>2, <3>3
  <2>7. CASE start = from + Length
    <3>1. /\ other.plan[1].start = job.plan[2].start
          /\ other.plan[1].end = job.plan[2].end
      BY <1>7, <2>5, <2>6, <2>7
    <3> QED
      BY <2>4, <2>5, <2>6, <3>1
  <2>8. CASE from = start + Length
    <3>1. /\ other.plan[2].start = job.plan[1].start
          /\ other.plan[2].end = job.plan[1].end
      BY <1>7, <2>5, <2>6, <2>8
    <3> QED
      BY <2>4, <2>5, <2>6, <3>1
  <2> QED
    BY <1>4, <2>3, <2>7, <2>8
<1> QED
  BY <1>4, <1>5, <1>6

\* New seasons follow the last one, or they are not created.
LEMMA CommitSeasonsChain ==
  ASSUME SeasonsSound, ChainSound, Timely, NEW k \in Keeper, CommitSeasons(k)
  PROVE  Lined' /\ PlansFit' /\ Len(seasons') <= MaxSeasons
<1>0. PICK job, rows, S :
        /\ job = keepers[k] /\ rows = seasons \o job.plan
        /\ job # None /\ ~Clash(job)
        /\ seasons' = Completed(rows, S)
        /\ keepers' = [keepers EXCEPT ![k] = None]
        /\ UNCHANGED <<forced, clock>>
  BY DEF CommitSeasons
<1>1. /\ RowsTyped /\ Lined /\ PlansFit /\ clock \in Nat /\ forced \in Nat
      /\ MaxSeasons \in Nat /\ Length \in Nat /\ Len(seasons) <= MaxSeasons
  BY SeasonsAssumption DEF SeasonsSound, ChainSound, RowsTyped, TypeOK
<1>2. /\ Len(seasons) \in Nat /\ DOMAIN seasons = 1..Len(seasons) /\ seasons \in Seq(Season)
      /\ \A s \in DOMAIN seasons : seasons[s].start \in Nat /\ seasons[s].end \in Nat
  BY <1>1, SeasonTimes
<1>3. \A j \in Keeper : keepers'[j] \in {None, keepers[j]}
  BY <1>0
<1>4. /\ job.at \in Nat /\ job.at <= clock /\ clock <= job.at + Length
      /\ job.plan \in Seq(Season)
      /\ job.forced \in 0..forced /\ forced <= job.forced + 1
      /\ PlanFits(job)
  BY <1>0, <1>1 DEF SeasonsSound, KeepersSound, Timely, PlansFit, PlanFits
<1>5. CASE job.plan = <<>>
  <2>1. rows = seasons
    BY <1>0, <1>2, <1>5
  <2>2. /\ DOMAIN seasons' = DOMAIN seasons /\ Len(seasons') = Len(seasons)
        /\ seasons' \in Seq(Season)
        /\ \A s \in DOMAIN seasons :
             seasons'[s].start = seasons[s].start /\ seasons'[s].end = seasons[s].end
    BY <1>0, <1>2, <2>1, CompletedRows, CompletedBounds
  <2>3. seasons = <<>> <=> seasons' = <<>>
    BY <1>2, <2>2
  <2>4. /\ seasons # <<>> => Len(seasons) \in DOMAIN seasons
        /\ \A s \in DOMAIN seasons : s > 1 => s - 1 \in DOMAIN seasons
    BY <1>2
  <2> QED
    BY <1>0, <1>1, <1>3, <2>2, <2>3, <2>4, BoundsAlone
<1>6. CASE job.plan # <<>>
  <2> DEFINE L == Len(seasons)
             n == Len(job.plan)
             from == job.plan[1].start
  <2>1. ~Beaten(job)
    BY <1>0, <1>1, <1>4 DEF Beaten, Meets, Clash
  <2>2. Fits(job) /\ job.plan = SeasonsFrom(from, n)
    BY <1>4, <1>6, <2>1 DEF PlanFits
  <2>12. /\ L + n <= MaxSeasons
         /\ L >= 1 => from = seasons[L].end
    BY <1>2, <2>2 DEF Fits
  <2>3. n \in Nat /\ n >= 1 /\ from \in Nat /\ L \in Nat
    <3>1. n \in Nat /\ n >= 1
      BY <1>4, <1>6
    <3>2. job.plan[1] \in Season
      BY <1>4, <3>1
    <3> QED
      BY <1>2, <3>1, <3>2 DEF Season
  <2>4. /\ rows \in Seq(Season) /\ Len(rows) = L + n
        /\ \A s \in 1..L : rows[s] = seasons[s]
        /\ \A i \in 1..n : rows[L + i] = job.plan[i]
    BY <1>0, <1>2, <1>4
  <2>13. DOMAIN seasons = 1..L /\ Len(seasons) = L
    BY <1>2
  <2> HIDE DEF L, n, from
  <2>5. /\ seasons' \in Seq(Season) /\ Len(seasons') = L + n /\ DOMAIN seasons' = 1..(L + n)
        /\ \A s \in DOMAIN seasons' :
             seasons'[s].start = rows[s].start /\ seasons'[s].end = rows[s].end
    <3>1. DOMAIN rows = 1..(L + n)
      BY <2>3, <2>4
    <3> QED
      <4>1. /\ seasons' \in Seq(Season) /\ DOMAIN seasons' = DOMAIN rows
        BY <1>0, <2>4, CompletedRows
      <4>2. /\ Len(seasons') = Len(rows)
            /\ \A s \in DOMAIN rows :
                 seasons'[s].start = rows[s].start /\ seasons'[s].end = rows[s].end
        <5>1. \A T : /\ Len(Completed(rows, T)) = Len(rows)
                     /\ \A s \in DOMAIN rows :
                          /\ Completed(rows, T)[s].start = rows[s].start
                          /\ Completed(rows, T)[s].end = rows[s].end
          BY <2>4, CompletedBounds
        <5> QED
          BY <1>0, <5>1
      <4> QED
        BY <2>4, <3>1, <4>1, <4>2
  <2>6. /\ \A s \in 1..L : seasons'[s].start = seasons[s].start /\ seasons'[s].end = seasons[s].end
        /\ \A i \in 1..n : /\ L + i \in DOMAIN seasons'
                           /\ seasons'[L + i].start = job.plan[i].start
                           /\ seasons'[L + i].end = job.plan[i].end
        /\ \A s \in 1..(L + n) : s \in 1..L \/ (s - L \in 1..n /\ s = L + (s - L))
    <3>1. \A s \in 1..L : s \in DOMAIN seasons'
      BY <2>3, <2>5
    <3>2. ASSUME NEW i \in 1..n
          PROVE  /\ L + i \in DOMAIN seasons'
                 /\ seasons'[L + i].start = job.plan[i].start
                 /\ seasons'[L + i].end = job.plan[i].end
      <4>1. L + i \in DOMAIN seasons'
        BY <2>3, <2>5
      <4> QED
        BY <2>4, <2>5, <4>1
    <3>3. \A s \in 1..(L + n) : s \in 1..L \/ (s - L \in 1..n /\ s = L + (s - L))
      BY <2>3
    <3>4. \A s \in 1..L : seasons'[s].start = seasons[s].start /\ seasons'[s].end = seasons[s].end
      BY <2>4, <2>5, <3>1
    <3> QED
      BY <3>2, <3>3, <3>4
  <2>7. /\ DOMAIN job.plan = 1..n
        /\ \A i \in 1..n : job.plan[i].start < job.plan[i].end /\ from <= job.plan[i].start
        /\ \A i, j \in 1..n : i < j => job.plan[i].end <= job.plan[j].start
        /\ \A i \in 1..n : i > 1 => job.plan[i].start = job.plan[i - 1].end
    <3>1. Follows(job.plan, from, n)
      BY <2>2, <2>3, PlanLined
    <3> QED
      BY <3>1 DEF Follows
  <2>9. \A i \in 1..n : job.plan[i].start \in Nat /\ job.plan[i].end \in Nat
    <3>1. \A i \in 1..n : job.plan[i] \in Season
      BY <1>4, <2>7 DEF n
    <3> QED
      BY <3>1 DEF Season
  <2>10. Lined'
    <3>1. (\A s \in DOMAIN seasons : seasons[s].start < seasons[s].end)'
      <4> SUFFICES ASSUME NEW s \in 1..(L + n)
                   PROVE  seasons'[s].start < seasons'[s].end
        BY <2>5
      <4>1. CASE s \in 1..L
        BY <1>1, <2>6, <2>13, <4>1 DEF Lined
      <4>2. CASE s - L \in 1..n /\ s = L + (s - L)
        BY <2>6, <2>7, <4>2
      <4> QED
        BY <2>6, <4>1, <4>2
    <3>2. ASSUME NEW s \in DOMAIN seasons', NEW t \in DOMAIN seasons', s < t
          PROVE  seasons'[s].end <= seasons'[t].start
      <4>1. CASE t \in 1..L
        <5>1. s \in 1..L
          BY <2>3, <2>5, <3>2, <4>1
        <5>2. seasons[s].end <= seasons[t].start
          BY <1>1, <2>13, <3>2, <4>1, <5>1 DEF Lined, SeasonsChain
        <5> QED
          BY <2>6, <4>1, <5>1, <5>2
      <4>2. CASE s \in 1..L /\ t - L \in 1..n
        <5>1. seasons[s].end <= seasons[L].end
          <6>1. CASE s = L
            BY <1>2, <2>13, <4>2, <6>1
          <6>2. CASE s < L
            <7>1. L \in DOMAIN seasons /\ s \in DOMAIN seasons
              BY <2>3, <2>13, <4>2, <6>2
            <7>2. seasons[s].end <= seasons[L].start /\ seasons[L].start < seasons[L].end
              BY <1>1, <6>2, <7>1 DEF Lined, SeasonsChain
            <7> QED
              BY <1>2, <7>1, <7>2
          <6> QED
            BY <2>3, <4>2, <6>1, <6>2
        <5>2. seasons[L].end = from /\ from <= job.plan[t - L].start
          BY <2>3, <2>7, <2>12, <4>2
        <5>3. /\ seasons'[t].start = job.plan[t - L].start
              /\ seasons'[s].end = seasons[s].end
          BY <2>3, <2>5, <2>6, <4>2
        <5>4. seasons[s].end \in Nat /\ seasons[L].end \in Nat /\ job.plan[t - L].start \in Nat
          <6>1. L \in 1..L
            BY <2>3, <4>2
          <6> QED
            BY <1>2, <2>9, <2>13, <4>2, <6>1
        <5> QED
          BY <5>1, <5>2, <5>3, <5>4
      <4>3. CASE s - L \in 1..n /\ t - L \in 1..n
        <5>1. s - L < t - L
          BY <2>3, <2>5, <3>2
        <5>2. job.plan[s - L].end <= job.plan[t - L].start
          BY <2>7, <4>3, <5>1
        <5>3. seasons'[s].end = job.plan[s - L].end /\ seasons'[t].start = job.plan[t - L].start
          BY <2>3, <2>5, <2>6, <4>3
        <5> QED
          BY <5>2, <5>3
      <4> QED
        BY <2>3, <2>5, <2>6, <3>2, <4>1, <4>2, <4>3
    <3>3. ASSUME NEW s \in DOMAIN seasons', s > 1
          PROVE  seasons'[s].start = seasons'[s - 1].end
      <4>1. CASE s \in 1..L
        <5>1. s - 1 \in 1..L
          BY <2>3, <3>3, <4>1
        <5>2. seasons[s].start = seasons[s - 1].end
          BY <1>1, <2>13, <3>3, <4>1 DEF Lined, SeasonsChain
        <5> QED
          BY <2>6, <4>1, <5>1, <5>2
      <4>2. CASE s = L + 1
        <5>1. seasons'[s].start = from /\ seasons'[s - 1].end = seasons[L].end /\ L >= 1
          <6>1. L >= 1 /\ L \in 1..L /\ s - 1 = L /\ 1 \in 1..n
            BY <2>3, <3>3, <4>2
          <6>2. job.plan[1].start = from
            BY DEF from
          <6> QED
            BY <2>6, <4>2, <6>1, <6>2
        <5> QED
          BY <2>12, <5>1
      <4>3. CASE s - L \in 1..n /\ s - L > 1
        <5>1. s - L - 1 \in 1..n /\ s = L + (s - L) /\ s - 1 = L + (s - L - 1)
          BY <2>3, <2>5, <3>3, <4>3
        <5>2. job.plan[s - L].start = job.plan[s - L - 1].end
          BY <2>7, <4>3
        <5>3. seasons'[s].start = job.plan[s - L].start
          BY <2>6, <4>3, <5>1
        <5>4. seasons'[s - 1].end = job.plan[s - L - 1].end
          BY <2>6, <5>1
        <5> QED
          BY <5>2, <5>3, <5>4
      <4> QED
        BY <2>3, <2>5, <2>6, <3>3, <4>1, <4>2, <4>3
    <3> QED
      BY <3>1, <3>2, <3>3 DEF Lined, SeasonsChain
  <2>11. ASSUME NEW j \in Keeper, keepers'[j] # None, NEW other, other = keepers'[j]
         PROVE  PlanFits(other)'
    <3>1. /\ other = keepers[j] /\ PlanFits(other) /\ other.at \in Nat /\ other.at <= clock
          /\ clock <= other.at + Length /\ other.plan \in Seq(Season)
      BY <1>1, <1>3, <2>11 DEF PlansFit, SeasonsSound, KeepersSound, Timely
    <3>2. CASE other.plan = <<>>
      BY <1>0, <3>1, <3>2 DEF PlanFits
    <3>3. CASE Beaten(other)
      <4>1. Beaten(other)'
        <5>1. \A s \in DOMAIN seasons : s \in DOMAIN seasons'
          BY <2>3, <2>5, <2>13
        <5>2. \A s \in DOMAIN seasons :
                seasons'[s].start = seasons[s].start /\ seasons'[s].end = seasons[s].end
          BY <2>6, <2>13
        <5> QED
          BY <1>0, <3>3, <5>1, <5>2 DEF Beaten, Meets
      <4> QED
        BY <1>0, <3>1, <4>1 DEF PlanFits
    <3>4. CASE other.plan # <<>> /\ Fits(other)
      <4>1. job.at <= other.at + Length /\ other.at <= job.at + Length
        BY <1>1, <1>4, <3>1
      <4>2. PICK i \in DOMAIN other.plan, s \in DOMAIN job.plan :
              /\ other.plan[i].start = job.plan[s].start
              /\ other.plan[i].end = job.plan[s].end
        <5>1. RowsTyped /\ MaxSeasons \in Nat
          BY <1>1
        <5>2. /\ job.plan # <<>> /\ PlanFits(job) /\ Fits(job)
              /\ job.at \in Nat /\ job.plan \in Seq(Season)
          BY <1>4, <1>6, <2>2
        <5>3. /\ other.plan # <<>> /\ PlanFits(other) /\ Fits(other)
              /\ other.at \in Nat /\ other.plan \in Seq(Season)
          BY <3>1, <3>4
        <5> HIDE DEF L, n, from
        <5> QED
          BY <4>1, <5>1, <5>2, <5>3, FirstBeatsOthers
      <4>3. /\ L + s \in DOMAIN seasons'
            /\ seasons'[L + s].start = other.plan[i].start
            /\ seasons'[L + s].end = other.plan[i].end
        BY <2>6, <2>7, <4>2
      <4>4. Beaten(other)'
        BY <4>2, <4>3 DEF Beaten, Meets
      <4> QED
        BY <1>0, <3>1, <4>4 DEF PlanFits
    <3> QED
      BY <3>1, <3>2, <3>3, <3>4 DEF PlanFits
  <2> QED
    BY <2>5, <2>12, <2>10, <2>11 DEF PlansFit
<1> QED
  BY <1>5, <1>6

\* The end by force moves one boundary, and not that of the last season.
LEMMA ForceEndChain ==
  ASSUME SeasonsSound, ChainSound, ForceEnd
  PROVE  Lined' /\ PlansFit' /\ Len(seasons') = Len(seasons)
<1>0. PICK active, upcoming :
        /\ active = LastOf(Active(clock))
        /\ upcoming = LastOf(Following(active))
        /\ clock > seasons[active].start
        /\ seasons' = [seasons EXCEPT ![active].end = clock, ![upcoming].start = clock]
        /\ forced' = forced + 1
        /\ UNCHANGED <<keepers, clock>>
  BY DEF ForceEnd
<1>1. RowsTyped /\ Lined /\ PlansFit /\ clock \in Nat /\ forced \in Nat
  BY DEF SeasonsSound, ChainSound, RowsTyped, TypeOK
<1>2. /\ Len(seasons) \in Nat /\ DOMAIN seasons = 1..Len(seasons) /\ seasons \in Seq(Season)
      /\ \A s \in DOMAIN seasons : seasons[s].start \in Nat /\ seasons[s].end \in Nat
  BY <1>1, SeasonTimes
<1>3. PICK q \in Active(clock) : Following(q) # {}
  BY DEF ForceEnd, PairAt
<1>4. active \in DOMAIN seasons /\ active \in Active(clock) /\ clock < seasons[active].end
  <2>1. active \in Active(clock)
    BY <1>0, <1>1, <1>3, LastSeason DEF Active
  <2> QED
    BY <2>1 DEF Active
<1>5. upcoming = active + 1 /\ upcoming \in DOMAIN seasons
  <2>1. Following(active) # {}
    BY <1>1, <1>3, <1>4, OneActive
  <2>2. upcoming \in Following(active)
    BY <1>0, <1>1, <2>1, LastSeason DEF Following
  <2> QED
    BY <1>1, <1>4, <2>2, FollowingIsNext
<1>6. /\ DOMAIN seasons' = DOMAIN seasons /\ Len(seasons') = Len(seasons)
      /\ seasons'[active].start = seasons[active].start /\ seasons'[active].end = clock
      /\ seasons'[upcoming].start = clock /\ seasons'[upcoming].end = seasons[upcoming].end
      /\ \A t \in DOMAIN seasons \ {active, upcoming} :
           seasons'[t].start = seasons[t].start /\ seasons'[t].end = seasons[t].end
  <2>1. \A t \in DOMAIN seasons : seasons[t] \in Season
    BY <1>2
  <2>2. DOMAIN seasons' = DOMAIN seasons
    BY <1>0
  <2>3. ASSUME NEW t \in DOMAIN seasons
        PROVE  seasons'[t] =
                 [start |-> IF t = upcoming THEN clock ELSE seasons[t].start,
                  end |-> IF t = active THEN clock ELSE seasons[t].end,
                  completed |-> seasons[t].completed]
    BY <1>0, <2>1, <2>3 DEF Season
  <2>4. Len(seasons') = Len(seasons)
    BY <1>0, <1>2
  <2>5. active # upcoming
    BY <1>2, <1>4, <1>5
  <2> QED
    BY <1>4, <1>5, <2>2, <2>3, <2>4, <2>5
<1>7. Lined'
  <2>1. ASSUME NEW t \in DOMAIN seasons
        PROVE  seasons'[t].start < seasons'[t].end
    <3>1. seasons[t].start < seasons[t].end /\ seasons[active].end <= seasons[upcoming].start
      BY <1>1, <1>2, <1>4, <1>5 DEF Lined, SeasonsChain
    <3>2. seasons[upcoming].start < seasons[upcoming].end
      BY <1>1, <1>5 DEF Lined
    <3> QED
      <4>1. CASE t = active
        BY <1>0, <1>6, <4>1
      <4>2. CASE t = upcoming
        BY <1>1, <1>2, <1>4, <1>5, <1>6, <3>1, <3>2, <4>2
      <4>3. CASE t \notin {active, upcoming}
        BY <1>6, <3>1, <4>3
      <4> QED
        BY <4>1, <4>2, <4>3
  <2>2. ASSUME NEW t \in DOMAIN seasons, NEW u \in DOMAIN seasons, t < u
        PROVE  seasons'[t].end <= seasons'[u].start
    <3>1. seasons[t].end <= seasons[u].start
      BY <1>1, <2>2 DEF Lined, SeasonsChain
    <3>2. CASE u = upcoming
      <4>1. t # upcoming /\ (t = active \/ t < active)
        BY <1>2, <1>4, <1>5, <2>2, <3>2
      <4>2. CASE t = active
        BY <1>1, <1>6, <3>2, <4>2
      <4>3. CASE t < active
        <5>1. seasons[t].end <= seasons[active].start
          BY <1>1, <1>4, <4>3 DEF Lined, SeasonsChain
        <5>2. seasons'[t].end = seasons[t].end
          BY <1>2, <1>4, <1>6, <4>1, <4>3
        <5> QED
          BY <1>0, <1>1, <1>2, <1>4, <1>6, <3>2, <5>1, <5>2
      <4> QED
        BY <4>1, <4>2, <4>3
    <3>3. CASE u # upcoming
      <4>1. seasons'[u].start = seasons[u].start
        BY <1>6, <3>3
      <4>2. seasons'[t].end = seasons[t].end \/ (t = active /\ seasons'[t].end = clock)
        BY <1>6
      <4> QED
        BY <1>1, <1>2, <1>4, <2>2, <3>1, <4>1, <4>2
    <3> QED
      BY <3>2, <3>3
  <2>3. ASSUME NEW t \in DOMAIN seasons, t > 1
        PROVE  seasons'[t].start = seasons'[t - 1].end
    <3>1. t - 1 \in DOMAIN seasons /\ seasons[t].start = seasons[t - 1].end
      BY <1>1, <1>2, <2>3 DEF Lined, SeasonsChain
    <3>2. CASE t = upcoming
      <4>1. t - 1 = active
        BY <1>2, <1>4, <1>5, <3>2
      <4> QED
        BY <1>6, <3>2, <4>1
    <3>3. CASE t # upcoming
      <4>1. t - 1 # active
        BY <1>2, <1>4, <1>5, <3>3
      <4> QED
        BY <1>6, <3>1, <3>3, <4>1
    <3> QED
      BY <3>2, <3>3
  <2> QED
    BY <1>6, <2>1, <2>2, <2>3 DEF Lined, SeasonsChain
<1>8. ASSUME NEW k \in Keeper, keepers'[k] # None, NEW job, job = keepers'[k]
      PROVE  PlanFits(job)'
  <2>1. PlanFits(job) /\ job.forced \in 0..forced
    BY <1>0, <1>1, <1>8 DEF PlansFit, PlanFits
  <2>2. Fits(job) => Fits(job)'
    <3>1. Len(seasons) \in DOMAIN seasons /\ seasons # <<>> /\ seasons' # <<>>
      BY <1>2, <1>4, <1>6
    <3>2. seasons'[Len(seasons)].end = seasons[Len(seasons)].end
      BY <1>2, <1>4, <1>5, <1>6, <3>1
    <3> QED
      BY <1>6, <3>1, <3>2 DEF Fits
  <2>3. Beaten(job) => Beaten(job)'
    <3> SUFFICES ASSUME NEW i \in DOMAIN job.plan, NEW s \in DOMAIN seasons,
                        Meets(seasons[s], job.plan[i], forced - job.forced)
                 PROVE  Meets(seasons'[s], job.plan[i], forced' - job.forced)
      BY <1>0, <1>6 DEF Beaten
    <3>1. \/ seasons'[s].start = seasons[s].start /\ seasons'[s].end = seasons[s].end
          \/ seasons'[s].start = seasons[s].start
          \/ seasons'[s].end = seasons[s].end
      BY <1>6
    <3>2. forced - job.forced \in Nat /\ forced' - job.forced = (forced - job.forced) + 1
      BY <1>0, <1>1, <2>1
    <3>3. CASE forced - job.forced >= 1
      BY <3>2, <3>3 DEF Meets
    <3>4. CASE forced - job.forced = 0
      BY <3>1, <3>2, <3>4 DEF Meets
    <3> QED
      BY <3>2, <3>3, <3>4
  <2>4. job.forced \in 0..forced'
    BY <1>0, <1>1, <2>1
  <2> QED
    BY <2>1, <2>2, <2>3, <2>4 DEF PlanFits
<1> QED
  BY <1>6, <1>7, <1>8 DEF PlansFit

-----------------------------------------------------------------------------
\* The rest of the types.
LEMMA ChainTypes ==
  ASSUME SeasonsSound, SeasonsSound', ChainSound, [Next]_vars,
         Len(seasons') <= MaxSeasons, PlansFit', DOMAIN seasons \subseteq DOMAIN seasons'
  PROVE  TypeOK' /\ ReadersSound'
<1>1. /\ seasons' \in Seq(Season) /\ members' \subseteq Players
      /\ \A key \in DOMAIN stats' : stats'[key] \in Row
      /\ \A m \in DOMAIN matches' :
           /\ matches'[m].season \in DOMAIN seasons'
           /\ matches'[m].phase \in {"creating", "open", "checked", "final"}
      /\ announced' \in [SeasonId -> Nat]
      /\ clock' \in Nat
  <2>1. RowsTyped'
    BY DEF SeasonsSound
  <2>2. matches' \in Seq(MatchRow)
    BY <2>1 DEF RowsTyped
  <2>3. \A m \in DOMAIN matches' : matches'[m] \in MatchRow
    BY <2>2
  <2>4. \A m \in DOMAIN matches' : matches'[m].phase \in {"creating", "open", "checked", "final"}
    BY <2>3 DEF MatchRow
  <2> QED
    BY <2>1, <2>4 DEF RowsTyped
<1>2. /\ DOMAIN registering \subseteq Players \ members
      /\ DOMAIN stats \subseteq members \X DOMAIN seasons
      /\ forced \in Nat /\ starts \in Nat
      /\ \A p \in DOMAIN registering : registering[p].seen \subseteq DOMAIN seasons
      /\ \A k \in Keeper : keepers[k] # None => keepers[k].seen \subseteq members
      /\ members \subseteq Players
  BY DEF ChainSound, TypeOK, ReadersSound
<1>3. forced' \in Nat /\ starts' \in Nat
  <2>1. forced' \in {forced, forced + 1} /\ starts' \in {starts, starts + 1}
    BY DEF Next, Play, Maintain, vars, BeginRegistration, CommitRegistration, JoinQueue,
           BeginMatch, CommitMatch, FinalizeMatch, CommitResult, BeginMaintenance,
           CommitSeasons, RollBackSeasons, ForceEnd, Tick
  <2> QED
    BY <1>2, <2>1
<1>4. /\ DOMAIN registering' \subseteq Players \ members'
      /\ \A p \in DOMAIN registering' : registering'[p].seen \subseteq DOMAIN seasons'
      /\ members \subseteq members'
  <2>1. ASSUME NEW p \in Players, BeginRegistration(p)
        PROVE  /\ DOMAIN registering' \subseteq Players \ members'
               /\ \A q \in DOMAIN registering' : registering'[q].seen \subseteq DOMAIN seasons'
               /\ members \subseteq members'
    BY <1>2, <2>1 DEF BeginRegistration
  <2>2. ASSUME NEW p \in Players, CommitRegistration(p)
        PROVE  /\ DOMAIN registering' \subseteq Players \ members'
               /\ \A q \in DOMAIN registering' : registering'[q].seen \subseteq DOMAIN seasons'
               /\ members \subseteq members'
    BY <1>2, <2>2 DEF CommitRegistration
  <2>3. CASE UNCHANGED <<registering, members>>
    BY <1>2, <2>3
  <2> QED
    BY <2>1, <2>2, <2>3
       DEF Next, Play, Maintain, vars, JoinQueue,
           BeginMatch, CommitMatch, FinalizeMatch, CommitResult, BeginMaintenance,
           CommitSeasons, RollBackSeasons, ForceEnd, Tick
<1>5. \A k \in Keeper : keepers'[k] # None => keepers'[k].seen \subseteq members'
  <2>1. ASSUME NEW j \in Keeper, BeginMaintenance(j)
        PROVE  \A k \in Keeper : keepers'[k] # None => keepers'[k].seen \subseteq members'
    <3>1. PICK job : job.seen = members /\ keepers' = [keepers EXCEPT ![j] = job]
      <4>1. PICK plan, unfinished :
              keepers' = [keepers EXCEPT ![j] =
                [at |-> clock, plan |-> plan, seen |-> members, unfinished |-> unfinished,
                 forced |-> forced]]
        BY <2>1 DEF BeginMaintenance
      <4> QED
        BY <4>1
    <3> QED
      BY <1>2, <1>4, <3>1
  <2>2. CASE \A k \in Keeper : keepers'[k] \in {None, keepers[k]}
    BY <1>2, <1>4, <2>2
  <2>3. (\A j \in Keeper : ~BeginMaintenance(j)) => \A k \in Keeper : keepers'[k] \in {None, keepers[k]}
    <3>1. \A j \in Keeper : CommitSeasons(j) \/ RollBackSeasons(j) =>
            keepers' = [keepers EXCEPT ![j] = None]
      BY DEF CommitSeasons, RollBackSeasons
    <3>2. \/ keepers' = keepers
          \/ \E j \in Keeper : BeginMaintenance(j) \/ CommitSeasons(j) \/ RollBackSeasons(j)
      BY DEF Next, Play, Maintain, vars, BeginRegistration, CommitRegistration, JoinQueue,
             BeginMatch, CommitMatch, FinalizeMatch, CommitResult, ForceEnd, Tick
    <3>3. ASSUME NEW j \in Keeper, keepers' = [keepers EXCEPT ![j] = None]
          PROVE  \A k \in Keeper : keepers'[k] \in {None, keepers[k]}
      BY <3>3
    <3> QED
      BY <3>1, <3>2, <3>3
  <2> QED
    BY <2>1, <2>2, <2>3
<1>6. DOMAIN stats' \subseteq members' \X DOMAIN seasons'
  <2>1. CASE DOMAIN stats' = DOMAIN stats
    BY <1>2, <1>4, <2>1
  <2>2. ASSUME NEW p \in Players, CommitRegistration(p)
        PROVE  DOMAIN stats' \subseteq members' \X DOMAIN seasons'
    <3>1. DOMAIN stats' = DOMAIN stats \cup {p} \X registering[p].seen
      BY <2>2 DEF CommitRegistration, WithRows
    <3> QED
      BY <1>2, <2>2, <3>1 DEF CommitRegistration
  <2>3. ASSUME NEW k \in Keeper, CommitSeasons(k)
        PROVE  DOMAIN stats' \subseteq members' \X DOMAIN seasons'
    <3>1. PICK job, created :
            /\ job = keepers[k] /\ job # None
            /\ created = Len(seasons) + 1 .. Len(seasons) + Len(job.plan)
            /\ stats' = WithRows(stats, job.seen, created)
            /\ \E S : seasons' = Completed(seasons \o job.plan, S)
            /\ members' = members
      BY <2>3 DEF CommitSeasons
    <3>2. job.plan \in Seq(Season) /\ job.seen \subseteq members /\ seasons \in Seq(Season)
      BY <1>2, <3>1 DEF SeasonsSound, KeepersSound, RowsTyped
    <3>3. seasons \o job.plan \in Seq(Season) /\ created \subseteq DOMAIN (seasons \o job.plan)
      BY <3>1, <3>2
    <3>4. created \subseteq DOMAIN seasons'
      <4> DEFINE rows == seasons \o job.plan
      <4>1. rows \in Seq(Season) /\ created \subseteq DOMAIN rows
        BY <3>3
      <4>2. PICK S : seasons' = Completed(rows, S)
        BY <3>1
      <4> HIDE DEF rows
      <4> QED
        BY <4>1, <4>2, CompletedRows
    <3>5. DOMAIN stats' = DOMAIN stats \cup job.seen \X created
      BY <3>1 DEF WithRows
    <3> QED
      BY <1>2, <3>1, <3>2, <3>4, <3>5
  <2>4. \/ DOMAIN stats' = DOMAIN stats
        \/ \E p \in Players : CommitRegistration(p)
        \/ \E k \in Keeper : CommitSeasons(k)
    BY DEF Next, Play, Maintain, vars, BeginRegistration, JoinQueue, Decided,
           BeginMatch, CommitMatch, FinalizeMatch, CommitResult, BeginMaintenance,
           RollBackSeasons, ForceEnd, Tick
  <2> QED
    BY <2>1, <2>2, <2>3, <2>4
<1>7. \A k \in Keeper : keepers'[k] # None =>
        keepers'[k].seen \subseteq Players /\ Len(keepers'[k].plan) <= MaxSeasons
  <2>1. \A k \in Keeper : keepers'[k] # None => Len(keepers'[k].plan) <= MaxSeasons
    BY DEF PlansFit, PlanFits
  <2> QED
    BY <1>1, <1>5, <2>1
<1> QED
  BY <1>1, <1>3, <1>4, <1>5, <1>6, <1>7 DEF TypeOK, ReadersSound

\* Every step keeps the chain, if no maintenance takes too long.
LEMMA ChainStep ==
  ASSUME SeasonsSound, SeasonsSound', ChainSound, Timely, [Next]_vars
  PROVE  ChainSound'
<1>1. /\ RowsTyped /\ Lined /\ PlansFit /\ Len(seasons) <= MaxSeasons
  BY DEF SeasonsSound, ChainSound, TypeOK
<1>2. /\ Len(seasons) \in Nat /\ DOMAIN seasons = 1..Len(seasons) /\ seasons \in Seq(Season)
  BY <1>1, SeasonTimes
<1>3. Lined' /\ PlansFit' /\ Len(seasons') <= MaxSeasons
  <2>1. CASE UNCHANGED <<seasons, forced, keepers>>
    BY <1>1, <2>1, ChainAlone
  <2>2. ASSUME NEW k \in Keeper, BeginMaintenance(k)
        PROVE  Lined' /\ PlansFit' /\ Len(seasons') <= MaxSeasons
    <3>1. seasons' = seasons
      BY <2>2 DEF BeginMaintenance
    <3> QED
      BY <1>1, <2>2, <3>1, BeginMaintenanceChain
  <2>3. ASSUME NEW k \in Keeper, CommitSeasons(k)
        PROVE  Lined' /\ PlansFit' /\ Len(seasons') <= MaxSeasons
    BY <2>3, CommitSeasonsChain
  <2>4. ASSUME NEW k \in Keeper, RollBackSeasons(k)
        PROVE  Lined' /\ PlansFit' /\ Len(seasons') <= MaxSeasons
    <3>1. /\ seasons' = seasons /\ forced' = forced
          /\ \A j \in Keeper : keepers'[j] \in {None, keepers[j]}
      BY <2>4 DEF RollBackSeasons
    <3>2. Lined' /\ PlansFit'
      BY <1>1, <1>2, <3>1, BoundsAlone
    <3> QED
      BY <1>1, <3>1, <3>2
  <2>5. ASSUME NEW m \in DOMAIN matches, NEW void \in BOOLEAN, CommitResult(m, void)
        PROVE  Lined' /\ PlansFit' /\ Len(seasons') <= MaxSeasons
    <3>1. PICK S : seasons' = Completed(seasons, S) /\ UNCHANGED <<forced, keepers>>
      BY <2>5 DEF CommitResult
    <3>2. /\ DOMAIN seasons' = DOMAIN seasons /\ Len(seasons') = Len(seasons)
          /\ \A s \in DOMAIN seasons :
               seasons'[s].start = seasons[s].start /\ seasons'[s].end = seasons[s].end
      <4>1. DOMAIN Completed(seasons, S) = DOMAIN seasons
        BY <1>2, CompletedRows
      <4>2. \A T : /\ Len(Completed(seasons, T)) = Len(seasons)
                   /\ \A s \in DOMAIN seasons :
                        /\ Completed(seasons, T)[s].start = seasons[s].start
                        /\ Completed(seasons, T)[s].end = seasons[s].end
        BY <1>2, CompletedBounds
      <4> QED
        BY <3>1, <4>1, <4>2
    <3>3. seasons' \in Seq(Season)
      BY <1>2, <3>1, CompletedRows
    <3>4. /\ seasons = <<>> <=> seasons' = <<>>
          /\ seasons # <<>> => Len(seasons) \in DOMAIN seasons
          /\ \A s \in DOMAIN seasons : s > 1 => s - 1 \in DOMAIN seasons
      BY <1>2, <3>2, <3>3
    <3>5. Lined' /\ PlansFit'
      BY <1>1, <3>1, <3>2, <3>4, BoundsAlone
    <3> QED
      BY <1>1, <3>2, <3>5
  <2>6. CASE ForceEnd
    BY <1>1, <2>6, ForceEndChain
  <2>7. \/ UNCHANGED <<seasons, forced, keepers>>
        \/ \E k \in Keeper : BeginMaintenance(k) \/ CommitSeasons(k) \/ RollBackSeasons(k)
        \/ \E m \in DOMAIN matches, void \in BOOLEAN : CommitResult(m, void)
        \/ ForceEnd
    BY DEF Next, Play, Maintain, vars, BeginRegistration, CommitRegistration, JoinQueue,
           BeginMatch, CommitMatch, FinalizeMatch, Tick
  <2> QED
    BY <2>1, <2>2, <2>3, <2>4, <2>5, <2>6, <2>7
<1>4. DOMAIN seasons \subseteq DOMAIN seasons'
  <2>1. CASE DOMAIN seasons' = DOMAIN seasons
    BY <2>1
  <2>2. ASSUME NEW k \in Keeper, CommitSeasons(k)
        PROVE  DOMAIN seasons \subseteq DOMAIN seasons'
    <3>1. PICK job, S : /\ job = keepers[k] /\ job # None
                        /\ seasons' = Completed(seasons \o job.plan, S)
      BY <2>2 DEF CommitSeasons
    <3>2. job.plan \in Seq(Season)
      BY <3>1 DEF SeasonsSound, KeepersSound
    <3>3. seasons \o job.plan \in Seq(Season) /\ DOMAIN seasons \subseteq DOMAIN (seasons \o job.plan)
      BY <1>2, <3>2
    <3> QED
      <4> DEFINE rows == seasons \o job.plan
      <4>1. rows \in Seq(Season) /\ seasons' = Completed(rows, S) /\ DOMAIN seasons \subseteq DOMAIN rows
        BY <3>1, <3>3
      <4> HIDE DEF rows
      <4> QED
        BY <4>1, CompletedRows
  <2>3. DOMAIN seasons' = DOMAIN seasons \/ \E k \in Keeper : CommitSeasons(k)
    BY DEF Next, Play, Maintain, vars, BeginRegistration, CommitRegistration, JoinQueue,
           BeginMatch, CommitMatch, FinalizeMatch, CommitResult, Completed, BeginMaintenance,
           RollBackSeasons, ForceEnd, Tick
  <2> QED
    BY <2>1, <2>2, <2>3
<1> QED
  BY <1>3, <1>4, ChainTypes DEF ChainSound

\* The seasons follow each other without gap or overlap (seasons.py), whoever
\* creates them and whatever is ended by force, as long as no maintenance takes
\* more than a month or sees two forced ends.
THEOREM ChainIsKept == Spec /\ []Timely => []SeasonsInv
<1>1. Init => ChainSound
  <2> SUFFICES ASSUME Init PROVE ChainSound
    OBVIOUS
  <2>1. /\ seasons = <<>> /\ matches = <<>> /\ \A k \in Keeper : keepers[k] = None
        /\ DOMAIN registering = {} /\ DOMAIN stats = {} /\ DOMAIN seasons = {}
        /\ DOMAIN matches = {} /\ Len(seasons) = 0
    BY DEF Init
  <2>2. Lined /\ ReadersSound /\ PlansFit
    BY <2>1 DEF Lined, SeasonsChain, ReadersSound, PlansFit
  <2>3. TypeOK
    BY <2>1, SeasonsAssumption DEF Init, TypeOK
  <2> QED
    BY <2>2, <2>3 DEF ChainSound
<1>2. SeasonsSound /\ SeasonsSound' /\ ChainSound /\ Timely /\ [Next]_vars => ChainSound'
  BY ChainStep
<1>3. ChainSound => SeasonsInv
  BY DEF ChainSound, Lined, SeasonsInv
<1> QED
  BY <1>1, <1>2, <1>3, SeasonsInvariant, PTL DEF Spec

\* How long a maintenance may last, and how many forced ends there are.
Bounded ==
  /\ forced \in 0..MaxForced
  /\ \A k \in Keeper : keepers[k] # None =>
       clock <= keepers[k].at + MaxLag /\ keepers[k].forced \in Nat

\* Every step keeps these bounds.
LEMMA BoundedStep ==
  ASSUME SeasonsSound, Bounded, [Next]_vars
  PROVE  Bounded'
<1>1. /\ clock \in Nat /\ MaxLag \in Nat /\ MaxForced \in Nat
      /\ \A k \in Keeper : keepers[k] # None => keepers[k].at \in Nat
  BY SeasonsAssumption DEF SeasonsSound, RowsTyped, KeepersSound
<1>2. CASE UNCHANGED <<keepers, clock, forced>>
  BY <1>2 DEF Bounded
<1>3. ASSUME NEW j \in Keeper, BeginMaintenance(j)
      PROVE  Bounded'
  <2>1. PICK plan, unfinished :
          keepers' = [keepers EXCEPT ![j] =
            [at |-> clock, plan |-> plan, seen |-> members, unfinished |-> unfinished,
             forced |-> forced]]
    BY <1>3 DEF BeginMaintenance
  <2>2. clock' = clock /\ forced' = forced
    BY <1>3 DEF BeginMaintenance
  <2> QED
    BY <1>1, <2>1, <2>2 DEF Bounded
<1>4. ASSUME NEW j \in Keeper, CommitSeasons(j) \/ RollBackSeasons(j)
      PROVE  Bounded'
  <2>1. keepers' = [keepers EXCEPT ![j] = None] /\ clock' = clock /\ forced' = forced
    BY <1>4 DEF CommitSeasons, RollBackSeasons
  <2> QED
    BY <2>1 DEF Bounded
<1>5. CASE ForceEnd
  BY <1>1, <1>5 DEF ForceEnd, Bounded
<1>6. CASE Tick
  <2>1. /\ clock' = clock + 1 /\ keepers' = keepers /\ forced' = forced
        /\ \A t \in RunningSince : clock < t + MaxLag
    BY <1>6 DEF Tick
  <2>2. \A k \in Keeper : keepers[k] # None => keepers[k].at \in RunningSince
    BY DEF RunningSince
  <2> QED
    BY <1>1, <2>1, <2>2 DEF Bounded
<1> QED
  BY <1>2, <1>3, <1>4, <1>5, <1>6
     DEF Next, Play, Maintain, vars, BeginRegistration, CommitRegistration, JoinQueue,
         BeginMatch, CommitMatch, FinalizeMatch, CommitResult

\* So the chain is kept when no transaction lasts more than a month and one
\* season is ended by force.
THEOREM ChainIfPrompt ==
  ASSUME MaxLag <= Length, MaxForced <= 1
  PROVE  Spec => []SeasonsInv
<1>1. Init => Bounded
  BY SeasonsAssumption DEF Init, Bounded
<1>2. SeasonsSound /\ Bounded /\ [Next]_vars => Bounded'
  BY BoundedStep
<1>3. SeasonsSound /\ Bounded => Timely
  <2> SUFFICES ASSUME SeasonsSound, Bounded, NEW k \in Keeper, keepers[k] # None
               PROVE  clock <= keepers[k].at + Length /\ forced <= keepers[k].forced + 1
    BY DEF Timely
  <2>1. clock \in Nat /\ keepers[k].at \in Nat
    BY DEF SeasonsSound, RowsTyped, KeepersSound
  <2> QED
    BY <2>1, SeasonsAssumption DEF Bounded
<1> QED
  BY <1>1, <1>2, <1>3, SeasonsInvariant, ChainIsKept, PTL DEF Spec
=============================================================================
