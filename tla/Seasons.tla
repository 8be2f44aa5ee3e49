-------------------------------- MODULE Seasons -------------------------------
(***************************************************************************)
(* Seasons, the statistics rows of the players in them, the carry-over and *)
(* the completion of a season: contexts/seasons/application/seasons.py,    *)
(* with the transactions that call it: registration of a player, join, the *)
(* creation and the finalization of a match, the bot's start, the daily    *)
(* worker and the command that ends a season by force.                     *)
(*                                                                         *)
(* Nothing locks the seasons. Transactions run under READ COMMITTED: each  *)
(* statement sees what was committed before it. So those whose statements  *)
(* read what another one is about to write are split into steps, and what  *)
(* they read is kept until they commit.                                    *)
(*                                                                         *)
(* One match format stands for all: the rows of each are independent.      *)
(* Every month has the same Length. A season's id is its place in          *)
(* "seasons".                                                              *)
(***************************************************************************)
EXTENDS Integers, Sequences, FiniteSets

CONSTANTS
  Players, None,
  MatchSize,          (* players_per_batch                                 *)
  Length,             (* from one 14th of a month to the next              *)
  MinGames,           (* MIN_CARRYOVER_GAMES                               *)
  MaxClock, MaxLag, MaxSeasons, MaxMatches, MaxForced,
  MaxStarts                                       (* bounds of the model   *)

ASSUME SeasonsAssumption ==
  /\ IsFiniteSet(Players) /\ None \notin Nat
  /\ {MatchSize, Length, MinGames, MaxClock, MaxLag, MaxSeasons,
      MaxMatches, MaxForced, MaxStarts} \subseteq Nat
  /\ MatchSize > 0 /\ Length > 0

VARIABLES
  seasons,      (* the rows of seasons that are committed, by id           *)
  members,      (* players                                                 *)
  registering,  (* by player: the registration that has not yet committed  *)
  stats,        (* player_format_stats, by <<player, season>>              *)
  matches,      (* matches, by id; also those not yet committed            *)
  keepers,      (* by process: the season maintenance that is under way    *)
  announced,    (* season_completed events in the outbox, by season        *)
  forced,       (* how often a season was ended by force                   *)
  starts,       (* how often the bot was started                           *)
  clock         (* the database's clock                                    *)

vars == <<seasons, members, registering, stats, matches, keepers, announced,
          forced, starts, clock>>

SeasonId == 1..MaxSeasons
Season == [start : Nat, end : Nat, completed : BOOLEAN]
Row == [carryover : {"pending", "applied", "not_applied"}, games : Nat]
Keeper == {"bot", "worker"}

TypeOK ==
  /\ seasons \in Seq(Season) /\ Len(seasons) <= MaxSeasons
  /\ members \subseteq Players
  /\ DOMAIN registering \subseteq Players \ members
  /\ DOMAIN stats \subseteq members \X DOMAIN seasons
  /\ \A key \in DOMAIN stats : stats[key] \in Row
  /\ \A m \in DOMAIN matches :
       /\ matches[m].season \in DOMAIN seasons
       /\ matches[m].phase \in {"creating", "open", "checked", "final"}
  /\ \A k \in Keeper : keepers[k] # None =>
       keepers[k].seen \subseteq Players /\ Len(keepers[k].plan) <= MaxSeasons
  /\ announced \in [SeasonId -> Nat]
  /\ clock \in Nat /\ forced \in Nat /\ starts \in Nat

Init ==
  /\ seasons = <<>> /\ members = {}
  /\ registering = [p \in {} |-> None]
  /\ stats = [k \in {} |-> None]
  /\ matches = <<>>
  /\ keepers = [k \in Keeper |-> None]
  /\ announced = [s \in SeasonId |-> 0]
  /\ forced = 0 /\ starts = 0 /\ clock = 0

\* now() of a transaction that had to wait for its locks.
TransactionTimes == {t \in 0..clock : clock <= t + MaxLag}

-----------------------------------------------------------------------------
\* _get_active_season
Active(at) == {s \in DOMAIN seasons : seasons[s].start <= at /\ at < seasons[s].end}

Following(s) == {n \in DOMAIN seasons : seasons[n].start = seasons[s].end}

\* get_active_and_upcoming_seasons does not raise.
PairAt(at) == \E s \in Active(at) : Following(s) # {}

\* ORDER BY start_at DESC
LastOf(S) == CHOOSE s \in S : \A t \in S : seasons[t].start <= seasons[s].start

\* resolve_active_season_window, resolve_next_season_window: the last 14th
\* that is not after "t" and the first one that is.
LastBoundary(t) == (t \div Length) * Length
NextBoundary(t) == LastBoundary(t) + Length

\* The seasons that _ensure_following_season creates one after another: "n" of
\* them, the first from "from" on.
SeasonsFrom(from, n) ==
  [i \in 1..n |->
     [start     |-> IF i = 1 THEN from ELSE LastBoundary(from) + (i - 1) * Length,
      end       |-> LastBoundary(from) + i * Length,
      completed |-> FALSE]]

NewRow == [carryover |-> "pending", games |-> 0]

\* _ensure_player_format_stats_rows
WithRows(table, players, ids) ==
  [key \in DOMAIN table \cup players \X ids |->
     IF key \in DOMAIN table THEN table[key] ELSE NewRow]

\* Slip: what was decided before is decided again.
DecidedAnew(table, players, s) ==
  [key \in DOMAIN table |->
     IF key \notin players \X {s} THEN table[key]
     ELSE [table[key] EXCEPT !.carryover =
             IF \E q \in DOMAIN seasons :
                  /\ seasons[q].end = seasons[s].start
                  /\ <<key[1], q>> \in DOMAIN table
                  /\ table[<<key[1], q>>].games >= MinGames
             THEN "applied" ELSE "not_applied"]]

\* resolve_player_format_stats_for_season, when every row is there: a PENDING
\* row is decided now, by what the row of the season before says now.
Decided(table, players, s) ==
  [key \in DOMAIN table |->
     IF key \notin players \X {s} \/ table[key].carryover # "pending" THEN table[key]
     ELSE [table[key] EXCEPT !.carryover =
             IF \E q \in DOMAIN seasons :
                  /\ seasons[q].end = seasons[s].start
                  /\ <<key[1], q>> \in DOMAIN table
                  /\ table[<<key[1], q>>].games >= MinGames
             THEN "applied" ELSE "not_applied"]]

-----------------------------------------------------------------------------
\* register_player, up to the rows it inserts: for the seasons it sees.
BeginRegistration(p) ==
  /\ p \notin members /\ p \notin DOMAIN registering
  /\ PairAt(clock)
  /\ registering' = [q \in DOMAIN registering \cup {p} |->
       IF q = p THEN [at |-> clock, seen |-> {s \in DOMAIN seasons : seasons[s].end > clock}]
       ELSE registering[q]]
  /\ UNCHANGED <<seasons, members, stats, matches, keepers, announced, forced, starts, clock>>

CommitRegistration(p) ==
  /\ p \in DOMAIN registering
  /\ members' = members \cup {p}
  /\ stats' = WithRows(stats, {p}, registering[p].seen)
  /\ registering' = [q \in DOMAIN registering \ {p} |-> registering[q]]
  /\ UNCHANGED <<seasons, matches, keepers, announced, forced, starts, clock>>

\* A player who lacks the row is refused.
HasRow(p, s) == <<p, s>> \in DOMAIN stats

\* join_queue, as far as it decides the carry-over (the rest is MatchQueue's).
JoinQueue(p, at) ==
  /\ PairAt(at)
  /\ LET s == LastOf(Active(at))
     IN  /\ HasRow(p, s)
         /\ stats' = Decided(stats, {p}, s)
  /\ UNCHANGED <<seasons, members, registering, matches, keepers, announced, forced, starts, clock>>

\* _try_create_batch: the season is read before the players are locked.
BeginMatch(P) ==
  /\ Len(matches) < MaxMatches
  /\ PairAt(clock)
  /\ LET s == LastOf(Active(clock))
     IN  /\ \A p \in P : HasRow(p, s)
         /\ matches' = Append(matches, [season |-> s, players |-> P, at |-> clock,
                                        phase |-> "creating", born |-> None,
                                        last |-> FALSE])
  /\ UNCHANGED <<seasons, members, registering, stats, keepers, announced, forced, starts, clock>>

\* Advisory locks: no other transaction is under way for one of the players.
PlayersFree(m) ==
  \A n \in DOMAIN matches :
    matches[n].phase = "checked" => matches[n].players \cap matches[m].players = {}

CommitMatch(m) ==
  /\ matches[m].phase = "creating"
  /\ PlayersFree(m)
  /\ matches' = [matches EXCEPT ![m].phase = "open", ![m].at = None, ![m].born = clock]
  /\ stats' = Decided(stats, matches[m].players, matches[m].season)
  /\ UNCHANGED <<seasons, members, registering, keepers, announced, forced, starts, clock>>

\* What others see of the matches of a season: a match whose finalization has
\* not committed is still open, one whose creation has not is not there.
OpenMatches(s) ==
  {m \in DOMAIN matches : matches[m].season = s /\ matches[m].phase \in {"open", "checked"}}

\* Slip: whether the season has a match left is not looked at.
EndIsEnough(s, own) == TRUE

\* Nothing to finalize but, perhaps, what this transaction finalizes.
NoneLeft(s, own) == OpenMatches(s) \subseteq own

\* update_season_completion, without what it then writes.
MayComplete(s, own, at) ==
  /\ ~seasons[s].completed
  /\ seasons[s].end <= at
  /\ NoneLeft(s, own)

\* enqueue_season_completion_notifications: ON CONFLICT DO NOTHING.
Announce(S) == [s \in SeasonId |-> IF s \in S THEN 1 ELSE announced[s]]

Completed(table, S) ==
  [s \in DOMAIN table |-> [table[s] EXCEPT !.completed = @ \/ s \in S]]

\* _finalize_match_locked up to the check of the season, and its commit.
FinalizeMatch(m, at) ==
  /\ matches[m].phase = "open"
  /\ PlayersFree(m)
  /\ matches' = [matches EXCEPT ![m] =
       [@ EXCEPT !.phase = "checked", !.at = at,
                 !.last = MayComplete(matches[m].season, {m}, at)]]
  /\ UNCHANGED <<seasons, members, registering, stats, keepers, announced, forced, starts, clock>>

\* A VOID result changes no statistics.
CommitResult(m, void) ==
  LET s == matches[m].season
      completes == IF matches[m].last THEN {s} ELSE {}
      ready == Decided(stats, matches[m].players, s)
  IN  /\ matches[m].phase = "checked"
      /\ matches' = [matches EXCEPT ![m] =
           [@ EXCEPT !.phase = "final", !.at = None, !.born = None, !.last = FALSE]]
      /\ stats' = [key \in DOMAIN ready |->
                     IF ~void /\ key \in matches[m].players \X {s}
                     THEN [ready[key] EXCEPT !.games = @ + 1] ELSE ready[key]]
      /\ seasons' = Completed(seasons, completes)
      /\ announced' = Announce(completes)
      /\ UNCHANGED <<members, registering, keepers, forced, starts, clock>>

-----------------------------------------------------------------------------
\* Slip: only the season that ends at this moment is looked at.
JustEnded == {s \in DOMAIN seasons : seasons[s].end = clock /\ ~seasons[s].completed}

Unfinished == {s \in DOMAIN seasons : seasons[s].end <= clock /\ ~seasons[s].completed}

\* How many seasons are missing from "tail" on.
Missing(tail) ==
  IF PairAt(clock) THEN 0
  ELSE IF tail > clock THEN 1
  ELSE (clock \div Length) - (tail \div Length) + 2

\* ensure_active_and_upcoming_seasons, which goes on from the active season, or
\* from the last one if none is active, or from this month if there is none: it
\* creates what is missing, up to the season after the active one, and gives
\* rows in it to the players it sees. The worker also looks for the seasons that
\* are over and not completed (update_ended_season_completions).
\* ("forced" is history: how many forced ends it has begun after.)
BeginMaintenance(k) ==
  LET tail == IF seasons = <<>> THEN LastBoundary(clock)
              ELSE IF Active(clock) # {} THEN seasons[LastOf(Active(clock))].end
              ELSE seasons[LastOf(DOMAIN seasons)].end
  IN  /\ keepers[k] = None
      /\ k = "bot" => starts < MaxStarts
      /\ Len(seasons) + Missing(tail) <= MaxSeasons
      /\ starts' = IF k = "bot" THEN starts + 1 ELSE starts
      /\ keepers' = [keepers EXCEPT ![k] =
           [at |-> clock, plan |-> SeasonsFrom(tail, Missing(tail)), seen |-> members,
            unfinished |-> IF k = "worker" THEN Unfinished ELSE {}, forced |-> forced]]
      /\ UNCHANGED <<seasons, members, registering, stats, matches, announced, forced, clock>>

\* Slip: the table has no unique constraints.
NoClash(job) == FALSE

\* UNIQUE (start_at), UNIQUE (end_at)
Clash(job) ==
  \E i \in DOMAIN job.plan, s \in DOMAIN seasons :
    \/ job.plan[i].start = seasons[s].start
    \/ job.plan[i].end = seasons[s].end

\* The rest of maintain_seasons (the worker) and initialize_seasons (the bot).
\* Seasons that were missed altogether are completed as soon as they exist.
CommitSeasons(k) ==
  LET job == keepers[k]
      created == Len(seasons) + 1 .. Len(seasons) + Len(job.plan)
      table == seasons \o job.plan
      over == {s \in job.unfinished : NoneLeft(s, {})}
              \cup {s \in created : k = "worker" /\ table[s].end <= job.at}
  IN  /\ job # None /\ ~Clash(job)
      /\ seasons' = Completed(table, over)
      /\ stats' = WithRows(stats, job.seen, created)
      /\ announced' = Announce(over)
      /\ keepers' = [keepers EXCEPT ![k] = None]
      /\ UNCHANGED <<members, registering, matches, forced, starts, clock>>

RollBackSeasons(k) ==
  /\ keepers[k] # None /\ Clash(keepers[k])
  /\ keepers' = [keepers EXCEPT ![k] = None]
  /\ UNCHANGED <<seasons, members, registering, stats, matches, announced, forced, starts, clock>>

\* force_end_active_season
ForceEnd ==
  /\ forced < MaxForced
  /\ PairAt(clock)
  /\ LET active == LastOf(Active(clock))
         upcoming == LastOf(Following(active))
     IN  /\ clock > seasons[active].start
         /\ seasons' = [seasons EXCEPT ![active].end = clock, ![upcoming].start = clock]
  /\ forced' = forced + 1
  /\ UNCHANGED <<members, registering, stats, matches, keepers, announced, starts, clock>>

\* The times of the transactions that are under way.
RunningSince ==
  {registering[p].at : p \in DOMAIN registering}
  \cup {matches[m].at : m \in {n \in DOMAIN matches : matches[n].phase \in {"creating", "checked"}}}
  \cup {keepers[k].at : k \in {j \in Keeper : keepers[j] # None}}

Tick ==
  /\ clock < MaxClock
  /\ \A t \in RunningSince : clock < t + MaxLag
  /\ clock' = clock + 1
  /\ UNCHANGED <<seasons, members, registering, stats, matches, keepers, announced, forced, starts>>

Maintain(k) ==
  \/ BeginMaintenance(k)
  \/ CommitSeasons(k)
  \/ RollBackSeasons(k)

Play ==
  \/ \E P \in SUBSET members : Cardinality(P) = MatchSize /\ BeginMatch(P)
  \/ \E m \in DOMAIN matches : CommitMatch(m)
  \/ \E m \in DOMAIN matches, at \in TransactionTimes : FinalizeMatch(m, at)
  \/ \E m \in DOMAIN matches, void \in BOOLEAN : CommitResult(m, void)

Next ==
  \/ \E p \in Players : BeginRegistration(p)
  \/ \E p \in Players : CommitRegistration(p)
  \/ \E p \in members, at \in TransactionTimes : JoinQueue(p, at)
  \/ Play
  \/ \E k \in Keeper : Maintain(k)
  \/ ForceEnd
  \/ Tick

Spec == Init /\ [][Next]_vars

\* Time passes, the worker runs day after day, and a transaction that began
\* ends. Nobody has to register, to play or to restart the bot.
FairSpec ==
  /\ Spec
  /\ WF_vars(Tick)
  /\ WF_vars(Maintain("worker"))
  /\ WF_vars(CommitSeasons("bot") \/ RollBackSeasons("bot"))
  /\ WF_vars(\E p \in Players : CommitRegistration(p))
  /\ WF_vars(\E m \in DOMAIN matches : CommitMatch(m))
  /\ WF_vars(\E m \in DOMAIN matches, void \in BOOLEAN : CommitResult(m, void))

-----------------------------------------------------------------------------
\* The seasons follow each other without gap or overlap, so that at most one of
\* them is active, though the bot and the worker may create the same season at
\* once and one may be ended by force while the next one is being made.
SeasonsChain ==
  /\ \A s, t \in DOMAIN seasons :
       s < t => seasons[s].start < seasons[s].end /\ seasons[s].end <= seasons[t].start
  /\ \A s \in DOMAIN seasons : s > 1 => seasons[s].start = seasons[s - 1].end

\* The types, too.
SeasonsInv == TypeOK /\ SeasonsChain

\* A completed season is over and has no match left to finalize, but for one
\* that was still being created when the season ended; and it is announced, once,
\* whichever of the worker and the finalizations complete it.
CompletionSound ==
  /\ \A s \in DOMAIN seasons : seasons[s].completed =>
       /\ seasons[s].end <= clock
       /\ \A m \in OpenMatches(s) : matches[m].born >= seasons[s].end
  /\ \A s \in SeasonId :
       announced[s] = IF s \in DOMAIN seasons /\ seasons[s].completed THEN 1 ELSE 0

\* What was carried over stays so, whatever happens to the season before, no
\* game is lost and no row goes away.
CarryoverFinal ==
  [][ \A key \in DOMAIN stats :
        /\ key \in DOMAIN stats'
        /\ stats'[key].games >= stats[key].games
        /\ stats[key].carryover # "pending" => stats'[key].carryover = stats[key].carryover ]_vars

\* A season that is over is completed, unless a match of it remains open.
IsOver(s) == s \in DOMAIN seasons /\ seasons[s].end <= clock

SeasonsComplete ==
  \A s \in SeasonId :
    IsOver(s) ~> (IsOver(s) /\ (seasons[s].completed \/ OpenMatches(s) # {}))

\* Registrations, joins and new matches are possible again and again.
ServedAgain == []<>PairAt(clock)

\* The worker sees to both, whatever the bot, its restarts and a forced end do.
SeasonsGoOn == SeasonsComplete /\ ServedAgain
=============================================================================
