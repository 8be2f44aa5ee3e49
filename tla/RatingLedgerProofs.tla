--------------------------- MODULE RatingLedgerProofs -------------------------
(***************************************************************************)
(* What RatingLedger guarantees for any number of matches, players,        *)
(* finalizations and corrections under way at the same time.               *)
(***************************************************************************)
EXTENDS RatingLedger, FiniteSetTheorems, TLAPS

-----------------------------------------------------------------------------
\* Every set of numbers that is not empty has a least one.
LEMMA LeastNumber ==
  ASSUME NEW T \in SUBSET Nat, T # {}
  PROVE  \E m \in T : \A n \in T : m <= n
<1> DEFINE R == OpToRel(<, Nat)
<1>1. IsWellFoundedOn(R, Nat)
  BY NatLessThanWellFounded
<1> HIDE DEF R
<1>2. PICK m \in T : \A n \in T : <<n, m>> \notin R
  BY <1>1, WFMin
<1>3. \A n \in T : ~(n < m)
  BY <1>2 DEF R, OpToRel
<1> QED
  BY <1>3

\* The position of "x" in the order "R" of the members of "S".
Rank(R, S, x) == Cardinality({y \in S : <<y, x>> \in R})

\* A set with as many members as a strict order "R" of it has positions.
StrictOrder(R, S) ==
  /\ \A x \in S : <<x, x>> \notin R
  /\ \A x, y \in S : x # y => <<x, y>> \in R \/ <<y, x>> \in R
  /\ \A x, y, z \in S : <<x, y>> \in R /\ <<y, z>> \in R => <<x, z>> \in R

\* Every member of an ordered finite set has a position of its own, and every
\* position is taken.
LEMMA Ranks ==
  ASSUME NEW S, IsFiniteSet(S), NEW R, StrictOrder(R, S)
  PROVE  /\ \A x \in S : Rank(R, S, x) \in 0..Cardinality(S) - 1
         /\ \A x, y \in S : <<x, y>> \in R <=> Rank(R, S, x) < Rank(R, S, y)
         /\ \A i \in 0..Cardinality(S) - 1 : \E x \in S : Rank(R, S, x) = i
<1> DEFINE Below(x) == {y \in S : <<y, x>> \in R}
           n == Cardinality(S)
<1>1. n \in Nat
  BY FS_CardinalityType
<1>2. \A x \in S : /\ Below(x) \subseteq S /\ IsFiniteSet(Below(x))
                   /\ Rank(R, S, x) = Cardinality(Below(x))
                   /\ Rank(R, S, x) \in Nat
  BY FS_Subset, FS_CardinalityType DEF Rank
<1>3. ASSUME NEW x \in S
      PROVE  Rank(R, S, x) < n
  <2>1. x \notin Below(x)
    BY DEF StrictOrder
  <2>2. Below(x) # S
    BY <2>1
  <2>3. Cardinality(Below(x)) <= n /\ (n = Cardinality(Below(x)) => S = Below(x))
    BY <1>2, FS_Subset
  <2> QED
    BY <1>1, <1>2, <2>2, <2>3
<1>4. ASSUME NEW x \in S, NEW y \in S, <<x, y>> \in R
      PROVE  Rank(R, S, x) < Rank(R, S, y)
  <2>1. Below(x) \subseteq Below(y)
    BY <1>4 DEF StrictOrder
  <2>2. x \in Below(y) /\ x \notin Below(x)
    BY <1>4 DEF StrictOrder
  <2>3. /\ Cardinality(Below(x)) <= Cardinality(Below(y))
        /\ Cardinality(Below(y)) = Cardinality(Below(x)) => Below(y) = Below(x)
    BY <1>2, <2>1, FS_Subset
  <2> QED
    BY <1>2, <2>2, <2>3
<1> HIDE DEF Below, n
<1>a. \A x \in S : Rank(R, S, x) \in Nat
  BY <1>2
<1>b. \A x, y \in S : x # y => <<x, y>> \in R \/ <<y, x>> \in R
  BY DEF StrictOrder
<1>5. ASSUME NEW x \in S, NEW y \in S, Rank(R, S, x) < Rank(R, S, y)
      PROVE  <<x, y>> \in R
  <2>1. x # y
    BY <1>a, <1>5
  <2>2. <<y, x>> \notin R
    <3> SUFFICES ASSUME <<y, x>> \in R PROVE FALSE
      OBVIOUS
    <3>1. Rank(R, S, y) < Rank(R, S, x)
      BY <1>4
    <3> QED
      BY <1>a, <1>5, <3>1
  <2> QED
    BY <1>b, <2>1, <2>2
<1>6. \A i \in 0..n - 1 : \E x \in S : Rank(R, S, x) = i
  <2> DEFINE rank == [x \in S |-> Rank(R, S, x)]
             taken == {i \in 0..n - 1 : \E x \in S : rank[x] = i}
  <2>1. taken \subseteq 0..n - 1 /\ IsFiniteSet(0..n - 1) /\ Cardinality(0..n - 1) = n
    BY <1>1, FS_Interval
  <2>2. IsFiniteSet(taken)
    BY <2>1, FS_Subset
  <2>c. \A x \in S : rank[x] = Rank(R, S, x) /\ rank[x] \in 0..n - 1
    BY <1>1, <1>a, <1>3
  <2>3. rank \in [S -> taken]
    BY <2>c
  <2>4. \A x, y \in S : rank[x] = rank[y] => x = y
    <3> SUFFICES ASSUME NEW x \in S, NEW y \in S, rank[x] = rank[y], x # y
                 PROVE  FALSE
      OBVIOUS
    <3>1. Rank(R, S, x) < Rank(R, S, y) \/ Rank(R, S, y) < Rank(R, S, x)
      BY <1>b, <1>4
    <3> QED
      BY <1>a, <2>c, <3>1
  <2>5. rank \in Injection(S, taken)
    BY <2>3, <2>4 DEF Injection, IsInjective
  <2>6. n <= Cardinality(taken)
    BY <2>2, <2>5, FS_Injection DEF n
  <2>7. Cardinality(taken) <= n /\ (n = Cardinality(taken) => 0..n - 1 = taken)
    BY <2>1, FS_Subset
  <2>8. taken = 0..n - 1
    BY <1>1, <2>2, <2>6, <2>7, FS_CardinalityType
  <2> QED
    BY <2>8
<1>7. \A x \in S : Rank(R, S, x) \in 0..n - 1
  BY <1>1, <1>a, <1>3
<1>8. \A x, y \in S : <<x, y>> \in R <=> Rank(R, S, x) < Rank(R, S, y)
  BY <1>4, <1>5
<1> QED
  BY <1>6, <1>7, <1>8 DEF n

\* The sequence of the members of "S" in the order "R".
InOrderOf(R, S) ==
  [i \in 1..Cardinality(S) |-> CHOOSE x \in S : Rank(R, S, x) = i - 1]

\* It holds every member once, and each behind those before it.
LEMMA Sorted ==
  ASSUME NEW S, IsFiniteSet(S), NEW R, StrictOrder(R, S)
  PROVE  LET s == InOrderOf(R, S)
         IN  /\ s \in Seq(S) /\ Len(s) = Cardinality(S) /\ Len(s) \in Nat
             /\ DOMAIN s = 1..Len(s)
             /\ \A x \in S : \E i \in 1..Len(s) : s[i] = x
             /\ \A i, j \in 1..Len(s) : i < j <=> <<s[i], s[j]>> \in R
             /\ \A i, j \in 1..Len(s) : s[i] = s[j] => i = j
<1> DEFINE s == InOrderOf(R, S)
           n == Cardinality(S)
<1>1. n \in Nat
  BY FS_CardinalityType
<1>2. /\ \A x \in S : Rank(R, S, x) \in 0..n - 1
      /\ \A x, y \in S : <<x, y>> \in R <=> Rank(R, S, x) < Rank(R, S, y)
      /\ \A i \in 0..n - 1 : \E x \in S : Rank(R, S, x) = i
  BY Ranks
<1>3. \A i \in 1..n : s[i] \in S /\ Rank(R, S, s[i]) = i - 1
  <2> SUFFICES ASSUME NEW i \in 1..n
               PROVE  s[i] \in S /\ Rank(R, S, s[i]) = i - 1
    OBVIOUS
  <2>1. i - 1 \in 0..n - 1
    BY <1>1
  <2>2. \E x \in S : Rank(R, S, x) = i - 1
    BY <1>2, <2>1
  <2>3. s[i] = CHOOSE x \in S : Rank(R, S, x) = i - 1
    BY DEF InOrderOf
  <2> QED
    BY <2>2, <2>3
<1>4. s \in [1..n -> S]
  BY <1>3 DEF InOrderOf
<1>5. s \in Seq(S) /\ Len(s) = n /\ DOMAIN s = 1..n
  BY <1>1, <1>4
<1> HIDE DEF s, n
<1>6. \A x, y \in S : Rank(R, S, x) = Rank(R, S, y) => x = y
  BY <1>1, <1>2 DEF StrictOrder
<1>7. \A x \in S : \E i \in 1..n : s[i] = x
  <2> TAKE x \in S
  <2>1. Rank(R, S, x) + 1 \in 1..n
    BY <1>1, <1>2
  <2>2. s[Rank(R, S, x) + 1] \in S /\ Rank(R, S, s[Rank(R, S, x) + 1]) = Rank(R, S, x)
    BY <1>1, <1>2, <1>3, <2>1
  <2> QED
    BY <1>6, <2>1, <2>2
<1>8. \A i, j \in 1..n : i < j <=> <<s[i], s[j]>> \in R
  BY <1>1, <1>2, <1>3
<1>9. \A i, j \in 1..n : s[i] = s[j] => i = j
  BY <1>1, <1>3
<1> QED
  BY <1>1, <1>5, <1>7, <1>8, <1>9 DEF s, n

-----------------------------------------------------------------------------
\* Two matches have a player in common.
Meet(m, n) == PlayersOf(m) \cap PlayersOf(n) # {}

\* The matches of "S" that "p" took part in.
His(S, p) == {m \in S : p \in PlayersOf(m)}

\* The match of "S" that is rated last.
Latest(table, S) == CHOOSE m \in S : \A n \in S : n # m => RatedBefore(table, n, m)

\* The rating that "p" has after the matches "S": what the last one of them with
\* "p" makes of the ratings "snap" that are recorded for it.
Standing(table, snap, S, p) ==
  IF His(S, p) = {} THEN Unrated
  ELSE LET m == Latest(table, His(S, p))
       IN  RatingUpdates(snap[m], m, table[m].result)[p]

Earlier(table, m) == {n \in DOMAIN table : RatedBefore(table, n, m)}

\* What is recorded before each match is what the matches before it left.
Chain(table, snap) ==
  \A m \in DOMAIN table :
    snap[m] = [p \in PlayersOf(m) |-> Standing(table, snap, Earlier(table, m), p)]

\* Ratings link up from match to match. This says of neighbours what
\* RatingsAreReplay and SnapshotsAreReplay say of the whole history.
Linked ==
  /\ Chain(finalized, before)
  /\ rating = [p \in Players |-> Standing(finalized, before, DOMAIN finalized, p)]
  /\ lastPlayed = [p \in Players |-> LastPlayed(finalized, p)]

Entry == [result : Results, rated_at : Nat]
Transaction == [match : Matches, result : Results, at : Nat, held : SUBSET Locks,
                listed : Seq(Matches) \cup {None}, needs : Seq(Locks)]

\* A table of results, rated at certain times.
IsTable(table) == DOMAIN table \subseteq Matches /\ table \in [DOMAIN table -> Entry]

\* A finalization is of a match that is not final, and lists none to replay.
Finalizes(id, t, final) ==
  \E m \in Matches : /\ id = Finalization(m) /\ t.match = m
                     /\ t.listed = None /\ m \notin final

\* A correction is one of those that have begun, and of a match that is final.
Corrects(id, t, final, begun) ==
  /\ \E n \in 1..begun : id = Correction(n)
  /\ t.match \in final

TransactionOK(id, t, final, begun, now) ==
  /\ t \in Transaction /\ t.at <= now
  /\ t.listed # None => t.match \in Range(t.listed)
  /\ Finalizes(id, t, final) \/ Corrects(id, t, final, begun)

TablesOK ==
  /\ IsTable(finalized) /\ \A m \in DOMAIN finalized : finalized[m].rated_at <= clock
  /\ DOMAIN before = DOMAIN finalized
  /\ \A m \in DOMAIN before : DOMAIN before[m] = PlayersOf(m)
  /\ DOMAIN rating = Players /\ DOMAIN lastPlayed = Players
  /\ applied \in Seq(Matches) /\ Range(applied) = DOMAIN finalized
  /\ Len(applied) = Cardinality(DOMAIN finalized)
  /\ corrections \in 0..MaxCorrections /\ clock \in 0..MaxClock

TransactionsOK ==
  \A id \in DOMAIN transactions :
    TransactionOK(id, transactions[id], DOMAIN finalized, corrections, clock)

\* Tables are functions of records, and the transactions fit the tables.
Shape == TablesOK /\ TransactionsOK

\* To replay the matches "R" is enough when the result of "m" is corrected: the
\* others that are rated after "m" have no player in common with them.
Covers(table, m, R) ==
  /\ m \in R /\ R \subseteq DOMAIN table
  /\ \A n \in R : n = m \/ RatedBefore(table, m, n)
  /\ \A n \in DOMAIN table \ R : RatedBefore(table, m, n) => \A k \in R : ~Meet(n, k)

\* What a correction has listed is still enough, and in the right order.
ListsFresh ==
  \A id \in DOMAIN transactions :
    LET t == transactions[id]
    IN  t.listed # None =>
          /\ Covers(finalized, t.match, Range(t.listed))
          /\ t.listed = RatingOrder(finalized, Range(t.listed))

\* The ledger as long as no correction is overtaken.
ReplayInv ==
  /\ Shape /\ ListsFresh
  /\ InOrder => Linked

-----------------------------------------------------------------------------
\* No two transactions have the same lock.
Exclusive ==
  \A a, b \in DOMAIN transactions : a # b => Held(a) \cap Held(b) = {}

\* The locks of a finalization, in the order in which it takes them.
Plan(m) == <<MatchLock(m)>> \o PlayerLocks(<<m>>)

\* A finalization has the first locks of its plan and needs the rest.
Planned ==
  \A m \in Matches : Finalization(m) \in DOMAIN transactions =>
    \E k \in 0..Len(Plan(m)) :
      /\ Held(Finalization(m)) = {Plan(m)[i] : i \in 1..k}
      /\ transactions[Finalization(m)].needs = SubSeq(Plan(m), k + 1, Len(Plan(m)))

\* A transaction has, or is still to take, the locks of the players of its match;
\* a correction has them when it lists the matches to replay, and keeps them.
TargetLocked ==
  \A id \in DOMAIN transactions :
    LET t == transactions[id]
    IN  \A p \in PlayersOf(t.match) :
          \/ PlayerLock(p) \in t.held
          \/ t.listed = None /\ \E i \in DOMAIN t.needs : t.needs[i] = PlayerLock(p)

\* A correction has, or is still to take, the locks of the players of every match
\* that it has listed to replay.
ListLocked ==
  \A id \in DOMAIN transactions :
    LET t == transactions[id]
    IN  t.listed # None =>
          \A n \in Range(t.listed) : \A p \in PlayersOf(n) :
            PlayerLock(p) \in t.held \/ \E i \in DOMAIN t.needs : t.needs[i] = PlayerLock(p)

LockInv == Exclusive /\ Planned /\ TargetLocked /\ ListLocked

-----------------------------------------------------------------------------
\* Matches and players are finite sets of numbers.
LEMMA RosterFinite ==
  /\ Matches \subseteq Nat /\ IsFiniteSet(Matches)
  /\ Players \subseteq Nat /\ IsFiniteSet(Players)
  /\ \A m \in Matches : /\ PlayersOf(m) \subseteq Players
                        /\ IsFiniteSet(PlayersOf(m))
<1>1. Matches = 1..Len(Roster) /\ Len(Roster) \in Nat
  BY LedgerAssumption DEF Matches
<1>2. Matches \subseteq Nat /\ IsFiniteSet(Matches)
  BY <1>1, FS_Interval
<1>3. ASSUME NEW m \in Matches
      PROVE  PlayersOf(m) \subseteq Nat /\ IsFiniteSet(PlayersOf(m))
  <2>1. Roster[m] \in Seq(Nat)
    BY <1>1, LedgerAssumption
  <2>2. DOMAIN Roster[m] = 1..Len(Roster[m]) /\ Len(Roster[m]) \in Nat
    BY <2>1
  <2>3. IsFiniteSet(DOMAIN Roster[m])
    BY <2>2, FS_Interval
  <2>4. PlayersOf(m) \subseteq Nat
    BY <2>1, <2>2 DEF PlayersOf, Range
  <2>5. Roster[m] = [i \in 1..Len(Roster[m]) |-> Roster[m][i]]
    BY <2>1
  <2>6. Roster[m] \in Surjection(DOMAIN Roster[m], PlayersOf(m))
    BY <2>2, <2>5 DEF Surjection, PlayersOf, Range
  <2> QED
    BY <2>3, <2>4, <2>6, FS_Surjection
<1>4. Players \subseteq Nat /\ \A m \in Matches : PlayersOf(m) \subseteq Players
  BY <1>3 DEF Players
<1>5. IsFiniteSet(Players)
  <2> DEFINE teams == [m \in Matches |-> PlayersOf(m)]
             T == {PlayersOf(m) : m \in Matches}
  <2>1. teams \in Surjection(Matches, T)
    BY DEF Surjection
  <2>2. IsFiniteSet(T)
    BY <1>2, <2>1, FS_Surjection
  <2>3. \A t \in T : IsFiniteSet(t)
    BY <1>3
  <2> HIDE DEF T
  <2>4. IsFiniteSet(UNION T)
    BY <2>2, <2>3, FS_UNION
  <2> QED
    BY <2>4 DEF T, Players
<1> QED
  BY <1>2, <1>3, <1>4, <1>5

\* Ascending lists every member of a finite set of numbers once, in its order.
LEMMA AscendingSorts ==
  ASSUME NEW T \in SUBSET Nat, IsFiniteSet(T)
  PROVE  LET s == Ascending(T)
         IN  /\ s \in Seq(T) /\ Len(s) = Cardinality(T) /\ Len(s) \in Nat
             /\ DOMAIN s = 1..Len(s)
             /\ \A x \in T : \E i \in 1..Len(s) : s[i] = x
             /\ \A i, j \in 1..Len(s) : i < j <=> s[i] < s[j]
<1> DEFINE R == {e \in Nat \X Nat : e[1] < e[2]}
<1>1. \A x, y \in T : <<x, y>> \in R <=> x < y
  OBVIOUS
<1>2. StrictOrder(R, T)
  BY <1>1 DEF StrictOrder
<1>3. \A x \in T : {y \in T : <<y, x>> \in R} = {y \in T : y < x}
  BY <1>1
<1> HIDE DEF R
<1>4. \A x \in T : Rank(R, T, x) = Cardinality({y \in T : y < x})
  BY <1>3 DEF Rank
<1> DEFINE Ranked(i) == CHOOSE x \in T : Rank(R, T, x) = i - 1
           Counted(i) == CHOOSE x \in T : Cardinality({y \in T : y < x}) = i - 1
<1>5. \A i : Ranked(i) = Counted(i)
  BY <1>4
<1>6. Ascending(T) = InOrderOf(R, T)
  <2>1. Ascending(T) = [i \in 1..Cardinality(T) |-> Counted(i)]
    BY DEF Ascending
  <2>2. InOrderOf(R, T) = [i \in 1..Cardinality(T) |-> Ranked(i)]
    BY DEF InOrderOf
  <2> HIDE DEF Ranked, Counted
  <2> QED
    BY <1>5, <2>1, <2>2
<1> DEFINE s == InOrderOf(R, T)
<1>7. /\ s \in Seq(T) /\ Len(s) = Cardinality(T) /\ Len(s) \in Nat
      /\ DOMAIN s = 1..Len(s)
      /\ \A x \in T : \E i \in 1..Len(s) : s[i] = x
      /\ \A i, j \in 1..Len(s) : i < j <=> <<s[i], s[j]>> \in R
  BY <1>2, Sorted
<1> HIDE DEF s
<1>8. \A i \in 1..Len(s) : s[i] \in T
  BY <1>7
<1>9. \A i, j \in 1..Len(s) : i < j <=> s[i] < s[j]
  BY <1>1, <1>7, <1>8
<1> QED
  BY <1>6, <1>7, <1>9 DEF s

\* The order of a table's matches is a strict one.
LEMMA RatedBeforeOrders ==
  ASSUME NEW table, IsTable(table)
  PROVE  /\ \A m \in DOMAIN table : ~RatedBefore(table, m, m)
         /\ \A m, n \in DOMAIN table : m # n => RatedBefore(table, m, n) \/ RatedBefore(table, n, m)
         /\ \A l, m, n \in DOMAIN table :
              RatedBefore(table, l, m) /\ RatedBefore(table, m, n) => RatedBefore(table, l, n)
         /\ \A m, n \in DOMAIN table : RatedBefore(table, m, n) => ~RatedBefore(table, n, m)
<1>1. \A m \in DOMAIN table : m \in Nat /\ table[m].rated_at \in Nat
  BY RosterFinite DEF IsTable, Entry
<1> QED
  BY <1>1 DEF RatedBefore

\* The sequence "s" lists the matches "S", each once, in the order of the ratings.
Lists(s, table, S) ==
  /\ Len(s) \in Nat /\ DOMAIN s = 1..Len(s)
  /\ \A i \in 1..Len(s) : s[i] \in S
  /\ \A m \in S : \E i \in 1..Len(s) : s[i] = m
  /\ \A i, j \in 1..Len(s) : i < j <=> RatedBefore(table, s[i], s[j])
  /\ \A i, j \in 1..Len(s) : s[i] = s[j] => i = j

\* So does RatingOrder.
LEMMA RatingOrderSorts ==
  ASSUME NEW table, IsTable(table), NEW S \in SUBSET DOMAIN table
  PROVE  /\ Lists(RatingOrder(table, S), table, S)
         /\ RatingOrder(table, S) \in Seq(S)
         /\ Len(RatingOrder(table, S)) = Cardinality(S)
<1> DEFINE R == {e \in S \X S : RatedBefore(table, e[1], e[2])}
<1>1. \A x, y \in S : <<x, y>> \in R <=> RatedBefore(table, x, y)
  OBVIOUS
<1>0. IsFiniteSet(S)
  BY RosterFinite, FS_Subset DEF IsTable
<1>2. StrictOrder(R, S)
  BY <1>1, RatedBeforeOrders DEF StrictOrder
<1>3. \A x \in S : {y \in S : <<y, x>> \in R} = {y \in S : RatedBefore(table, y, x)}
  BY <1>1
<1> HIDE DEF R
<1>4. \A x \in S : Rank(R, S, x) = Cardinality({y \in S : RatedBefore(table, y, x)})
  BY <1>3 DEF Rank
<1> DEFINE Ranked(i) == CHOOSE x \in S : Rank(R, S, x) = i - 1
           Counted(i) == CHOOSE x \in S : Cardinality({y \in S : RatedBefore(table, y, x)}) = i - 1
<1>5. \A i : Ranked(i) = Counted(i)
  BY <1>4
<1>6. RatingOrder(table, S) = InOrderOf(R, S)
  <2>1. RatingOrder(table, S) = [i \in 1..Cardinality(S) |-> Counted(i)]
    BY DEF RatingOrder
  <2>2. InOrderOf(R, S) = [i \in 1..Cardinality(S) |-> Ranked(i)]
    BY DEF InOrderOf
  <2> HIDE DEF Ranked, Counted
  <2> QED
    BY <1>5, <2>1, <2>2
<1> DEFINE s == InOrderOf(R, S)
<1>7. /\ s \in Seq(S) /\ Len(s) = Cardinality(S) /\ Len(s) \in Nat
      /\ DOMAIN s = 1..Len(s)
      /\ \A x \in S : \E i \in 1..Len(s) : s[i] = x
      /\ \A i, j \in 1..Len(s) : i < j <=> <<s[i], s[j]>> \in R
      /\ \A i, j \in 1..Len(s) : s[i] = s[j] => i = j
  BY <1>0, <1>2, Sorted
<1> HIDE DEF s
<1>8. \A i \in 1..Len(s) : s[i] \in S
  BY <1>7
<1>9. \A i, j \in 1..Len(s) : i < j <=> RatedBefore(table, s[i], s[j])
  BY <1>1, <1>7, <1>8
<1>10. Lists(s, table, S)
  BY <1>7, <1>8, <1>9 DEF Lists
<1> QED
  BY <1>6, <1>7, <1>10 DEF s

\* The ratings "after" each match of "order", when they begin at "start".
Runs(after, start, order, table) ==
  /\ after[0] = start
  /\ \A i \in 1..Len(order) :
       after[i] = RatingUpdates(after[i - 1], order[i], table[order[i]].result)

\* RatingsAfter is what its recursion says.
LEMMA RatingsAfterSteps ==
  ASSUME NEW start, NEW order, Len(order) \in Nat, NEW table
  PROVE  Runs(RatingsAfter(start, order, table), start, order, table)
<1> DEFINE Step(f, i) ==
             IF i = 0 THEN start ELSE RatingUpdates(f[i - 1], order[i], table[order[i]].result)
           Solves(f, n) == f = [i \in 0..n |-> Step(f, i)]
           open == {n \in Nat : ~\E f : Solves(f, n)}
           len == Len(order)
<1>1. ASSUME open # {}
      PROVE  FALSE
  <2>1. PICK n \in open : \A k \in open : n <= k
    BY <1>1, LeastNumber
  <2>2. CASE n = 0
    <3>1. Solves([i \in 0..0 |-> start], 0)
      OBVIOUS
    <3> QED
      BY <2>1, <2>2, <3>1
  <2>3. CASE n # 0
    <3>1. n \in Nat /\ n - 1 \in Nat /\ n - 1 \notin open
      <4> HIDE DEF Step, Solves
      <4>1. n \in Nat
        BY <2>1
      <4>2. \A k \in open : n <= k
        BY <2>1
      <4> HIDE DEF open
      <4> QED
        BY <2>3, <4>1, <4>2
    <3>2. PICK f : Solves(f, n - 1)
      BY <3>1
    <3> DEFINE g == [i \in 0..n |-> Step(f, i)]
    <3>3. \A i \in 0..n - 1 : f[i] = Step(f, i)
      BY <3>1, <3>2
    <3>4. \A i \in 0..n - 1 : g[i] = f[i]
      BY <2>1, <3>3
    <3>5. \A i \in 0..n : Step(g, i) = Step(f, i)
      <4> TAKE i \in 0..n
      <4>1. CASE i = 0
        BY <4>1
      <4>2. CASE i # 0
        <5>1. i - 1 \in 0..n - 1
          BY <2>1, <4>2
        <5> HIDE DEF g
        <5>2. g[i - 1] = f[i - 1]
          BY <3>4, <5>1
        <5> QED
          BY <4>2, <5>2
      <4> QED
        BY <4>1, <4>2
    <3>6. Solves(g, n)
      BY <3>5
    <3> QED
      BY <2>1, <3>6
  <2> QED
    BY <2>2, <2>3
<1>2. \E f : Solves(f, len)
  BY <1>1
<1> DEFINE after == CHOOSE f : Solves(f, len)
<1>3. RatingsAfter(start, order, table) = after
  BY DEF RatingsAfter
<1>4. Solves(after, len)
  BY <1>2
<1> HIDE DEF after
<1>5. \A i \in 0..len : after[i] = Step(after, i)
  BY <1>4
<1>6. after[0] = start
  BY <1>5
<1>7. \A i \in 1..len : after[i] = RatingUpdates(after[i - 1], order[i], table[order[i]].result)
  <2> TAKE i \in 1..len
  <2>1. i \in 0..len /\ i # 0
    OBVIOUS
  <2> QED
    BY <1>5, <2>1
<1> QED
  BY <1>3, <1>6, <1>7 DEF Runs

-----------------------------------------------------------------------------
\* A set of matches that is not empty has one that is rated last.
LEMMA LatestExists ==
  ASSUME NEW table, IsTable(table), NEW S \in SUBSET DOMAIN table, S # {}
  PROVE  /\ Latest(table, S) \in S
         /\ \A n \in S : n # Latest(table, S) => RatedBefore(table, n, Latest(table, S))
<1> DEFINE s == RatingOrder(table, S)
           len == Len(s)
<1>1. /\ Len(s) \in Nat /\ \A i \in 1..Len(s) : s[i] \in S
      /\ \A m \in S : \E i \in 1..Len(s) : s[i] = m
      /\ \A i, j \in 1..Len(s) : i < j <=> RatedBefore(table, s[i], s[j])
  BY RatingOrderSorts DEF Lists
<1> HIDE DEF s
<1>2. len \in 1..len
  BY <1>1
<1>3. s[len] \in S
  BY <1>1, <1>2
<1>4. \A n \in S : n # s[len] => RatedBefore(table, n, s[len])
  <2> SUFFICES ASSUME NEW n \in S, n # s[len]
               PROVE  RatedBefore(table, n, s[len])
    OBVIOUS
  <2>1. PICK i \in 1..len : s[i] = n
    BY <1>1
  <2>2. i < len
    BY <1>1, <2>1
  <2> QED
    BY <1>1, <1>2, <2>1, <2>2
<1>5. \E m \in S : \A n \in S : n # m => RatedBefore(table, n, m)
  BY <1>3, <1>4
<1> QED
  BY <1>5 DEF Latest

LEMMA LatestIs ==
  ASSUME NEW table, IsTable(table), NEW S \in SUBSET DOMAIN table, NEW m \in S,
         \A n \in S : n # m => RatedBefore(table, n, m)
  PROVE  Latest(table, S) = m
<1>1. /\ Latest(table, S) \in S
      /\ \A n \in S : n # Latest(table, S) => RatedBefore(table, n, Latest(table, S))
  BY LatestExists
<1>2. SUFFICES ASSUME Latest(table, S) # m
               PROVE  FALSE
  OBVIOUS
<1>3. RatedBefore(table, m, Latest(table, S)) /\ RatedBefore(table, Latest(table, S), m)
  BY <1>1, <1>2
<1> QED
  BY <1>1, <1>3, RatedBeforeOrders

\* Two tables and their records agree about the matches "S".
Agree(table, snap, table2, snap2, S) ==
  /\ S \subseteq DOMAIN table /\ S \subseteq DOMAIN table2
  /\ \A m \in S : table[m] = table2[m] /\ snap[m] = snap2[m]

\* The standing depends on the entries and the records of the matches it is of.
LEMMA StandingSame ==
  ASSUME NEW table, IsTable(table), NEW table2, IsTable(table2), NEW snap, NEW snap2,
         NEW S, Agree(table, snap, table2, snap2, S), NEW p
  PROVE  Standing(table, snap, S, p) = Standing(table2, snap2, S, p)
<1>0. /\ S \subseteq DOMAIN table /\ S \subseteq DOMAIN table2
      /\ \A m \in S : table[m] = table2[m] /\ snap[m] = snap2[m]
  BY DEF Agree
<1>1. CASE His(S, p) = {}
  BY <1>1 DEF Standing
<1>2. CASE His(S, p) # {}
  <2> DEFINE H == His(S, p)
             m == Latest(table, H)
  <2>1. H \subseteq S
    BY DEF His
  <2>2. m \in H /\ \A n \in H : n # m => RatedBefore(table, n, m)
    BY <1>0, <1>2, <2>1, LatestExists
  <2> HIDE DEF m
  <2>3. \A n \in H : n # m => RatedBefore(table2, n, m)
    BY <1>0, <2>1, <2>2 DEF RatedBefore
  <2>4. Latest(table2, H) = m
    BY <1>0, <2>1, <2>2, <2>3, LatestIs
  <2>5. table[m] = table2[m] /\ snap[m] = snap2[m]
    BY <1>0, <2>2 DEF His
  <2> QED
    BY <1>2, <2>4, <2>5 DEF Standing, m
<1> QED
  BY <1>1, <1>2

StandingsAfter(table, snap, S) == [p \in Players |-> Standing(table, snap, S, p)]

\* A match that is rated after those of "S" with its players gives the next standing.
LEMMA StandingStep ==
  ASSUME NEW table, IsTable(table), NEW snap,
         NEW S \in SUBSET DOMAIN table, NEW m \in DOMAIN table \ S,
         \A n \in S : Meet(n, m) => RatedBefore(table, n, m),
         NEW now, now = StandingsAfter(table, snap, S),
         snap[m] = [p \in PlayersOf(m) |-> now[p]]
  PROVE  RatingUpdates(now, m, table[m].result) = StandingsAfter(table, snap, S \cup {m})
<1> DEFINE r == table[m].result
           next == RatingUpdates(now, m, r)
           T == S \cup {m}
<1>1. m \in Matches /\ PlayersOf(m) \subseteq Players
  BY RosterFinite DEF IsTable
<1>2. DOMAIN next = Players /\ next = [p \in Players |-> next[p]]
  BY DEF RatingUpdates, Rated, StandingsAfter
<1>n. DOMAIN now = Players /\ \A p \in Players : now[p] = Standing(table, snap, S, p)
  BY DEF StandingsAfter
<1>3. ASSUME NEW p \in Players, p \notin PlayersOf(m)
      PROVE  next[p] = Standing(table, snap, T, p)
  <2>1. His(T, p) = His(S, p)
    BY <1>3 DEF His
  <2>2. next[p] = now[p]
    BY <1>n, <1>3 DEF RatingUpdates, Rated
  <2> QED
    BY <1>n, <2>1, <2>2 DEF Standing
<1>4. ASSUME NEW p \in Players, p \in PlayersOf(m)
      PROVE  next[p] = Standing(table, snap, T, p)
  <2>1. /\ m \in His(T, p) /\ His(T, p) \subseteq DOMAIN table
        /\ \A n \in His(T, p) : n # m => RatedBefore(table, n, m)
    BY <1>4 DEF His, Meet
  <2>2. Latest(table, His(T, p)) = m
    BY <2>1, LatestIs
  <2>3. Standing(table, snap, T, p) = RatingUpdates(snap[m], m, r)[p]
    BY <2>1, <2>2 DEF Standing
  <2>4. Restrict(now, PlayersOf(m)) = Restrict(snap[m], PlayersOf(m))
    BY DEF Restrict
  <2>5. next[p] = RatingUpdates(snap[m], m, r)[p]
    <3>1. CASE r = "VOID"
      BY <1>4, <3>1 DEF RatingUpdates
    <3>2. CASE r # "VOID"
      <4>1. next[p] = [games |-> now[p].games + 1, term |-> <<m, r, Restrict(now, PlayersOf(m))>>]
        BY <1>n, <1>4, <3>2 DEF RatingUpdates, Rated
      <4>2. RatingUpdates(snap[m], m, r)[p] =
              [games |-> snap[m][p].games + 1, term |-> <<m, r, Restrict(snap[m], PlayersOf(m))>>]
        BY <1>4, <3>2 DEF RatingUpdates, Rated
      <4>3. snap[m][p] = now[p]
        BY <1>4
      <4> QED
        BY <2>4, <4>1, <4>2, <4>3
    <3> QED
      BY <3>1, <3>2
  <2> QED
    BY <2>3, <2>5
<1> HIDE DEF next, T
<1>5. \A p \in Players : next[p] = Standing(table, snap, T, p)
  BY <1>3, <1>4
<1> QED
  BY <1>2, <1>5 DEF next, T, StandingsAfter

\* The matches of "E" and the first "i" of the sequence "s".
Done(E, s, i) == E \cup {s[j] : j \in 1..i}

\* Each match of "s" is recorded with the ratings that a replay finds, if it has
\* found the right ones so far.
Recorded(table, snap, E, s, after) ==
  \A i \in 1..Len(s) :
    after[i - 1] = StandingsAfter(table, snap, Done(E, s, i - 1))
      => snap[s[i]] = [p \in PlayersOf(s[i]) |-> after[i - 1][p]]

\* Of the matches of a player, those in "E" are rated before those in "R".
Parted(table, E, R) ==
  /\ E \subseteq DOMAIN table /\ R \subseteq DOMAIN table /\ \A n \in E : n \notin R
  /\ \A n \in E, m \in R : Meet(n, m) => RatedBefore(table, n, m)

\* Replaying the matches "R", which come after those of "E", in their order leads
\* to the standings after all of them, when each is recorded with the ratings
\* that the replay finds.
LEMMA ReplayStands ==
  ASSUME NEW table, IsTable(table), NEW snap,
         NEW E, NEW R, Parted(table, E, R), NEW s, Lists(s, table, R),
         NEW after, Runs(after, StandingsAfter(table, snap, E), s, table),
         Recorded(table, snap, E, s, after)
  PROVE  /\ \A i \in 0..Len(s) : after[i] = StandingsAfter(table, snap, Done(E, s, i))
         /\ after[Len(s)] = StandingsAfter(table, snap, E \cup R)
<1> DEFINE Good(i) == after[i] = StandingsAfter(table, snap, Done(E, s, i))
           bad == {i \in 0..Len(s) : ~Good(i)}
<1>1. /\ Len(s) \in Nat /\ \A i \in 1..Len(s) : s[i] \in R
      /\ \A m \in R : \E i \in 1..Len(s) : s[i] = m
      /\ \A i, j \in 1..Len(s) : i < j <=> RatedBefore(table, s[i], s[j])
      /\ \A i, j \in 1..Len(s) : s[i] = s[j] => i = j
  BY DEF Lists
<1>p. /\ E \subseteq DOMAIN table /\ R \subseteq DOMAIN table /\ \A n \in E : n \notin R
      /\ \A n \in E, m \in R : Meet(n, m) => RatedBefore(table, n, m)
  BY DEF Parted
<1>2. /\ after[0] = StandingsAfter(table, snap, E)
      /\ \A i \in 1..Len(s) :
           after[i] = RatingUpdates(after[i - 1], s[i], table[s[i]].result)
  BY DEF Runs
<1>3. \A i \in 1..Len(s) : Good(i - 1) => snap[s[i]] = [p \in PlayersOf(s[i]) |-> after[i - 1][p]]
  BY DEF Recorded
<1>4. Good(0)
  <2>1. Done(E, s, 0) = E
    BY DEF Done
  <2> QED
    BY <1>2, <2>1
<1>5. ASSUME NEW i \in 1..Len(s), Good(i - 1)
      PROVE  Good(i)
  <2> DEFINE m == s[i]
             S == Done(E, s, i - 1)
  <2>1. m \in R /\ m \in DOMAIN table
    BY <1>1, <1>p
  <2>2. \A j \in 1..i - 1 : j \in 1..Len(s) /\ j < i /\ j # i
    BY <1>1
  <2>4. \A n \in S : Meet(n, m) => RatedBefore(table, n, m)
    BY <1>1, <1>p, <2>1, <2>2 DEF Done
  <2>3. S \subseteq DOMAIN table /\ m \notin S
    BY <1>1, <1>p, <2>1, <2>2 DEF Done
  <2>5. S \cup {m} = Done(E, s, i)
    <3>1. 1..i = (1..i - 1) \cup {i}
      BY <1>1
    <3> QED
      BY <3>1 DEF Done
  <2>6. /\ after[i - 1] = StandingsAfter(table, snap, S)
        /\ snap[m] = [p \in PlayersOf(m) |-> after[i - 1][p]]
    BY <1>3, <1>5
  <2>7. after[i] = RatingUpdates(after[i - 1], m, table[m].result)
    BY <1>2
  <2> HIDE DEF m, S
  <2>8. RatingUpdates(after[i - 1], m, table[m].result)
          = StandingsAfter(table, snap, S \cup {m})
    BY <2>1, <2>3, <2>4, <2>6, StandingStep
  <2> QED
    BY <2>5, <2>7, <2>8
<1> HIDE DEF Good
<1>6. ASSUME bad # {}
      PROVE  FALSE
  <2>0. bad \in SUBSET Nat
    BY <1>1
  <2>1. PICK i \in bad : \A k \in bad : i <= k
    BY <1>6, <2>0, LeastNumber
  <2>2. i \in 0..Len(s) /\ ~Good(i) /\ i # 0
    BY <1>4, <2>1
  <2>3. i \in 1..Len(s) /\ i - 1 \in 0..Len(s) /\ i - 1 \notin bad
    <3>1. i - 1 \in 0..Len(s) /\ i \in 1..Len(s)
      BY <1>1, <2>2
    <3> HIDE DEF bad
    <3> QED
      BY <1>1, <2>1, <2>2, <3>1
  <2>4. Good(i - 1)
    BY <2>3
  <2> QED
    BY <1>5, <2>2, <2>3, <2>4
<1>7. \A i \in 0..Len(s) : Good(i)
  BY <1>6
<1>8. Done(E, s, Len(s)) = E \cup R
  BY <1>1 DEF Done
<1>9. Good(Len(s))
  BY <1>1, <1>7
<1> QED
  BY <1>7, <1>8, <1>9 DEF Good

\* Of each match, "D" has all those that are rated before it.
Closed(table, D) == \A m \in D : Earlier(table, m) \subseteq D

\* What has been replayed before a match are, of each of its players, the matches
\* that are rated earlier.
LEMMA DoneIsEarlier ==
  ASSUME NEW table, IsTable(table), NEW E, NEW R, Parted(table, E, R),
         NEW D, D = E \cup R, Closed(table, D),
         NEW s, Lists(s, table, R), NEW i \in 1..Len(s), NEW p \in PlayersOf(s[i])
  PROVE  His(Done(E, s, i - 1), p) = His(Earlier(table, s[i]), p)
<1>1. /\ Len(s) \in Nat /\ \A j \in 1..Len(s) : s[j] \in R
      /\ \A m \in R : \E j \in 1..Len(s) : s[j] = m
      /\ \A j, k \in 1..Len(s) : j < k <=> RatedBefore(table, s[j], s[k])
  BY DEF Lists
<1>p. /\ E \subseteq DOMAIN table /\ R \subseteq DOMAIN table
      /\ \A n \in E, m \in R : Meet(n, m) => RatedBefore(table, n, m)
  BY DEF Parted
<1>2. s[i] \in R /\ s[i] \in DOMAIN table
  BY <1>1, <1>p
<1>3. ASSUME NEW n \in Done(E, s, i - 1), p \in PlayersOf(n)
      PROVE  n \in Earlier(table, s[i])
  <2>1. CASE n \in E
    <3>1. Meet(n, s[i])
      BY <1>3 DEF Meet
    <3> QED
      BY <1>2, <1>p, <2>1, <3>1 DEF Earlier
  <2>2. CASE n \notin E
    <3>1. PICK j \in 1..i - 1 : n = s[j]
      BY <1>3, <2>2 DEF Done
    <3>2. j \in 1..Len(s) /\ j < i
      BY <1>1, <3>1
    <3> QED
      BY <1>1, <1>p, <3>1, <3>2 DEF Earlier
  <2> QED
    BY <2>1, <2>2
<1>4. ASSUME NEW n \in Earlier(table, s[i])
      PROVE  n \in Done(E, s, i - 1)
  <2>1. n \in D /\ RatedBefore(table, n, s[i])
    BY <1>2 DEF Earlier, Closed
  <2>2. CASE n \in E
    BY <2>2 DEF Done
  <2>3. CASE n \notin E
    <3>1. PICK j \in 1..Len(s) : s[j] = n
      BY <1>1, <2>1, <2>3
    <3>2. j < i /\ j \in 1..i - 1
      BY <1>1, <2>1, <3>1
    <3> QED
      BY <3>1, <3>2 DEF Done
  <2> QED
    BY <2>2, <2>3
<1> QED
  BY <1>3, <1>4 DEF His

\* If the records link up, a replay from the season's start finds the standings.
LEMMA ReferenceStands ==
  ASSUME IsTable(finalized), Chain(finalized, before),
         NEW D \in SUBSET DOMAIN finalized, Closed(finalized, D)
  PROVE  Reference(D) = StandingsAfter(finalized, before, D)
<1> DEFINE s == RatingOrder(finalized, D)
           start == [p \in Players |-> Unrated]
           after == RatingsAfter(start, s, finalized)
           none == {}
<1>1. Lists(s, finalized, D) /\ Len(s) = Cardinality(D) /\ Len(s) \in Nat
  BY RatingOrderSorts DEF Lists
<1>2. Reference(D) = after[Len(s)]
  BY <1>1 DEF Reference
<1> HIDE DEF s
<1>3. start = StandingsAfter(finalized, before, none)
  BY DEF StandingsAfter, Standing, His
<1> HIDE DEF start
<1>4. Runs(after, StandingsAfter(finalized, before, none), s, finalized)
  BY <1>1, <1>3, RatingsAfterSteps
<1> HIDE DEF after
<1>5. none \cup D = D /\ Parted(finalized, none, D)
  BY DEF Parted
<1> HIDE DEF none
<1>6. Recorded(finalized, before, none, s, after)
  <2> SUFFICES ASSUME NEW i \in 1..Len(s),
                      after[i - 1] = StandingsAfter(finalized, before, Done(none, s, i - 1))
               PROVE  before[s[i]] = [p \in PlayersOf(s[i]) |-> after[i - 1][p]]
    BY DEF Recorded
  <2>1. \A p \in PlayersOf(s[i]) :
          His(Done(none, s, i - 1), p) = His(Earlier(finalized, s[i]), p)
    BY <1>1, <1>5, DoneIsEarlier
  <2>2. s[i] \in DOMAIN finalized
    BY <1>1 DEF Lists
  <2>3. PlayersOf(s[i]) \subseteq Players
    BY <2>2, RosterFinite DEF IsTable
  <2>4. \A p \in PlayersOf(s[i]) :
          after[i - 1][p] = Standing(finalized, before, Earlier(finalized, s[i]), p)
    BY <2>1, <2>3 DEF StandingsAfter, Standing
  <2> QED
    BY <2>2, <2>4 DEF Chain
<1>7. after[Len(s)] = StandingsAfter(finalized, before, D)
  BY <1>1, <1>4, <1>5, <1>6, ReplayStands
<1> QED
  BY <1>2, <1>7

\* Ratings that link up are those of a replay, and so are the records.
LEMMA LinkedIsReplay ==
  ASSUME IsTable(finalized), Linked
  PROVE  /\ rating = Reference(DOMAIN finalized)
         /\ \A p \in Players : lastPlayed[p] = LastPlayed(finalized, p)
         /\ \A m \in DOMAIN finalized :
              before[m] = Restrict(Reference({n \in DOMAIN finalized : RatedBefore(finalized, n, m)}),
                                   PlayersOf(m))
<1>1. Chain(finalized, before)
  BY DEF Linked
<1>2. rating = Reference(DOMAIN finalized)
  <2>1. Closed(finalized, DOMAIN finalized)
    BY DEF Closed, Earlier
  <2>2. Reference(DOMAIN finalized) = StandingsAfter(finalized, before, DOMAIN finalized)
    BY <1>1, <2>1, ReferenceStands
  <2> QED
    BY <2>2 DEF Linked, StandingsAfter
<1>3. \A p \in Players : lastPlayed[p] = LastPlayed(finalized, p)
  BY DEF Linked
<1>4. ASSUME NEW m \in DOMAIN finalized
      PROVE  before[m] = Restrict(Reference(Earlier(finalized, m)), PlayersOf(m))
  <2> DEFINE D == Earlier(finalized, m)
  <2>1. D \subseteq DOMAIN finalized
    BY DEF Earlier
  <2>2. Closed(finalized, D)
    BY RatedBeforeOrders DEF Closed, Earlier
  <2> HIDE DEF D
  <2>3. Reference(D) = StandingsAfter(finalized, before, D)
    BY <1>1, <2>1, <2>2, ReferenceStands
  <2>4. PlayersOf(m) \subseteq Players
    BY RosterFinite DEF IsTable
  <2>5. before[m] = [p \in PlayersOf(m) |-> Standing(finalized, before, D, p)]
    BY <1>1 DEF Chain, D
  <2>6. \A p \in PlayersOf(m) : Reference(D)[p] = Standing(finalized, before, D, p)
    BY <2>3, <2>4 DEF StandingsAfter
  <2>7. before[m] = Restrict(Reference(D), PlayersOf(m))
    BY <2>5, <2>6 DEF Restrict
  <2> QED
    BY <2>7 DEF D
<1> QED
  BY <1>2, <1>3, <1>4 DEF Earlier

-----------------------------------------------------------------------------
\* The roll back of replay_rating_history returns to what the matches before
\* the replayed ones left.
LEMMA RollBackStands ==
  ASSUME IsTable(finalized), Chain(finalized, before),
         rating = StandingsAfter(finalized, before, DOMAIN finalized),
         NEW E, NEW R, Parted(finalized, E, R), E \cup R = DOMAIN finalized,
         NEW s, Lists(s, finalized, R)
  PROVE  RollBack(rating, s) = StandingsAfter(finalized, before, E)
<1> DEFINE his(p) == {i \in DOMAIN s : p \in PlayersOf(s[i])}
           back == RollBack(rating, s)
<1>1. /\ Len(s) \in Nat /\ DOMAIN s = 1..Len(s) /\ \A j \in 1..Len(s) : s[j] \in R
      /\ \A m \in R : \E j \in 1..Len(s) : s[j] = m
      /\ \A j, k \in 1..Len(s) : j < k <=> RatedBefore(finalized, s[j], s[k])
  BY DEF Lists
<1>2. E \subseteq DOMAIN finalized /\ R \subseteq DOMAIN finalized
      /\ \A n \in E, m \in R : Meet(n, m) => RatedBefore(finalized, n, m)
  BY DEF Parted
<1>3. /\ DOMAIN rating = Players
      /\ \A p \in Players : rating[p] = Standing(finalized, before, DOMAIN finalized, p)
  BY DEF StandingsAfter
<1>4. back = [p \in Players |->
                IF his(p) = {} THEN rating[p]
                ELSE before[s[CHOOSE i \in his(p) : \A j \in his(p) : i <= j]][p]]
  BY <1>3 DEF RollBack
<1> HIDE DEF back
<1>5. ASSUME NEW p \in Players, his(p) = {}
      PROVE  back[p] = Standing(finalized, before, E, p)
  <2>1. \A m \in R : p \notin PlayersOf(m)
    BY <1>1, <1>5
  <2>2. His(DOMAIN finalized, p) = His(E, p)
    BY <1>2, <2>1 DEF His
  <2> QED
    BY <1>3, <1>4, <1>5, <2>2 DEF Standing
<1>6. ASSUME NEW p \in Players, his(p) # {}
      PROVE  back[p] = Standing(finalized, before, E, p)
  <2> DEFINE H == his(p)
             i == CHOOSE k \in H : \A j \in H : k <= j
             m == s[i]
  <2>1. H \subseteq Nat
    BY <1>1
  <2>2. \E k \in H : \A j \in H : k <= j
    <3> HIDE DEF H
    <3> QED
      BY <1>6, <2>1, LeastNumber DEF H
  <2>3. i \in H /\ \A j \in H : i <= j
    BY <2>2
  <2>4. back[p] = before[m][p]
    BY <1>4, <1>6
  <2> HIDE DEF i
  <2>5. i \in 1..Len(s) /\ p \in PlayersOf(m) /\ m \in R /\ m \in DOMAIN finalized
    BY <1>1, <1>2, <2>3
  <2>6. back[p] = Standing(finalized, before, Earlier(finalized, m), p)
    BY <2>4, <2>5 DEF Chain
  <2>7. ASSUME NEW n \in His(Earlier(finalized, m), p)
        PROVE  n \in His(E, p)
    <3>1. n \in DOMAIN finalized /\ RatedBefore(finalized, n, m) /\ p \in PlayersOf(n)
      BY <2>7 DEF His, Earlier
    <3>2. ASSUME n \in R
          PROVE  FALSE
      <4>1. PICK j \in 1..Len(s) : s[j] = n
        BY <1>1, <3>2
      <4>2. j < i /\ j \in H
        BY <1>1, <2>5, <3>1, <4>1
      <4> QED
        BY <2>1, <2>3, <4>2
    <3> QED
      BY <3>1, <3>2 DEF His
  <2>8. ASSUME NEW n \in His(E, p)
        PROVE  n \in His(Earlier(finalized, m), p)
    BY <1>2, <2>5, <2>8 DEF His, Earlier, Meet
  <2>9. His(Earlier(finalized, m), p) = His(E, p)
    BY <2>7, <2>8
  <2> QED
    BY <2>6, <2>9 DEF Standing
<1>7. \A p \in Players : back[p] = Standing(finalized, before, E, p)
  BY <1>5, <1>6
<1> QED
  BY <1>4, <1>7 DEF back, StandingsAfter

\* The correction of a result, with a list of enough matches from the corrected
\* one on, makes records and ratings that link up again.
LEMMA CorrectionLinks ==
  ASSUME IsTable(finalized), Chain(finalized, before), DOMAIN before = DOMAIN finalized,
         rating = StandingsAfter(finalized, before, DOMAIN finalized),
         NEW m \in DOMAIN finalized, NEW r \in Results,
         NEW table, table = [finalized EXCEPT ![m].result = r],
         NEW R, Covers(finalized, m, R), NEW s, s = RatingOrder(finalized, R),
         NEW done, done = Replay(rating, s, table)
  PROVE  /\ IsTable(table)
         /\ Chain(table, done.before)
         /\ done.rating = StandingsAfter(table, done.before, DOMAIN table)
         /\ DOMAIN done.before = DOMAIN finalized
<1> DEFINE E == DOMAIN finalized \ R
           back == RollBack(rating, s)
           after == RatingsAfter(back, s, table)
           place(n) == CHOOSE i \in DOMAIN s : s[i] = n
           snap == done.before
<1>1. /\ DOMAIN table = DOMAIN finalized /\ IsTable(table)
      /\ \A n \in DOMAIN finalized : n # m => table[n] = finalized[n]
      /\ \A n \in DOMAIN finalized : table[n].rated_at = finalized[n].rated_at
  BY DEF IsTable, Entry
<1>2. R \subseteq DOMAIN finalized /\ m \in R /\ m \notin E
      /\ E \subseteq DOMAIN finalized /\ E \cup R = DOMAIN finalized
  BY DEF Covers
<1>3. \A k, n \in DOMAIN finalized : RatedBefore(table, k, n) <=> RatedBefore(finalized, k, n)
  BY <1>1 DEF RatedBefore
<1>4. ASSUME NEW k \in E, NEW n \in R, Meet(k, n)
      PROVE  RatedBefore(finalized, k, n)
  <2>1. k \in DOMAIN finalized \ R /\ n \in DOMAIN finalized /\ k # m
    BY <1>2
  <2>2. ~RatedBefore(finalized, m, k)
    BY <1>4, <2>1 DEF Covers
  <2>3. RatedBefore(finalized, k, m)
    BY <2>1, <2>2, RatedBeforeOrders
  <2>4. n = m \/ RatedBefore(finalized, m, n)
    BY DEF Covers
  <2> QED
    BY <2>1, <2>3, <2>4, RatedBeforeOrders
<1>5. Parted(finalized, E, R) /\ Parted(table, E, R)
  BY <1>1, <1>2, <1>3, <1>4 DEF Parted
<1>6. Lists(s, finalized, R)
  BY <1>2, RatingOrderSorts
<1>7. Lists(s, table, R)
  BY <1>2, <1>3, <1>6 DEF Lists
<1>8. back = StandingsAfter(finalized, before, E)
  BY <1>2, <1>5, <1>6, RollBackStands
<1>9. /\ Len(s) \in Nat /\ DOMAIN s = 1..Len(s) /\ Range(s) = R
      /\ \A i \in 1..Len(s) : s[i] \in R
      /\ \A n \in R : \E i \in 1..Len(s) : s[i] = n
      /\ \A i, j \in 1..Len(s) : s[i] = s[j] => i = j
  BY <1>6 DEF Lists, Range
<1> HIDE DEF back, after, E
<1>10. /\ done.rating = after[Len(s)]
       /\ snap = [n \in DOMAIN finalized |->
                    IF n \in R THEN Restrict(after[place(n) - 1], PlayersOf(n)) ELSE before[n]]
  BY <1>9 DEF Replay, after, back
<1> HIDE DEF snap
<1>11. \A i \in 1..Len(s) : place(s[i]) = i
  BY <1>9
<1> HIDE DEF place
<1>12. \A i \in 1..Len(s) : snap[s[i]] = [p \in PlayersOf(s[i]) |-> after[i - 1][p]]
  BY <1>2, <1>9, <1>10, <1>11 DEF Restrict
<1>13. \A n \in E : n \notin R /\ snap[n] = before[n] /\ table[n] = finalized[n]
  BY <1>1, <1>2, <1>10 DEF E
<1>14. StandingsAfter(table, snap, E) = back
  <2>1. \A p : Standing(table, snap, E, p) = Standing(finalized, before, E, p)
    <3>1. Agree(table, snap, finalized, before, E)
      BY <1>1, <1>2, <1>13 DEF Agree
    <3> QED
      BY <1>1, <3>1, StandingSame
  <2> QED
    BY <1>8, <2>1 DEF StandingsAfter
<1>15. Runs(after, StandingsAfter(table, snap, E), s, table)
  BY <1>9, <1>14, RatingsAfterSteps DEF after
<1>16. Recorded(table, snap, E, s, after)
  BY <1>12 DEF Recorded
<1>17. /\ \A i \in 0..Len(s) : after[i] = StandingsAfter(table, snap, Done(E, s, i))
       /\ after[Len(s)] = StandingsAfter(table, snap, E \cup R)
  BY <1>1, <1>5, <1>7, <1>15, <1>16, ReplayStands
<1>18. Closed(table, DOMAIN table)
  BY DEF Closed, Earlier
<1>19. ASSUME NEW n \in R
       PROVE  snap[n] = [p \in PlayersOf(n) |-> Standing(table, snap, Earlier(table, n), p)]
  <2>1. PICK i \in 1..Len(s) : s[i] = n
    BY <1>9
  <2>2. i - 1 \in 0..Len(s)
    BY <1>9
  <2>3. after[i - 1] = StandingsAfter(table, snap, Done(E, s, i - 1))
    BY <1>17, <2>2
  <2>4. \A p \in PlayersOf(n) : His(Done(E, s, i - 1), p) = His(Earlier(table, n), p)
    BY <1>1, <1>2, <1>5, <1>7, <1>18, <2>1, DoneIsEarlier
  <2>5. PlayersOf(n) \subseteq Players
    BY <1>2, RosterFinite DEF IsTable
  <2>6. \A p \in PlayersOf(n) : after[i - 1][p] = Standing(table, snap, Earlier(table, n), p)
    BY <2>3, <2>4, <2>5 DEF StandingsAfter, Standing
  <2>7. snap[n] = [p \in PlayersOf(n) |-> after[i - 1][p]]
    BY <1>12, <2>1
  <2> QED
    BY <2>6, <2>7
<1>20. ASSUME NEW n \in E
       PROVE  snap[n] = [p \in PlayersOf(n) |-> Standing(table, snap, Earlier(table, n), p)]
  <2> DEFINE S == Earlier(finalized, n)
  <2>1. n \in DOMAIN finalized /\ Earlier(table, n) = S
    BY <1>1, <1>2, <1>3 DEF Earlier
  <2>2. ASSUME NEW p \in PlayersOf(n)
        PROVE  His(S, p) \subseteq E
    <3> SUFFICES ASSUME NEW k \in S, p \in PlayersOf(k), k \in R
                 PROVE  FALSE
      BY <1>2 DEF Earlier, His
    <3>1. RatedBefore(finalized, k, n) /\ k \in DOMAIN finalized /\ Meet(n, k)
      BY <2>2 DEF Earlier, Meet
    <3>2. RatedBefore(finalized, n, k)
      BY <1>4, <1>20, <3>1
    <3> QED
      BY <2>1, <3>1, <3>2, RatedBeforeOrders
  <2> HIDE DEF S
  <2>3. before[n] = [p \in PlayersOf(n) |-> Standing(finalized, before, S, p)]
    BY <2>1 DEF Chain, S
  <2>4. ASSUME NEW p \in PlayersOf(n)
        PROVE  Standing(table, snap, S, p) = Standing(finalized, before, S, p)
    <3> DEFINE H == His(S, p)
    <3>1. Agree(table, snap, finalized, before, H)
      BY <1>1, <1>2, <1>13, <2>2 DEF Agree
    <3>2. His(H, p) = His(S, p)
      BY DEF His
    <3> HIDE DEF H
    <3>3. Standing(table, snap, H, p) = Standing(finalized, before, H, p)
      BY <1>1, <3>1, StandingSame
    <3> QED
      BY <3>2, <3>3 DEF Standing
  <2>5. snap[n] = before[n]
    BY <1>13
  <2> QED
    BY <2>1, <2>3, <2>4, <2>5
<1>21. Chain(table, snap)
  BY <1>1, <1>2, <1>19, <1>20 DEF Chain
<1>22. DOMAIN snap = DOMAIN finalized
  BY <1>10
<1> QED
  BY <1>1, <1>2, <1>10, <1>17, <1>21, <1>22 DEF snap

-----------------------------------------------------------------------------
\* The locks of the players of some matches: each player's once, in their order.
LEMMA PlayerLocksSorted ==
  ASSUME NEW ms \in Seq(Matches)
  PROVE  LET s == PlayerLocks(ms)
             players == UNION {PlayersOf(m) : m \in Range(ms)}
         IN  /\ s \in Seq(Locks) /\ DOMAIN s = 1..Len(s) /\ Len(s) \in Nat
             /\ \A p \in players : \E i \in 1..Len(s) : s[i] = PlayerLock(p)
             /\ \A i \in 1..Len(s) : \E p \in players : s[i] = PlayerLock(p)
             /\ \A i, j \in 1..Len(s), p, q \in players :
                  i < j /\ s[i] = PlayerLock(p) /\ s[j] = PlayerLock(q) => p < q
<1> DEFINE players == UNION {PlayersOf(m) : m \in Range(ms)}
           s == PlayerLocks(ms)
           ids == Ascending(players)
<1>1. Range(ms) \subseteq Matches
  BY DEF Range
<1>2. players \subseteq Players
  BY <1>1, RosterFinite
<1>3. players \subseteq Nat /\ IsFiniteSet(players)
  <2> HIDE DEF players
  <2> QED
    BY <1>2, RosterFinite, FS_Subset
<1>4. s = [i \in DOMAIN ids |-> PlayerLock(ids[i])]
  BY DEF PlayerLocks
<1> HIDE DEF players, s
<1>5. /\ ids \in Seq(players) /\ Len(ids) \in Nat /\ DOMAIN ids = 1..Len(ids)
      /\ \A x \in players : \E i \in 1..Len(ids) : ids[i] = x
      /\ \A i, j \in 1..Len(ids) : i < j <=> ids[i] < ids[j]
  BY <1>3, AscendingSorts
<1> HIDE DEF ids
<1>6. \A i \in 1..Len(ids) : ids[i] \in players
  BY <1>5
<1>7. \A i \in 1..Len(ids) : PlayerLock(ids[i]) \in Locks
  BY <1>2, <1>6 DEF Locks
<1>8. s \in Seq(Locks) /\ Len(s) = Len(ids) /\ DOMAIN s = 1..Len(s)
  BY <1>4, <1>5, <1>7
<1>9. \A i \in 1..Len(s) : s[i] = PlayerLock(ids[i]) /\ ids[i] \in players
  BY <1>4, <1>5, <1>6, <1>8
<1>10. \A p, q : PlayerLock(p) = PlayerLock(q) => p = q
  BY DEF PlayerLock
<1>11. \A p \in players : \E i \in 1..Len(s) : s[i] = PlayerLock(p)
  BY <1>5, <1>8, <1>9
<1>12. ASSUME NEW i \in 1..Len(s), NEW j \in 1..Len(s), NEW p \in players, NEW q \in players,
              i < j, s[i] = PlayerLock(p), s[j] = PlayerLock(q)
       PROVE  p < q
  <2>1. ids[i] = p /\ ids[j] = q
    BY <1>9, <1>10, <1>12
  <2> QED
    BY <1>5, <1>8, <1>12, <2>1
<1> QED
  BY <1>5, <1>8, <1>9, <1>11, <1>12 DEF players, s

LEMMA MatchLocksTyped ==
  ASSUME NEW ms \in Seq(Matches)
  PROVE  MatchLocks(ms) \in Seq(Locks)
<1> DEFINE T == Range(ms)
           ids == Ascending(T)
<1>1. T \subseteq Matches
  BY DEF Range
<1>2. T \subseteq Nat /\ IsFiniteSet(T)
  <2> HIDE DEF T
  <2> QED
    BY <1>1, RosterFinite, FS_Subset
<1>3. MatchLocks(ms) = [i \in DOMAIN ids |-> MatchLock(ids[i])]
  BY DEF MatchLocks
<1> HIDE DEF T
<1>4. ids \in Seq(T) /\ Len(ids) \in Nat /\ DOMAIN ids = 1..Len(ids)
  BY <1>2, AscendingSorts
<1> HIDE DEF ids
<1>5. \A i \in 1..Len(ids) : MatchLock(ids[i]) \in Locks
  BY <1>1, <1>4 DEF Locks
<1> QED
  BY <1>3, <1>4, <1>5

\* What the first locks of a transaction are: the match's, then its players'.
LEMMA PlanSorted ==
  ASSUME NEW m \in Matches
  PROVE  /\ Plan(m) \in Seq(Locks) /\ Len(Plan(m)) \in Nat
         /\ 1 <= Len(Plan(m)) /\ Plan(m)[1] = MatchLock(m)
         /\ \A p \in PlayersOf(m) : \E i \in 2..Len(Plan(m)) : Plan(m)[i] = PlayerLock(p)
         /\ \A i \in 2..Len(Plan(m)) : \E p \in PlayersOf(m) : Plan(m)[i] = PlayerLock(p)
         /\ \A i, j \in 2..Len(Plan(m)), p, q \in PlayersOf(m) :
              i < j /\ Plan(m)[i] = PlayerLock(p) /\ Plan(m)[j] = PlayerLock(q) => p < q
<1> DEFINE s == PlayerLocks(<<m>>)
           plan == Plan(m)
<1>1. <<m>> \in Seq(Matches) /\ Range(<<m>>) = {m}
  BY DEF Range
<1>2. UNION {PlayersOf(n) : n \in {m}} = PlayersOf(m)
  OBVIOUS
<1>3. /\ s \in Seq(Locks) /\ DOMAIN s = 1..Len(s) /\ Len(s) \in Nat
      /\ \A p \in PlayersOf(m) : \E i \in 1..Len(s) : s[i] = PlayerLock(p)
      /\ \A i \in 1..Len(s) : \E p \in PlayersOf(m) : s[i] = PlayerLock(p)
      /\ \A i, j \in 1..Len(s), p, q \in PlayersOf(m) :
           i < j /\ s[i] = PlayerLock(p) /\ s[j] = PlayerLock(q) => p < q
  BY <1>1, <1>2, PlayerLocksSorted
<1>4. plan = <<MatchLock(m)>> \o s
  BY DEF Plan
<1> HIDE DEF s, plan
<1>5. MatchLock(m) \in Locks
  BY DEF Locks
<1>6. /\ plan \in Seq(Locks) /\ Len(plan) = Len(s) + 1
      /\ plan[1] = MatchLock(m)
      /\ \A i \in 2..Len(plan) : plan[i] = s[i - 1] /\ i - 1 \in 1..Len(s)
      /\ \A i \in 1..Len(s) : plan[i + 1] = s[i] /\ i + 1 \in 2..Len(plan)
  BY <1>3, <1>4, <1>5
<1>7. \A p \in PlayersOf(m) : \E i \in 2..Len(plan) : plan[i] = PlayerLock(p)
  BY <1>3, <1>6
<1>8. \A i \in 2..Len(plan) : \E p \in PlayersOf(m) : plan[i] = PlayerLock(p)
  BY <1>3, <1>6
<1>9. ASSUME NEW i \in 2..Len(plan), NEW j \in 2..Len(plan),
             NEW p \in PlayersOf(m), NEW q \in PlayersOf(m),
             i < j, plan[i] = PlayerLock(p), plan[j] = PlayerLock(q)
      PROVE  p < q
  <2>1. i - 1 \in 1..Len(s) /\ j - 1 \in 1..Len(s) /\ i - 1 < j - 1
    BY <1>3, <1>6, <1>9
  <2>2. s[i - 1] = PlayerLock(p) /\ s[j - 1] = PlayerLock(q)
    BY <1>6, <1>9
  <2>3. \A k, l \in 1..Len(s) :
          k < l /\ s[k] = PlayerLock(p) /\ s[l] = PlayerLock(q) => p < q
    BY <1>3
  <2> QED
    BY <2>1, <2>2, <2>3
<1> QED
  BY <1>3, <1>6, <1>7, <1>8, <1>9 DEF plan

-----------------------------------------------------------------------------
LEMMA ShapeIsTyped == Shape => TypeOK
<1> SUFFICES ASSUME Shape
             PROVE  TypeOK
  OBVIOUS
<1>1. clock \in Nat /\ DOMAIN finalized \subseteq Matches
  BY LedgerAssumption DEF Shape, TablesOK, IsTable
<1>2. \A m \in DOMAIN finalized :
        finalized[m].result \in Results /\ finalized[m].rated_at \in 0..clock
  BY <1>1 DEF Shape, TablesOK, IsTable, Entry
<1>3. ASSUME NEW id \in DOMAIN transactions
      PROVE  LET t == transactions[id]
             IN  /\ t.match \in Matches /\ t.result \in Results /\ t.at \in 0..clock
                 /\ t.needs \in Seq(Locks) /\ t.held \subseteq Locks
                 /\ t.listed # None => t.match \in Range(t.listed)
  <2> DEFINE t == transactions[id]
  <2>1. /\ t \in Transaction /\ t.at <= clock
        /\ t.listed # None => t.match \in Range(t.listed)
    BY DEF Shape, TransactionsOK, TransactionOK
  <2> HIDE DEF t
  <2>2. /\ t.match \in Matches /\ t.result \in Results /\ t.at \in Nat
        /\ t.needs \in Seq(Locks) /\ t.held \subseteq Locks
    BY <2>1 DEF Transaction
  <2>3. t.at \in 0..clock
    BY <1>1, <2>1, <2>2
  <2> QED
    BY <2>1, <2>2, <2>3 DEF t
<1> QED
  BY <1>1, <1>2, <1>3 DEF TypeOK, Shape, TablesOK

\* A transaction stays in order while others begin, and while matches other than
\* its own become final.
LEMMA StaysOK ==
  ASSUME NEW id, NEW t, NEW final, NEW final2, NEW begun \in Nat, NEW begun2 \in Nat,
         NEW now \in Nat, NEW now2 \in Nat,
         TransactionOK(id, t, final, begun, now),
         final \subseteq final2, \A m \in final2 \ final : id # Finalization(m),
         begun <= begun2, now <= now2
  PROVE  TransactionOK(id, t, final2, begun2, now2)
<1>1. t \in Transaction /\ t.at <= now2 /\ (t.listed # None => t.match \in Range(t.listed))
  BY DEF TransactionOK, Transaction
<1>2. CASE Finalizes(id, t, final)
  BY <1>1, <1>2 DEF TransactionOK, Finalizes
<1>3. CASE Corrects(id, t, final, begun)
  <2>1. 1..begun \subseteq 1..begun2
    OBVIOUS
  <2> QED
    BY <1>1, <1>3, <2>1 DEF TransactionOK, Corrects
<1> QED
  BY <1>2, <1>3 DEF TransactionOK

\* The numbers that bound the model.
LEMMA Counters ==
  ASSUME Shape
  PROVE  /\ clock \in Nat /\ corrections \in Nat
         /\ MaxClock \in Nat /\ MaxCorrections \in Nat /\ MaxLate \in Nat
BY LedgerAssumption DEF Shape, TablesOK

\* The two kinds of transactions have different ids.
LEMMA IdsDiffer ==
  /\ \A m, n : Finalization(m) # Correction(n)
  /\ \A m, n : Finalization(m) = Finalization(n) => m = n
  /\ \A m, n : Correction(m) = Correction(n) => m = n
  /\ \A m, p : MatchLock(m) # PlayerLock(p)
  /\ \A m, n : MatchLock(m) = MatchLock(n) => m = n
  /\ \A m, n : PlayerLock(m) = PlayerLock(n) => m = n
BY DEF Finalization, Correction, MatchLock, PlayerLock

\* What begins, begins with no lock and the plan of its match.
LEMMA BeginShape ==
  ASSUME Shape, NEW id, NEW t, Begin(id, t), corrections' \in 0..MaxCorrections,
         corrections <= corrections',
         UNCHANGED <<finalized, before, rating, lastPlayed, applied>>,
         TransactionOK(id, t, DOMAIN finalized, corrections', clock + 1)
  PROVE  Shape'
<1>1. /\ clock \in Nat /\ corrections \in Nat /\ corrections' \in Nat
      /\ clock' = clock + 1 /\ clock' \in 0..MaxClock /\ clock' \in Nat
  BY Counters DEF Begin
<1>2. TablesOK'
  <2>1. IsTable(finalized)' /\ (\A m \in DOMAIN finalized : finalized[m].rated_at <= clock)'
    BY <1>1 DEF Shape, TablesOK, IsTable, Entry
  <2> QED
    BY <1>1, <2>1 DEF Shape, TablesOK
<1>3. ASSUME NEW i \in DOMAIN transactions'
      PROVE  TransactionOK(i, transactions'[i], DOMAIN finalized', corrections', clock')
  <2>1. i \in DOMAIN transactions \cup {id}
        /\ transactions'[i] = IF i = id THEN t ELSE transactions[i]
    BY <1>3 DEF Begin
  <2>2. CASE i = id
    BY <1>1, <2>1, <2>2
  <2>3. CASE i # id
    <3>1. TransactionOK(i, transactions[i], DOMAIN finalized, corrections, clock)
      BY <2>1, <2>3 DEF Shape, TransactionsOK
    <3>2. TransactionOK(i, transactions[i], DOMAIN finalized, corrections', clock')
      BY <1>1, <3>1, StaysOK
    <3> QED
      BY <2>1, <2>3, <3>2
  <2> QED
    BY <2>2, <2>3
<1> QED
  BY <1>2, <1>3 DEF Shape, TransactionsOK

LEMMA BeginFinalizationShape ==
  ASSUME Shape, NEW m \in Matches, NEW result \in Results, NEW at \in RatedAt,
         BeginFinalization(m, result, at)
  PROVE  Shape'
<1> DEFINE t == [match |-> m, result |-> result, at |-> at, held |-> {}, listed |-> None,
                 needs |-> Plan(m)]
<1>1. clock \in Nat /\ corrections \in 0..MaxCorrections /\ at \in Nat /\ at <= clock + 1
  BY Counters DEF RatedAt, Shape, TablesOK
<1>2. Begin(Finalization(m), t) /\ UNCHANGED <<finalized, before, rating, lastPlayed, applied>>
      /\ corrections' = corrections /\ m \notin DOMAIN finalized
  BY DEF BeginFinalization, Plan
<1>3. t \in Transaction
  BY <1>1, PlanSorted DEF Transaction
<1>4. TransactionOK(Finalization(m), t, DOMAIN finalized, corrections', clock + 1)
  BY <1>1, <1>2, <1>3 DEF TransactionOK, Finalizes
<1> HIDE DEF t
<1> QED
  BY <1>1, <1>2, <1>4, BeginShape

LEMMA BeginCorrectionShape ==
  ASSUME Shape, NEW m \in Matches, NEW result \in Results, BeginCorrection(m, result)
  PROVE  Shape'
<1> DEFINE t == [match |-> m, result |-> result, at |-> clock + 1, held |-> {}, listed |-> None,
                 needs |-> Plan(m)]
<1>1. clock \in Nat /\ corrections \in Nat /\ MaxCorrections \in Nat
  BY Counters
<1>2. /\ Begin(Correction(corrections + 1), t) /\ m \in DOMAIN finalized
      /\ corrections' = corrections + 1 /\ corrections < MaxCorrections
      /\ UNCHANGED <<finalized, before, rating, lastPlayed, applied>>
  BY DEF BeginCorrection, Plan
<1>3. t \in Transaction
  BY <1>1, PlanSorted DEF Transaction
<1>4. corrections' \in 0..MaxCorrections /\ corrections <= corrections'
      /\ corrections + 1 \in 1..corrections'
  BY <1>1, <1>2
<1>5. TransactionOK(Correction(corrections + 1), t, DOMAIN finalized, corrections', clock + 1)
  BY <1>1, <1>2, <1>3, <1>4 DEF TransactionOK, Corrects
<1> HIDE DEF t
<1> QED
  BY <1>2, <1>4, <1>5, BeginShape

\* A transaction that goes on stays in order.
LEMMA GoOnShape ==
  ASSUME Shape, NEW id \in DOMAIN transactions, NEW t,
         transactions' = [transactions EXCEPT ![id] = t],
         TransactionOK(id, t, DOMAIN finalized, corrections, clock),
         UNCHANGED <<finalized, before, rating, lastPlayed, corrections, clock, applied>>
  PROVE  Shape'
<1>1. TablesOK'
  BY DEF Shape, TablesOK, IsTable
<1>2. \A i \in DOMAIN transactions' : TransactionOK(i, transactions'[i], DOMAIN finalized, corrections, clock)
  BY DEF Shape, TransactionsOK
<1> QED
  BY <1>1, <1>2 DEF Shape, TransactionsOK

LEMMA TakeLockShape ==
  ASSUME Shape, NEW id \in DOMAIN transactions, TakeLock(id)
  PROVE  Shape'
<1> DEFINE t == transactions[id]
           u == [t EXCEPT !.held = @ \cup {Takes(id)}, !.needs = Tail(@)]
<1>1. TransactionOK(id, t, DOMAIN finalized, corrections, clock)
  BY DEF Shape, TransactionsOK
<1>2. t \in Transaction /\ t.needs # <<>> /\ Takes(id) = Head(t.needs)
  BY <1>1 DEF TransactionOK, TakeLock, Takes
<1>3. transactions' = [transactions EXCEPT ![id] = u]
  BY DEF TakeLock
<1>4. /\ u \in Transaction /\ u.match = t.match /\ u.at = t.at /\ u.listed = t.listed
  <2>1. t.needs \in Seq(Locks)
    BY <1>2 DEF Transaction
  <2>2. Takes(id) \in Locks /\ Tail(t.needs) \in Seq(Locks)
    BY <1>2, <2>1
  <2> HIDE DEF t
  <2> QED
    BY <1>2, <2>2 DEF Transaction
<1> HIDE DEF t, u
<1>5. TransactionOK(id, u, DOMAIN finalized, corrections, clock)
  BY <1>1, <1>4 DEF TransactionOK, Finalizes, Corrects
<1> QED
  BY <1>3, <1>5, GoOnShape DEF TakeLock

LEMMA ListAffectedShape ==
  ASSUME Shape, NEW id \in DOMAIN transactions, ListAffected(id)
  PROVE  Shape'
<1> DEFINE t == transactions[id]
           R == Affected(t.match)
           s == RatingOrder(finalized, R)
           u == [t EXCEPT !.listed = s, !.needs = MatchLocks(s) \o PlayerLocks(s)]
<1>1. TransactionOK(id, t, DOMAIN finalized, corrections, clock)
  BY DEF Shape, TransactionsOK
<1>2. transactions' = [transactions EXCEPT ![id] = u]
  BY DEF ListAffected
<1>3. t \in Transaction /\ \A m : id # Finalization(m)
  BY <1>1, IdsDiffer DEF TransactionOK, ListAffected
<1>4. Corrects(id, t, DOMAIN finalized, corrections) /\ t.match \in DOMAIN finalized
  BY <1>1, <1>3 DEF TransactionOK, Finalizes, Corrects
<1>5. IsTable(finalized) /\ DOMAIN finalized \subseteq Matches
  BY DEF Shape, TablesOK, IsTable
<1>6. R \subseteq DOMAIN finalized /\ t.match \in R
  BY <1>4 DEF Affected
<1> HIDE DEF R
<1>7. Lists(s, finalized, R) /\ s \in Seq(R)
  BY <1>5, <1>6, RatingOrderSorts
<1> HIDE DEF s
<1>8. s \in Seq(Matches) /\ t.match \in Range(s)
  BY <1>5, <1>6, <1>7 DEF Lists, Range
<1>9. MatchLocks(s) \o PlayerLocks(s) \in Seq(Locks)
  BY <1>8, MatchLocksTyped, PlayerLocksSorted
<1> HIDE DEF t
<1>10. u \in Transaction /\ u.match = t.match /\ u.at = t.at /\ u.listed = s
  BY <1>3, <1>8, <1>9 DEF Transaction
<1> HIDE DEF u
<1>11. TransactionOK(id, u, DOMAIN finalized, corrections, clock)
  BY <1>1, <1>4, <1>8, <1>10 DEF TransactionOK, Corrects
<1> QED
  BY <1>2, <1>11, GoOnShape DEF ListAffected

\* A transaction that ends leaves the others in order.
LEMMA EndShape ==
  ASSUME Shape, NEW id, End(id), UNCHANGED <<corrections, clock>>,
         DOMAIN finalized \subseteq DOMAIN finalized',
         \A m \in DOMAIN finalized' \ DOMAIN finalized : id = Finalization(m)
  PROVE  TransactionsOK'
<1>1. clock \in Nat /\ corrections \in Nat
  BY Counters
<1>2. ASSUME NEW i \in DOMAIN transactions'
      PROVE  TransactionOK(i, transactions'[i], DOMAIN finalized', corrections', clock')
  <2>1. i \in DOMAIN transactions /\ i # id /\ transactions'[i] = transactions[i]
    BY <1>2 DEF End
  <2>2. TransactionOK(i, transactions[i], DOMAIN finalized, corrections, clock)
    BY <2>1 DEF Shape, TransactionsOK
  <2>3. TransactionOK(i, transactions[i], DOMAIN finalized', corrections, clock)
    BY <1>1, <2>1, <2>2, StaysOK
  <2> QED
    BY <2>1, <2>3
<1> QED
  BY <1>2 DEF TransactionsOK

LEMMA AbortShape ==
  ASSUME Shape, NEW id \in DOMAIN transactions, Abort(id)
  PROVE  Shape'
<1>1. End(id) /\ UNCHANGED <<finalized, before, rating, lastPlayed, corrections, clock, applied>>
  BY DEF Abort
<1>2. TablesOK'
  BY <1>1 DEF Shape, TablesOK, IsTable
<1>3. TransactionsOK'
  BY <1>1, EndShape
<1> QED
  BY <1>2, <1>3 DEF Shape

\* What a finalization knows of its match when it commits.
LEMMA FinalizationReady ==
  ASSUME Shape, NEW m \in Matches, CommitFinalization(m)
  PROVE  LET t == transactions[Finalization(m)]
         IN  /\ t.match = m /\ t.result \in Results /\ t.at \in Nat /\ t.at <= clock
             /\ t.listed = None /\ m \notin DOMAIN finalized
<1> DEFINE t == transactions[Finalization(m)]
<1>1. TransactionOK(Finalization(m), t, DOMAIN finalized, corrections, clock)
  BY DEF Shape, TransactionsOK, CommitFinalization
<1>2. Finalizes(Finalization(m), t, DOMAIN finalized)
  BY <1>1, IdsDiffer DEF TransactionOK, Corrects
<1>3. t.match = m /\ t.listed = None /\ m \notin DOMAIN finalized
  BY <1>2, IdsDiffer DEF Finalizes
<1>4. t \in Transaction /\ t.at <= clock
  BY <1>1 DEF TransactionOK
<1> QED
  BY <1>3, <1>4 DEF Transaction

LEMMA CommitFinalizationShape ==
  ASSUME Shape, NEW m \in Matches, CommitFinalization(m)
  PROVE  Shape'
<1> DEFINE t == transactions[Finalization(m)]
           final == DOMAIN finalized
<1>1. /\ t.match = m /\ t.result \in Results /\ t.at \in Nat /\ t.at <= clock
      /\ m \notin final
  BY FinalizationReady
<1>2. /\ finalized' = [n \in DOMAIN finalized \cup {m} |->
           IF n = m THEN [result |-> t.result, rated_at |-> t.at] ELSE finalized[n]]
      /\ before' = [n \in DOMAIN before \cup {m} |->
           IF n = m THEN Restrict(rating, PlayersOf(m)) ELSE before[n]]
      /\ rating' = RatingUpdates(rating, m, t.result)
      /\ DOMAIN lastPlayed' = Players
      /\ applied' = Append(applied, m)
      /\ End(Finalization(m))
      /\ UNCHANGED <<corrections, clock>>
  BY DEF CommitFinalization
<1> HIDE DEF t
<1>3. /\ IsTable(finalized) /\ \A n \in final : finalized[n].rated_at <= clock
      /\ DOMAIN before = final /\ \A n \in final : DOMAIN before[n] = PlayersOf(n)
      /\ DOMAIN rating = Players
      /\ applied \in Seq(Matches) /\ Range(applied) = final
      /\ Len(applied) = Cardinality(final)
      /\ corrections \in 0..MaxCorrections /\ clock \in 0..MaxClock
  BY DEF Shape, TablesOK
<1>4. DOMAIN finalized' = final \cup {m}
  BY <1>2
<1>5. IsTable(finalized')
  <2>1. [result |-> t.result, rated_at |-> t.at] \in Entry
    BY <1>1 DEF Entry
  <2> QED
    BY <1>2, <1>3, <2>1 DEF IsTable
<1>6. \A n \in DOMAIN finalized' : finalized'[n].rated_at <= clock'
  BY <1>1, <1>2, <1>3
<1>7. DOMAIN before' = DOMAIN finalized' /\ \A n \in DOMAIN before' : DOMAIN before'[n] = PlayersOf(n)
  BY <1>2, <1>3, <1>4 DEF Restrict
<1>8. DOMAIN rating' = Players
  BY <1>2, <1>3 DEF RatingUpdates, Rated
<1>9. /\ applied' \in Seq(Matches) /\ Range(applied') = DOMAIN finalized'
      /\ Len(applied') = Cardinality(DOMAIN finalized')
  <2>1. /\ applied' \in Seq(Matches) /\ Len(applied') = Len(applied) + 1 /\ Len(applied) \in Nat
        /\ DOMAIN applied' = 1..Len(applied) + 1 /\ DOMAIN applied = 1..Len(applied)
        /\ \A i \in 1..Len(applied) : applied'[i] = applied[i]
        /\ applied'[Len(applied) + 1] = m
    BY <1>2, <1>3
  <2>2. Range(applied') = Range(applied) \cup {m}
    <3>1. ASSUME NEW x \in Range(applied')
          PROVE  x \in Range(applied) \cup {m}
      <4>1. PICK i \in 1..Len(applied) + 1 : x = applied'[i]
        BY <2>1, <3>1 DEF Range
      <4>2. i \in 1..Len(applied) \/ i = Len(applied) + 1
        BY <2>1
      <4> QED
        BY <2>1, <4>1, <4>2 DEF Range
    <3>2. ASSUME NEW x \in Range(applied)
          PROVE  x \in Range(applied')
      <4>1. PICK i \in 1..Len(applied) : x = applied[i]
        BY <2>1, <3>2 DEF Range
      <4>2. i \in DOMAIN applied' /\ x = applied'[i]
        BY <2>1, <4>1
      <4> QED
        BY <4>2 DEF Range
    <3>3. m \in Range(applied')
      <4>1. Len(applied) + 1 \in DOMAIN applied'
        BY <2>1
      <4> QED
        BY <2>1, <4>1 DEF Range
    <3> QED
      BY <3>1, <3>2, <3>3
  <2>3. IsFiniteSet(final)
    BY <1>3, RosterFinite, FS_Subset DEF IsTable
  <2>4. Cardinality(final \cup {m}) = Cardinality(final) + 1
    BY <1>1, <2>3, FS_AddElement
  <2> QED
    BY <1>3, <1>4, <2>1, <2>2, <2>4
<1>10. TablesOK'
  BY <1>2, <1>3, <1>5, <1>6, <1>7, <1>8, <1>9 DEF TablesOK
<1>11. TransactionsOK'
  BY <1>2, <1>4, EndShape
<1> QED
  BY <1>10, <1>11 DEF Shape

\* What a correction knows of its match when it commits.
LEMMA CorrectionReady ==
  ASSUME Shape, NEW id \in DOMAIN transactions, CommitCorrection(id)
  PROVE  LET t == transactions[id]
         IN  t.match \in DOMAIN finalized /\ t.result \in Results /\ t.listed # None
<1> DEFINE t == transactions[id]
<1>1. TransactionOK(id, t, DOMAIN finalized, corrections, clock) /\ t.listed # None
  BY DEF Shape, TransactionsOK, CommitCorrection
<1>2. t \in Transaction /\ t.match \in DOMAIN finalized
  BY <1>1 DEF TransactionOK, Finalizes, Corrects
<1> QED
  BY <1>1, <1>2 DEF Transaction

\* A replay rates the players it began with.
LEMMA RunsTyped ==
  ASSUME NEW after, NEW start, NEW order, NEW table, Runs(after, start, order, table),
         Len(order) \in Nat, DOMAIN start = Players
  PROVE  DOMAIN after[Len(order)] = Players
<1> DEFINE Good(i) == DOMAIN after[i] = Players
           bad == {i \in 0..Len(order) : ~Good(i)}
<1>1. Good(0)
  BY DEF Runs
<1>2. ASSUME NEW i \in 1..Len(order), Good(i - 1)
      PROVE  Good(i)
  BY <1>2 DEF Runs, RatingUpdates, Rated
<1> HIDE DEF Good
<1>3. ASSUME bad # {}
      PROVE  FALSE
  <2>0. bad \in SUBSET Nat
    OBVIOUS
  <2>1. PICK i \in bad : \A k \in bad : i <= k
    BY <1>3, <2>0, LeastNumber
  <2>2. i \in 0..Len(order) /\ ~Good(i) /\ i # 0
    BY <1>1, <2>1
  <2>3. i \in 1..Len(order) /\ i - 1 \in 0..Len(order) /\ i - 1 \notin bad
    <3>1. i - 1 \in 0..Len(order) /\ i \in 1..Len(order)
      BY <2>2
    <3> HIDE DEF bad
    <3> QED
      BY <2>1, <2>2, <3>1
  <2>4. Good(i - 1)
    BY <2>3
  <2> QED
    BY <1>2, <2>2, <2>3, <2>4
<1>4. Good(Len(order))
  BY <1>3
<1> QED
  BY <1>4 DEF Good

LEMMA CommitCorrectionShape ==
  ASSUME Shape, NEW id \in DOMAIN transactions, CommitCorrection(id)
  PROVE  Shape'
<1> DEFINE t == transactions[id]
           table == [finalized EXCEPT ![t.match].result = t.result]
           done == Replay(rating, t.listed, table)
<1>1. t.match \in DOMAIN finalized /\ t.result \in Results
  BY CorrectionReady
<1>2. /\ finalized' = table /\ rating' = done.rating /\ before' = done.before
      /\ DOMAIN lastPlayed' = Players /\ End(id)
      /\ UNCHANGED <<corrections, clock, applied>>
  BY DEF CommitCorrection
<1> HIDE DEF t
<1>3. /\ IsTable(finalized) /\ \A n \in DOMAIN finalized : finalized[n].rated_at <= clock
      /\ DOMAIN before = DOMAIN finalized /\ \A n \in DOMAIN before : DOMAIN before[n] = PlayersOf(n)
      /\ DOMAIN rating = Players
  BY DEF Shape, TablesOK
<1>4. /\ IsTable(table) /\ DOMAIN table = DOMAIN finalized
      /\ \A n \in DOMAIN finalized : table[n].rated_at = finalized[n].rated_at
  BY <1>1, <1>3 DEF IsTable, Entry
<1> HIDE DEF table
<1>5. /\ DOMAIN done.before = DOMAIN before
      /\ \A n \in DOMAIN before : DOMAIN done.before[n] = PlayersOf(n)
  BY <1>3 DEF Replay, Restrict
<1>6. DOMAIN done.rating = Players
  <2> DEFINE s == t.listed
             back == RollBack(rating, s)
  <2>1. TransactionOK(id, t, DOMAIN finalized, corrections, clock) /\ t.listed # None
    BY CorrectionReady DEF Shape, TransactionsOK, t
  <2>2. s \in Seq(Matches)
    BY <2>1 DEF TransactionOK, Transaction
  <2>3. Len(s) \in Nat
    BY <2>2
  <2>4. DOMAIN back = Players
    BY <1>3 DEF RollBack
  <2>5. done.rating = RatingsAfter(back, s, table)[Len(s)]
    BY DEF Replay
  <2> HIDE DEF s, back
  <2>6. Runs(RatingsAfter(back, s, table), back, s, table)
    BY <2>3, RatingsAfterSteps
  <2> QED
    BY <2>3, <2>4, <2>5, <2>6, RunsTyped
<1> HIDE DEF done
<1>7. TablesOK'
  BY <1>2, <1>3, <1>4, <1>5, <1>6 DEF Shape, TablesOK
<1>8. TransactionsOK'
  BY <1>2, <1>4, EndShape
<1> QED
  BY <1>7, <1>8 DEF Shape

LEMMA ShapeStep ==
  ASSUME Shape, [Next]_vars
  PROVE  Shape'
<1>1. ASSUME NEW m \in Matches, NEW result \in Results, NEW at \in RatedAt,
             BeginFinalization(m, result, at)
      PROVE  Shape'
  BY <1>1, BeginFinalizationShape
<1>2. ASSUME NEW m \in Matches, NEW result \in Results, BeginCorrection(m, result)
      PROVE  Shape'
  BY <1>2, BeginCorrectionShape
<1>3. ASSUME NEW id \in DOMAIN transactions, Proceed(id)
      PROVE  Shape'
  <2>1. CASE TakeLock(id)
    BY <2>1, TakeLockShape
  <2>2. ASSUME NEW m \in Matches, CommitFinalization(m)
        PROVE  Shape'
    BY <2>2, CommitFinalizationShape
  <2>3. CASE ListAffected(id)
    BY <2>3, ListAffectedShape
  <2>4. CASE CommitCorrection(id)
    BY <2>4, CommitCorrectionShape
  <2>5. CASE Abort(id)
    BY <2>5, AbortShape
  <2> QED
    BY <1>3, <2>1, <2>2, <2>3, <2>4, <2>5 DEF Proceed
<1>4. CASE UNCHANGED vars
  BY <1>4 DEF vars, Shape, TablesOK, IsTable, TransactionsOK
<1> QED
  BY <1>1, <1>2, <1>3, <1>4 DEF Next

LEMMA InitShape == Init => Shape
<1> SUFFICES ASSUME Init
             PROVE  Shape
  OBVIOUS
<1>1. /\ finalized = [m \in {} |-> None] /\ before = [m \in {} |-> None]
      /\ rating = [p \in Players |-> Unrated] /\ lastPlayed = [p \in Players |-> None]
      /\ transactions = [id \in {} |-> None] /\ corrections = 0 /\ clock = 0 /\ applied = <<>>
  BY DEF Init
<1>2. DOMAIN finalized = {} /\ DOMAIN before = {} /\ DOMAIN transactions = {}
  BY <1>1
<1>3. IsTable(finalized)
  BY <1>1 DEF IsTable
<1>4. Range(applied) = {} /\ Len(applied) = 0 /\ applied \in Seq(Matches)
  BY <1>1 DEF Range
<1>5. Cardinality({}) = 0
  BY FS_EmptySet
<1>6. 0 \in 0..MaxCorrections /\ 0 \in 0..MaxClock
  BY LedgerAssumption
<1>7. TablesOK
  BY <1>1, <1>2, <1>3, <1>4, <1>5, <1>6 DEF TablesOK
<1> QED
  BY <1>2, <1>7 DEF Shape, TransactionsOK

\* Every finalization and every correction that is under way fits the tables: it
\* is of a match that is not yet final, or of one that is.
THEOREM ShapeInvariant == Spec => []Shape
<1>1. Init => Shape
  BY InitShape
<1>2. Shape /\ [Next]_vars => Shape'
  BY ShapeStep
<1> QED
  BY <1>1, <1>2, PTL DEF Spec

\* The types hold for any roster and any number of corrections.
THEOREM LedgerTypeCorrect == Spec => []TypeOK
<1>1. Shape => TypeOK
  BY ShapeIsTyped
<1> QED
  BY <1>1, ShapeInvariant, PTL

-----------------------------------------------------------------------------
\* What a match makes of its players' ratings depends on their ratings alone.
LEMMA UpdatesLocal ==
  ASSUME NEW now, NEW m, NEW r, PlayersOf(m) \subseteq DOMAIN now, NEW p \in PlayersOf(m)
  PROVE  RatingUpdates(now, m, r)[p] = RatingUpdates([q \in PlayersOf(m) |-> now[q]], m, r)[p]
<1> DEFINE own == [q \in PlayersOf(m) |-> now[q]]
<1>1. CASE r = "VOID"
  BY <1>1 DEF RatingUpdates
<1>2. CASE r # "VOID"
  <2>1. RatingUpdates(now, m, r)[p]
          = [games |-> now[p].games + 1, term |-> <<m, r, Restrict(now, PlayersOf(m))>>]
    BY <1>2 DEF RatingUpdates, Rated
  <2>2. RatingUpdates(own, m, r)[p]
          = [games |-> own[p].games + 1, term |-> <<m, r, Restrict(own, PlayersOf(m))>>]
    BY <1>2 DEF RatingUpdates, Rated
  <2>3. Restrict(now, PlayersOf(m)) = Restrict(own, PlayersOf(m)) /\ own[p] = now[p]
    BY DEF Restrict
  <2> HIDE DEF own
  <2>4. RatingUpdates(now, m, r)[p] = RatingUpdates(own, m, r)[p]
    BY <2>1, <2>2, <2>3
  <2> QED
    BY <2>4 DEF own
<1> QED
  BY <1>1, <1>2

\* The table with the entry "e" for the match "m" that just became final.
WithEntry(m, e) == [n \in DOMAIN finalized \cup {m} |-> IF n = m THEN e ELSE finalized[n]]

\* "m" is rated after all matches that it has a player in common with.
Follows(table, m) ==
  \A n \in DOMAIN finalized : Meet(n, m) => RatedBefore(table, n, m)

\* A match that becomes final after the others of its players, and is rated after
\* them, goes on where they left the ratings, and changes no record of theirs.
LEMMA FinalizationLinks ==
  ASSUME IsTable(finalized), Chain(finalized, before), DOMAIN before = DOMAIN finalized,
         rating = StandingsAfter(finalized, before, DOMAIN finalized),
         NEW m \in Matches, m \notin DOMAIN finalized, NEW e \in Entry,
         NEW table, table = WithEntry(m, e),
         NEW snap, snap = [n \in DOMAIN before \cup {m} |->
                             IF n = m THEN Restrict(rating, PlayersOf(m)) ELSE before[n]],
         Follows(table, m)
  PROVE  /\ Chain(table, snap)
         /\ RatingUpdates(rating, m, e.result) = StandingsAfter(table, snap, DOMAIN table)
<1> DEFINE D == DOMAIN finalized
<1>1. /\ DOMAIN table = D \cup {m} /\ table[m] = e /\ \A n \in D : n # m /\ table[n] = finalized[n]
      /\ snap[m] = Restrict(rating, PlayersOf(m)) /\ \A n \in D : snap[n] = before[n]
  BY DEF WithEntry
<1>2. IsTable(table)
  BY <1>1 DEF IsTable, WithEntry
<1>3. /\ DOMAIN rating = Players /\ PlayersOf(m) \subseteq Players
      /\ \A p \in Players : rating[p] = Standing(finalized, before, D, p)
      /\ snap[m] = [p \in PlayersOf(m) |-> rating[p]]
  BY <1>1, RosterFinite DEF StandingsAfter, Restrict
<1>4. \A k, n \in D : RatedBefore(table, k, n) <=> RatedBefore(finalized, k, n)
  BY <1>1 DEF RatedBefore
<1>5. ASSUME NEW S \in SUBSET D, NEW p
      PROVE  Standing(table, snap, S, p) = Standing(finalized, before, S, p)
  <2>1. Agree(table, snap, finalized, before, S)
    BY <1>1 DEF Agree
  <2> QED
    BY <1>2, <2>1, StandingSame
<1>6. \A n \in D : PlayersOf(n) \cap PlayersOf(m) # {} => RatedBefore(table, n, m)
  BY DEF Follows, Meet
<1>7. ASSUME NEW n \in D
      PROVE  snap[n] = [p \in PlayersOf(n) |-> Standing(table, snap, Earlier(table, n), p)]
  <2>1. ASSUME NEW p \in PlayersOf(n)
        PROVE  Standing(table, snap, Earlier(table, n), p)
                 = Standing(finalized, before, Earlier(finalized, n), p)
    <3>1. ASSUME m \in His(Earlier(table, n), p)
          PROVE  FALSE
      <4>1. RatedBefore(table, m, n) /\ p \in PlayersOf(m)
        BY <3>1 DEF His, Earlier
      <4>2. RatedBefore(table, n, m)
        BY <1>6, <4>1
      <4> QED
        BY <1>1, <1>2, <4>1, <4>2, RatedBeforeOrders
    <3>2. His(Earlier(table, n), p) = His(Earlier(finalized, n), p)
      BY <1>1, <1>4, <3>1 DEF His, Earlier
    <3>3. Earlier(finalized, n) \subseteq D
      BY DEF Earlier
    <3>4. Standing(table, snap, Earlier(table, n), p) = Standing(table, snap, Earlier(finalized, n), p)
      BY <3>2 DEF Standing
    <3> QED
      BY <1>5, <3>3, <3>4
  <2>2. snap[n] = [p \in PlayersOf(n) |-> Standing(finalized, before, Earlier(finalized, n), p)]
    BY <1>1 DEF Chain
  <2> QED
    BY <2>1, <2>2
<1>8. snap[m] = [p \in PlayersOf(m) |-> Standing(table, snap, Earlier(table, m), p)]
  <2>1. ASSUME NEW p \in PlayersOf(m)
        PROVE  rating[p] = Standing(table, snap, Earlier(table, m), p)
    <3>1. ~RatedBefore(table, m, m)
      BY <1>1, <1>2, RatedBeforeOrders
    <3>2. His(Earlier(table, m), p) = His(D, p)
      BY <1>1, <1>6, <3>1 DEF His, Earlier
    <3>3. Standing(table, snap, Earlier(table, m), p) = Standing(table, snap, D, p)
      BY <3>2 DEF Standing
    <3> QED
      BY <1>3, <1>5, <3>3
  <2> QED
    BY <1>3, <2>1
<1>9. Chain(table, snap)
  BY <1>1, <1>7, <1>8 DEF Chain
<1> DEFINE next == RatingUpdates(rating, m, e.result)
<1>10. DOMAIN next = Players /\ next = [p \in Players |-> next[p]]
  BY <1>3 DEF RatingUpdates, Rated, StandingsAfter
<1>11. ASSUME NEW p \in Players, p \notin PlayersOf(m)
       PROVE  next[p] = Standing(table, snap, DOMAIN table, p)
  <2>1. His(DOMAIN table, p) = His(D, p)
    BY <1>1, <1>11 DEF His
  <2>2. next[p] = rating[p]
    BY <1>3, <1>11 DEF RatingUpdates, Rated
  <2>3. Standing(table, snap, DOMAIN table, p) = Standing(table, snap, D, p)
    BY <2>1 DEF Standing
  <2> QED
    BY <1>3, <1>5, <2>2, <2>3
<1>12. ASSUME NEW p \in Players, p \in PlayersOf(m)
       PROVE  next[p] = Standing(table, snap, DOMAIN table, p)
  <2> DEFINE H == His(DOMAIN table, p)
  <2>1. m \in H /\ H \subseteq DOMAIN table /\ \A n \in H : n # m => RatedBefore(table, n, m)
    BY <1>1, <1>6, <1>12 DEF His
  <2>2. Latest(table, H) = m
    BY <1>2, <2>1, LatestIs
  <2>3. Standing(table, snap, DOMAIN table, p) = RatingUpdates(snap[m], m, e.result)[p]
    BY <1>1, <2>1, <2>2 DEF Standing
  <2>4. next[p] = RatingUpdates(snap[m], m, e.result)[p]
    BY <1>3, <1>12, UpdatesLocal
  <2> QED
    BY <2>3, <2>4
<1> HIDE DEF next
<1>13. \A p \in Players : next[p] = Standing(table, snap, DOMAIN table, p)
  BY <1>11, <1>12
<1>14. next = StandingsAfter(table, snap, DOMAIN table)
  BY <1>10, <1>13 DEF StandingsAfter
<1> QED
  BY <1>9, <1>14 DEF next

\* The times at which the player "p" played a match that counts.
Times(table, p) ==
  {table[m].rated_at : m \in {n \in DOMAIN table :
     p \in PlayersOf(n) /\ table[n].result # "VOID"}}

LastOf(times) == IF times = {} THEN None ELSE CHOOSE t \in times : \A u \in times : u <= t

LEMMA LastPlayedIs ==
  ASSUME NEW table, NEW p
  PROVE  LastPlayed(table, p) = LastOf(Times(table, p))
BY DEF LastPlayed, Times, LastOf

\* The time of a match that counts is the last one when it is rated after all
\* others of its players; another match leaves it.
LEMMA FinalizationPlayed ==
  ASSUME IsTable(finalized), NEW m \in Matches, m \notin DOMAIN finalized, NEW e \in Entry,
         NEW table, table = WithEntry(m, e), Follows(table, m), NEW p
  PROVE  LastPlayed(table, p)
           = IF p \in PlayersOf(m) /\ e.result # "VOID" THEN e.rated_at ELSE LastPlayed(finalized, p)
<1> DEFINE D == DOMAIN finalized
<1>1. /\ DOMAIN table = D \cup {m} /\ table[m] = e /\ \A n \in D : n # m /\ table[n] = finalized[n]
  BY DEF WithEntry
<1>2. IsTable(table)
  BY <1>1 DEF IsTable, WithEntry
<1>3. CASE ~(p \in PlayersOf(m) /\ e.result # "VOID")
  <2> DEFINE old == {n \in D : p \in PlayersOf(n) /\ finalized[n].result # "VOID"}
             new == {n \in DOMAIN table : p \in PlayersOf(n) /\ table[n].result # "VOID"}
  <2>1. old = new /\ \A n \in old : table[n].rated_at = finalized[n].rated_at
    BY <1>1, <1>3
  <2>2. Times(table, p) = {table[n].rated_at : n \in new}
        /\ Times(finalized, p) = {finalized[n].rated_at : n \in old}
    BY DEF Times
  <2> HIDE DEF old, new
  <2>3. Times(table, p) = Times(finalized, p)
    BY <2>1, <2>2
  <2>4. LastPlayed(table, p) = LastPlayed(finalized, p)
    BY <2>3, LastPlayedIs
  <2> QED
    BY <1>3, <2>4
<1>4. CASE p \in PlayersOf(m) /\ e.result # "VOID"
  <2> DEFINE times == Times(table, p)
             t == e.rated_at
             c == CHOOSE u \in times : \A v \in times : v <= u
  <2>1. times \subseteq Nat /\ t \in times
    BY <1>1, <1>2, <1>4 DEF Times, IsTable, Entry
  <2>2. \A u \in times : u <= t
    <3> SUFFICES ASSUME NEW n \in DOMAIN table, p \in PlayersOf(n)
                 PROVE  table[n].rated_at <= t
      BY DEF Times
    <3>1. CASE n = m
      BY <1>1, <2>1, <3>1
    <3>2. CASE n # m
      <4>1. RatedBefore(table, n, m)
        BY <1>1, <1>4, <3>2 DEF Follows, Meet
      <4>2. table[n].rated_at \in Nat
        BY <1>2 DEF IsTable, Entry
      <4> QED
        BY <1>1, <2>1, <4>1, <4>2 DEF RatedBefore
    <3> QED
      BY <3>1, <3>2
  <2>3. LastPlayed(table, p) = IF times = {} THEN None ELSE c
    BY LastPlayedIs DEF LastOf
  <2> HIDE DEF times
  <2>4. c \in times /\ \A v \in times : v <= c
    BY <2>1, <2>2
  <2> HIDE DEF c, t
  <2>5. c = t
    BY <2>1, <2>2, <2>4
  <2> QED
    BY <1>4, <2>1, <2>3, <2>5 DEF t
<1> QED
  BY <1>3, <1>4

-----------------------------------------------------------------------------
\* What a finalization does to the tables.
LEMMA FinalizationCommits ==
  ASSUME Shape, NEW m \in Matches, CommitFinalization(m)
  PROVE  \E e \in Entry :
           /\ finalized' = WithEntry(m, e)
           /\ before' = [n \in DOMAIN before \cup {m} |->
                           IF n = m THEN Restrict(rating, PlayersOf(m)) ELSE before[n]]
           /\ rating' = RatingUpdates(rating, m, e.result)
           /\ lastPlayed' = [p \in Players |->
                IF p \in PlayersOf(m) /\ e.result # "VOID" THEN e.rated_at ELSE lastPlayed[p]]
           /\ applied' = Append(applied, m)
<1> DEFINE t == transactions[Finalization(m)]
           e == [result |-> t.result, rated_at |-> t.at]
<1>1. t.result \in Results /\ t.at \in Nat
  BY FinalizationReady
<1>2. e \in Entry /\ e.result = t.result /\ e.rated_at = t.at
  BY <1>1 DEF Entry
<1>3. /\ finalized' = WithEntry(m, e)
      /\ before' = [n \in DOMAIN before \cup {m} |->
                      IF n = m THEN Restrict(rating, PlayersOf(m)) ELSE before[n]]
      /\ rating' = RatingUpdates(rating, m, t.result)
      /\ lastPlayed' = [p \in Players |->
           IF p \in PlayersOf(m) /\ t.result # "VOID" THEN t.at ELSE lastPlayed[p]]
      /\ applied' = Append(applied, m)
  BY DEF CommitFinalization, WithEntry
<1> HIDE DEF e, t
<1> QED
  BY <1>2, <1>3

\* As long as the matches are applied in order, a finalization follows the
\* matches of its players, and those before it were applied in order.
LEMMA FinalizationFollows ==
  ASSUME Shape, NEW m \in Matches, m \notin DOMAIN finalized, NEW e \in Entry,
         finalized' = WithEntry(m, e), applied' = Append(applied, m), InOrder'
  PROVE  Follows(finalized', m) /\ InOrder
<1> DEFINE len == Len(applied)
<1>1. /\ applied \in Seq(Matches) /\ Range(applied) = DOMAIN finalized
      /\ len \in Nat /\ DOMAIN applied = 1..len
  BY DEF Shape, TablesOK
<1>2. /\ DOMAIN applied' = 1..len + 1 /\ applied'[len + 1] = m
      /\ \A i \in 1..len : applied'[i] = applied[i] /\ applied[i] \in DOMAIN finalized
  BY <1>1 DEF Range
<1>3. \A i, j \in 1..len + 1 :
        i < j /\ PlayersOf(applied'[i]) \cap PlayersOf(applied'[j]) # {}
          => RatedBefore(finalized', applied'[i], applied'[j])
  BY <1>2 DEF InOrder
<1>4. \A n \in DOMAIN finalized : finalized'[n] = finalized[n]
  BY DEF WithEntry
<1>5. ASSUME NEW n \in DOMAIN finalized, PlayersOf(n) \cap PlayersOf(m) # {}
      PROVE  RatedBefore(finalized', n, m)
  <2>1. PICK i \in 1..len : applied[i] = n
    BY <1>1 DEF Range
  <2>2. i \in 1..len + 1 /\ len + 1 \in 1..len + 1 /\ i < len + 1
    BY <1>1
  <2>3. applied'[i] = n
    BY <1>2, <2>1
  <2> QED
    BY <1>2, <1>3, <1>5, <2>2, <2>3
<1>6. ASSUME NEW i \in 1..len, NEW j \in 1..len, i < j,
             PlayersOf(applied[i]) \cap PlayersOf(applied[j]) # {}
      PROVE  RatedBefore(finalized, applied[i], applied[j])
  <2>1. i \in 1..len + 1 /\ j \in 1..len + 1
    BY <1>1
  <2>2. RatedBefore(finalized', applied[i], applied[j])
    BY <1>2, <1>3, <1>6, <2>1
  <2> QED
    BY <1>2, <1>4, <2>2 DEF RatedBefore
<1>7. Follows(finalized', m)
  BY <1>5 DEF Follows, Meet
<1> QED
  BY <1>1, <1>6, <1>7 DEF InOrder

LEMMA CommitFinalizationLinks ==
  ASSUME Shape, InOrder => Linked, NEW m \in Matches, CommitFinalization(m)
  PROVE  (InOrder => Linked)'
<1> SUFFICES ASSUME InOrder'
             PROVE  Linked'
  OBVIOUS
<1>1. PICK e \in Entry :
        /\ finalized' = WithEntry(m, e)
        /\ before' = [n \in DOMAIN before \cup {m} |->
                        IF n = m THEN Restrict(rating, PlayersOf(m)) ELSE before[n]]
        /\ rating' = RatingUpdates(rating, m, e.result)
        /\ lastPlayed' = [p \in Players |->
             IF p \in PlayersOf(m) /\ e.result # "VOID" THEN e.rated_at ELSE lastPlayed[p]]
        /\ applied' = Append(applied, m)
  BY FinalizationCommits
<1>2. m \notin DOMAIN finalized
  BY FinalizationReady
<1>3. Follows(finalized', m) /\ InOrder
  BY <1>1, <1>2, FinalizationFollows
<1>4. /\ IsTable(finalized) /\ DOMAIN before = DOMAIN finalized
      /\ Chain(finalized, before)
      /\ rating = StandingsAfter(finalized, before, DOMAIN finalized)
      /\ \A p \in Players : lastPlayed[p] = LastPlayed(finalized, p)
  BY <1>3 DEF Shape, TablesOK, Linked, StandingsAfter
<1>5. /\ Chain(finalized', before')
      /\ RatingUpdates(rating, m, e.result) = StandingsAfter(finalized', before', DOMAIN finalized')
  BY <1>1, <1>2, <1>3, <1>4, FinalizationLinks
<1>6. ASSUME NEW p \in Players
      PROVE  lastPlayed'[p] = LastPlayed(finalized', p)
  <2>1. LastPlayed(finalized', p)
          = IF p \in PlayersOf(m) /\ e.result # "VOID" THEN e.rated_at ELSE LastPlayed(finalized, p)
    BY <1>1, <1>2, <1>3, <1>4, FinalizationPlayed
  <2> QED
    BY <1>1, <1>4, <2>1
<1>7. lastPlayed' = [p \in Players |-> LastPlayed(finalized', p)]
  BY <1>1, <1>6
<1> QED
  BY <1>1, <1>5, <1>7 DEF Linked, StandingsAfter

\* The corrections of other results keep the time a player last played.
LEMMA PlayedElsewhere ==
  ASSUME IsTable(finalized), NEW m \in DOMAIN finalized, NEW r,
         NEW table, table = [finalized EXCEPT ![m].result = r], NEW p, p \notin PlayersOf(m)
  PROVE  LastPlayed(table, p) = LastPlayed(finalized, p)
<1> DEFINE old == {n \in DOMAIN finalized : p \in PlayersOf(n) /\ finalized[n].result # "VOID"}
           new == {n \in DOMAIN table : p \in PlayersOf(n) /\ table[n].result # "VOID"}
<1>1. old = new /\ \A n \in old : table[n].rated_at = finalized[n].rated_at
  OBVIOUS
<1>2. Times(table, p) = {table[n].rated_at : n \in new}
      /\ Times(finalized, p) = {finalized[n].rated_at : n \in old}
  BY DEF Times
<1> HIDE DEF old, new
<1>3. {table[n].rated_at : n \in new} = {finalized[n].rated_at : n \in old}
  <2>1. ASSUME NEW f, NEW g, \A n \in old : f[n].rated_at = g[n].rated_at
        PROVE  {f[n].rated_at : n \in old} = {g[n].rated_at : n \in old}
    BY <2>1
  <2> QED
    BY <1>1, <2>1
<1>4. Times(table, p) = Times(finalized, p)
  BY <1>2, <1>3
<1> QED
  BY <1>4, LastPlayedIs

LEMMA CommitCorrectionLinks ==
  ASSUME Shape, ListsFresh, InOrder => Linked, NEW id \in DOMAIN transactions, CommitCorrection(id)
  PROVE  (InOrder => Linked)'
<1> DEFINE t == transactions[id]
           m == t.match
           r == t.result
           s == t.listed
           table == [finalized EXCEPT ![m].result = r]
           done == Replay(rating, s, table)
           replayed == UNION {PlayersOf(n) : n \in Range(s)}
<1> SUFFICES ASSUME InOrder'
             PROVE  Linked'
  OBVIOUS
<1>1. m \in DOMAIN finalized /\ r \in Results /\ s # None
  BY CorrectionReady
<1>2. /\ finalized' = table /\ rating' = done.rating /\ before' = done.before
      /\ lastPlayed' = [p \in Players |->
           IF p \in replayed THEN LastPlayed(table, p) ELSE lastPlayed[p]]
      /\ applied' = applied
  BY DEF CommitCorrection
<1>3. m \in Range(s)
  BY <1>1 DEF Shape, TransactionsOK, TransactionOK
<1>4. Covers(finalized, m, Range(s)) /\ s = RatingOrder(finalized, Range(s))
  BY <1>1 DEF ListsFresh
<1> HIDE DEF t, m, r, s
<1>5. IsTable(finalized) /\ DOMAIN before = DOMAIN finalized
      /\ Range(applied) = DOMAIN finalized
  BY DEF Shape, TablesOK
<1>6. /\ DOMAIN table = DOMAIN finalized
      /\ \A n \in DOMAIN finalized : table[n].rated_at = finalized[n].rated_at
  BY <1>1, <1>5 DEF IsTable, Entry
<1> HIDE DEF table, done
<1>7. InOrder
  <2>1. \A i \in DOMAIN applied : applied[i] \in DOMAIN finalized
    BY <1>5 DEF Range
  <2> QED
    BY <1>2, <1>6, <2>1 DEF InOrder, RatedBefore
<1>8. /\ Chain(finalized, before)
      /\ rating = StandingsAfter(finalized, before, DOMAIN finalized)
      /\ \A p \in Players : lastPlayed[p] = LastPlayed(finalized, p)
  BY <1>7 DEF Linked, StandingsAfter
<1>9. /\ Chain(table, done.before)
      /\ done.rating = StandingsAfter(table, done.before, DOMAIN table)
  BY <1>1, <1>4, <1>5, <1>8, CorrectionLinks DEF table, done
<1>10. ASSUME NEW p \in Players
       PROVE  lastPlayed'[p] = LastPlayed(table, p)
  <2>1. CASE p \in replayed
    BY <1>2, <2>1
  <2>2. CASE p \notin replayed
    <3>1. p \notin PlayersOf(m)
      BY <1>3, <2>2
    <3>2. LastPlayed(table, p) = LastPlayed(finalized, p)
      BY <1>1, <1>5, <3>1, PlayedElsewhere DEF table
    <3> QED
      BY <1>2, <1>8, <2>2, <3>2
  <2> QED
    BY <2>1, <2>2
<1>11. lastPlayed' = [p \in Players |-> LastPlayed(table, p)]
  BY <1>2, <1>10
<1> QED
  BY <1>2, <1>9, <1>11 DEF Linked, StandingsAfter

-----------------------------------------------------------------------------
\* Matches are ordered by the times at which they are rated, not by results.
LEMMA RatingOrderSame ==
  ASSUME NEW table, NEW table2, NEW S,
         \A m, n \in S : RatedBefore(table, m, n) <=> RatedBefore(table2, m, n)
  PROVE  RatingOrder(table, S) = RatingOrder(table2, S)
<1> DEFINE Place(i) == CHOOSE m \in S : Cardinality({n \in S : RatedBefore(table, n, m)}) = i - 1
           Place2(i) == CHOOSE m \in S : Cardinality({n \in S : RatedBefore(table2, n, m)}) = i - 1
<1>1. \A m \in S : {n \in S : RatedBefore(table, n, m)} = {n \in S : RatedBefore(table2, n, m)}
  OBVIOUS
<1>2. \A m \in S : Cardinality({n \in S : RatedBefore(table, n, m)})
                     = Cardinality({n \in S : RatedBefore(table2, n, m)})
  BY <1>1
<1>3. \A i : Place(i) = Place2(i)
  BY <1>2
<1>4. RatingOrder(table, S) = [i \in 1..Cardinality(S) |-> Place(i)]
  BY DEF RatingOrder
<1>5. RatingOrder(table2, S) = [i \in 1..Cardinality(S) |-> Place2(i)]
  BY DEF RatingOrder
<1> HIDE DEF Place, Place2
<1> QED
  BY <1>3, <1>4, <1>5

\* What "m" has listed is still enough, in a table of more matches that are rated
\* at the same times and have no player in common with those in the list.
LEMMA CoversKept ==
  ASSUME NEW table, NEW table2, NEW m, NEW R, Covers(table, m, R),
         DOMAIN table \subseteq DOMAIN table2,
         \A n \in DOMAIN table : table2[n].rated_at = table[n].rated_at,
         \A n \in DOMAIN table2 \ DOMAIN table : \A k \in R : ~Meet(n, k)
  PROVE  Covers(table2, m, R) /\ RatingOrder(table2, R) = RatingOrder(table, R)
<1>1. \A k, n \in DOMAIN table : RatedBefore(table, k, n) <=> RatedBefore(table2, k, n)
  BY DEF RatedBefore
<1>2. R \subseteq DOMAIN table /\ m \in R
  BY DEF Covers
<1>3. Covers(table2, m, R)
  BY <1>1, <1>2 DEF Covers
<1>4. RatingOrder(table2, R) = RatingOrder(table, R)
  BY <1>1, <1>2, RatingOrderSame
<1> QED
  BY <1>3, <1>4

\* The list of "t" is enough and in order.
Fresh(table, t) ==
  t.listed # None =>
    /\ Covers(table, t.match, Range(t.listed))
    /\ t.listed = RatingOrder(table, Range(t.listed))

LEMMA FreshIs == ListsFresh <=> \A id \in DOMAIN transactions : Fresh(finalized, transactions[id])
BY DEF ListsFresh, Fresh

\* Lists stay what they have to be while no match becomes final that has a player
\* in common with a match of the list.
LEMMA FreshKept ==
  ASSUME ListsFresh, DOMAIN finalized \subseteq DOMAIN finalized',
         \A n \in DOMAIN finalized : finalized'[n].rated_at = finalized[n].rated_at,
         \A n \in DOMAIN finalized' \ DOMAIN finalized, id \in DOMAIN transactions :
           transactions[id].listed # None => \A k \in Range(transactions[id].listed) : ~Meet(n, k),
         \A id \in DOMAIN transactions' :
           \/ Fresh(finalized', transactions'[id])
           \/ /\ id \in DOMAIN transactions
              /\ transactions'[id].match = transactions[id].match
              /\ transactions'[id].listed = transactions[id].listed
  PROVE  ListsFresh'
<1>1. ASSUME NEW id \in DOMAIN transactions'
      PROVE  Fresh(finalized', transactions'[id])
  <2>1. CASE Fresh(finalized', transactions'[id])
    BY <2>1
  <2>2. CASE /\ id \in DOMAIN transactions
             /\ transactions'[id].match = transactions[id].match
             /\ transactions'[id].listed = transactions[id].listed
    <3> DEFINE m == transactions[id].match
               s == transactions[id].listed
    <3>1. CASE s = None
      BY <2>2, <3>1 DEF Fresh
    <3>2. CASE s # None
      <4>1. Covers(finalized, m, Range(s)) /\ s = RatingOrder(finalized, Range(s))
        BY <2>2, <3>2, FreshIs DEF Fresh
      <4>2. \A n \in DOMAIN finalized' \ DOMAIN finalized : \A k \in Range(s) : ~Meet(n, k)
        BY <2>2, <3>2
      <4> HIDE DEF m, s
      <4>3. Covers(finalized', m, Range(s)) /\ RatingOrder(finalized', Range(s)) = RatingOrder(finalized, Range(s))
        BY <4>1, <4>2, CoversKept
      <4>4. transactions'[id].match = m /\ transactions'[id].listed = s
        BY <2>2 DEF m, s
      <4> QED
        BY <4>1, <4>3, <4>4 DEF Fresh
    <3> QED
      BY <3>1, <3>2
  <2> QED
    BY <1>1, <2>1, <2>2
<1> QED
  BY <1>1 DEF ListsFresh, Fresh

\* The tables stay as they are.
TablesKept == UNCHANGED <<finalized, before, rating, lastPlayed, applied>>

LEMMA TablesKeptLinked ==
  ASSUME TablesKept, InOrder => Linked
  PROVE  (InOrder => Linked)'
BY DEF TablesKept, InOrder, Linked

LEMMA BeginFresh ==
  ASSUME ListsFresh, NEW id, NEW t, t.listed = None, Begin(id, t), TablesKept
  PROVE  ListsFresh'
<1>1. \A i \in DOMAIN transactions' :
        \/ Fresh(finalized', transactions'[i])
        \/ i \in DOMAIN transactions /\ transactions'[i] = transactions[i]
  BY DEF Begin, Fresh
<1>2. finalized' = finalized
  BY DEF TablesKept
<1> QED
  BY <1>1, <1>2, FreshKept

LEMMA EndFresh ==
  ASSUME ListsFresh, NEW id, End(id), DOMAIN finalized' = DOMAIN finalized,
         \A n \in DOMAIN finalized : finalized'[n].rated_at = finalized[n].rated_at
  PROVE  ListsFresh'
<1>1. \A i \in DOMAIN transactions' : i \in DOMAIN transactions /\ transactions'[i] = transactions[i]
  BY DEF End
<1> QED
  BY <1>1, FreshKept

LEMMA TakeLockFresh ==
  ASSUME Shape, ListsFresh, NEW id \in DOMAIN transactions, TakeLock(id)
  PROVE  ListsFresh'
<1>1. transactions[id] \in Transaction
  BY DEF Shape, TransactionsOK, TransactionOK
<1>2. \A i \in DOMAIN transactions' :
        /\ i \in DOMAIN transactions
        /\ transactions'[i].match = transactions[i].match
        /\ transactions'[i].listed = transactions[i].listed
  BY <1>1 DEF TakeLock, Transaction
<1>3. finalized' = finalized
  BY DEF TakeLock
<1> QED
  BY <1>2, <1>3, FreshKept

LEMMA ListAffectedFresh ==
  ASSUME Shape, ListsFresh, NEW id \in DOMAIN transactions, ListAffected(id)
  PROVE  ListsFresh'
<1> DEFINE t == transactions[id]
           m == t.match
           R == Affected(m)
           s == RatingOrder(finalized, R)
<1>1. TransactionOK(id, t, DOMAIN finalized, corrections, clock)
  BY DEF Shape, TransactionsOK
<1>2. m \in DOMAIN finalized /\ IsTable(finalized) /\ t \in Transaction
  BY <1>1, IdsDiffer DEF TransactionOK, Finalizes, Corrects, ListAffected, Shape, TablesOK
<1>3. Covers(finalized, m, R)
  BY <1>2 DEF Covers, Affected
<1>4. R \subseteq DOMAIN finalized
  BY DEF Affected
<1>5. /\ transactions'[id].match = m /\ transactions'[id].listed = s
      /\ \A i \in DOMAIN transactions' : i # id =>
           i \in DOMAIN transactions /\ transactions'[i] = transactions[i]
      /\ finalized' = finalized
  BY <1>2 DEF ListAffected, Transaction
<1> HIDE DEF R, m, t
<1>6. Range(s) = R
  <2>1. Lists(s, finalized, R)
    BY <1>2, <1>4, RatingOrderSorts
  <2> HIDE DEF s
  <2> QED
    BY <2>1 DEF Lists, Range
<1>7. Fresh(finalized, transactions'[id])
  BY <1>3, <1>5, <1>6 DEF Fresh
<1> HIDE DEF s
<1>8. \A i \in DOMAIN transactions' :
        \/ Fresh(finalized', transactions'[i])
        \/ i \in DOMAIN transactions /\ transactions'[i] = transactions[i]
  BY <1>5, <1>7
<1> QED
  BY <1>5, <1>8, FreshKept

LEMMA CommitCorrectionFresh ==
  ASSUME Shape, ListsFresh, NEW id \in DOMAIN transactions, CommitCorrection(id)
  PROVE  ListsFresh'
<1> DEFINE m == transactions[id].match
           r == transactions[id].result
<1>1. finalized' = [finalized EXCEPT ![m].result = r] /\ End(id)
  BY DEF CommitCorrection
<1>2. m \in DOMAIN finalized /\ r \in Results
  BY CorrectionReady
<1> HIDE DEF m, r
<1>3. IsTable(finalized)
  BY DEF Shape, TablesOK
<1>4. DOMAIN finalized' = DOMAIN finalized
      /\ \A n \in DOMAIN finalized : finalized'[n].rated_at = finalized[n].rated_at
  BY <1>1, <1>2, <1>3 DEF IsTable, Entry
<1> QED
  BY <1>1, <1>4, EndFresh

\* No finalization commits whose match has a player in common with one that a
\* correction under way has listed to replay.
NotOvertaken ==
  \A m \in Matches : CommitFinalization(m) =>
    \A id \in DOMAIN transactions :
      transactions[id].listed # None => \A n \in Range(transactions[id].listed) : ~Meet(m, n)

LEMMA CommitFinalizationFresh ==
  ASSUME Shape, ListsFresh, NEW m \in Matches, CommitFinalization(m), NotOvertaken
  PROVE  ListsFresh'
<1>1. PICK e \in Entry : finalized' = WithEntry(m, e)
  BY FinalizationCommits
<1>2. m \notin DOMAIN finalized
  BY FinalizationReady
<1>3. /\ DOMAIN finalized' = DOMAIN finalized \cup {m}
      /\ \A n \in DOMAIN finalized : finalized'[n].rated_at = finalized[n].rated_at
  BY <1>1, <1>2 DEF WithEntry
<1>4. \A i \in DOMAIN transactions' : i \in DOMAIN transactions /\ transactions'[i] = transactions[i]
  BY DEF CommitFinalization, End
<1>5. \A id \in DOMAIN transactions :
        transactions[id].listed # None => \A k \in Range(transactions[id].listed) : ~Meet(m, k)
  BY DEF NotOvertaken
<1> QED
  BY <1>3, <1>4, <1>5, FreshKept

\* Every step keeps the ledger a replay of its matches, if it is no finalization
\* that overtakes a correction.
LEMMA ReplayStep ==
  ASSUME ReplayInv, [Next]_vars, NotOvertaken \/ UNCHANGED vars
  PROVE  ReplayInv'
<1>0. Shape /\ ListsFresh /\ (InOrder => Linked) /\ Shape'
  BY ShapeStep DEF ReplayInv
<1>1. ASSUME NEW m \in Matches, NEW result \in Results, NEW at \in RatedAt,
             BeginFinalization(m, result, at)
      PROVE  ReplayInv'
  <2> DEFINE t == [match |-> m, result |-> result, at |-> at, held |-> {}, listed |-> None,
                   needs |-> <<MatchLock(m)>> \o PlayerLocks(<<m>>)]
  <2>1. Begin(Finalization(m), t) /\ TablesKept /\ t.listed = None
    BY <1>1 DEF BeginFinalization, TablesKept
  <2> HIDE DEF t
  <2> QED
    BY <1>0, <2>1, BeginFresh, TablesKeptLinked DEF ReplayInv
<1>2. ASSUME NEW m \in Matches, NEW result \in Results, BeginCorrection(m, result)
      PROVE  ReplayInv'
  <2> DEFINE t == [match |-> m, result |-> result, at |-> clock + 1, held |-> {}, listed |-> None,
                   needs |-> <<MatchLock(m)>> \o PlayerLocks(<<m>>)]
  <2>1. Begin(Correction(corrections + 1), t) /\ TablesKept /\ t.listed = None
    BY <1>2 DEF BeginCorrection, TablesKept
  <2> HIDE DEF t
  <2> QED
    BY <1>0, <2>1, BeginFresh, TablesKeptLinked DEF ReplayInv
<1>3. ASSUME NEW id \in DOMAIN transactions, Proceed(id), NotOvertaken
      PROVE  ReplayInv'
  <2>1. CASE TakeLock(id)
    BY <1>0, <2>1, TakeLockFresh, TablesKeptLinked DEF ReplayInv, TakeLock, TablesKept
  <2>2. ASSUME NEW m \in Matches, CommitFinalization(m)
        PROVE  ReplayInv'
    BY <1>0, <1>3, <2>2, CommitFinalizationFresh, CommitFinalizationLinks DEF ReplayInv
  <2>3. CASE ListAffected(id)
    BY <1>0, <2>3, ListAffectedFresh, TablesKeptLinked DEF ReplayInv, ListAffected, TablesKept
  <2>4. CASE CommitCorrection(id)
    BY <1>0, <2>4, CommitCorrectionFresh, CommitCorrectionLinks DEF ReplayInv
  <2>5. CASE Abort(id)
    BY <1>0, <2>5, EndFresh, TablesKeptLinked DEF ReplayInv, Abort, TablesKept
  <2> QED
    BY <1>3, <2>1, <2>2, <2>3, <2>4, <2>5 DEF Proceed
<1>4. CASE UNCHANGED vars
  BY <1>0, <1>4, TablesKeptLinked DEF vars, ReplayInv, ListsFresh, TablesKept
<1> QED
  BY <1>1, <1>2, <1>3, <1>4 DEF Next

LEMMA ReplayInit == Init => ReplayInv
<1> SUFFICES ASSUME Init
             PROVE  ReplayInv
  OBVIOUS
<1>1. Shape
  BY InitShape
<1>2. DOMAIN transactions = {} /\ DOMAIN finalized = {}
      /\ rating = [p \in Players |-> Unrated] /\ lastPlayed = [p \in Players |-> None]
  BY DEF Init
<1>3. \A p : Standing(finalized, before, DOMAIN finalized, p) = Unrated
  BY <1>2 DEF Standing, His
<1>4. \A p : LastPlayed(finalized, p) = None
  BY <1>2 DEF LastPlayed
<1> QED
  BY <1>1, <1>2, <1>3, <1>4 DEF ReplayInv, ListsFresh, Linked, Chain

LEMMA ReplayIsLedger == ReplayInv => LedgerInv
<1> SUFFICES ASSUME ReplayInv
             PROVE  LedgerInv
  OBVIOUS
<1>1. TypeOK /\ IsTable(finalized)
  BY ShapeIsTyped DEF ReplayInv, Shape, TablesOK
<1>2. InOrder => Linked
  BY DEF ReplayInv
<1> QED
  BY <1>1, <1>2, LinkedIsReplay DEF LedgerInv, RatingsAreReplay, SnapshotsAreReplay

\* While no finalization overtakes a correction that replays matches of its
\* players, every rating is that of all
\* matches replayed from the season's start, whatever finalizations and
\* corrections are under way at the same time (match_flow.py, rating_replay.py).
THEOREM LedgerIsReplay == Spec /\ [][NotOvertaken]_vars => []LedgerInv
<1>1. Init => ReplayInv
  BY ReplayInit
<1>2. ReplayInv /\ [Next]_vars /\ [NotOvertaken]_vars => ReplayInv'
  BY ReplayStep
<1>3. ReplayInv => LedgerInv
  BY ReplayIsLedger
<1> QED
  BY <1>1, <1>2, <1>3, PTL DEF Spec

-----------------------------------------------------------------------------
\* "held" and "needs" are the first locks of the plan of "m", and the rest.
Follow(m, held, needs) ==
  \E k \in 0..Len(Plan(m)) :
    /\ held = {Plan(m)[i] : i \in 1..k}
    /\ needs = SubSeq(Plan(m), k + 1, Len(Plan(m)))

\* "t" has the locks of the players of its match, or will take them.
Targets(t) ==
  \A p \in PlayersOf(t.match) :
    \/ PlayerLock(p) \in t.held
    \/ t.listed = None /\ \E i \in DOMAIN t.needs : t.needs[i] = PlayerLock(p)

\* "t" has the locks of the players of the matches it has listed, or will take them.
Replays(t) ==
  t.listed # None =>
    \A n \in Range(t.listed) : \A p \in PlayersOf(n) :
      PlayerLock(p) \in t.held \/ \E i \in DOMAIN t.needs : t.needs[i] = PlayerLock(p)

\* LockInv, of the transactions "under".
LocksOK(under) ==
  /\ \A a, b \in DOMAIN under : a # b => under[a].held \cap under[b].held = {}
  /\ \A m \in Matches : Finalization(m) \in DOMAIN under =>
       Follow(m, under[Finalization(m)].held, under[Finalization(m)].needs)
  /\ \A id \in DOMAIN under : Targets(under[id]) /\ Replays(under[id])

LEMMA LockInvIs == LockInv <=> LocksOK(transactions)
BY DEF LockInv, Exclusive, Planned, TargetLocked, ListLocked, Follow, Targets, Replays, Held, LocksOK

\* A plan that nothing has been taken of.
LEMMA PlanBegins ==
  ASSUME NEW m \in Matches, NEW t, t.match = m, t.held = {}, t.needs = Plan(m), t.listed = None
  PROVE  Follow(m, t.held, t.needs) /\ Targets(t)
<1> DEFINE plan == Plan(m)
<1>1. /\ plan \in Seq(Locks) /\ Len(plan) \in Nat
      /\ \A p \in PlayersOf(m) : \E i \in 2..Len(plan) : plan[i] = PlayerLock(p)
  BY PlanSorted
<1> HIDE DEF plan
<1>2. SubSeq(plan, 0 + 1, Len(plan)) = plan
  BY <1>1
<1>3. {plan[i] : i \in 1..0} = {}
  OBVIOUS
<1>4. Follow(m, t.held, t.needs)
  BY <1>1, <1>2, <1>3 DEF Follow, plan
<1>5. \A i \in 2..Len(plan) : i \in DOMAIN t.needs
  BY <1>1 DEF plan
<1>6. Targets(t)
  BY <1>1, <1>5 DEF Targets, plan
<1> QED
  BY <1>4, <1>6

\* Taking the next lock of a plan.
LEMMA PlanGoesOn ==
  ASSUME NEW m \in Matches, NEW held, NEW needs, Follow(m, held, needs), needs # <<>>
  PROVE  Follow(m, held \cup {Head(needs)}, Tail(needs))
<1> DEFINE plan == Plan(m)
           len == Len(plan)
<1>1. plan \in Seq(Locks) /\ len \in Nat
  BY PlanSorted
<1> HIDE DEF plan
<1>2. PICK k \in 0..len : held = {plan[i] : i \in 1..k} /\ needs = SubSeq(plan, k + 1, len)
  BY DEF Follow, plan
<1>3. k < len
  <2>1. ASSUME k = len
        PROVE  SubSeq(plan, k + 1, len) = <<>>
    BY <1>1, <2>1
  <2> QED
    BY <1>1, <1>2, <2>1
<1>4. Head(needs) = plan[k + 1] /\ Tail(needs) = SubSeq(plan, k + 1 + 1, len)
  <2> DEFINE rest == SubSeq(plan, k + 1 + 1, len)
  <2>1. /\ needs \in Seq(Locks) /\ Len(needs) = len - k
        /\ \A i \in 1..len - k : needs[i] = plan[k + i]
    BY <1>1, <1>2, <1>3
  <2>2. /\ rest \in Seq(Locks) /\ Len(rest) = len - k - 1
        /\ \A i \in 1..len - k - 1 : rest[i] = plan[k + 1 + i]
    BY <1>1, <1>3
  <2>3. /\ Head(needs) = needs[1] /\ Tail(needs) \in Seq(Locks)
        /\ Len(Tail(needs)) = len - k - 1
        /\ \A i \in 1..len - k - 1 : Tail(needs)[i] = needs[i + 1]
    BY <1>1, <1>3, <2>1
  <2> HIDE DEF rest
  <2>4. \A i \in 1..len - k - 1 : Tail(needs)[i] = rest[i]
    <3> TAKE i \in 1..len - k - 1
    <3>1. i + 1 \in 1..len - k /\ k + (i + 1) = k + 1 + i
      BY <1>1
    <3> QED
      BY <2>1, <2>2, <2>3, <3>1
  <2>5. \A s \in Seq(Locks) : s = [i \in 1..Len(s) |-> s[i]]
    OBVIOUS
  <2>6. Tail(needs) = rest
    BY <2>2, <2>3, <2>4, <2>5
  <2>7. needs[1] = plan[k + 1]
    BY <1>1, <1>3, <2>1
  <2> QED
    BY <2>3, <2>6, <2>7 DEF rest
<1>5. held \cup {Head(needs)} = {plan[i] : i \in 1..k + 1}
  <2>1. 1..k + 1 = (1..k) \cup {k + 1}
    BY <1>1
  <2> QED
    BY <1>2, <1>4, <2>1
<1>6. k + 1 \in 0..len
  BY <1>1, <1>3
<1> QED
  BY <1>4, <1>5, <1>6 DEF Follow, plan

\* A plan of which all locks are taken.
LEMMA PlanEnds ==
  ASSUME NEW m \in Matches, NEW held, NEW needs, Follow(m, held, needs), needs = <<>>,
         NEW p \in PlayersOf(m)
  PROVE  PlayerLock(p) \in held
<1> DEFINE plan == Plan(m)
           len == Len(plan)
<1>1. /\ plan \in Seq(Locks) /\ len \in Nat
      /\ \A q \in PlayersOf(m) : \E i \in 2..len : plan[i] = PlayerLock(q)
  BY PlanSorted
<1> HIDE DEF plan
<1>2. PICK k \in 0..len : held = {plan[i] : i \in 1..k} /\ needs = SubSeq(plan, k + 1, len)
  BY DEF Follow, plan
<1>3. Len(needs) = 0
  OBVIOUS
<1>4. k = len
  <2> DEFINE rest == SubSeq(plan, k + 1, len)
  <2>1. Len(rest) = len - k
    BY <1>1
  <2> HIDE DEF rest
  <2>2. Len(rest) = 0
    BY <1>2, <1>3 DEF rest
  <2> QED
    BY <1>1, <2>1, <2>2
<1>5. PICK i \in 2..len : plan[i] = PlayerLock(p)
  BY <1>1
<1> QED
  BY <1>1, <1>2, <1>4, <1>5

\* What it will take it has, once it has taken it.
LEMMA TargetGoesOn ==
  ASSUME NEW t \in Transaction, NEW u, t.needs # <<>>, Targets(t),
         u.match = t.match, u.listed = t.listed,
         u.held = t.held \cup {Head(t.needs)}, u.needs = Tail(t.needs)
  PROVE  Targets(u)
<1>1. t.needs \in Seq(Locks)
  BY DEF Transaction
<1>2. ASSUME NEW i \in DOMAIN t.needs, i # 1
      PROVE  i - 1 \in DOMAIN Tail(t.needs) /\ Tail(t.needs)[i - 1] = t.needs[i]
  BY <1>1, <1>2
<1>3. 1 \in DOMAIN t.needs => Head(t.needs) = t.needs[1]
  BY <1>1
<1>4. ASSUME NEW p \in PlayersOf(t.match)
      PROVE  \/ PlayerLock(p) \in u.held
             \/ u.listed = None /\ \E i \in DOMAIN u.needs : u.needs[i] = PlayerLock(p)
  <2>1. CASE PlayerLock(p) \in t.held
    BY <2>1
  <2>2. ASSUME NEW i \in DOMAIN t.needs, t.listed = None, t.needs[i] = PlayerLock(p)
        PROVE  \/ PlayerLock(p) \in u.held
               \/ u.listed = None /\ \E j \in DOMAIN u.needs : u.needs[j] = PlayerLock(p)
    <3>1. CASE i = 1
      BY <1>3, <2>2, <3>1
    <3>2. CASE i # 1
      BY <1>2, <2>2, <3>2
    <3> QED
      BY <3>1, <3>2
  <2> QED
    BY <2>1, <2>2 DEF Targets
<1> QED
  BY <1>4 DEF Targets

LEMMA ReplaysGoesOn ==
  ASSUME NEW t \in Transaction, NEW u, t.needs # <<>>, Replays(t), u.listed = t.listed,
         u.held = t.held \cup {Head(t.needs)}, u.needs = Tail(t.needs)
  PROVE  Replays(u)
<1>1. t.needs \in Seq(Locks)
  BY DEF Transaction
<1>2. ASSUME NEW i \in DOMAIN t.needs, i # 1
      PROVE  i - 1 \in DOMAIN Tail(t.needs) /\ Tail(t.needs)[i - 1] = t.needs[i]
  BY <1>1, <1>2
<1>3. 1 \in DOMAIN t.needs => Head(t.needs) = t.needs[1]
  BY <1>1
<1>4. ASSUME t.listed # None, NEW n \in Range(t.listed), NEW p \in PlayersOf(n)
      PROVE  PlayerLock(p) \in u.held \/ \E i \in DOMAIN u.needs : u.needs[i] = PlayerLock(p)
  <2>1. CASE PlayerLock(p) \in t.held
    BY <2>1
  <2>2. ASSUME NEW i \in DOMAIN t.needs, t.needs[i] = PlayerLock(p)
        PROVE  PlayerLock(p) \in u.held \/ \E j \in DOMAIN u.needs : u.needs[j] = PlayerLock(p)
    <3>1. CASE i = 1
      BY <1>3, <2>2, <3>1
    <3>2. CASE i # 1
      BY <1>2, <2>2, <3>2
    <3> QED
      BY <3>1, <3>2
  <2> QED
    BY <1>4, <2>1, <2>2 DEF Replays
<1> QED
  BY <1>4 DEF Replays

\* A transaction that is new or that goes on, with the locks of no other one.
LEMMA LocksPut ==
  ASSUME NEW under, LocksOK(under), NEW id, NEW t, Targets(t), Replays(t),
         \A m \in Matches : id = Finalization(m) => Follow(m, t.held, t.needs),
         \A other \in DOMAIN under : other # id => t.held \cap under[other].held = {},
         NEW then, DOMAIN then = DOMAIN under \cup {id},
         \A i \in DOMAIN then : then[i] = IF i = id THEN t ELSE under[i]
  PROVE  LocksOK(then)
<1>1. ASSUME NEW a \in DOMAIN then, NEW b \in DOMAIN then, a # b
      PROVE  then[a].held \cap then[b].held = {}
  <2>1. CASE a = id
    BY <1>1, <2>1
  <2>2. CASE b = id
    BY <1>1, <2>2
  <2>3. CASE a # id /\ b # id
    BY <1>1, <2>3 DEF LocksOK
  <2> QED
    BY <2>1, <2>2, <2>3
<1>2. ASSUME NEW m \in Matches, Finalization(m) \in DOMAIN then
      PROVE  Follow(m, then[Finalization(m)].held, then[Finalization(m)].needs)
  BY <1>2 DEF LocksOK
<1>3. \A i \in DOMAIN then : Targets(then[i]) /\ Replays(then[i])
  BY DEF LocksOK
<1> QED
  BY <1>1, <1>2, <1>3 DEF LocksOK

LEMMA LocksEnd ==
  ASSUME LocksOK(transactions), NEW id, End(id)
  PROVE  LocksOK(transactions')
<1>1. \A i \in DOMAIN transactions' : i \in DOMAIN transactions /\ transactions'[i] = transactions[i]
  BY DEF End
<1> QED
  BY <1>1 DEF LocksOK

LEMMA LocksBegin ==
  ASSUME LocksOK(transactions), NEW m \in Matches, NEW id,
         \A n : id = Finalization(n) => n = m,
         NEW t, t.match = m, t.held = {}, t.needs = Plan(m), t.listed = None, Begin(id, t)
  PROVE  LocksOK(transactions')
<1>1. Follow(m, t.held, t.needs) /\ Targets(t)
  BY PlanBegins
<1>2. /\ DOMAIN transactions' = DOMAIN transactions \cup {id}
      /\ \A i \in DOMAIN transactions' : transactions'[i] = IF i = id THEN t ELSE transactions[i]
  BY DEF Begin
<1>3. \A other : t.held \cap transactions[other].held = {}
  OBVIOUS
<1>4. Replays(t)
  BY DEF Replays
<1>5. \A n \in Matches : id = Finalization(n) => Follow(n, t.held, t.needs)
  BY <1>1
<1> QED
  BY <1>1, <1>2, <1>3, <1>4, <1>5, LocksPut

LEMMA LocksTaken ==
  ASSUME Shape, LocksOK(transactions), NEW id \in DOMAIN transactions, TakeLock(id)
  PROVE  LocksOK(transactions')
<1> DEFINE t == transactions[id]
           u == [t EXCEPT !.held = @ \cup {Takes(id)}, !.needs = Tail(@)]
<1>1. t \in Transaction
  BY DEF Shape, TransactionsOK, TransactionOK
<1>2. t.needs # <<>> /\ \A other \in DOMAIN transactions : ~WaitsFor(id, other)
  BY DEF TakeLock
<1>3. transactions' = [transactions EXCEPT ![id] = u]
  BY DEF TakeLock
<1>4. /\ u.match = t.match /\ u.listed = t.listed
      /\ u.held = t.held \cup {Head(t.needs)} /\ u.needs = Tail(t.needs)
  BY <1>1 DEF Transaction, Takes
<1>5. \A other \in DOMAIN transactions : other # id => Head(t.needs) \notin transactions[other].held
  BY <1>2 DEF WaitsFor, Takes, Held
<1>6. /\ Targets(t) /\ Replays(t)
      /\ \A m \in Matches : id = Finalization(m) => Follow(m, t.held, t.needs)
  BY DEF LocksOK
<1>7. \A other \in DOMAIN transactions : other # id => t.held \cap transactions[other].held = {}
  BY DEF LocksOK
<1> HIDE DEF t, u
<1>8. Targets(u) /\ Replays(u)
  BY <1>1, <1>2, <1>4, <1>6, TargetGoesOn, ReplaysGoesOn
<1>9. \A m \in Matches : id = Finalization(m) => Follow(m, u.held, u.needs)
  BY <1>2, <1>4, <1>6, PlanGoesOn
<1>10. \A other \in DOMAIN transactions : other # id => u.held \cap transactions[other].held = {}
  BY <1>4, <1>5, <1>7
<1>11. DOMAIN transactions' = DOMAIN transactions \cup {id}
       /\ \A i \in DOMAIN transactions' : transactions'[i] = IF i = id THEN u ELSE transactions[i]
  BY <1>3
<1> QED
  BY <1>8, <1>9, <1>10, <1>11, LocksPut

\* The locks that are needed for a list are those of all its players, too.
LEMMA ListedNeeded ==
  ASSUME NEW ms \in Seq(Matches), NEW n \in Range(ms), NEW p \in PlayersOf(n)
  PROVE  LET needs == MatchLocks(ms) \o PlayerLocks(ms)
         IN  \E i \in DOMAIN needs : needs[i] = PlayerLock(p)
<1> DEFINE q == MatchLocks(ms)
           s == PlayerLocks(ms)
<1>1. q \in Seq(Locks) /\ s \in Seq(Locks)
  BY MatchLocksTyped, PlayerLocksSorted
<1>2. PICK i \in 1..Len(s) : s[i] = PlayerLock(p)
  BY PlayerLocksSorted
<1> HIDE DEF q, s
<1>3. Len(q) + i \in DOMAIN (q \o s) /\ (q \o s)[Len(q) + i] = s[i]
  BY <1>1, <1>2
<1> QED
  BY <1>2, <1>3 DEF q, s

LEMMA LocksListed ==
  ASSUME Shape, LocksOK(transactions), NEW id \in DOMAIN transactions, ListAffected(id)
  PROVE  LocksOK(transactions')
<1> DEFINE t == transactions[id]
           u == transactions'[id]
<1>0. LocksOK(transactions)
  OBVIOUS
<1>1. t \in Transaction
  BY DEF Shape, TransactionsOK, TransactionOK
<1>2. t.needs = <<>> /\ \A m : id # Finalization(m)
  BY IdsDiffer DEF ListAffected
<1>3. /\ u.match = t.match /\ u.held = t.held
      /\ DOMAIN transactions' = DOMAIN transactions \cup {id}
      /\ \A i \in DOMAIN transactions' : i # id => transactions'[i] = transactions[i]
  BY <1>1 DEF Transaction, ListAffected
<1>4. Targets(t) /\ \A other \in DOMAIN transactions : other # id => t.held \cap transactions[other].held = {}
  BY DEF LocksOK
<1> HIDE DEF t
<1>5. DOMAIN t.needs = {}
  BY <1>2
<1>6. \A p \in PlayersOf(u.match) : PlayerLock(p) \in u.held
  BY <1>3, <1>4, <1>5 DEF Targets
<1>7. Targets(u)
  BY <1>6 DEF Targets
<1>8. \A i \in DOMAIN transactions' : transactions'[i] = IF i = id THEN u ELSE transactions[i]
  BY <1>3
<1>9. \A other \in DOMAIN transactions : other # id => u.held \cap transactions[other].held = {}
  BY <1>3, <1>4
<1>10. \A m \in Matches : id = Finalization(m) => Follow(m, u.held, u.needs)
  BY <1>2
<1>11. DOMAIN transactions' = DOMAIN transactions \cup {id}
  BY <1>3
<1>12. /\ u.needs = MatchLocks(u.listed) \o PlayerLocks(u.listed)
       /\ u.listed # None => u.listed \in Seq(Matches)
  <2>1. u \in Transaction
    BY <1>3, ListAffectedShape DEF Shape, TransactionsOK, TransactionOK
  <2>2. t.needs = <<>> /\ u.needs = MatchLocks(u.listed) \o PlayerLocks(u.listed)
    BY <1>1 DEF Transaction, ListAffected, t
  <2> QED
    BY <2>1, <2>2 DEF Transaction
<1> HIDE DEF u
<1>13. Replays(u)
  BY <1>12, ListedNeeded DEF Replays
<1> QED
  BY <1>0, <1>7, <1>8, <1>9, <1>10, <1>11, <1>13, LocksPut

LEMMA LockStep ==
  ASSUME Shape, LockInv, [Next]_vars
  PROVE  LockInv'
<1>0. LocksOK(transactions)
  BY LockInvIs
<1> SUFFICES LocksOK(transactions')
  BY DEF LockInv, Exclusive, Planned, TargetLocked, ListLocked, Follow, Targets, Replays, Held, LocksOK
<1>1. ASSUME NEW m \in Matches, NEW result \in Results, NEW at \in RatedAt,
             BeginFinalization(m, result, at)
      PROVE  LocksOK(transactions')
  <2> DEFINE t == [match |-> m, result |-> result, at |-> at, held |-> {}, listed |-> None,
                   needs |-> Plan(m)]
  <2>1. Begin(Finalization(m), t) /\ t.match = m /\ t.held = {} /\ t.needs = Plan(m) /\ t.listed = None
    BY <1>1 DEF BeginFinalization, Plan
  <2> HIDE DEF t
  <2> QED
    BY <1>0, <2>1, IdsDiffer, LocksBegin
<1>2. ASSUME NEW m \in Matches, NEW result \in Results, BeginCorrection(m, result)
      PROVE  LocksOK(transactions')
  <2> DEFINE t == [match |-> m, result |-> result, at |-> clock + 1, held |-> {}, listed |-> None,
                   needs |-> Plan(m)]
             id == Correction(corrections + 1)
  <2>1. Begin(id, t) /\ t.match = m /\ t.held = {} /\ t.needs = Plan(m) /\ t.listed = None
    BY <1>2 DEF BeginCorrection, Plan
  <2>2. \A n : id = Finalization(n) => n = m
    BY IdsDiffer
  <2> HIDE DEF t, id
  <2> QED
    BY <1>0, <2>1, <2>2, LocksBegin
<1>3. ASSUME NEW id \in DOMAIN transactions, Proceed(id)
      PROVE  LocksOK(transactions')
  <2>1. CASE TakeLock(id)
    BY <1>0, <2>1, LocksTaken
  <2>2. ASSUME NEW m \in Matches, CommitFinalization(m)
        PROVE  LocksOK(transactions')
    BY <1>0, <2>2, LocksEnd DEF CommitFinalization
  <2>3. CASE ListAffected(id)
    BY <1>0, <2>3, LocksListed
  <2>4. CASE CommitCorrection(id)
    BY <1>0, <2>4, LocksEnd DEF CommitCorrection
  <2>5. CASE Abort(id)
    BY <1>0, <2>5, LocksEnd DEF Abort
  <2> QED
    BY <1>3, <2>1, <2>2, <2>3, <2>4, <2>5 DEF Proceed
<1>4. CASE UNCHANGED vars
  BY <1>0, <1>4 DEF vars
<1> QED
  BY <1>1, <1>2, <1>3, <1>4 DEF Next

\* No two transactions have the same lock, a finalization takes its match's lock
\* and then those of the players by their ids, and a correction that has listed
\* the matches to replay has the locks of its match's players (advisory_locks.py,
\* match_flow.py).
THEOREM LocksKept == Spec => []LockInv
<1>1. Init => LockInv
  BY DEF Init, LockInv, Exclusive, Planned, TargetLocked, ListLocked
<1>2. Shape /\ LockInv /\ [Next]_vars => LockInv'
  BY LockStep
<1> QED
  BY <1>1, <1>2, ShapeInvariant, PTL DEF Spec

-----------------------------------------------------------------------------
\* A finalization that overtakes a correction has no player in common with the
\* match whose result is corrected.
OvertakersAreStrangers ==
  \A m \in Matches : CommitFinalization(m) =>
    \A id \in DOMAIN transactions :
      transactions[id].listed # None => ~Meet(m, transactions[id].match)

LEMMA OvertakersShareNobody ==
  ASSUME Shape, LockInv
  PROVE  OvertakersAreStrangers
<1> SUFFICES ASSUME NEW m \in Matches, CommitFinalization(m),
                    NEW id \in DOMAIN transactions, transactions[id].listed # None,
                    NEW p \in PlayersOf(m), p \in PlayersOf(transactions[id].match)
             PROVE  FALSE
  BY DEF OvertakersAreStrangers, Meet
<1> DEFINE own == Finalization(m)
<1>1. own \in DOMAIN transactions /\ transactions[own].needs = <<>> /\ transactions[own].listed = None
  BY FinalizationReady DEF CommitFinalization
<1>2. own # id
  BY <1>1
<1>3. LocksOK(transactions)
  BY LockInvIs
<1>4. Follow(m, transactions[own].held, transactions[own].needs)
  BY <1>1, <1>3 DEF LocksOK
<1>5. PlayerLock(p) \in transactions[own].held
  BY <1>1, <1>4, PlanEnds
<1>6. PlayerLock(p) \in transactions[id].held
  BY <1>3 DEF LocksOK, Targets
<1>7. transactions[own].held \cap transactions[id].held = {}
  BY <1>1, <1>2, <1>3 DEF LocksOK
<1> QED
  BY <1>5, <1>6, <1>7

\* Whatever a finalization overtakes, it is no correction of a match with one of
\* its own players: that one has their locks (match_flow.py, override_match_result).
THEOREM OnlyStrangersOvertake == Spec => [][OvertakersAreStrangers]_vars
<1>1. Shape /\ LockInv => OvertakersAreStrangers
  BY OvertakersShareNobody
<1> QED
  BY <1>1, ShapeInvariant, LocksKept, PTL

\* A finalization that overtakes a correction does so before the correction has
\* the locks of the players they share.
OvertakesBeforeLocks ==
  \A m \in Matches : CommitFinalization(m) =>
    \A id \in DOMAIN transactions :
      LET t == transactions[id]
      IN  t.listed # None =>
            \A n \in Range(t.listed) : \A p \in PlayersOf(m) \cap PlayersOf(n) :
              \E i \in DOMAIN t.needs : t.needs[i] = PlayerLock(p)

LEMMA OvertakersHaveTheLocks ==
  ASSUME Shape, LockInv
  PROVE  OvertakesBeforeLocks
<1> SUFFICES ASSUME NEW m \in Matches, CommitFinalization(m),
                    NEW id \in DOMAIN transactions, transactions[id].listed # None,
                    NEW n \in Range(transactions[id].listed),
                    NEW p \in PlayersOf(m) \cap PlayersOf(n)
             PROVE  \E i \in DOMAIN transactions[id].needs : transactions[id].needs[i] = PlayerLock(p)
  BY DEF OvertakesBeforeLocks
<1> DEFINE own == Finalization(m)
<1>1. own \in DOMAIN transactions /\ transactions[own].needs = <<>> /\ transactions[own].listed = None
  BY FinalizationReady DEF CommitFinalization
<1>2. own # id
  BY <1>1
<1>3. LocksOK(transactions)
  BY LockInvIs
<1>4. Follow(m, transactions[own].held, transactions[own].needs)
  BY <1>1, <1>3 DEF LocksOK
<1>5. PlayerLock(p) \in transactions[own].held
  BY <1>1, <1>4, PlanEnds
<1>6. PlayerLock(p) \notin transactions[id].held
  BY <1>1, <1>2, <1>3, <1>5 DEF LocksOK
<1> QED
  BY <1>3, <1>6 DEF LocksOK, Replays

\* A correction is overtaken only between its list and its locks: when a
\* finalization commits that shares a player with a match on the list, then the
\* correction is still to take that player's lock. Once it has the locks of the
\* players of a match, no finalization can make it forget a game of theirs
\* (_recalculate_ratings_after_match_correction_locked in match_flow.py).
THEOREM OvertakenBeforeLocked == Spec => [][OvertakesBeforeLocks]_vars
<1>1. Shape /\ LockInv => OvertakesBeforeLocks
  BY OvertakersHaveTheLocks
<1> QED
  BY <1>1, ShapeInvariant, LocksKept, PTL

-----------------------------------------------------------------------------
\* A finite set of numbers that is not empty has a greatest one.
LEMMA GreatestNumber ==
  ASSUME NEW T \in SUBSET Nat, IsFiniteSet(T), T # {}
  PROVE  \E m \in T : \A n \in T : n <= m
<1> DEFINE s == Ascending(T)
<1>1. /\ s \in Seq(T) /\ Len(s) \in Nat
      /\ \A x \in T : \E i \in 1..Len(s) : s[i] = x
      /\ \A i, j \in 1..Len(s) : i < j <=> s[i] < s[j]
  BY AscendingSorts
<1> HIDE DEF s
<1>2. Len(s) \in 1..Len(s) /\ s[Len(s)] \in T
  <2>1. PICK x \in T : TRUE
    OBVIOUS
  <2>2. PICK i \in 1..Len(s) : s[i] = x
    BY <1>1
  <2>3. Len(s) \in 1..Len(s)
    BY <1>1, <2>2
  <2> QED
    BY <1>1, <2>3
<1>3. \A n \in T : n <= s[Len(s)]
  <2> TAKE n \in T
  <2>1. PICK i \in 1..Len(s) : s[i] = n
    BY <1>1
  <2>2. i = Len(s) \/ i < Len(s)
    BY <1>1
  <2>3. n \in Nat /\ s[Len(s)] \in Nat
    BY <1>2
  <2>4. i < Len(s) => s[i] < s[Len(s)]
    BY <1>1, <1>2
  <2> QED
    BY <2>1, <2>2, <2>3, <2>4
<1> QED
  BY <1>2, <1>3

\* The next lock of a plan.
LEMMA PlanNext ==
  ASSUME NEW m \in Matches, NEW held, NEW needs, Follow(m, held, needs)
  PROVE  \E k \in 0..Len(Plan(m)) :
           /\ held = {Plan(m)[i] : i \in 1..k}
           /\ needs # <<>> => k < Len(Plan(m)) /\ Head(needs) = Plan(m)[k + 1]
<1> DEFINE plan == Plan(m)
           len == Len(plan)
<1>1. plan \in Seq(Locks) /\ len \in Nat
  BY PlanSorted
<1> HIDE DEF plan
<1>2. PICK k \in 0..len : held = {plan[i] : i \in 1..k} /\ needs = SubSeq(plan, k + 1, len)
  BY DEF Follow, plan
<1>3. ASSUME needs # <<>>
      PROVE  k < len /\ Head(needs) = plan[k + 1]
  <2>1. ASSUME k = len
        PROVE  SubSeq(plan, k + 1, len) = <<>>
    BY <1>1, <2>1
  <2>2. k < len
    BY <1>1, <1>2, <1>3, <2>1
  <2>3. needs \in Seq(Locks) /\ Len(needs) = len - k /\ needs[1] = plan[k + 1]
    BY <1>1, <1>2, <2>2
  <2> QED
    BY <1>1, <2>2, <2>3
<1> QED
  BY <1>2, <1>3 DEF plan

\* A finalization that waits for another one wants a player that the other has,
\* and so the other can only wait for a player with a greater id.
LEMMA WaitsForGreater ==
  ASSUME LocksOK(transactions), NEW m \in Matches, NEW n \in Matches,
         Finalization(m) \in DOMAIN transactions, Finalization(n) \in DOMAIN transactions,
         WaitsFor(Finalization(m), Finalization(n)),
         transactions[Finalization(n)].needs # <<>>
  PROVE  \E p \in PlayersOf(m) : \E q \in PlayersOf(n) :
           /\ Takes(Finalization(m)) = PlayerLock(p)
           /\ Takes(Finalization(n)) = PlayerLock(q)
           /\ p < q
<1> DEFINE t == transactions[Finalization(m)]
           u == transactions[Finalization(n)]
           len == Len(Plan(m))
           len2 == Len(Plan(n))
<1>1. m # n /\ t.needs # <<>> /\ u.needs # <<>> /\ Head(t.needs) \in u.held
  BY DEF WaitsFor, Takes, Held
<1>2. Follow(m, t.held, t.needs) /\ Follow(n, u.held, u.needs)
  BY DEF LocksOK
<1>3. Takes(Finalization(m)) = Head(t.needs) /\ Takes(Finalization(n)) = Head(u.needs)
  BY DEF Takes
<1> HIDE DEF t, u
<1>4. /\ len \in Nat /\ Plan(m)[1] = MatchLock(m)
      /\ \A i \in 2..len : \E p \in PlayersOf(m) : Plan(m)[i] = PlayerLock(p)
  BY PlanSorted
<1>5. /\ len2 \in Nat /\ Plan(n)[1] = MatchLock(n)
      /\ \A i \in 2..len2 : \E p \in PlayersOf(n) : Plan(n)[i] = PlayerLock(p)
      /\ \A i, j \in 2..len2, p, q \in PlayersOf(n) :
           i < j /\ Plan(n)[i] = PlayerLock(p) /\ Plan(n)[j] = PlayerLock(q) => p < q
  BY PlanSorted
<1>6. PICK k \in 1..len : Head(t.needs) = Plan(m)[k]
  <2>1. PICK k \in 0..len : k < len /\ Head(t.needs) = Plan(m)[k + 1]
    BY <1>1, <1>2, PlanNext
  <2>2. k + 1 \in 1..len
    BY <1>4, <2>1
  <2> QED
    BY <2>1, <2>2
<1>7. PICK i \in 1..len2, j \in 1..len2 :
        i < j /\ Plan(n)[i] = Head(t.needs) /\ Plan(n)[j] = Head(u.needs)
  <2>1. PICK l \in 0..len2 : /\ u.held = {Plan(n)[i] : i \in 1..l}
                             /\ l < len2 /\ Head(u.needs) = Plan(n)[l + 1]
    BY <1>1, <1>2, PlanNext
  <2>2. PICK i \in 1..l : Plan(n)[i] = Head(t.needs)
    BY <1>1, <2>1
  <2>3. i \in 1..len2 /\ l + 1 \in 1..len2 /\ i < l + 1
    BY <1>5, <2>1
  <2> QED
    BY <2>1, <2>2, <2>3
<1>8. k # 1 \/ i # 1
  BY <1>1, <1>4, <1>5, <1>6, <1>7, IdsDiffer
<1>9. k # 1 /\ i # 1
  <2>1. k # 1 => k \in 2..len
    BY <1>4
  <2>2. i # 1 => i \in 2..len2
    BY <1>5
  <2> QED
    BY <1>4, <1>5, <1>6, <1>7, <1>8, <2>1, <2>2, IdsDiffer
<1>10. k \in 2..len /\ i \in 2..len2 /\ j \in 2..len2
  BY <1>4, <1>5, <1>7, <1>9
<1>11. PICK p \in PlayersOf(m) : Head(t.needs) = PlayerLock(p)
  BY <1>4, <1>6, <1>10
<1>12. PICK q \in PlayersOf(n) : Head(u.needs) = PlayerLock(q)
  BY <1>5, <1>7, <1>10
<1>13. p \in PlayersOf(n)
  BY <1>5, <1>7, <1>10, <1>11, IdsDiffer
<1>14. p < q
  BY <1>5, <1>7, <1>10, <1>11, <1>12, <1>13
<1> QED
  BY <1>3, <1>11, <1>12, <1>14

LEMMA NoCircles ==
  ASSUME LocksOK(transactions)
  PROVE  CirclesNeedCorrection
<1> SUFFICES ASSUME NEW S \in SUBSET {Finalization(m) : m \in Matches},
                    S \subseteq DOMAIN transactions, Circle(S)
             PROVE  FALSE
  BY DEF CirclesNeedCorrection
<1> DEFINE W == {p \in Players : \E t \in S : Takes(t) = PlayerLock(p)}
<1>1. ASSUME NEW t \in S
      PROVE  \E p \in W : \E q \in W : Takes(t) = PlayerLock(p) /\ p < q
  <2>1. PICK u \in S : WaitsFor(t, u)
    BY DEF Circle
  <2>2. PICK w \in S : WaitsFor(u, w)
    BY DEF Circle
  <2>3. transactions[u].needs # <<>>
    BY <2>2 DEF WaitsFor
  <2>4. PICK m \in Matches : t = Finalization(m)
    OBVIOUS
  <2>5. PICK n \in Matches : u = Finalization(n)
    OBVIOUS
  <2>6. PICK p \in PlayersOf(m), q \in PlayersOf(n) :
          Takes(t) = PlayerLock(p) /\ Takes(u) = PlayerLock(q) /\ p < q
    BY <2>1, <2>3, <2>4, <2>5, WaitsForGreater
  <2>7. p \in Players /\ q \in Players
    BY RosterFinite
  <2> QED
    BY <2>6, <2>7
<1>2. W \in SUBSET Nat /\ IsFiniteSet(W)
  BY RosterFinite, FS_Subset
<1>3. W # {}
  BY <1>1 DEF Circle
<1> HIDE DEF W
<1>4. PICK g \in W : \A p \in W : p <= g
  BY <1>2, <1>3, GreatestNumber
<1>5. PICK t \in S : Takes(t) = PlayerLock(g)
  BY DEF W
<1>6. PICK q \in W : g < q
  BY <1>1, <1>5, IdsDiffer
<1> QED
  BY <1>2, <1>4, <1>6

\* However many matches are finalized at the same time, finalizations alone never
\* wait for each other in a circle (advisory_locks.py, lock_player_ids).
THEOREM NoCircleWithoutCorrection == Spec => []CirclesNeedCorrection
<1>1. LockInv => CirclesNeedCorrection
  BY LockInvIs, NoCircles
<1> QED
  BY <1>1, LocksKept, PTL
=============================================================================
