---------------------------- MODULE ManagedUiProofs ----------------------------
(***************************************************************************)
(* Proofs about ManagedUi, for any administrators, types and bounds: what  *)
(* the table says of the server whatever commands run at once, and what a  *)
(* setup, a resetup or a cleanup that runs alone leaves behind.            *)
(***************************************************************************)
EXTENDS ManagedUi, FiniteSetTheorems, SequenceTheorems, TLAPS

-----------------------------------------------------------------------------
(* The inductive invariant. *)

Stages == {"over", "category", "create", "post", "record", "swap", "retire", "restore",
           "drop", "delete", "forget"}
Row == [id : Nat, type : Types, channel : Nat]

Op ==
  [kind : All \cup {"none"}, stage : Stages, types : Seq(Types), name : Names \cup {None},
   chan : Nat, mine : Seq(Nat), target : Row \cup {None}, later : Seq(Nat), doomed : Seq(Nat),
   gone : SUBSET Nat, aborting : BOOLEAN, failed : BOOLEAN, alone : BOOLEAN,
   asked : SUBSET Types, used : SUBSET Types]

Stored == made \in Nat /\ rows \in Nat /\ command \in [Admins -> Op]

Posted(c) == Exists(c) => channels[c].posted

\* What a command has in hand fits its stage. A channel that is about to be
\* recorded has its messages.
Fits(op) ==
  /\ op.chan <= made
  /\ op.stage \in {"category", "create", "post"} => op.kind \in Provisioning
  /\ op.stage = "record" => op.kind \in {"setup", "custom"}
  /\ op.stage \in {"swap", "retire", "restore", "drop"} => op.kind = "resetup"
  /\ op.stage \in {"post", "record", "swap", "retire", "restore"} => op.chan # 0
  /\ op.stage \in {"record", "swap", "retire"} => Posted(op.chan)
  /\ op.stage \in {"delete", "forget"} => op.kind \in All
  /\ op.stage = "delete" => op.doomed # <<>>
  /\ op.kind \in {"setup", "custom"} /\ op.stage \in {"category", "create", "post", "record"} =>
       op.types # <<>>
  /\ op.kind \in {"custom", "resetup"} => op.name \in Names
  /\ op.kind = "resetup" =>
       /\ op.target \in Row /\ op.target.channel \in 1..made /\ Range(op.later) \subseteq 1..made
       /\ op.chan # op.target.channel /\ op.chan \notin Range(op.later)
       /\ Posted(op.target.channel)

\* A channel that has been recorded under an id, or that a resetup means to
\* record under it, is not recorded under another one; and a channel that a
\* setup means to record is not recorded at all.
Claims(a, c, id) ==
  LET op == command[a] IN
  \/ op.kind = "resetup" /\ c \in {op.target.channel, op.chan} /\ id = op.target.id
  \/ op.kind \in {"setup", "custom"} /\ op.stage \notin {"post", "record"} /\ c = op.chan

RowApart(r) ==
  \A a \in Admins :
    /\ r.channel = command[a].chan => Claims(a, r.channel, r.id)
    /\ command[a].kind = "resetup" /\ r.channel = command[a].target.channel =>
         r.id = command[a].target.id

Apart ==
  /\ \A a, b \in Admins : a # b /\ command[a].chan = command[b].chan => command[a].chan = 0
  /\ \A r \in records : RowApart(r)
  /\ \A a, b \in Admins : command[a].kind = "resetup" =>
       /\ command[a].target.channel = command[b].chan =>
            Claims(b, command[b].chan, command[a].target.id)
       /\ command[b].kind = "resetup" /\ command[a].target.channel = command[b].target.channel =>
            command[a].target.id = command[b].target.id

\* A command that runs alone is the only one there is.
Quiet ==
  /\ \A a, b \in Admins : command[a].alone /\ a # b => command[b] = Nothing
  /\ \A a \in Admins : Free(a) /\ ~command[a].alone => command[a] = Nothing

-----------------------------------------------------------------------------
(* What holds of a setup that runs alone. *)

Own(op) == Range(op.mine) \cup {op.chan}
Elsewhere(op, c) == \E r \in records : r.channel = c /\ r.type \notin op.asked

\* It touches no other type.
KeepsToItsTypes(op) ==
  /\ \A r \in records : r.type \notin op.asked => r.channel \notin Own(op)
  /\ op.kind = "setup" => \A t \in Types \ op.asked : Recorded(t) # {}

\* The types it is through with have their record, the others have none, and
\* apart from its own channels none has the name of a type it is about.
Forward(op) ==
  /\ op.stage \in {"category", "create", "post", "record", "over"}
  /\ Range(op.types) \subseteq op.asked /\ IsInjective(op.types)
  /\ op.stage = "over" => op.types = <<>>
  /\ op.stage \in {"category", "create", "over"} => op.chan \in Range(op.mine) \cup {0}
  /\ op.stage \in {"post", "record"} => Exists(op.chan)
  /\ \A t \in Range(op.types) : Recorded(t) = {}
  /\ \A t \in op.asked \ Range(op.types) :
       \E r \in records : /\ Recorded(t) = {r} /\ Exists(r.channel)
                          /\ r.channel \in Range(op.mine)
  /\ op.kind = "setup" => \A c \in DOMAIN channels :
       channels[c].name \in op.asked => c \in Own(op) \/ Elsewhere(op, c)
  /\ op.doomed = <<>> /\ op.gone = {}

\* What it has created is gone or will be deleted, and so are its records.
Backward(op) ==
  /\ op.stage \in {"delete", "forget", "over"}
  /\ op.gone \cup Range(op.doomed) \subseteq Own(op)
  /\ \A r \in records : r.type \in op.asked => r.channel \in op.gone \cup Range(op.doomed)
  /\ op.gone \cap DOMAIN channels = {}
  /\ Exists(op.chan) => op.chan \in Range(op.doomed)
  /\ op.kind = "setup" => \A c \in DOMAIN channels :
       channels[c].name \in op.asked => c \in Range(op.doomed) \/ Elsewhere(op, c)
  /\ op.stage # "delete" => op.doomed = <<>>
  /\ op.stage = "over" => op.gone = {}

GoodSetup(op) ==
  ~op.failed => /\ KeepsToItsTypes(op)
                /\ ~op.aborting => Forward(op)
                /\ op.aborting => Backward(op)

(* What holds of a resetup that runs alone. *)

New(op) == [op.target EXCEPT !.channel = op.chan]
OldThere(op) == op.target \in records /\ Exists(op.target.channel)
NewThere(op) == New(op) \in records /\ Exists(op.chan)

\* The type has its old record or its new one, with a channel that is there,
\* and the channels of all its other records are in S.
OthersIn(op, r, S) == \A s \in Recorded(op.target.type) : s = r \/ s.channel \in S

Replacing(op) ==
  /\ OldThere(op) /\ OthersIn(op, op.target, Range(op.later))
  /\ op.stage = "swap" => Exists(op.chan)
  /\ ~op.aborting /\ ~op.failed /\ op.mine = <<>> /\ op.doomed = <<>> /\ op.gone = {}

Replaced(op) ==
  /\ NewThere(op) /\ OthersIn(op, New(op), Range(op.later))
  /\ op.stage = "restore" => Exists(op.target.channel)
  /\ ~op.aborting /\ ~op.failed /\ op.mine = <<>> /\ op.doomed = <<>> /\ op.gone = {}

RollingBack(op) ==
  OldThere(op) /\ op.target.channel \notin op.gone \cup Range(op.doomed)

ClearingUp(op) ==
  /\ NewThere(op) /\ op.chan \notin op.gone \cup Range(op.doomed)
  /\ op.stage = "forget" => op.doomed = <<>>
  /\ ~op.failed =>
       /\ OthersIn(op, New(op), op.gone \cup Range(op.doomed))
       /\ Range(op.later) \subseteq op.gone \cup Range(op.doomed)
       /\ op.gone \cap DOMAIN channels = {}

Settled(op) ==
  /\ OldThere(op) \/ NewThere(op)
  /\ ~op.aborting /\ ~op.failed =>
       /\ NewThere(op) /\ Recorded(op.target.type) = {New(op)}
       /\ Range(op.later) \cap DOMAIN channels = {}

GoodResetup(op) ==
  /\ op.asked = {op.target.type} /\ op.used \subseteq op.asked
  /\ op.stage \in {"category", "create", "post", "swap"} => Replacing(op)
  /\ op.stage \in {"retire", "restore"} => Replaced(op)
  /\ op.stage = "drop" => OldThere(op) /\ op.gone = {} /\ op.doomed = <<>>
  /\ op.stage \in {"delete", "forget"} => IF op.aborting THEN RollingBack(op) ELSE ClearingUp(op)
  /\ op.stage = "over" => Settled(op)

\* A cleanup that runs alone deletes no channel of the table.
GoodCleanup(op) ==
  /\ op.stage \in {"delete", "over"}
  /\ op.gone = {} /\ Range(op.doomed) \cap Managed = {}
  /\ \A t \in op.used : Usable(t)

Good(op) ==
  op.alone => /\ op.kind \in {"setup", "custom"} => GoodSetup(op)
              /\ op.kind = "resetup" => GoodResetup(op)
              /\ op.kind = "cleanup" => GoodCleanup(op)

Base == TypeOK /\ Stored /\ Apart /\ Quiet /\ \A a \in Admins : Fits(command[a])

UiInductive == Base /\ \A a \in Admins : Good(command[a])

-----------------------------------------------------------------------------
(* Sequences. *)

\* What is in a sequence that has its elements from S.
LEMMA SeqRange ==
  ASSUME NEW S, NEW s \in Seq(S)
  PROVE  /\ Range(s) \subseteq S
         /\ s = <<>> <=> Range(s) = {}
         /\ Range(<<>>) = {} /\ <<>> \in Seq(S)
<1>1. Range(s) \subseteq S
  BY RangeOfSeq
<1>2. DOMAIN s = 1..Len(s) /\ Len(s) \in Nat
  BY LenProperties
<1>3. ASSUME s # <<>> PROVE Range(s) # {}
  <2>1. 1 \in DOMAIN s
    BY <1>2, <1>3, EmptySeq
  <2> QED
    BY <2>1 DEF Range
<1>4. Range(<<>>) = {}
  BY DEF Range
<1> QED
  BY <1>1, <1>3, <1>4, EmptySeq

\* The head and the rest make the sequence. In a sequence without repetitions
\* the head is not in the rest, and the rest has no repetitions.
LEMMA HeadAndTail ==
  ASSUME NEW S, NEW s \in Seq(S), s # <<>>
  PROVE  /\ Head(s) \in S /\ Tail(s) \in Seq(S)
         /\ Range(s) = Range(Tail(s)) \cup {Head(s)}
         /\ Len(s) = 1 <=> Tail(s) = <<>>
         /\ IsInjective(s) => IsInjective(Tail(s)) /\ Head(s) \notin Range(Tail(s))
<1>1. /\ DOMAIN s = 1..Len(s) /\ Len(s) \in Nat \ {0} /\ Head(s) = s[1]
  BY LenProperties, EmptySeq
<1>2. /\ Head(s) \in S /\ Tail(s) \in Seq(S) /\ Len(Tail(s)) = Len(s) - 1
      /\ \A i \in 1..Len(Tail(s)) : Tail(s)[i] = s[i + 1]
  BY HeadTailProperties
<1>3. DOMAIN Tail(s) = 1..(Len(s) - 1)
  BY <1>2, LenProperties
<1>4. ASSUME NEW x \in Range(s) PROVE x \in Range(Tail(s)) \cup {Head(s)}
  <2>1. PICK i \in 1..Len(s) : s[i] = x
    BY <1>1 DEF Range
  <2>2. CASE i = 1
    BY <2>1, <2>2, <1>1
  <2>3. CASE i # 1
    <3>1. i - 1 \in DOMAIN Tail(s) /\ Tail(s)[i - 1] = x
      BY <2>1, <2>3, <1>1, <1>2, <1>3
    <3> QED
      BY <3>1 DEF Range
  <2> QED
    BY <2>2, <2>3
<1>5. ASSUME NEW x \in Range(Tail(s)) PROVE \E i \in 2..Len(s) : s[i] = x
  <2>1. PICK i \in 1..(Len(s) - 1) : Tail(s)[i] = x
    BY <1>3 DEF Range
  <2>2. s[i + 1] = x /\ i + 1 \in 2..Len(s)
    BY <2>1, <1>1, <1>2
  <2> QED
    BY <2>2
<1>6. Head(s) \in Range(s) /\ Range(Tail(s)) \subseteq Range(s)
  BY <1>1, <1>5 DEF Range
<1>7. ASSUME IsInjective(s) PROVE IsInjective(Tail(s)) /\ Head(s) \notin Range(Tail(s))
  <2>1. \A i, j \in 1..Len(s) : s[i] = s[j] => i = j
    BY <1>1, <1>7 DEF IsInjective
  <2>2. \A i, j \in DOMAIN Tail(s) : Tail(s)[i] = Tail(s)[j] => i = j
    <3> SUFFICES ASSUME NEW i \in DOMAIN Tail(s), NEW j \in DOMAIN Tail(s),
                        Tail(s)[i] = Tail(s)[j]
                 PROVE  i = j
      OBVIOUS
    <3>1. i + 1 \in 1..Len(s) /\ j + 1 \in 1..Len(s) /\ s[i + 1] = s[j + 1]
      BY <1>1, <1>2, <1>3
    <3> QED
      BY <3>1, <2>1, <1>1, <1>3
  <2>3. \A i \in 2..Len(s) : s[i] # s[1]
    BY <2>1, <1>1
  <2> QED
    BY <2>2, <2>3, <1>5, <1>1 DEF IsInjective
<1>8. Len(s) = 1 <=> Tail(s) = <<>>
  BY <1>1, <1>2, EmptySeq
<1> QED
  BY <1>2, <1>4, <1>6, <1>7, <1>8

\* One more element, and the other way round.
LEMMA AppendRange ==
  ASSUME NEW S, NEW s \in Seq(S), NEW x \in S
  PROVE  /\ Append(s, x) \in Seq(S) /\ Append(s, x) # <<>>
         /\ Range(Append(s, x)) = Range(s) \cup {x}
<1>1. /\ Append(s, x) \in Seq(S) /\ Append(s, x) # <<>> /\ Len(Append(s, x)) = Len(s) + 1
      /\ \A i \in 1..Len(s) : Append(s, x)[i] = s[i]
      /\ Append(s, x)[Len(s) + 1] = x
  BY AppendProperties
<1>2. DOMAIN s = 1..Len(s) /\ Len(s) \in Nat /\ DOMAIN Append(s, x) = 1..(Len(s) + 1)
  BY <1>1, LenProperties
<1>3. \A i \in 1..(Len(s) + 1) : i \in 1..Len(s) \/ i = Len(s) + 1
  BY <1>2
<1>4. \A i \in 1..Len(s) : i \in 1..(Len(s) + 1)
  BY <1>2
<1>5. Len(s) + 1 \in 1..(Len(s) + 1)
  BY <1>2
<1> QED
  BY <1>1, <1>2, <1>3, <1>4, <1>5 DEF Range

LEMMA ReverseRange ==
  ASSUME NEW S, NEW s \in Seq(S)
  PROVE  /\ Reverse(s) \in Seq(S) /\ Range(Reverse(s)) = Range(s)
         /\ s # <<>> => Reverse(s) # <<>>
<1>1. DOMAIN s = 1..Len(s) /\ Len(s) \in Nat /\ \A i \in 1..Len(s) : s[i] \in S
  BY LenProperties, ElementOfSeq
<1>2. \A i \in 1..Len(s) : Len(s) - i + 1 \in 1..Len(s) /\ Len(s) - (Len(s) - i + 1) + 1 = i
  BY <1>1
<1>3. Reverse(s) \in [1..Len(s) -> S]
  BY <1>1, <1>2 DEF Reverse
<1>4. Reverse(s) \in Seq(S)
  BY <1>1, <1>3, SeqDef
<1>5. \A i \in 1..Len(s) : Reverse(s)[i] = s[Len(s) - i + 1] /\ s[i] = Reverse(s)[Len(s) - i + 1]
  BY <1>2 DEF Reverse
<1>6. DOMAIN Reverse(s) = 1..Len(s)
  BY DEF Reverse
<1>7. Range(Reverse(s)) = Range(s)
  <2>1. ASSUME NEW x \in Range(s) PROVE x \in Range(Reverse(s))
    BY <2>1, <1>1, <1>2, <1>5, <1>6 DEF Range
  <2>2. ASSUME NEW x \in Range(Reverse(s)) PROVE x \in Range(s)
    BY <2>2, <1>1, <1>2, <1>5, <1>6 DEF Range
  <2> QED
    BY <2>1, <2>2
<1> QED
  BY <1>4, <1>7, SeqRange

\* An ordering of a finite set has the elements of the set, each of them once.
LEMMA SortedIs ==
  ASSUME NEW S, IsFiniteSet(S), NEW key, \A x \in S : key[x] \in Int, NEW s \in Sorted(S, key)
  PROVE  s \in Seq(S) /\ Range(s) = S /\ IsInjective(s)
<1>1. Cardinality(S) \in Nat
  BY FS_CardinalityType
<1>2. /\ s \in [1..Cardinality(S) -> S] /\ Range(s) = S
      /\ \A i, j \in DOMAIN s : i < j => key[s[i]] < key[s[j]]
  BY DEF Sorted
<1>3. s \in Seq(S)
  BY <1>1, <1>2, SeqDef
<1>4. ASSUME NEW i \in DOMAIN s, NEW j \in DOMAIN s, s[i] = s[j] PROVE i = j
  <2>1. i \in 1..Cardinality(S) /\ j \in 1..Cardinality(S) /\ key[s[i]] \in Int
    BY <1>2
  <2>2. ~(i < j) /\ ~(j < i)
    BY <2>1, <1>2, <1>4
  <2> QED
    BY <2>1, <2>2, <1>1
<1> QED
  BY <1>2, <1>3, <1>4 DEF IsInjective

-----------------------------------------------------------------------------
(* What a command sees. *)

\* The table is finite: no two rows share an id.
LEMMA FewRecords ==
  ASSUME TypeOK, rows \in Nat
  PROVE  IsFiniteSet(records)
<1> DEFINE f == [r \in records |-> r.id]
<1>1. f \in [records -> 1..rows]
  BY DEF TypeOK
<1>2. \A r, s \in records : f[r] = f[s] => r = s
  BY DEF TypeOK
<1>3. f \in Injection(records, 1..rows)
  BY <1>1, <1>2 DEF Injection, IsInjective
<1>4. IsFiniteSet(1..rows)
  BY FS_Interval
<1> QED
  BY <1>3, <1>4, FS_Injection

\* The channels of some rows, in the order of the rows.
LEMMA ChannelsAre ==
  ASSUME TypeOK, Stored, NEW rs \in SUBSET records, NEW s \in ChannelsOf(rs)
  PROVE  /\ s \in Seq(Nat) /\ Range(s) = {r.channel : r \in rs}
<1>1. IsFiniteSet(rs)
  BY FewRecords, FS_Subset DEF Stored
<1>2. PICK q \in InOrder(rs) : s = [i \in DOMAIN q |-> q[i].channel]
  BY DEF ChannelsOf
<1>3. \A r \in rs : [x \in rs |-> x.id][r] \in Int /\ r.channel \in Nat
  BY DEF TypeOK, Stored
<1>4. q \in Seq(rs) /\ Range(q) = rs
  BY <1>1, <1>2, <1>3, SortedIs DEF InOrder
<1>5. q \in [1..Len(q) -> rs] /\ Len(q) \in Nat
  BY <1>4, LenProperties
<1>6. s \in [1..Len(q) -> Nat]
  BY <1>2, <1>3, <1>5
<1>7. s \in Seq(Nat)
  BY <1>5, <1>6, SeqDef
<1>8. Range(s) = {r.channel : r \in Range(q)}
  BY <1>2, <1>5 DEF Range
<1> QED
  BY <1>4, <1>7, <1>8

\* The types that are missing, in the order of their definitions.
LEMMA TypesAre ==
  ASSUME UiAssumption, NEW T \in SUBSET Types, NEW s \in Sorted(T, Place)
  PROVE  s \in Seq(Types) /\ Range(s) = T /\ IsInjective(s)
<1>1. DOMAIN Required = 1..Len(Required) /\ Len(Required) \in Nat
  BY LenProperties DEF UiAssumption
<1>2. \A t \in Types : \E i \in DOMAIN Required : Required[i] = t
  BY DEF Types, Range
<1>3. \A t \in Types : Place[t] \in DOMAIN Required /\ Required[Place[t]] = t
  BY <1>2 DEF Place
<1>4. Place \in [Types -> 1..Len(Required)]
  BY <1>1, <1>3 DEF Place
<1>5. Place \in Injection(Types, 1..Len(Required))
  BY <1>3, <1>4 DEF Injection, IsInjective
<1>6. IsFiniteSet(Types)
  BY <1>1, <1>5, FS_Interval, FS_Injection
<1>7. IsFiniteSet(T)
  BY <1>6, FS_Subset
<1>8. s \in Seq(T) /\ Range(s) = T /\ IsInjective(s)
  BY <1>1, <1>4, <1>7, SortedIs
<1> QED
  BY <1>8, SeqMonotonic

\* The channels that block a setup, in the order of their ids.
LEMMA DoomedAre ==
  ASSUME TypeOK, Stored, NEW C \in SUBSET DOMAIN channels,
         NEW s \in Sorted(C, [c \in C |-> c])
  PROVE  s \in Seq(Nat) /\ Range(s) = C
<1>1. C \subseteq 1..made /\ IsFiniteSet(1..made)
  BY FS_Interval DEF TypeOK, Stored
<1>2. IsFiniteSet(C) /\ \A c \in C : [x \in C |-> x][c] \in Int /\ c \in Nat
  BY <1>1, FS_Subset DEF Stored
<1>3. s \in Seq(C) /\ Range(s) = C
  BY <1>2, SortedIs
<1> QED
  BY <1>2, <1>3, SeqMonotonic

-----------------------------------------------------------------------------
(* How the commands change. *)

\* The same command, whatever its history.
Same(p, q) ==
  /\ p.kind = q.kind /\ p.stage = q.stage /\ p.types = q.types /\ p.name = q.name
  /\ p.chan = q.chan /\ p.mine = q.mine /\ p.target = q.target /\ p.later = q.later
  /\ p.doomed = q.doomed /\ p.gone = q.gone
  /\ p.aborting = q.aborting /\ p.failed = q.failed

LEMMA NothingIs ==
  /\ Nothing \in Op /\ Nothing.stage = "over" /\ Nothing.kind = "none" /\ Nothing.chan = 0
  /\ ~Nothing.alone /\ Nothing.target = None /\ Nothing.types = <<>> /\ Nothing.mine = <<>>
  /\ Nothing.doomed = <<>> /\ Nothing.gone = {} /\ ~Nothing.failed /\ ~Nothing.aborting
  /\ Nothing.later = <<>>
BY EmptySeq DEF Nothing, Op, Stages

LEMMA CrowdedIs ==
  ASSUME NEW op \in Op
  PROVE  Crowded(op) \in Op /\ Same(Crowded(op), op) /\ ~Crowded(op).alone
BY DEF Crowded, Op, Same

\* What people or another command do to a command.
LEMMA DisturbedIs ==
  ASSUME Stored
  PROVE  /\ Disturbed \in [Admins -> Op]
         /\ \A b \in Admins : /\ ~Disturbed[b].alone
                              /\ \/ Disturbed[b] = Nothing
                                 \/ ~Free(b) /\ Same(Disturbed[b], command[b])
         /\ \A b \in Admins : Free(b) => Disturbed[b] = Nothing
         /\ \A b \in Admins : Disturbed[b].stage = "over" => Disturbed[b] = Nothing
<1> SUFFICES ASSUME NEW b \in Admins
             PROVE  /\ Disturbed[b] \in Op /\ ~Disturbed[b].alone
                    /\ \/ Disturbed[b] = Nothing
                       \/ ~Free(b) /\ Same(Disturbed[b], command[b])
                    /\ Free(b) => Disturbed[b] = Nothing
                    /\ Disturbed[b].stage = "over" => Disturbed[b] = Nothing
  BY DEF Disturbed
<1>1. command[b] \in Op
  BY DEF Stored
<1> DEFINE op == Crowded(command[b])
<1>2. op \in Op /\ Same(op, command[b]) /\ ~op.alone
  BY <1>1, CrowdedIs
<1>3. Disturbed[b] = IF op.stage = "over" THEN Nothing ELSE op
  BY <1>2 DEF Disturbed, Kept
<1>4. op.stage = command[b].stage
  BY <1>2 DEF Same
<1> HIDE DEF op
<1> QED
  BY <1>2, <1>3, <1>4, NothingIs DEF Free

\* A command that begins is alone if no other runs.
LEMMA BeginIs ==
  ASSUME Stored, Quiet, NEW a \in Admins, NEW op \in Op, op.stage # "over", Free(a), Begin(a, op)
  PROVE  /\ command' \in [Admins -> Op] /\ Quiet'
         /\ Same(command'[a], op)
         /\ command'[a].alone =>
              /\ command'[a].asked = op.asked
              /\ command'[a].used = {t \in op.asked : Usable(t)}
         /\ \A b \in Admins \ {a} :
              /\ ~command'[b].alone
              /\ command'[b] = Nothing \/ Same(command'[b], command[b])
<1>1. \E m \in Op :
        /\ command' = [Disturbed EXCEPT ![a] = m]
        /\ Same(m, op) /\ m.stage # "over"
        /\ m.alone => /\ Running = {} /\ m.asked = op.asked
                      /\ m.used = {t \in op.asked : Usable(t)}
  <2>1. CASE Running = {}
    <3> DEFINE used == {t \in op.asked : Usable(t)}
               m == [op EXCEPT !.alone = TRUE, !.used = used]
    <3>1. used \in SUBSET Types
      BY DEF Op
    <3>2. command' = [Disturbed EXCEPT ![a] = m]
      BY <2>1 DEF Begin
    <3> HIDE DEF used
    <3>3. m \in Op /\ Same(m, op) /\ m.asked = op.asked /\ m.used = used /\ m.stage # "over"
      BY <3>1 DEF Op, Same
    <3> HIDE DEF m
    <3> QED
      BY <2>1, <3>2, <3>3 DEF used
  <2>2. CASE Running # {}
    <3>1. command' = [Disturbed EXCEPT ![a] = Crowded(op)]
      BY <2>2 DEF Begin
    <3>2. Crowded(op) \in Op /\ Same(Crowded(op), op) /\ ~Crowded(op).alone
          /\ Crowded(op).stage # "over"
      BY CrowdedIs DEF Same
    <3> QED
      BY <3>1, <3>2
  <2> QED
    BY <2>1, <2>2
<1>2. PICK m \in Op :
        /\ command' = [Disturbed EXCEPT ![a] = m]
        /\ Same(m, op) /\ m.stage # "over"
        /\ m.alone => /\ Running = {} /\ m.asked = op.asked
                      /\ m.used = {t \in op.asked : Usable(t)}
  BY <1>1
<1>3. /\ Disturbed \in [Admins -> Op]
      /\ \A b \in Admins : Free(b) => Disturbed[b] = Nothing
      /\ \A b \in Admins : Disturbed[b].stage = "over" => Disturbed[b] = Nothing
      /\ \A b \in Admins : ~Disturbed[b].alone
      /\ \A b \in Admins : Disturbed[b] = Nothing \/ Same(Disturbed[b], command[b])
  BY DisturbedIs
<1>4. /\ command' \in [Admins -> Op] /\ command'[a] = m
      /\ \A b \in Admins \ {a} : command'[b] = Disturbed[b]
  BY <1>2, <1>3
<1>5. \A b \in Admins \ {a} :
        /\ ~command'[b].alone
        /\ command'[b] = Nothing \/ Same(command'[b], command[b])
  BY <1>3, <1>4
<1>6. m.alone => \A b \in Admins \ {a} : command'[b] = Nothing
  BY <1>2, <1>3, <1>4 DEF Running
<1>7. Quiet'
  BY <1>2, <1>3, <1>4, <1>5, <1>6 DEF Quiet, Free
<1> QED
  BY <1>2, <1>4, <1>5, <1>7

\* A command that goes on leaves the others as they are.
LEMMA OnIs ==
  ASSUME Stored, Quiet, NEW a \in Admins, ~Free(a), NEW op \in Op,
         op.alone => command[a].alone, On(a, op)
  PROVE  /\ command' \in [Admins -> Op] /\ Quiet'
         /\ command'[a] = op \/ (command'[a] = Nothing /\ op.stage = "over" /\ ~op.alone)
         /\ op.alone => command'[a] = op
         /\ \A b \in Admins \ {a} : command'[b] = command[b] /\ ~command[b].alone
<1>1. Kept(op) \in Op /\ (Kept(op) = op \/ (Kept(op) = Nothing /\ op.stage = "over" /\ ~op.alone))
      /\ (op.alone => Kept(op) = op)
      /\ (Kept(op).alone => op.alone)
      /\ (Kept(op).stage = "over" /\ ~Kept(op).alone => Kept(op) = Nothing)
  BY NothingIs DEF Kept
<1>2. /\ command' \in [Admins -> Op] /\ command'[a] = Kept(op)
      /\ \A b \in Admins \ {a} : command'[b] = command[b]
  BY <1>1 DEF On, Stored
<1>3. \A b \in Admins \ {a} : ~command[b].alone
  BY NothingIs DEF Quiet, Free
<1>4. Quiet'
  BY <1>1, <1>2, <1>3 DEF Quiet, Free
<1> QED
  BY <1>1, <1>2, <1>3, <1>4

-----------------------------------------------------------------------------
(* What a step leaves of the invariant, as long as it changes little. *)

\* No channel that was made before comes back or loses its messages.
ServerKept ==
  /\ made' \in Nat /\ made <= made'
  /\ \A c \in 1..made : c \in DOMAIN channels' =>
       c \in DOMAIN channels /\ (channels[c].posted => channels'[c].posted)

LEMMA FitsKept ==
  ASSUME Stored, ServerKept, NEW b \in Admins, Fits(command[b]),
         command'[b] = Nothing \/ Same(command'[b], command[b])
  PROVE  Fits(command[b])'
<1>1. CASE command'[b] = Nothing
  BY <1>1, NothingIs DEF Fits, Provisioning, ServerKept, Stored
<1>2. CASE Same(command'[b], command[b])
  <2>1. command[b] \in Op /\ command[b].chan \in Nat /\ command[b].chan <= made /\ made \in Nat
    BY DEF Stored, Op, Fits
  <2>2. ASSUME NEW c \in 1..made, Posted(c) PROVE Exists(c)' => channels'[c].posted
    BY <2>2 DEF ServerKept, Posted, Exists
  <2>3. command[b].chan # 0 => command[b].chan \in 1..made
    BY <2>1
  <2>4. made <= made' /\ made' \in Nat
    BY DEF ServerKept
  <2>5. command'[b].chan <= made'
    BY <1>2, <2>1, <2>4 DEF Same
  <2>6. command'[b].stage \in {"record", "swap", "retire"} => Posted(command[b].chan)'
    BY <1>2, <2>2, <2>3 DEF Same, Fits, Posted, Exists
  <2>7. command'[b].kind = "resetup" =>
          /\ command'[b].target \in Row /\ command'[b].target.channel \in 1..made'
          /\ Range(command'[b].later) \subseteq 1..made'
          /\ command'[b].chan # command'[b].target.channel
          /\ command'[b].chan \notin Range(command'[b].later)
          /\ Exists(command[b].target.channel)' => channels'[command[b].target.channel].posted
    BY <1>2, <2>1, <2>2, <2>4 DEF Same, Fits
  <2> QED
    BY <1>2, <2>5, <2>6, <2>7 DEF Same, Fits, Posted, Exists
<1> QED
  BY <1>1, <1>2

\* A command takes no further channel and names no further record.
SameClaims(b) ==
  \/ command'[b] = Nothing
  \/ /\ command'[b].kind = command[b].kind /\ command'[b].chan = command[b].chan
     /\ command'[b].target = command[b].target
     /\ command'[b].stage \in {"post", "record"} => command[b].stage \in {"post", "record"}

LEMMA ApartKept ==
  ASSUME Stored, TypeOK, Apart, \A a \in Admins : Fits(command[a]),
         \A r \in records' : RowApart(r) /\ r.channel # 0, \A b \in Admins : SameClaims(b)
  PROVE  Apart'
<1>1. ASSUME NEW b \in Admins
      PROVE  /\ command'[b].chan \in {0, command[b].chan}
             /\ command'[b].chan # 0 => command'[b] # Nothing
             /\ command'[b].kind = "resetup" =>
                  command'[b].target = command[b].target /\ command[b].kind = "resetup"
  BY NothingIs DEF SameClaims
<1>2. ASSUME NEW b \in Admins, NEW c, NEW id, c # 0, c = command'[b].chan, Claims(b, c, id)
      PROVE  Claims(b, c, id)'
  BY <1>2, NothingIs DEF SameClaims, Claims
<1>4. \A a, b \in Admins : a # b /\ command'[a].chan = command'[b].chan => command'[a].chan = 0
  BY <1>1 DEF Apart
<1>5. \A r \in records' : RowApart(r)'
  <2> SUFFICES ASSUME NEW r \in records', NEW b \in Admins
               PROVE  /\ r.channel = command'[b].chan => Claims(b, r.channel, r.id)'
                      /\ command'[b].kind = "resetup" /\ r.channel = command'[b].target.channel =>
                           r.id = command'[b].target.id
    BY DEF RowApart
  <2>1. RowApart(r) /\ r.channel # 0
    OBVIOUS
  <2>2. ASSUME r.channel = command'[b].chan PROVE Claims(b, r.channel, r.id)'
    BY <1>1, <1>2, <2>1, <2>2 DEF RowApart
  <2> QED
    BY <1>1, <2>1, <2>2 DEF RowApart
<1>7. ASSUME NEW a \in Admins, NEW b \in Admins, command'[a].kind = "resetup"
      PROVE  /\ command'[a].target.channel = command'[b].chan =>
                  Claims(b, command[b].chan, command[a].target.id)'
             /\ command'[b].kind = "resetup" /\ command'[a].target.channel = command'[b].target.channel =>
                  command'[a].target.id = command'[b].target.id
  <2>1. command[a].kind = "resetup" /\ command'[a].target = command[a].target
        /\ command[a].target.channel # 0
    BY <1>1, <1>7 DEF Fits
  <2>2. ASSUME command'[a].target.channel = command'[b].chan
        PROVE  Claims(b, command[b].chan, command[a].target.id)'
    <3>1. command'[b].chan = command[b].chan /\ command'[b].chan # 0
      BY <1>1, <2>1, <2>2
    <3>2. Claims(b, command[b].chan, command[a].target.id)
      BY <2>1, <2>2, <3>1 DEF Apart
    <3>3. command'[b] # Nothing
      BY <1>1, <3>1
    <3> QED
      BY <2>1, <3>1, <3>2, <3>3 DEF Claims, SameClaims
  <2>3. command'[b].kind = "resetup" /\ command'[a].target.channel = command'[b].target.channel =>
          command'[a].target.id = command'[b].target.id
    BY <1>1, <2>1 DEF Apart
  <2> QED
    BY <2>2, <2>3
<1> QED
  BY <1>4, <1>5, <1>7 DEF Apart

\* A step of one command keeps what does not depend on who runs alone, when what
\* it has in hand fits.
LEMMA GoesOn ==
  ASSUME Base, ServerKept, NEW a \in Admins, ~Free(a), NEW op \in Op,
         op.alone => command[a].alone, On(a, op), Fits(op)',
         TypeOK', rows' \in Nat, Apart'
  PROVE  Base'
<1>1. /\ command' \in [Admins -> Op] /\ Quiet'
      /\ command'[a] = op \/ command'[a] = Nothing
      /\ \A b \in Admins \ {a} : command'[b] = command[b]
  BY OnIs DEF Base
<1>2. ASSUME NEW b \in Admins, b # a PROVE Fits(command[b])'
  <2>1. Same(command'[b], command[b])
    BY <1>1, <1>2 DEF Same
  <2> QED
    BY <2>1, FitsKept DEF Base
<1>3. Fits(command[a])'
  <2>1. CASE command'[a] = op
    BY <2>1 DEF Fits, Posted, Exists
  <2>2. CASE command'[a] = Nothing
    BY <2>2, FitsKept DEF Base
  <2> QED
    BY <1>1, <2>1, <2>2
<1> QED
  BY <1>1, <1>2, <1>3 DEF Base, Stored, ServerKept

\* What undoing a command makes of it.
LEMMA UndoIs ==
  ASSUME NEW op \in Op, NEW cs \in Seq(Nat)
  PROVE  LET p == Undo(op, cs) IN
         /\ p \in Op /\ p.kind = op.kind /\ p.types = op.types /\ p.name = op.name
         /\ p.chan = op.chan /\ p.mine = op.mine /\ p.target = op.target /\ p.later = op.later
         /\ p.gone = op.gone /\ p.aborting /\ p.failed = op.failed /\ p.alone = op.alone
         /\ p.asked = op.asked /\ p.used = op.used
         /\ cs = <<>> => p.stage = "over" /\ p.doomed = op.doomed
         /\ cs # <<>> => p.stage = "delete" /\ p.doomed # <<>> /\ Range(p.doomed) = Range(cs)
<1>1. CASE cs = <<>>
  BY <1>1 DEF Undo, Aborted, Op, Stages
<1>2. CASE cs # <<>>
  <2>1. Reverse(cs) \in Seq(Nat) /\ Range(Reverse(cs)) = Range(cs) /\ Reverse(cs) # <<>>
    BY <1>2, ReverseRange
  <2>2. Undo(op, cs) = [op EXCEPT !.stage = "delete", !.aborting = TRUE, !.doomed = Reverse(cs)]
    BY <1>2 DEF Undo
  <2> QED
    BY <1>2, <2>1, <2>2 DEF Op, Stages
<1> QED
  BY <1>1, <1>2

\* What was created without and with the channel at hand.
LEMMA MadeIs ==
  ASSUME NEW op \in Op
  PROVE  /\ op.mine \in Seq(Nat)
         /\ Append(op.mine, op.chan) \in Seq(Nat) /\ Append(op.mine, op.chan) # <<>>
         /\ Range(Append(op.mine, op.chan)) = Range(op.mine) \cup {op.chan}
<1>1. op.mine \in Seq(Nat) /\ op.chan \in Nat
  BY DEF Op
<1> QED
  BY <1>1, AppendRange

\* Channels and rows may go, the others are as they were.
OnlyLess ==
  /\ DOMAIN channels' \subseteq DOMAIN channels /\ records' \subseteq records
  /\ \A c \in DOMAIN channels' : channels'[c] = channels[c]

LEMMA LessOf ==
  ASSUME \/ UNCHANGED channels
         \/ \E c : channels' = Restrict(channels, DOMAIN channels \ {c}),
         records' \subseteq records
  PROVE  OnlyLess
BY DEF OnlyLess, Restrict

\* A step that keeps the claims of its command, and adds nothing.
LEMMA OnlyOn ==
  ASSUME Base, NEW a \in Admins, ~Free(a), NEW op \in Op, op.alone => command[a].alone, On(a, op),
         OnlyLess, UNCHANGED <<made, rows>>, categories' \in Nat,
         op.kind = command[a].kind, op.chan = command[a].chan, op.target = command[a].target,
         op.later = command[a].later, op.name = command[a].name,
         op.kind \in {"setup", "custom"} /\ op.stage = "create" => op.types # <<>>,
         op.stage = "delete" => op.doomed # <<>>,
         \/ op.stage = "over"
         \/ op.stage \in {"delete", "forget"} /\ op.kind \in All
         \/ op.stage = "create" /\ op.kind \in Provisioning
         \/ op.stage \in {"restore", "drop"} /\ op.kind = "resetup" /\ op.chan # 0
  PROVE  Base'
<1>1. TypeOK'
  <2>1. DOMAIN command' = Admins
    BY OnIs DEF Base
  <2> QED
    BY <2>1 DEF Base, TypeOK, Exists, OnlyLess
<1>2. ServerKept
  BY DEF ServerKept, Base, Stored, TypeOK, OnlyLess
<1>3. \A b \in Admins : SameClaims(b)
  BY OnIs DEF Base, SameClaims
<1>4. Apart'
  <2>1. \A r \in records' : RowApart(r) /\ r.channel # 0
    BY DEF Base, Apart, OnlyLess, TypeOK
  <2> QED
    BY <1>3, <2>1, ApartKept DEF Base
<1>5. Fits(op)'
  <2>1. Fits(command[a])
    BY DEF Base
  <2> QED
    BY <2>1 DEF Fits, Posted, Exists, Provisioning, All, OnlyLess
<1> QED
  BY <1>1, <1>2, <1>4, <1>5, GoesOn DEF Base, Stored

\* A command that undoes what it has done.
LEMMA UndoFits ==
  ASSUME Base, NEW a \in Admins, ~Free(a), NEW cs \in Seq(Nat), On(a, Undo(command[a], cs)),
         UNCHANGED <<channels, records, made, rows>>, categories' \in Nat
  PROVE  Base'
<1>0. OnlyLess
  BY LessOf
<1>1. command[a] \in Op
  BY DEF Base, Stored
<1>2. PICK op \in Op : op = Undo(command[a], cs)
  BY <1>1, UndoIs
<1>3. /\ op.kind = command[a].kind /\ op.chan = command[a].chan /\ op.target = command[a].target
      /\ op.later = command[a].later /\ op.name = command[a].name /\ op.alone = command[a].alone
      /\ op.stage \in {"over", "delete"} /\ (op.stage = "delete" => op.doomed # <<>>)
  BY <1>1, <1>2, UndoIs
<1>4. command[a].kind \in All
  <2>1. command[a].kind \in All \cup {"none"}
    BY <1>1 DEF Op
  <2>2. Fits(command[a]) /\ command[a].stage \in Stages \ {"over"}
    BY <1>1 DEF Base, Op, Free
  <2> QED
    BY <2>1, <2>2 DEF Fits, Stages, Provisioning, All
<1> QED
  BY <1>0, <1>2, <1>3, <1>4, OnlyOn

-----------------------------------------------------------------------------
(* Every step of a command keeps what does not depend on who runs alone. *)

\* A command at another stage.
LEMMA StageIs ==
  ASSUME NEW p \in Op, NEW st \in Stages
  PROVE  LET op == [p EXCEPT !.stage = st] IN
         /\ op \in Op /\ op.stage = st /\ op.kind = p.kind /\ op.types = p.types
         /\ op.name = p.name /\ op.chan = p.chan /\ op.mine = p.mine /\ op.target = p.target
         /\ op.later = p.later /\ op.doomed = p.doomed /\ op.gone = p.gone
         /\ op.aborting = p.aborting /\ op.failed = p.failed /\ op.alone = p.alone
         /\ op.asked = p.asked /\ op.used = p.used
BY DEF Op

\* What is known of a command that runs.
LEMMA RunsIs ==
  ASSUME Base, NEW a \in Admins, ~Free(a)
  PROVE  command[a] \in Op /\ Fits(command[a]) /\ command[a].kind \in All
<1>1. command[a] \in Op /\ Fits(command[a]) /\ command[a].stage # "over"
  BY DEF Base, Stored, Free
<1>2. command[a].stage \in Stages /\ command[a].kind \in All \cup {"none"}
  BY <1>1 DEF Op
<1> QED
  BY <1>1, <1>2 DEF Fits, Stages, Provisioning, All

LEMMA UndoMadeBase ==
  ASSUME Base, NEW a \in Admins, ~Free(a), UndoMade(a),
         UNCHANGED <<channels, records, made, rows>>, categories' \in Nat
  PROVE  Base'
BY RunsIs, MadeIs, UndoFits DEF UndoMade

LEMMA UndoWithNewBase ==
  ASSUME Base, NEW a \in Admins, ~Free(a), UndoWithNew(a),
         UNCHANGED <<channels, records, made, rows, categories>>
  PROVE  Base'
BY RunsIs, MadeIs, UndoFits DEF UndoWithNew, Base, TypeOK

LEMMA CreateCategoryBase ==
  ASSUME Base, NEW a \in Admins, CreateCategory(a)
  PROVE  Base'
<1>1. ~Free(a) /\ command[a].stage = "category" /\ command[a].kind \in Provisioning
  BY DEF CreateCategory, At, Free
<1>2. CASE categories' = categories + 1 /\ GoesTo(a, "create") /\ UNCHANGED <<channels, records, made, rows>>
  <2>1. PICK op \in Op : op = [command[a] EXCEPT !.stage = "create"]
    BY <1>1, RunsIs, StageIs DEF Stages
  <2>2. /\ op.stage = "create" /\ op.kind = command[a].kind /\ op.chan = command[a].chan
        /\ op.target = command[a].target /\ op.later = command[a].later
        /\ op.name = command[a].name /\ op.alone = command[a].alone /\ op.types = command[a].types
    BY <1>1, <2>1, RunsIs, StageIs DEF Stages
  <2>3. On(a, op) /\ categories' \in Nat /\ OnlyLess
    BY <1>2, <2>1, LessOf DEF GoesTo, Base, TypeOK
  <2>4. op.kind \in {"setup", "custom"} => op.types # <<>>
    BY <1>1, <2>2, RunsIs DEF Fits
  <2> QED
    BY <1>1, <1>2, <2>2, <2>3, <2>4, OnlyOn
<1>3. CASE /\ UndoMade(a) /\ UNCHANGED <<channels, records, made, rows>>
           /\ categories' \in {categories, categories + 1}
  <2>1. categories' \in Nat
    BY <1>3 DEF Base, TypeOK
  <2> QED
    BY <1>1, <1>3, <2>1, UndoMadeBase
<1> QED
  BY <1>2, <1>3 DEF CreateCategory

\* What a new channel is to the server, and how far the ids in hand go.
LEMMA NewChannel ==
  ASSUME Base, NEW n \in Names, made' = made + 1,
         channels' = With(channels, made + 1, [name |-> n, posted |-> FALSE])
  PROVE  /\ DOMAIN channels' = DOMAIN channels \cup {made + 1}
         /\ \A c \in DOMAIN channels : c # made + 1 => channels'[c] = channels[c]
         /\ DOMAIN channels \subseteq 1..made /\ \A c \in 1..made : c # made + 1
         /\ 1..made' = 1..made \cup {made + 1} /\ made' \in Nat /\ made <= made'
         /\ \A c \in DOMAIN channels' : channels'[c] \in [name : Names, posted : BOOLEAN]
<1>1. [name |-> n, posted |-> FALSE] \in [name : Names, posted : BOOLEAN]
  OBVIOUS
<1>2. /\ DOMAIN channels' = DOMAIN channels \cup {made + 1}
      /\ \A c \in DOMAIN channels : c # made + 1 => channels'[c] = channels[c]
      /\ channels'[made + 1] \in [name : Names, posted : BOOLEAN]
  BY <1>1 DEF With
<1>3. /\ DOMAIN channels \subseteq 1..made /\ \A c \in 1..made : c # made + 1
      /\ 1..made' = 1..made \cup {made + 1} /\ made' \in Nat /\ made <= made'
  BY DEF Base, Stored, TypeOK
<1>4. \A c \in DOMAIN channels : channels[c] \in [name : Names, posted : BOOLEAN]
  BY DEF Base, TypeOK
<1> QED
  BY <1>2, <1>3, <1>4

\* A channel that was created and of which the command does not know.
LEMMA StrayBase ==
  ASSUME Base, NEW a \in Admins, ~Free(a), NEW op \in Op, op.alone => command[a].alone, On(a, op),
         NEW n \in Names, made' = made + 1,
         channels' = With(channels, made + 1, [name |-> n, posted |-> FALSE]),
         UNCHANGED <<categories, records, rows>>,
         op.kind = command[a].kind, op.chan = command[a].chan, op.target = command[a].target,
         op.later = command[a].later, op.name = command[a].name, op.kind \in All,
         op.stage \in {"over", "delete"}, op.stage = "delete" => op.doomed # <<>>
  PROVE  Base'
<1>1. /\ DOMAIN channels' = DOMAIN channels \cup {made + 1}
      /\ \A c \in DOMAIN channels : c # made + 1 => channels'[c] = channels[c]
      /\ DOMAIN channels \subseteq 1..made /\ \A c \in 1..made : c # made + 1
      /\ 1..made' = 1..made \cup {made + 1} /\ made' \in Nat /\ made <= made'
      /\ \A c \in DOMAIN channels' : channels'[c] \in [name : Names, posted : BOOLEAN]
  BY NewChannel
<1>2. ServerKept
  BY <1>1 DEF ServerKept
<1>3. TypeOK'
  <2>1. DOMAIN channels' \subseteq 1..made' /\ DOMAIN command' = Admins
    BY <1>1, OnIs DEF Base
  <2>2. records' \subseteq [id : 1..rows', type : Types, channel : 1..made']
    BY <1>1 DEF Base, TypeOK
  <2>3. \A r \in records' : Exists(r.channel)' => channels'[r.channel].posted
    BY <1>1 DEF Base, TypeOK, Exists
  <2> QED
    BY <1>1, <2>1, <2>2, <2>3 DEF Base, TypeOK
<1>4. \A b \in Admins : SameClaims(b)
  BY OnIs DEF Base, SameClaims
<1>5. Apart'
  <2>1. \A r \in records' : RowApart(r) /\ r.channel # 0
    BY DEF Base, Apart, TypeOK
  <2> QED
    BY <1>4, <2>1, ApartKept DEF Base
<1>6. Fits(op)'
  <2>1. Fits(command[a]) /\ op.chan \in Nat /\ made \in Nat
    BY DEF Base, Stored, Op
  <2>2. op.chan <= made'
    BY <2>1 DEF Fits
  <2>3. op.kind = "resetup" =>
          /\ op.target \in Row /\ op.target.channel \in 1..made' /\ Range(op.later) \subseteq 1..made'
          /\ op.chan # op.target.channel /\ op.chan \notin Range(op.later)
          /\ Posted(op.target.channel)'
    BY <1>1, <2>1 DEF Fits, Posted, Exists
  <2>4. op.kind \in {"custom", "resetup"} => op.name \in Names
    BY <2>1 DEF Fits
  <2> QED
    BY <2>2, <2>3, <2>4 DEF Fits
<1> QED
  BY <1>2, <1>3, <1>5, <1>6, GoesOn DEF Base, Stored

LEMMA CreateTextChannelBase ==
  ASSUME UiAssumption, Base, NEW a \in Admins, CreateTextChannel(a)
  PROVE  Base'
<1> DEFINE p == command[a]
           name == IF p.kind = "setup" THEN Head(p.types) ELSE p.name
<1>1. ~Free(a) /\ p.stage = "create" /\ p.kind \in Provisioning /\ p \in Op /\ Fits(p)
      /\ made \in Nat
  BY RunsIs DEF CreateTextChannel, At, Free, Base, Stored
<1>4. name \in Names
  <2>1. CASE p.kind = "setup"
    <3>1. p.types \in Seq(Types) /\ p.types # <<>>
      BY <1>1, <2>1 DEF Op, Fits
    <3> QED
      BY <2>1, <3>1, HeadTailProperties DEF Names
  <2>2. CASE p.kind # "setup"
    BY <1>1, <2>2 DEF Fits, Provisioning
  <2> QED
    BY <2>1, <2>2
<1>2. CASE /\ channels' = With(channels, made + 1, [name |-> name, posted |-> FALSE])
           /\ made' = made + 1 /\ On(a, [p EXCEPT !.stage = "post", !.chan = made + 1])
           /\ UNCHANGED <<categories, records, rows>>
  <2>2. PICK op \in Op : op = [p EXCEPT !.stage = "post", !.chan = made + 1]
    <3>1. made + 1 \in Nat /\ "post" \in Stages
      BY <1>1 DEF Stages
    <3> QED
      BY <1>1, <3>1 DEF Op
  <2>3. /\ op.stage = "post" /\ op.chan = made + 1 /\ op.kind = p.kind /\ op.types = p.types
        /\ op.name = p.name /\ op.target = p.target /\ op.later = p.later /\ op.alone = p.alone
    BY <1>1, <2>2 DEF Op
  <2>4. On(a, op)
    BY <1>2, <2>2
  <2>5. /\ DOMAIN channels' = DOMAIN channels \cup {made + 1}
        /\ \A c \in DOMAIN channels : c # made + 1 => channels'[c] = channels[c]
        /\ channels'[made + 1] = [name |-> name, posted |-> FALSE]
    BY <1>2 DEF With
  <2>6. /\ DOMAIN channels \subseteq 1..made /\ \A c \in 1..made : c # made + 1
        /\ 1..made' = 1..made \cup {made + 1} /\ made' \in Nat /\ made <= made'
    BY <1>1, <1>2 DEF Base, TypeOK
  <2>7. ServerKept
    BY <2>5, <2>6 DEF ServerKept
  <2>8. /\ command' \in [Admins -> Op] /\ command'[a] = op
        /\ \A b \in Admins \ {a} : command'[b] = command[b]
    BY <1>1, <2>3, <2>4, OnIs DEF Base
  <2>9. TypeOK'
    <3>0. [name |-> name, posted |-> FALSE] \in [name : Names, posted : BOOLEAN]
      BY <1>4
    <3> HIDE DEF name
    <3>1. \A c \in DOMAIN channels' : channels'[c] \in [name : Names, posted : BOOLEAN]
      BY <2>5, <2>6, <3>0 DEF Base, TypeOK
    <3>3. records' \subseteq [id : 1..rows', type : Types, channel : 1..made']
      BY <1>2, <2>6 DEF Base, TypeOK
    <3>4. DOMAIN channels' \subseteq 1..made' /\ DOMAIN command' = Admins
      BY <2>5, <2>6, <2>8
    <3>2. \A r \in records' : Exists(r.channel)' => channels'[r.channel].posted
      BY <1>2, <2>5, <2>6 DEF Base, TypeOK, Exists
    <3> QED
      BY <1>2, <3>1, <3>2, <3>3, <3>4 DEF Base, TypeOK
  <2>10. \A b \in Admins : /\ command[b].chan \in 0..made
                           /\ command[b].kind = "resetup" => command[b].target.channel \in 1..made
    <3> SUFFICES ASSUME NEW b \in Admins
                 PROVE  /\ command[b].chan \in 0..made
                        /\ command[b].kind = "resetup" => command[b].target.channel \in 1..made
      OBVIOUS
    <3>1. command[b] \in Op /\ Fits(command[b])
      BY DEF Base, Stored
    <3>2. command[b].chan \in Nat
      BY <3>1 DEF Op
    <3> QED
      BY <1>1, <3>1, <3>2 DEF Fits
  <2>11. \A b \in Admins : /\ command'[b].kind = command[b].kind
                           /\ command'[b].target = command[b].target
                           /\ b # a => command'[b].chan = command[b].chan
                           /\ command'[b].chan = IF b = a THEN made + 1 ELSE command[b].chan
    BY <2>3, <2>8
  <2>12. Apart'
    <3>1. \A b, d \in Admins : b # d /\ command'[b].chan = command'[d].chan => command'[b].chan = 0
      BY <1>1, <2>10, <2>11 DEF Base, Apart
    <3>2. \A r \in records' : RowApart(r)'
      <4> SUFFICES ASSUME NEW r \in records, NEW b \in Admins
                   PROVE  /\ r.channel = command'[b].chan => Claims(b, r.channel, r.id)'
                          /\ command'[b].kind = "resetup" /\ r.channel = command'[b].target.channel =>
                               r.id = command'[b].target.id
        BY <1>2 DEF RowApart
      <4>1. RowApart(r) /\ r.channel \in 1..made
        BY DEF Base, Apart, TypeOK
      <4>2. r.channel = command'[b].chan => b # a
        BY <1>1, <2>11, <4>1
      <4> QED
        BY <2>8, <2>11, <4>1, <4>2 DEF RowApart, Claims
    <3>3. ASSUME NEW b \in Admins, NEW d \in Admins, command'[b].kind = "resetup"
          PROVE  /\ command'[b].target.channel = command'[d].chan =>
                      Claims(d, command[d].chan, command[b].target.id)'
                 /\ command'[d].kind = "resetup" /\ command'[b].target.channel = command'[d].target.channel =>
                      command'[b].target.id = command'[d].target.id
      <4>1. command[b].kind = "resetup" /\ command[b].target.channel \in 1..made
        BY <2>10, <2>11, <3>3
      <4>2. command'[b].target.channel = command'[d].chan => d # a
        BY <1>1, <2>11, <4>1
      <4> QED
        BY <2>8, <2>11, <4>1, <4>2 DEF Base, Apart, Claims
    <3> QED
      BY <3>1, <3>2, <3>3 DEF Apart
  <2>13. Fits(op)'
    <3>1. op.kind = "resetup" =>
            /\ op.target \in Row /\ op.target.channel \in 1..made
            /\ Range(op.later) \subseteq 1..made /\ Posted(op.target.channel)
      BY <1>1, <2>3 DEF Fits
    <3>2. op.kind = "resetup" =>
            /\ op.target.channel \in 1..made' /\ Range(op.later) \subseteq 1..made'
            /\ op.chan # op.target.channel /\ op.chan \notin Range(op.later)
      BY <2>3, <2>6, <3>1
    <3>3. op.kind = "resetup" => Posted(op.target.channel)'
      BY <2>5, <2>6, <3>1 DEF Posted, Exists
    <3>4. op.chan <= made' /\ op.chan # 0
      BY <1>1, <1>2, <2>3
    <3> QED
      BY <1>1, <2>3, <3>1, <3>2, <3>3, <3>4 DEF Fits, Provisioning
  <2> QED
    BY <1>1, <1>2, <2>3, <2>4, <2>7, <2>9, <2>12, <2>13, GoesOn DEF Base, Stored
<1>3. CASE UndoMade(a) /\ UNCHANGED <<channels, records, made, rows, categories>>
  BY <1>1, <1>3, UndoMadeBase DEF Base, TypeOK
<1>5. CASE /\ channels' = With(channels, made + 1, [name |-> name, posted |-> FALSE])
           /\ made' = made + 1 /\ UNCHANGED <<categories, records, rows>>
           /\ On(a, Undo(p, p.mine)) \/ On(a, Crowded(Undo(p, p.mine)))
  <2>1. PICK undone \in Op : undone = Undo(p, p.mine)
    BY <1>1, MadeIs, UndoIs
  <2>2. PICK op \in Op : op \in {undone, Crowded(undone)} /\ On(a, op)
    BY <1>5, <2>1, CrowdedIs
  <2>3. Same(op, undone) /\ (op.alone => undone.alone)
    BY <2>1, <2>2, CrowdedIs DEF Same
  <2>4. /\ undone.kind = p.kind /\ undone.chan = p.chan /\ undone.target = p.target
        /\ undone.later = p.later /\ undone.name = p.name /\ undone.alone = p.alone
        /\ undone.stage \in {"over", "delete"} /\ (undone.stage = "delete" => undone.doomed # <<>>)
    BY <1>1, <2>1, MadeIs, UndoIs
  <2>5. p.kind \in All
    BY <1>1 DEF Provisioning, All
  <2> HIDE DEF name
  <2> QED
    BY <1>1, <1>4, <1>5, <2>2, <2>3, <2>4, <2>5, StrayBase DEF Same
<1> QED
  BY <1>2, <1>3, <1>5 DEF CreateTextChannel

LEMMA SendInitialMessageBase ==
  ASSUME Base, NEW a \in Admins, SendInitialMessage(a)
  PROVE  Base'
<1> DEFINE p == command[a]
           next == IF p.kind = "resetup" THEN "swap" ELSE "record"
<1>1. ~Free(a) /\ p.stage = "post" /\ p.kind \in Provisioning /\ p \in Op /\ Fits(p)
      /\ made \in Nat
  BY RunsIs DEF SendInitialMessage, At, Free, Base, Stored
<1>2. CASE /\ Exists(p.chan) /\ channels' = [channels EXCEPT ![p.chan].posted = TRUE]
           /\ GoesTo(a, next) /\ UNCHANGED <<categories, records, made, rows>>
  <2>1. PICK op \in Op : op = [p EXCEPT !.stage = next]
    BY <1>1, StageIs DEF Stages
  <2>2. /\ op.stage = next /\ op.chan = p.chan /\ op.kind = p.kind /\ op.types = p.types
        /\ op.name = p.name /\ op.target = p.target /\ op.later = p.later /\ op.alone = p.alone
    BY <1>1, <2>1, StageIs DEF Stages
  <2>3. On(a, op)
    BY <1>2, <2>1 DEF GoesTo
  <2>4. /\ DOMAIN channels' = DOMAIN channels
        /\ \A c \in DOMAIN channels : c # p.chan => channels'[c] = channels[c]
        /\ channels'[p.chan] = [channels[p.chan] EXCEPT !.posted = TRUE]
        /\ channels[p.chan] \in [name : Names, posted : BOOLEAN]
    BY <1>2 DEF Exists, Base, TypeOK
  <2>5. channels'[p.chan].posted /\ channels'[p.chan] \in [name : Names, posted : BOOLEAN]
    BY <2>4
  <2>6. ServerKept
    BY <1>1, <1>2, <2>4, <2>5 DEF ServerKept
  <2>7. TypeOK'
    <3>1. DOMAIN command' = Admins
      BY <1>1, <2>2, <2>3, OnIs DEF Base
    <3> QED
      BY <1>2, <2>4, <2>5, <3>1 DEF Base, TypeOK, Exists
  <2>8. \A b \in Admins : SameClaims(b)
    BY <1>1, <2>2, <2>3, OnIs DEF Base, SameClaims
  <2>9. Apart'
    <3>1. \A r \in records' : RowApart(r) /\ r.channel # 0
      BY <1>2 DEF Base, Apart, TypeOK
    <3> QED
      BY <2>8, <3>1, ApartKept DEF Base
  <2>10. op.kind = "resetup" => Posted(op.target.channel)'
    <3>1. op.kind = "resetup" => Posted(op.target.channel)
      BY <1>1, <2>2 DEF Fits
    <3> QED
      BY <2>4, <2>5, <3>1 DEF Posted, Exists
  <2>11. Fits(op)'
    BY <1>1, <1>2, <2>2, <2>5, <2>10 DEF Fits, Provisioning, Posted, Exists
  <2> QED
    BY <1>1, <1>2, <2>2, <2>3, <2>6, <2>7, <2>9, <2>11, GoesOn DEF Base, Stored
<1>3. CASE UndoWithNew(a) /\ UNCHANGED <<channels, records, made, rows, categories>>
  BY <1>1, <1>3, UndoWithNewBase
<1> QED
  BY <1>2, <1>3 DEF SendInitialMessage

LEMMA CreateRecordBase ==
  ASSUME Base, NEW a \in Admins, CreateRecord(a)
  PROVE  Base'
<1> DEFINE p == command[a]
           next == IF Len(p.types) = 1 THEN "over" ELSE "create"
<1>1. ~Free(a) /\ p.stage = "record" /\ p.kind \in {"setup", "custom"} /\ p \in Op /\ Fits(p)
      /\ made \in Nat /\ rows \in Nat
  BY RunsIs DEF CreateRecord, At, Free, Base, Stored
<1>2. /\ p.types \in Seq(Types) /\ p.types # <<>> /\ p.chan \in 1..made /\ p.mine \in Seq(Nat)
      /\ Posted(p.chan)
  BY <1>1 DEF Fits, Op
<1>3. /\ Head(p.types) \in Types /\ Tail(p.types) \in Seq(Types)
      /\ Len(p.types) = 1 <=> Tail(p.types) = <<>>
  BY <1>2, HeadAndTail
<1>4. CASE /\ records' = records \cup {[id |-> rows + 1, type |-> Head(p.types), channel |-> p.chan]}
           /\ rows' = rows + 1
           /\ On(a, [p EXCEPT !.stage = next, !.types = Tail(@), !.mine = Append(@, p.chan)])
           /\ UNCHANGED <<channels, categories, made>>
  <2>1. next \in Stages /\ Append(p.mine, p.chan) \in Seq(Nat)
    BY <1>1, MadeIs DEF Stages
  <2>2. PICK op \in Op :
          op = [p EXCEPT !.stage = next, !.types = Tail(@), !.mine = Append(@, p.chan)]
    BY <1>1, <1>3, <2>1 DEF Op
  <2>3. /\ op.stage = next /\ op.chan = p.chan /\ op.kind = p.kind /\ op.types = Tail(p.types)
        /\ op.name = p.name /\ op.target = p.target /\ op.later = p.later /\ op.alone = p.alone
    BY <1>1, <2>2 DEF Op
  <2>4. On(a, op)
    BY <1>4, <2>2
  <2>5. PICK new : new = [id |-> rows + 1, type |-> Head(p.types), channel |-> p.chan]
    OBVIOUS
  <2>6. records' = records \cup {new} /\ new.id = rows + 1 /\ new.channel = p.chan
        /\ new.type \in Types
    BY <1>3, <1>4, <2>5
  <2>7. ServerKept
    BY <1>1, <1>4 DEF ServerKept
  <2>8. /\ command' \in [Admins -> Op]
        /\ command'[a] = op \/ (command'[a] = Nothing /\ op.stage = "over")
        /\ \A b \in Admins \ {a} : command'[b] = command[b]
    BY <1>1, <2>3, <2>4, OnIs DEF Base
  <2>9. \A r \in records : r.channel # p.chan /\ r.id # rows + 1
    <3>1. \A r \in records : r.channel = p.chan => Claims(a, r.channel, r.id)
      BY DEF Base, Apart, RowApart
    <3>2. \A r \in records : r.id \in 1..rows
      BY DEF Base, TypeOK
    <3> QED
      BY <1>1, <3>1, <3>2 DEF Claims
  <2>10. TypeOK'
    <3>1. rows' = rows + 1 /\ 1..rows \subseteq 1..rows' /\ rows + 1 \in 1..rows'
      BY <1>1, <1>4
    <3>2. records \subseteq [id : 1..rows', type : Types, channel : 1..made]
      BY <3>1 DEF Base, TypeOK
    <3>3. new \in [id : 1..rows', type : Types, channel : 1..made]
      BY <1>2, <1>3, <2>5, <3>1
    <3>4. \A r, s \in records' : (r.id = s.id \/ r.channel = s.channel) => r = s
      BY <2>6, <2>9 DEF Base, TypeOK
    <3>5. \A r \in records' : Exists(r.channel) => channels[r.channel].posted
      BY <1>2, <2>6 DEF Base, TypeOK, Posted
    <3>6. DOMAIN command' = Admins
      BY <2>8
    <3> QED
      BY <1>4, <2>6, <3>2, <3>3, <3>4, <3>5, <3>6 DEF Base, TypeOK, Exists
  <2>11. \A b \in Admins : SameClaims(b)
    BY <1>1, <2>3, <2>8 DEF SameClaims
  <2>12. Apart'
    <3>1. \A b \in Admins \ {a} : p.chan # command[b].chan
      BY <1>2 DEF Base, Apart
    <3>2. \A b \in Admins : command[b].kind = "resetup" => command[b].target.channel # p.chan
      BY <1>1 DEF Base, Apart, Claims
    <3>3. ASSUME NEW b \in Admins, NEW c \in 1..made, NEW id, c = command'[b].chan, Claims(b, c, id)
          PROVE  Claims(b, c, id)'
      BY <2>11, <3>3, NothingIs DEF SameClaims, Claims
    <3>4. \A b, d \in Admins : b # d /\ command'[b].chan = command'[d].chan => command'[b].chan = 0
      BY <2>11, NothingIs DEF SameClaims, Base, Apart
    <3>5. \A r \in records : RowApart(r)'
      <4> SUFFICES ASSUME NEW r \in records, NEW b \in Admins
                   PROVE  /\ r.channel = command'[b].chan => Claims(b, r.channel, r.id)'
                          /\ command'[b].kind = "resetup" /\ r.channel = command'[b].target.channel =>
                               r.id = command'[b].target.id
        BY DEF RowApart
      <4>1. RowApart(r) /\ r.channel \in 1..made
        BY DEF Base, Apart, TypeOK
      <4>2. r.channel = command'[b].chan => r.channel = command[b].chan
        BY <2>11, <4>1, NothingIs DEF SameClaims
      <4>3. command'[b].kind = "resetup" =>
              command[b].kind = "resetup" /\ command'[b].target = command[b].target
        BY <2>11, NothingIs DEF SameClaims
      <4> QED
        BY <3>3, <4>1, <4>2, <4>3 DEF RowApart
    <3>6. RowApart(new)'
      <4> SUFFICES ASSUME NEW b \in Admins
                   PROVE  /\ new.channel = command'[b].chan => Claims(b, new.channel, new.id)'
                          /\ command'[b].kind = "resetup" => new.channel # command'[b].target.channel
        BY DEF RowApart
      <4>1. new.channel = command'[b].chan => b = a /\ command'[a] = op
        BY <1>2, <2>6, <2>8, <3>1, NothingIs
      <4>2. command'[b].kind = "resetup" => new.channel # command'[b].target.channel
        BY <2>6, <2>11, <3>2, NothingIs DEF SameClaims
      <4> QED
        BY <1>1, <2>3, <4>1, <4>2 DEF Claims
    <3>7. ASSUME NEW b \in Admins, NEW d \in Admins, command'[b].kind = "resetup"
          PROVE  /\ command'[b].target.channel = command'[d].chan =>
                      Claims(d, command[d].chan, command[b].target.id)'
                 /\ command'[d].kind = "resetup" /\ command'[b].target.channel = command'[d].target.channel =>
                      command'[b].target.id = command'[d].target.id
      <4>1. command[b].kind = "resetup" /\ command'[b].target = command[b].target
            /\ command[b].target.channel \in 1..made
        BY <2>11, <3>7, NothingIs DEF SameClaims, Base, Fits
      <4>2. ASSUME command'[b].target.channel = command'[d].chan
            PROVE  Claims(d, command[d].chan, command[b].target.id)'
        <5>1. command'[d].chan = command[d].chan /\ command[d].chan \in 1..made
              /\ command'[d] # Nothing
          BY <2>11, <4>1, <4>2, NothingIs DEF SameClaims
        <5>2. Claims(d, command[d].chan, command[b].target.id)
          BY <4>1, <4>2, <5>1 DEF Base, Apart
        <5> QED
          BY <2>11, <4>1, <5>1, <5>2 DEF Claims, SameClaims
      <4>3. command'[d].kind = "resetup" =>
              command[d].kind = "resetup" /\ command'[d].target = command[d].target
        BY <2>11, NothingIs DEF SameClaims
      <4> QED
        BY <4>1, <4>2, <4>3 DEF Base, Apart
    <3> QED
      BY <2>6, <3>4, <3>5, <3>6, <3>7 DEF Apart
  <2>13. Fits(op)'
    BY <1>1, <1>3, <1>4, <2>3 DEF Fits, Provisioning, Posted, Exists
  <2> QED
    BY <1>1, <1>4, <2>3, <2>4, <2>7, <2>10, <2>12, <2>13, GoesOn DEF Base, Stored
<1>5. CASE UndoWithNew(a) /\ UNCHANGED <<channels, records, made, rows, categories>>
  BY <1>1, <1>5, UndoWithNewBase
<1> QED
  BY <1>4, <1>5 DEF CreateRecord

\* A record that gets another channel, when every claim on the channel is on
\* that record.
LEMMA RepointBase ==
  ASSUME Base, NEW a \in Admins, ~Free(a), NEW op \in Op, op.alone = command[a].alone, On(a, op),
         NEW c \in 1..made, NEW id, Posted(c), records' = Repoint(id, c), 
         UNCHANGED <<channels, categories, made, rows>>,
         \A r \in records : r.channel = c => r.id = id,
         \A b \in Admins : command[b].chan = c => Claims(b, c, id),
         \A b \in Admins :
           command[b].kind = "resetup" /\ command[b].target.channel = c => id = command[b].target.id,
         Fits(op)',
         op.kind = command[a].kind, op.chan = command[a].chan, op.target = command[a].target,
         op.stage \notin {"post", "record"}
  PROVE  Base'
<1>1. \A q \in records' : \/ q \in records
                          \/ \E r \in records : r.id = id /\ q = [r EXCEPT !.channel = c]
  BY DEF Repoint
<1>2. \A r \in records : [r EXCEPT !.channel = c].id = r.id
                         /\ [r EXCEPT !.channel = c].channel = c
                         /\ [r EXCEPT !.channel = c] \in [id : 1..rows, type : Types, channel : 1..made]
  BY DEF Base, TypeOK
<1>3. records' \subseteq [id : 1..rows, type : Types, channel : 1..made]
  BY <1>1, <1>2 DEF Base, TypeOK
<1>4. \A q \in records' : (q \in records /\ q.id # id) \/ (q.id = id /\ q.channel = c)
  BY <1>2 DEF Repoint
<1>5. \A q, s \in records' : (q.id = s.id \/ q.channel = s.channel) => q = s
  <2> SUFFICES ASSUME NEW q \in records', NEW s \in records', q.id = s.id \/ q.channel = s.channel
               PROVE  q = s
    OBVIOUS
  <2>1. CASE q.id = id \/ s.id = id
    <3>1. q.id = id /\ s.id = id /\ q.channel = c /\ s.channel = c
      BY <1>4, <2>1
    <3>2. PICK r1 \in records : r1.id = id /\ q = [r1 EXCEPT !.channel = c]
      BY <3>1 DEF Repoint
    <3>3. PICK r2 \in records : r2.id = id /\ s = [r2 EXCEPT !.channel = c]
      BY <3>1 DEF Repoint
    <3> QED
      BY <3>2, <3>3 DEF Base, TypeOK
  <2>2. CASE q.id # id /\ s.id # id
    BY <1>4, <2>2 DEF Base, TypeOK
  <2> QED
    BY <2>1, <2>2
<1>6. \A q \in records' : Exists(q.channel) => channels[q.channel].posted
  BY <1>4 DEF Base, TypeOK, Posted
<1>7. TypeOK'
  <2>1. DOMAIN command' = Admins
    BY OnIs DEF Base
  <2> QED
    BY <1>3, <1>5, <1>6, <2>1 DEF Base, TypeOK, Exists
<1>8. \A b \in Admins : SameClaims(b)
  BY OnIs DEF Base, SameClaims
<1>9. \A q \in records' : RowApart(q) /\ q.channel # 0
  <2> SUFFICES ASSUME NEW q \in records' PROVE RowApart(q) /\ q.channel # 0
    OBVIOUS
  <2>1. CASE q \in records
    BY <2>1 DEF Base, Apart, TypeOK
  <2>2. CASE q.id = id /\ q.channel = c
    BY <2>2 DEF RowApart
  <2> QED
    BY <1>4, <2>1, <2>2
<1>10. Apart'
  BY <1>8, <1>9, ApartKept DEF Base
<1>11. ServerKept
  BY DEF ServerKept, Base, Stored
<1> QED
  BY <1>7, <1>10, <1>11, GoesOn DEF Base, Stored

LEMMA UpdateRecordBase ==
  ASSUME Base, NEW a \in Admins, UpdateRecord(a)
  PROVE  Base'
<1> DEFINE p == command[a]
<1>1. ~Free(a) /\ p.stage = "swap" /\ p.kind = "resetup" /\ p \in Op /\ Fits(p)
  BY RunsIs DEF UpdateRecord, At, Free
<1>2. CASE /\ records' = Repoint(p.target.id, p.chan) /\ GoesTo(a, "retire")
           /\ UNCHANGED <<channels, categories, made, rows>>
  <2>1. PICK op \in Op : op = [p EXCEPT !.stage = "retire"]
    BY <1>1, StageIs DEF Stages
  <2>2. /\ op.stage = "retire" /\ op.chan = p.chan /\ op.kind = p.kind /\ op.types = p.types
        /\ op.name = p.name /\ op.target = p.target /\ op.later = p.later /\ op.alone = p.alone
    BY <1>1, <2>1, StageIs DEF Stages
  <2>3. On(a, op)
    BY <1>2, <2>1 DEF GoesTo
  <2>4. p.chan \in 1..made /\ Posted(p.chan)
    BY <1>1 DEF Fits, Op, Base, Stored
  <2>5. \A r \in records : r.channel = p.chan => r.id = p.target.id
    BY <1>1 DEF Base, Apart, RowApart, Claims
  <2>6. \A b \in Admins : command[b].chan = p.chan => Claims(b, p.chan, p.target.id)
    <3>1. \A b \in Admins : command[b].chan = p.chan => b = a
      BY <2>4 DEF Base, Apart
    <3> QED
      BY <1>1, <3>1 DEF Claims
  <2>7. \A b \in Admins :
          command[b].kind = "resetup" /\ command[b].target.channel = p.chan =>
            p.target.id = command[b].target.id
    BY <1>1 DEF Base, Apart, Claims
  <2>8. Fits(op)'
    BY <1>1, <1>2, <2>2, <2>4 DEF Fits, Posted, Exists
  <2> QED
    BY <1>1, <1>2, <2>2, <2>3, <2>4, <2>5, <2>6, <2>7, <2>8, RepointBase
<1>3. CASE UndoWithNew(a) /\ UNCHANGED <<channels, records, made, rows, categories>>
  BY <1>1, <1>3, UndoWithNewBase
<1> QED
  BY <1>2, <1>3 DEF UpdateRecord

\* What remains for a resetup when the old channel is gone, and what a deletion
\* and the deletion of records make of a command.
LEMMA RestIs ==
  ASSUME NEW op \in Op
  PROVE  LET p == Rest(op) IN
         /\ p \in Op /\ p.kind = op.kind /\ p.types = op.types /\ p.name = op.name
         /\ p.chan = op.chan /\ p.mine = op.mine /\ p.target = op.target /\ p.later = op.later
         /\ p.gone = op.gone /\ p.aborting = op.aborting /\ p.failed = op.failed
         /\ p.alone = op.alone /\ p.asked = op.asked /\ p.used = op.used
         /\ p.doomed = op.later
         /\ p.stage = IF op.later = <<>> THEN "over" ELSE "delete"
BY DEF Rest, Op, Stages

LEMMA DeletedKeeps ==
  ASSUME NEW op \in Op, op.doomed # <<>>, NEW gone \in SUBSET Nat, NEW failed \in BOOLEAN,
         NEW p, p = Deleted(op, gone, failed)
  PROVE  /\ p \in Op /\ p.kind = op.kind /\ p.types = op.types /\ p.name = op.name
         /\ p.chan = op.chan /\ p.mine = op.mine /\ p.target = op.target /\ p.later = op.later
         /\ p.aborting = op.aborting /\ p.failed = failed
         /\ p.alone = op.alone /\ p.asked = op.asked /\ p.used = op.used
<1>1. op.doomed \in Seq(Nat)
  BY DEF Op
<1>2. Tail(op.doomed) \in Seq(Nat)
  BY <1>1, HeadAndTail
<1>3. PICK st \in Stages, lf \in Seq(Nat), gn \in SUBSET Nat :
        p = [op EXCEPT !.stage = st, !.doomed = lf, !.gone = gn, !.failed = failed]
  BY <1>2 DEF Deleted, Stages
<1>4. PICK q : q = [op EXCEPT !.stage = st, !.doomed = lf, !.gone = gn, !.failed = failed]
  OBVIOUS
<1>5. /\ q \in Op /\ q.kind = op.kind /\ q.types = op.types /\ q.name = op.name
      /\ q.chan = op.chan /\ q.mine = op.mine /\ q.target = op.target /\ q.later = op.later
      /\ q.aborting = op.aborting /\ q.failed = failed
      /\ q.alone = op.alone /\ q.asked = op.asked /\ q.used = op.used
  BY <1>4 DEF Op
<1> QED
  BY <1>3, <1>4, <1>5

LEMMA DeletedIs ==
  ASSUME NEW op \in Op, op.doomed # <<>>, NEW gone \in SUBSET Nat, NEW failed \in BOOLEAN,
         NEW p, p = Deleted(op, gone, failed)
  PROVE  /\ p.doomed \in Seq(Nat) /\ Range(op.doomed) = Range(p.doomed) \cup {Head(op.doomed)}
         /\ p.gone = IF op.kind = "cleanup" THEN {} ELSE gone
         /\ p.stage \in {"over", "delete", "forget"}
         /\ p.stage = "delete" => p.doomed # <<>>
         /\ op.kind = "cleanup" => p.stage \in {"over", "delete"}
         /\ op.kind \in Provisioning =>
              /\ p.stage # "delete" => p.doomed = <<>>
              /\ p.stage = "forget" => gone # {}
              /\ p.stage = "over" => gone = {}
<1> DEFINE left == Tail(op.doomed)
<1>1. op.doomed \in Seq(Nat)
  BY DEF Op
<1>2. left \in Seq(Nat) /\ Range(op.doomed) = Range(left) \cup {Head(op.doomed)}
  BY <1>1, HeadAndTail
<1>3. /\ p.doomed = left /\ p.gone = IF op.kind = "cleanup" THEN {} ELSE gone
      /\ p.stage = IF IF op.kind = "teardown" THEN gone # op.gone
                      ELSE op.kind # "cleanup" /\ gone # {} /\ left = <<>>
                   THEN "forget" ELSE IF left = <<>> THEN "over" ELSE "delete"
  BY DEF Deleted, Op
<1> QED
  BY <1>2, <1>3 DEF Provisioning

LEMMA ForgotIs ==
  ASSUME NEW op \in Op, NEW failed \in BOOLEAN
  PROVE  LET p == Forgot(op, failed) IN
         /\ p \in Op /\ p.kind = op.kind /\ p.types = op.types /\ p.name = op.name
         /\ p.chan = op.chan /\ p.mine = op.mine /\ p.target = op.target /\ p.later = op.later
         /\ p.aborting = op.aborting /\ p.failed = (op.failed \/ failed)
         /\ p.alone = op.alone /\ p.asked = op.asked /\ p.used = op.used
         /\ p.doomed = op.doomed /\ p.gone = {}
         /\ p.stage = IF op.doomed = <<>> THEN "over" ELSE "delete"
BY DEF Forgot, Op, Stages

LEMMA EndIs ==
  ASSUME NEW op \in Op
  PROVE  LET p == Aborted(op)
             q == Failed(op)
         IN
         /\ p \in Op /\ p.kind = op.kind /\ p.types = op.types /\ p.name = op.name
         /\ p.chan = op.chan /\ p.mine = op.mine /\ p.target = op.target /\ p.later = op.later
         /\ p.gone = op.gone /\ p.aborting /\ p.failed = op.failed /\ p.alone = op.alone
         /\ p.asked = op.asked /\ p.used = op.used /\ p.stage = "over" /\ p.doomed = op.doomed
         /\ q \in Op /\ q.kind = op.kind /\ q.types = op.types /\ q.name = op.name
         /\ q.chan = op.chan /\ q.mine = op.mine /\ q.target = op.target /\ q.later = op.later
         /\ q.gone = op.gone /\ q.aborting /\ q.failed /\ q.alone = op.alone
         /\ q.asked = op.asked /\ q.used = op.used /\ q.stage = "over" /\ q.doomed = op.doomed
BY DEF Aborted, Failed, Op, Stages

LEMMA DeleteOldChannelBase ==
  ASSUME Base, NEW a \in Admins, DeleteOldChannel(a)
  PROVE  Base'
<1> DEFINE p == command[a]
<1>1. ~Free(a) /\ p.stage = "retire" /\ p.kind = "resetup" /\ p \in Op /\ Fits(p)
  BY RunsIs DEF DeleteOldChannel, At, Free
<1>2. OnlyLess /\ UNCHANGED <<records, made, rows>> /\ categories' \in Nat
  BY LessOf DEF DeleteOldChannel, Base, TypeOK
<1>3. CASE On(a, Rest(p))
  <2>1. PICK op \in Op : op = Rest(p)
    BY <1>1, RestIs
  <2>2. /\ op.kind = p.kind /\ op.chan = p.chan /\ op.target = p.target /\ op.later = p.later
        /\ op.name = p.name /\ op.alone = p.alone
        /\ op.stage \in {"over", "delete"} /\ (op.stage = "delete" => op.doomed # <<>>)
    BY <1>1, <2>1, RestIs
  <2> QED
    BY <1>1, <1>2, <1>3, <2>1, <2>2, OnlyOn DEF All
<1>4. CASE GoesTo(a, "restore")
  <2>1. PICK op \in Op : op = [p EXCEPT !.stage = "restore"]
    BY <1>1, StageIs DEF Stages
  <2>2. /\ op.kind = p.kind /\ op.chan = p.chan /\ op.target = p.target /\ op.later = p.later
        /\ op.name = p.name /\ op.alone = p.alone /\ op.stage = "restore"
    BY <1>1, <2>1, StageIs DEF Stages
  <2>3. op.chan # 0
    BY <1>1, <2>2 DEF Fits
  <2> QED
    BY <1>1, <1>2, <1>4, <2>1, <2>2, <2>3, OnlyOn DEF GoesTo
<1>5. CASE On(a, Crowded([p EXCEPT !.stage = "restore"]))
  <2>1. PICK q \in Op : q = [p EXCEPT !.stage = "restore"]
    BY <1>1, StageIs DEF Stages
  <2>2. /\ q.kind = p.kind /\ q.chan = p.chan /\ q.target = p.target /\ q.later = p.later
        /\ q.name = p.name /\ q.stage = "restore"
    BY <1>1, <2>1, StageIs DEF Stages
  <2>3. PICK op \in Op : op = Crowded(q) /\ Same(op, q) /\ ~op.alone
    BY CrowdedIs
  <2>4. op.chan # 0
    BY <1>1, <2>2, <2>3 DEF Fits, Same
  <2> QED
    BY <1>1, <1>2, <1>5, <2>1, <2>2, <2>3, <2>4, OnlyOn DEF Same
<1> QED
  BY <1>3, <1>4, <1>5 DEF DeleteOldChannel

\* A command that ends early.
LEMMA EndBase ==
  ASSUME Base, NEW a \in Admins, ~Free(a), On(a, Aborted(command[a])) \/ On(a, Failed(command[a])),
         OnlyLess, UNCHANGED <<categories, made, rows>>
  PROVE  Base'
<1>1. command[a] \in Op /\ categories' \in Nat
  BY RunsIs DEF Base, TypeOK
<1>2. PICK op \in Op : op \in {Aborted(command[a]), Failed(command[a])} /\ On(a, op)
  BY <1>1, EndIs
<1>3. /\ op.kind = command[a].kind /\ op.chan = command[a].chan /\ op.target = command[a].target
      /\ op.later = command[a].later /\ op.name = command[a].name /\ op.alone = command[a].alone
      /\ op.stage = "over"
  BY <1>1, <1>2, EndIs
<1> QED
  BY <1>1, <1>2, <1>3, OnlyOn

LEMMA RestoreRecordBase ==
  ASSUME Base, NEW a \in Admins, RestoreRecord(a)
  PROVE  Base'
<1> DEFINE p == command[a]
<1>1. ~Free(a) /\ p.stage = "restore" /\ p.kind = "resetup" /\ p \in Op /\ Fits(p)
  BY RunsIs DEF RestoreRecord, At, Free
<1>2. CASE /\ records' = Repoint(p.target.id, p.target.channel) /\ GoesTo(a, "drop")
           /\ UNCHANGED <<channels, categories, made, rows>>
  <2>1. PICK op \in Op : op = [p EXCEPT !.stage = "drop"]
    BY <1>1, StageIs DEF Stages
  <2>2. /\ op.stage = "drop" /\ op.chan = p.chan /\ op.kind = p.kind /\ op.types = p.types
        /\ op.name = p.name /\ op.target = p.target /\ op.later = p.later /\ op.alone = p.alone
    BY <1>1, <2>1, StageIs DEF Stages
  <2>3. On(a, op)
    BY <1>2, <2>1 DEF GoesTo
  <2>4. p.target.channel \in 1..made /\ Posted(p.target.channel)
    BY <1>1 DEF Fits
  <2>5. \A r \in records : r.channel = p.target.channel => r.id = p.target.id
    BY <1>1 DEF Base, Apart, RowApart
  <2>6. \A b \in Admins : command[b].chan = p.target.channel =>
          Claims(b, p.target.channel, p.target.id)
    BY <1>1 DEF Base, Apart
  <2>7. \A b \in Admins :
          command[b].kind = "resetup" /\ command[b].target.channel = p.target.channel =>
            p.target.id = command[b].target.id
    BY <1>1 DEF Base, Apart
  <2>8. Fits(op)'
    BY <1>1, <1>2, <2>2 DEF Fits, Posted, Exists
  <2> QED
    BY <1>1, <1>2, <2>2, <2>3, <2>4, <2>5, <2>6, <2>7, <2>8, RepointBase
<1>3. CASE On(a, Failed(p)) /\ UNCHANGED <<channels, records, made, rows, categories>>
  BY <1>1, <1>3, LessOf, EndBase
<1> QED
  BY <1>2, <1>3 DEF RestoreRecord

LEMMA DropReplacementBase ==
  ASSUME Base, NEW a \in Admins, DropReplacement(a)
  PROVE  Base'
<1>1. ~Free(a)
  BY DEF DropReplacement, At, Free
<1>2. OnlyLess /\ UNCHANGED <<categories, made, rows>>
  BY LessOf DEF DropReplacement, MayBeGone
<1>3. On(a, Aborted(command[a])) \/ On(a, Failed(command[a]))
  BY DEF DropReplacement
<1> QED
  BY <1>1, <1>2, <1>3, EndBase

LEMMA DeleteChannelBase ==
  ASSUME Base, NEW a \in Admins, DeleteChannel(a)
  PROVE  Base'
<1> DEFINE p == command[a]
           c == Head(p.doomed)
<1>1. ~Free(a) /\ p.stage = "delete" /\ p.kind \in All /\ p \in Op /\ Fits(p)
  BY RunsIs DEF DeleteChannel, At, Free
<1>2. OnlyLess /\ UNCHANGED <<records, made, rows>> /\ categories' \in Nat
  BY LessOf DEF DeleteChannel, MayBeGone, Base, TypeOK
<1>3. p.doomed # <<>> /\ p.doomed \in Seq(Nat) /\ p.gone \in SUBSET Nat /\ p.failed \in BOOLEAN
  BY <1>1 DEF Fits, Op
<1>4. c \in Nat
  BY <1>3, HeadAndTail
<1>5. \E gone \in SUBSET Nat, failed \in BOOLEAN : On(a, Deleted(p, gone, failed))
  BY <1>3, <1>4 DEF DeleteChannel
<1>6. PICK gone \in SUBSET Nat, failed \in BOOLEAN : On(a, Deleted(p, gone, failed))
  BY <1>5
<1>7. PICK op : op = Deleted(p, gone, failed)
  OBVIOUS
<1>8. /\ op \in Op /\ op.kind = p.kind /\ op.chan = p.chan /\ op.target = p.target
      /\ op.later = p.later /\ op.name = p.name /\ op.alone = p.alone
      /\ op.stage \in {"over", "delete", "forget"} /\ (op.stage = "delete" => op.doomed # <<>>)
  <2>1. /\ op \in Op /\ op.kind = p.kind /\ op.chan = p.chan /\ op.target = p.target
        /\ op.later = p.later /\ op.name = p.name /\ op.alone = p.alone
    BY <1>1, <1>3, <1>7, DeletedKeeps
  <2>2. op.stage \in {"over", "delete", "forget"} /\ (op.stage = "delete" => op.doomed # <<>>)
    BY <1>1, <1>3, <1>7, DeletedIs
  <2> QED
    BY <2>1, <2>2
<1> QED
  BY <1>1, <1>2, <1>6, <1>7, <1>8, OnlyOn

LEMMA ForgetChannelsBase ==
  ASSUME Base, NEW a \in Admins, ForgetChannels(a)
  PROVE  Base'
<1> DEFINE p == command[a]
<1>1. ~Free(a) /\ p.stage = "forget" /\ p.kind \in All /\ p \in Op
  BY RunsIs DEF ForgetChannels, At, Free
<1>2. records' \subseteq records /\ UNCHANGED <<channels, made, rows>> /\ categories' \in Nat
  BY DEF ForgetChannels, Base, TypeOK
<1>3. PICK failed \in BOOLEAN : On(a, Forgot(p, failed))
  BY DEF ForgetChannels
<1>4. PICK op \in Op : op = Forgot(p, failed)
  BY <1>1, ForgotIs
<1>5. /\ op.kind = p.kind /\ op.chan = p.chan /\ op.target = p.target /\ op.later = p.later
      /\ op.name = p.name /\ op.alone = p.alone
      /\ op.stage \in {"over", "delete"} /\ (op.stage = "delete" => op.doomed # <<>>)
  BY <1>1, <1>4, ForgotIs
<1> QED
  BY <1>1, <1>2, <1>3, <1>4, <1>5, LessOf, OnlyOn

LEMMA GoOnBase ==
  ASSUME UiAssumption, Base, NEW a \in Admins, GoOn(a)
  PROVE  Base'
BY CreateCategoryBase, CreateTextChannelBase, SendInitialMessageBase, CreateRecordBase,
   UpdateRecordBase, DeleteOldChannelBase, RestoreRecordBase, DropReplacementBase,
   DeleteChannelBase, ForgetChannelsBase DEF GoOn

-----------------------------------------------------------------------------
(* So do the commands' beginnings, people and a restart. *)

LEMMA BeginBase ==
  ASSUME Base, NEW a \in Admins, NEW op \in Op, op.stage # "over", Free(a), Begin(a, op),
         UNCHANGED <<channels, categories, records, made, rows>>,
         Fits(op), op.chan = 0, op.kind = "resetup" => op.target \in records
  PROVE  Base'
<1>1. /\ command' \in [Admins -> Op] /\ Quiet' /\ Same(command'[a], op)
      /\ \A b \in Admins \ {a} : command'[b] = Nothing \/ Same(command'[b], command[b])
  BY BeginIs DEF Base
<1>2. TypeOK'
  BY <1>1 DEF Base, TypeOK, Exists
<1>3. ServerKept
  BY DEF ServerKept, Base, Stored
<1>4. \A b \in Admins \ {a} : Fits(command[b])'
  BY <1>1, <1>3, FitsKept DEF Base
<1>5. Fits(command[a])'
  BY <1>1 DEF Fits, Same, Posted, Exists
<1>6. \A b \in Admins \ {a} : SameClaims(b)
  BY <1>1 DEF Same, SameClaims
<1>7. command'[a].kind = op.kind /\ command'[a].chan = 0 /\ command'[a].target = op.target
  BY <1>1 DEF Same
<1>8. ASSUME NEW b \in Admins \ {a}
      PROVE  /\ command'[b].chan \in {0, command[b].chan}
             /\ command'[b].chan # 0 => command'[b] # Nothing
             /\ command'[b].kind = "resetup" =>
                  command'[b].target = command[b].target /\ command[b].kind = "resetup"
  BY <1>6, NothingIs DEF SameClaims
<1>9. ASSUME NEW b \in Admins \ {a}, NEW c, NEW id, c # 0, c = command'[b].chan, Claims(b, c, id)
      PROVE  Claims(b, c, id)'
  BY <1>6, <1>9, NothingIs DEF SameClaims, Claims
<1>10. \A r \in records : r.channel # 0 /\ RowApart(r)
  BY DEF Base, TypeOK, Apart
<1>11. \A b, d \in Admins : b # d /\ command'[b].chan = command'[d].chan => command'[b].chan = 0
  BY <1>7, <1>8 DEF Base, Apart
<1>12. \A r \in records : RowApart(r)'
  <2> SUFFICES ASSUME NEW r \in records, NEW b \in Admins
               PROVE  /\ r.channel = command'[b].chan => Claims(b, r.channel, r.id)'
                      /\ command'[b].kind = "resetup" /\ r.channel = command'[b].target.channel =>
                           r.id = command'[b].target.id
    BY DEF RowApart
  <2>1. CASE b = a
    BY <1>7, <1>10, <2>1 DEF Base, TypeOK
  <2>2. CASE b # a
    <3>1. ASSUME r.channel = command'[b].chan PROVE Claims(b, r.channel, r.id)'
      BY <1>8, <1>9, <1>10, <2>2, <3>1 DEF RowApart
    <3> QED
      BY <1>8, <1>10, <2>2, <3>1 DEF RowApart
  <2> QED
    BY <2>1, <2>2
<1>13. ASSUME NEW b \in Admins, NEW d \in Admins, command'[b].kind = "resetup"
       PROVE  /\ command'[b].target.channel = command'[d].chan =>
                   Claims(d, command[d].chan, command[b].target.id)'
              /\ command'[d].kind = "resetup" /\ command'[b].target.channel = command'[d].target.channel =>
                   command'[b].target.id = command'[d].target.id
  <2>1. command'[b].target.channel # 0
    BY <1>4, <1>5, <1>13 DEF Fits
  <2>2. ASSUME NEW c, NEW id, c = command'[b].target.channel, id = command'[b].target.id,
               c = command'[d].chan
        PROVE  Claims(d, c, id)'
    <3>1. d # a
      BY <1>7, <2>1, <2>2
    <3>2. c = command[d].chan
      BY <1>8, <2>1, <2>2, <3>1
    <3>3. Claims(d, c, id)
      <4>1. CASE b = a
        BY <1>7, <1>10, <1>13, <2>2, <3>2, <4>1 DEF RowApart
      <4>2. CASE b # a
        BY <1>8, <1>13, <2>2, <3>2, <4>2 DEF Base, Apart
      <4> QED
        BY <4>1, <4>2
    <3> QED
      BY <1>9, <2>1, <2>2, <3>1, <3>3
  <2>3. ASSUME command'[d].kind = "resetup", command'[b].target.channel = command'[d].target.channel
        PROVE  command'[b].target.id = command'[d].target.id
    <3>1. CASE b # a /\ d # a
      BY <1>8, <1>13, <2>3, <3>1 DEF Base, Apart
    <3>2. CASE b = a /\ d # a
      BY <1>7, <1>8, <1>10, <1>13, <2>3, <3>2 DEF RowApart
    <3>3. CASE b # a /\ d = a
      BY <1>7, <1>8, <1>10, <1>13, <2>3, <3>3 DEF RowApart
    <3> QED
      BY <3>1, <3>2, <3>3
  <2> QED
    BY <2>2, <2>3
<1>14. Apart'
  BY <1>11, <1>12, <1>13 DEF Apart
<1> QED
  BY <1>1, <1>2, <1>4, <1>5, <1>14 DEF Base, Stored

\* A command's first stage, and what it starts from.
LEMMA FirstIs ==
  ASSUME Base
  PROVE  First \in {"category", "create"}
BY DEF First

LEMMA SetupUiChannelsBase ==
  ASSUME UiAssumption, Base, NEW a \in Admins, SetupUiChannels(a)
  PROVE  Base'
<1>1. PICK types \in Sorted(MissingTypes, Place) :
        Begin(a, [Nothing EXCEPT !.kind = "setup", !.stage = First, !.types = types,
                                 !.asked = MissingTypes])
  BY DEF SetupUiChannels
<1>2. MissingTypes \in SUBSET Types /\ MissingTypes # {}
  BY DEF MissingTypes, SetupUiChannels
<1>3. types \in Seq(Types) /\ types # <<>>
  BY <1>2, TypesAre, SeqRange
<1>4. PICK op : op = [Nothing EXCEPT !.kind = "setup", !.stage = First, !.types = types,
                                     !.asked = MissingTypes]
  OBVIOUS
<1>5. op \in Op /\ op.kind = "setup" /\ op.stage = First /\ op.types = types /\ op.chan = 0
  BY <1>2, <1>3, <1>4, FirstIs, NothingIs DEF Op, Stages, All
<1>6. Fits(op)
  BY <1>3, <1>5, FirstIs DEF Fits, Provisioning, Base, Stored
<1> QED
  BY <1>1, <1>4, <1>5, <1>6, FirstIs, BeginBase DEF SetupUiChannels

LEMMA SetupCustomUiChannelBase ==
  ASSUME UiAssumption, Base, NEW a \in Admins, NEW t \in Types, NEW n \in Names,
         SetupCustomUiChannel(a, t, n)
  PROVE  Base'
<1>1. <<t>> \in Seq(Types) /\ <<t>> # <<>>
  OBVIOUS
<1>2. PICK op : op = [Nothing EXCEPT !.kind = "custom", !.stage = First, !.types = <<t>>,
                                     !.name = n, !.asked = {t}]
  OBVIOUS
<1>3. op \in Op /\ op.kind = "custom" /\ op.stage = First /\ op.types = <<t>> /\ op.chan = 0
      /\ op.name = n
  BY <1>1, <1>2, FirstIs, NothingIs DEF Op, Stages, All
<1>4. Fits(op)
  BY <1>1, <1>3, FirstIs DEF Fits, Provisioning, Base, Stored
<1> QED
  BY <1>2, <1>3, <1>4, FirstIs, BeginBase DEF SetupCustomUiChannel

LEMMA ResetupUiChannelBase ==
  ASSUME Base, NEW a \in Admins, NEW t \in Types, ResetupUiChannel(a, t)
  PROVE  Base'
<1>1. PICK target \in Targets(Recorded(t)) : \E later \in ChannelsOf(Recorded(t) \ {target}) :
        Begin(a, [Nothing EXCEPT !.kind = "resetup", !.stage = First, !.types = <<t>>,
                                 !.name = channels[target.channel].name, !.target = target,
                                 !.later = later, !.asked = {t}])
  BY DEF ResetupUiChannel
<1>2. PICK later \in ChannelsOf(Recorded(t) \ {target}) :
        Begin(a, [Nothing EXCEPT !.kind = "resetup", !.stage = First, !.types = <<t>>,
                                 !.name = channels[target.channel].name, !.target = target,
                                 !.later = later, !.asked = {t}])
  BY <1>1
<1>3. target \in records /\ Exists(target.channel)
  BY DEF Targets, Recorded
<1>4. /\ target \in Row /\ target.channel \in 1..made
      /\ channels[target.channel].name \in Names /\ Posted(target.channel)
  BY <1>3 DEF Base, TypeOK, Row, Exists, Posted, Stored
<1>5. Recorded(t) \ {target} \in SUBSET records
  BY DEF Recorded
<1>6. later \in Seq(Nat) /\ Range(later) \subseteq 1..made
  <2>1. later \in Seq(Nat) /\ Range(later) = {r.channel : r \in Recorded(t) \ {target}}
    BY <1>5, ChannelsAre DEF Base
  <2> QED
    BY <1>5, <2>1 DEF Base, TypeOK
<1>7. PICK op : op = [Nothing EXCEPT !.kind = "resetup", !.stage = First, !.types = <<t>>,
                                     !.name = channels[target.channel].name, !.target = target,
                                     !.later = later, !.asked = {t}]
  OBVIOUS
<1>8. /\ op \in Op /\ op.kind = "resetup" /\ op.stage = First /\ op.types = <<t>> /\ op.chan = 0
      /\ op.name = channels[target.channel].name /\ op.target = target /\ op.later = later
  <2>1. PICK nm \in Names, st \in Stages, types \in Seq(Types), T \in SUBSET Types :
          nm = channels[target.channel].name /\ st = First /\ types = <<t>> /\ T = {t}
    <3>1. <<t>> \in Seq(Types) /\ {t} \in SUBSET Types /\ First \in Stages
      BY FirstIs DEF Stages
    <3> QED
      BY <1>4, <3>1
  <2>2. op = [Nothing EXCEPT !.kind = "resetup", !.stage = st, !.types = types, !.name = nm,
                             !.target = target, !.later = later, !.asked = T]
    BY <1>7, <2>1
  <2>3. op \in Op /\ op.kind = "resetup" /\ op.stage = st /\ op.types = types /\ op.chan = 0
        /\ op.name = nm /\ op.target = target /\ op.later = later
    BY <1>4, <1>6, <2>2, NothingIs DEF Op, All
  <2> QED
    BY <2>1, <2>3
<1>9. Fits(op)
  <2>1. op.chan <= made /\ 0 \notin 1..made
    BY <1>8 DEF Base, Stored
  <2> QED
    BY <1>4, <1>6, <1>8, <2>1, FirstIs DEF Fits, Provisioning
<1> QED
  BY <1>2, <1>3, <1>7, <1>8, <1>9, FirstIs, BeginBase DEF ResetupUiChannel

LEMMA CleanupUiChannelsBase ==
  ASSUME Base, NEW a \in Admins, CleanupUiChannels(a)
  PROVE  Base'
<1>1. PICK doomed \in Sorted(Blocking, [c \in Blocking |-> c]) :
        Begin(a, [Nothing EXCEPT !.kind = "cleanup", !.stage = "delete", !.doomed = doomed,
                                 !.asked = Types])
  BY DEF CleanupUiChannels
<1>2. Blocking \in SUBSET DOMAIN channels /\ Blocking # {}
  BY DEF Blocking, CleanupUiChannels
<1>3. doomed \in Seq(Nat) /\ Range(doomed) = Blocking
  BY <1>2, DoomedAre DEF Base
<1>4. doomed # <<>>
  BY <1>2, <1>3, SeqRange
<1>5. PICK op : op = [Nothing EXCEPT !.kind = "cleanup", !.stage = "delete", !.doomed = doomed,
                                     !.asked = Types]
  OBVIOUS
<1>6. /\ op \in Op /\ op.kind = "cleanup" /\ op.stage = "delete" /\ op.doomed = doomed
      /\ op.chan = 0
  BY <1>3, <1>5, NothingIs DEF Op, Stages, All
<1>7. Fits(op)
  BY <1>4, <1>6 DEF Fits, All, Base, Stored
<1> QED
  BY <1>1, <1>5, <1>6, <1>7, BeginBase DEF CleanupUiChannels

LEMMA TeardownUiChannelsBase ==
  ASSUME Base, NEW a \in Admins, TeardownUiChannels(a)
  PROVE  Base'
<1>1. PICK doomed \in ChannelsOf(records) :
        Begin(a, [Nothing EXCEPT !.kind = "teardown", !.stage = "delete", !.doomed = doomed])
  BY DEF TeardownUiChannels
<1>2. doomed \in Seq(Nat) /\ Range(doomed) = {r.channel : r \in records}
  BY ChannelsAre DEF Base
<1>3. doomed # <<>>
  <2>1. PICK r : r \in records
    BY DEF TeardownUiChannels
  <2>2. r.channel \in Range(doomed)
    BY <1>2, <2>1
  <2> QED
    BY <1>2, <2>2, SeqRange
<1>4. PICK op : op = [Nothing EXCEPT !.kind = "teardown", !.stage = "delete", !.doomed = doomed]
  OBVIOUS
<1>5. /\ op \in Op /\ op.kind = "teardown" /\ op.stage = "delete" /\ op.doomed = doomed
      /\ op.chan = 0
  BY <1>2, <1>4, NothingIs DEF Op, Stages, All
<1>6. Fits(op)
  BY <1>3, <1>5 DEF Fits, All, Base, Stored
<1> QED
  BY <1>1, <1>4, <1>5, <1>6, BeginBase DEF TeardownUiChannels

\* People change the server, the commands go on.
LEMMA ByHandBase ==
  ASSUME Base, command' = Disturbed, ServerKept, UNCHANGED <<records, categories, rows>>,
         DOMAIN channels' \subseteq 1..made',
         \A c \in DOMAIN channels' : channels'[c] \in [name : Names, posted : BOOLEAN]
  PROVE  Base'
<1>1. /\ command' \in [Admins -> Op]
      /\ \A b \in Admins : command'[b] = Nothing \/ Same(command'[b], command[b])
      /\ \A b \in Admins : ~command'[b].alone /\ (command'[b].stage = "over" => command'[b] = Nothing)
  BY DisturbedIs DEF Base
<1>2. Quiet'
  BY <1>1 DEF Quiet, Free
<1>3. \A b \in Admins : Fits(command[b])'
  BY <1>1, FitsKept DEF Base
<1>4. \A b \in Admins : SameClaims(b)
  BY <1>1 DEF Same, SameClaims
<1>5. \A r \in records' : RowApart(r) /\ r.channel # 0
  BY DEF Base, Apart, TypeOK
<1>6. Apart'
  BY <1>4, <1>5, ApartKept DEF Base
<1>7. TypeOK'
  <2>1. 1..made \subseteq 1..made'
    BY DEF ServerKept, Base, Stored
  <2>2. records' \subseteq [id : 1..rows', type : Types, channel : 1..made']
    BY <2>1 DEF Base, TypeOK
  <2>3. \A r \in records' : r.channel \in DOMAIN channels' => channels'[r.channel].posted
    BY DEF ServerKept, Base, TypeOK, Exists
  <2> QED
    BY <1>1, <2>2, <2>3 DEF Base, TypeOK, Exists
<1> QED
  BY <1>1, <1>2, <1>3, <1>6, <1>7 DEF Base, Stored, ServerKept

LEMMA CreateByHandBase ==
  ASSUME Base, NEW n \in Names, CreateByHand(n)
  PROVE  Base'
<1>1. /\ command' = Disturbed /\ made' = made + 1 /\ made \in Nat
      /\ UNCHANGED <<records, categories, rows>>
      /\ DOMAIN channels' = DOMAIN channels \cup {made + 1}
      /\ \A c \in DOMAIN channels : c # made + 1 => channels'[c] = channels[c]
      /\ channels'[made + 1] = [name |-> n, posted |-> FALSE]
  BY DEF CreateByHand, With, Base, Stored
<1>2. /\ DOMAIN channels \subseteq 1..made /\ \A c \in 1..made : c # made + 1
      /\ 1..made' = 1..made \cup {made + 1} /\ made' \in Nat /\ made <= made'
  BY <1>1 DEF Base, TypeOK
<1>3. ServerKept
  BY <1>1, <1>2 DEF ServerKept
<1>4. \A c \in DOMAIN channels' : channels'[c] \in [name : Names, posted : BOOLEAN]
  <2>1. channels'[made + 1] \in [name : Names, posted : BOOLEAN]
    BY <1>1
  <2> QED
    BY <1>1, <1>2, <2>1 DEF Base, TypeOK
<1> QED
  BY <1>1, <1>2, <1>3, <1>4, ByHandBase

LEMMA DeleteByHandBase ==
  ASSUME Base, NEW c, DeleteByHand(c)
  PROVE  Base'
<1>1. OnlyLess /\ command' = Disturbed /\ UNCHANGED <<records, categories, made, rows>>
  BY LessOf DEF DeleteByHand
<1>2. ServerKept
  BY <1>1 DEF OnlyLess, ServerKept, Base, Stored
<1>3. /\ DOMAIN channels' \subseteq 1..made'
      /\ \A d \in DOMAIN channels' : channels'[d] \in [name : Names, posted : BOOLEAN]
  BY <1>1 DEF OnlyLess, Base, TypeOK
<1> QED
  BY <1>1, <1>2, <1>3, ByHandBase

LEMMA RestartBase ==
  ASSUME Base, Restart
  PROVE  Base'
<1>1. command' = [b \in Admins |-> Nothing] /\ UNCHANGED <<channels, categories, records, made, rows>>
  BY DEF Restart
<1>2. command' \in [Admins -> Op] /\ \A b \in Admins : command'[b] = Nothing
  BY <1>1, NothingIs
<1>3. Quiet'
  BY <1>2, NothingIs DEF Quiet, Free
<1>4. ServerKept
  BY <1>1 DEF ServerKept, Base, Stored
<1>5. \A b \in Admins : Fits(command[b])'
  BY <1>2, <1>4, FitsKept DEF Base
<1>6. \A r \in records' : RowApart(r) /\ r.channel # 0
  BY <1>1 DEF Base, Apart, TypeOK
<1>7. Apart'
  BY <1>2, <1>6, ApartKept DEF Base, SameClaims
<1>8. TypeOK'
  BY <1>1 DEF Base, TypeOK, Exists
<1> QED
  BY <1>1, <1>2, <1>3, <1>5, <1>7, <1>8 DEF Base, Stored

LEMMA InitBase ==
  ASSUME UiAssumption, Init
  PROVE  Base
<1>1. \A b \in Admins : command[b] = Nothing
  BY DEF Init
<1>2. Stored /\ Quiet
  BY NothingIs DEF Init, Stored, Quiet, Free
<1>3. TypeOK
  BY DEF Init, TypeOK, Exists
<1>4. Apart
  BY <1>1, NothingIs DEF Apart, Init
<1>5. \A b \in Admins : Fits(command[b])
  BY <1>1, <1>2, NothingIs DEF Fits, Stored, Provisioning
<1> QED
  BY <1>2, <1>3, <1>4, <1>5 DEF Base

LEMMA BaseKept ==
  ASSUME UiAssumption, Base, [Next]_vars
  PROVE  Base'
<1>1. CASE Next
  BY <1>1, GoOnBase, SetupUiChannelsBase, SetupCustomUiChannelBase, ResetupUiChannelBase,
     CleanupUiChannelsBase, TeardownUiChannelsBase, CreateByHandBase, DeleteByHandBase, RestartBase
     DEF Next
<1>2. CASE UNCHANGED vars
  BY <1>2 DEF vars, Base, TypeOK, Stored, Apart, RowApart, Claims, Quiet, Free, Fits, Posted, Exists
<1> QED
  BY <1>1, <1>2

-----------------------------------------------------------------------------
(* What holds of a command that runs alone, step by step. *)

LEMMA GoodUnchanged ==
  ASSUME NEW op, Good(op), UNCHANGED <<channels, records>>
  PROVE  Good(op)'
BY DEF Good, GoodSetup, KeepsToItsTypes, Forward, Backward, Own, Elsewhere, GoodResetup, Replacing,
       Replaced, RollingBack, ClearingUp, Settled, OldThere, NewThere, New, OthersIn, GoodCleanup,
       Usable, Recorded, Managed, Exists

\* The command is what it has become.
LEMMA BecameGood ==
  ASSUME NEW b, NEW m, m = command'[b], Good(m)'
  PROVE  Good(command[b])'
BY DEF Good, GoodSetup, KeepsToItsTypes, Forward, Backward, Own, Elsewhere, GoodResetup, Replacing,
       Replaced, RollingBack, ClearingUp, Settled, OldThere, NewThere, New, OthersIn, GoodCleanup,
       Usable, Recorded, Managed, Exists

LEMMA AloneOn ==
  ASSUME Base, NEW a \in Admins, ~Free(a), command[a].alone, NEW op \in Op, op.alone, On(a, op),
         Good(op)'
  PROVE  Good(command[a])'
<1>1. command'[a] = op
  BY OnIs DEF Base
<1> QED
  BY <1>1, BecameGood

\* Nothing is promised of a command that has had company.
LEMMA CrowdedOnGood ==
  ASSUME Base, NEW a \in Admins, ~Free(a), NEW op \in Op, On(a, Crowded(op))
  PROVE  Good(command[a])'
<1>1. PICK q \in Op : q = Crowded(op) /\ ~q.alone
  BY CrowdedIs
<1>2. ~command'[a].alone
  BY <1>1, NothingIs, OnIs DEF Base
<1> QED
  BY <1>2 DEF Good

\* A setup that runs and has not failed goes forward until it aborts.
LEMMA GoesForward ==
  ASSUME NEW p \in Op, GoodSetup(p), ~p.failed, p.stage \in {"category", "create", "post", "record"}
  PROVE  ~p.aborting /\ Forward(p) /\ KeepsToItsTypes(p)
BY DEF GoodSetup, Backward, Op

\* A setup that is undone deletes all that it has made.
LEMMA UndoSetup ==
  ASSUME TypeOK, NEW p \in Op, GoodSetup(p),
         p.stage \in {"category", "create", "post", "record"},
         NEW cs \in Seq(Nat), Range(cs) \subseteq Own(p), Own(p) \subseteq Range(cs) \cup {0},
         NEW op, op = Undo(p, cs)
  PROVE  GoodSetup(op)
<1>1. /\ op \in Op /\ op.kind = p.kind /\ op.chan = p.chan /\ op.mine = p.mine
      /\ op.asked = p.asked /\ op.gone = p.gone
      /\ cs = <<>> => op.stage = "over" /\ op.doomed = p.doomed
      /\ cs # <<>> => op.stage = "delete" /\ Range(op.doomed) = Range(cs)
  BY UndoIs
<1>2. op.aborting /\ op.failed = p.failed
  BY UndoIs
<1>3. CASE ~p.failed
  <2>1. Forward(p) /\ KeepsToItsTypes(p)
    BY <1>3, GoesForward
  <2>2. op.stage \in {"over", "delete"} /\ op.gone = {} /\ Range(op.doomed) = Range(cs)
        /\ (op.stage = "over" => op.doomed = <<>>)
    BY <1>1, <2>1, SeqRange DEF Forward
  <2>3. Own(op) = Own(p)
    BY <1>1 DEF Own
  <2>4. \A r \in records : r.type \in p.asked => r.channel \in Range(cs)
    <3> SUFFICES ASSUME NEW r \in records, r.type \in p.asked
                 PROVE  r.channel \in Range(cs)
      OBVIOUS
    <3>1. r \in Recorded(r.type) /\ r.channel # 0
      BY DEF Recorded, TypeOK
    <3>2. r.type \notin Range(p.types)
      BY <2>1, <3>1 DEF Forward
    <3>3. r.channel \in Range(p.mine)
      BY <2>1, <3>1, <3>2 DEF Forward
    <3> QED
      BY <3>1, <3>3 DEF Own
  <2>5. \A c \in DOMAIN channels : c # 0
    BY DEF TypeOK
  <2>6. Exists(p.chan) => p.chan \in Range(cs)
    BY <2>5 DEF Exists, Own
  <2>7. op.kind = "setup" => \A c \in DOMAIN channels :
          channels[c].name \in op.asked => c \in Range(op.doomed) \/ Elsewhere(op, c)
    BY <1>1, <2>1, <2>2, <2>5 DEF Forward, Elsewhere
  <2>8. Backward(op)
    BY <1>1, <2>2, <2>3, <2>4, <2>6, <2>7 DEF Backward
  <2>9. KeepsToItsTypes(op)
    BY <1>1, <2>1, <2>3 DEF KeepsToItsTypes
  <2> QED
    BY <1>2, <2>8, <2>9 DEF GoodSetup
<1>4. CASE p.failed
  BY <1>2, <1>4 DEF GoodSetup
<1> QED
  BY <1>3, <1>4 DEF Op

\* A resetup that is undone before the record is changed leaves the old channel.
LEMMA UndoResetup ==
  ASSUME NEW p \in Op, GoodResetup(p), p.stage \in {"category", "create", "post", "swap"},
         NEW cs \in Seq(Nat), p.target.channel \notin Range(cs),
         NEW op, op = Undo(p, cs)
  PROVE  GoodResetup(op)
<1>1. /\ op.target = p.target /\ op.asked = p.asked /\ op.used = p.used /\ op.gone = p.gone
      /\ cs = <<>> => op.stage = "over"
      /\ cs # <<>> => op.stage = "delete" /\ Range(op.doomed) = Range(cs)
  BY UndoIs
<1>2. op.aborting = TRUE
  BY UndoIs
<1>3. OldThere(p) /\ p.gone = {}
  BY DEF GoodResetup, Replacing
<1>4. OldThere(op)
  BY <1>1, <1>3 DEF OldThere
<1>5. CASE cs = <<>>
  BY <1>1, <1>2, <1>4, <1>5 DEF GoodResetup, Settled
<1>6. CASE cs # <<>>
  BY <1>1, <1>2, <1>3, <1>4, <1>6 DEF GoodResetup, RollingBack
<1> QED
  BY <1>5, <1>6

\* What undoing makes of a command that runs alone.
LEMMA UndoneGood ==
  ASSUME Base, NEW a \in Admins, ~Free(a), command[a].alone, Good(command[a]),
         NEW p \in Op, p = command[a], NEW cs \in Seq(Nat),
         \/ cs = p.mine /\ p.stage \in {"category", "create"}
         \/ Range(cs) = Range(p.mine) \cup {p.chan} /\ p.stage \in {"post", "record", "swap"},
         NEW op, op = Undo(p, cs)
  PROVE  op \in Op /\ op.kind = p.kind /\ op.alone /\ Good(op)
<1>2. Fits(p) /\ p.alone /\ Good(p) /\ p.kind \in All /\ TypeOK
  BY RunsIs DEF Base
<1>4. p.stage \in {"category", "create", "post", "record", "swap"}
  OBVIOUS
<1>7. op \in Op /\ op.kind = p.kind /\ op.alone = p.alone
  BY UndoIs
<1>8. CASE p.kind \in {"setup", "custom"}
  <2>1. GoodSetup(p) /\ p.stage # "swap"
    BY <1>2, <1>8 DEF Good, Fits
  <2>2. ASSUME ~p.failed PROVE Good(op)
    <3>1. Forward(p)
      BY <1>4, <2>1, <2>2, GoesForward
    <3>2. Range(cs) \subseteq Own(p) /\ Own(p) \subseteq Range(cs) \cup {0}
      BY <3>1 DEF Own, Forward
    <3>3. GoodSetup(op)
      BY <1>2, <1>4, <2>1, <3>2, UndoSetup
    <3> QED
      BY <1>7, <1>8, <3>3 DEF Good
  <2>3. ASSUME p.failed PROVE Good(op)
    <3>1. op.failed = p.failed
      BY UndoIs
    <3> QED
      BY <1>7, <1>8, <2>3, <3>1 DEF Good, GoodSetup
  <2>4. Good(op)
    BY <2>2, <2>3 DEF Op
  <2> QED
    BY <1>2, <1>7, <2>4
<1>9. CASE p.kind = "resetup"
  <2>1. GoodResetup(p) /\ p.stage \in {"category", "create", "post", "swap"}
    BY <1>2, <1>4, <1>9 DEF Good, Fits
  <2>2. p.mine = <<>> /\ p.chan # p.target.channel
    BY <1>2, <1>9, <2>1 DEF GoodResetup, Replacing, Fits
  <2>3. p.target.channel \notin Range(cs)
    BY <2>2, SeqRange
  <2>4. GoodResetup(op)
    BY <2>1, <2>3, UndoResetup
  <2>5. Good(op)
    BY <1>7, <1>9, <2>4 DEF Good
  <2> QED
    BY <1>2, <1>7, <2>5
<1> QED
  BY <1>2, <1>4, <1>8, <1>9 DEF Fits, Provisioning

LEMMA UndoGood ==
  ASSUME Base, NEW a \in Admins, ~Free(a), command[a].alone, Good(command[a]),
         \/ UndoMade(a) /\ command[a].stage \in {"category", "create"}
         \/ UndoWithNew(a) /\ command[a].stage \in {"post", "record", "swap"},
         UNCHANGED <<channels, records>>
  PROVE  Good(command[a])'
<1>1. PICK p \in Op : p = command[a]
  BY RunsIs
<1>2. /\ p.mine \in Seq(Nat) /\ Append(p.mine, p.chan) \in Seq(Nat)
      /\ Range(Append(p.mine, p.chan)) = Range(p.mine) \cup {p.chan}
  BY MadeIs
<1>3. PICK cs \in Seq(Nat) :
        /\ On(a, Undo(p, cs))
        /\ \/ cs = p.mine /\ p.stage \in {"category", "create"}
           \/ Range(cs) = Range(p.mine) \cup {p.chan} /\ p.stage \in {"post", "record", "swap"}
  <2>1. CASE UndoMade(a) /\ p.stage \in {"category", "create"}
    BY <1>1, <1>2, <2>1 DEF UndoMade
  <2>2. CASE UndoWithNew(a) /\ p.stage \in {"post", "record", "swap"}
    BY <1>1, <1>2, <2>2 DEF UndoWithNew
  <2> QED
    BY <1>1, <2>1, <2>2
<1>4. PICK op : op = Undo(p, cs)
  OBVIOUS
<1>5. op \in Op /\ op.alone /\ Good(op)
  BY <1>1, <1>3, <1>4, UndoneGood
<1> QED
  BY <1>3, <1>4, <1>5, GoodUnchanged, AloneOn

\* A new channel is nothing to a command that undoes what it has done, unless it
\* has the name of a type which that command sets up.
LEMMA GoodStray ==
  ASSUME NEW op \in Op, Good(op), op.alone, op.kind \in {"custom", "resetup"}, op.aborting,
         op.stage \in {"over", "delete"}, op.kind = "custom" /\ ~op.failed => op.gone = {},
         UNCHANGED records, NEW new, new # op.chan, new \notin DOMAIN channels,
         DOMAIN channels' = DOMAIN channels \cup {new},
         \A c \in DOMAIN channels : channels'[c] = channels[c]
  PROVE  Good(op)'
<1>1. ASSUME op.kind = "custom", ~op.failed PROVE GoodSetup(op)'
  <2>1. KeepsToItsTypes(op) /\ Backward(op) /\ op.gone = {}
    BY <1>1 DEF Good, GoodSetup
  <2>2. KeepsToItsTypes(op)'
    BY <1>1, <2>1 DEF KeepsToItsTypes, Own
  <2>3. Backward(op)'
    BY <1>1, <2>1 DEF Backward, Own, Exists
  <2> QED
    BY <2>2, <2>3 DEF GoodSetup
<1>2. ASSUME op.kind = "custom" PROVE GoodSetup(op)'
  BY <1>1, <1>2 DEF GoodSetup, Op
<1>3. ASSUME op.kind = "resetup" PROVE GoodResetup(op)'
  <2>1. GoodResetup(op)
    BY <1>3 DEF Good
  <2>2. CASE op.stage = "over"
    BY <2>1, <2>2 DEF GoodResetup, Settled, OldThere, NewThere, New, Exists
  <2>3. CASE op.stage = "delete"
    BY <2>1, <2>3 DEF GoodResetup, RollingBack, OldThere, Exists
  <2> QED
    BY <2>2, <2>3
<1> QED
  BY <1>2, <1>3 DEF Good

\* What a step of a command that runs alone starts from.
LEMMA RunsAlone ==
  ASSUME Base, NEW a \in Admins, ~Free(a), command[a].alone, Good(command[a])
  PROVE  \E p \in Op :
           /\ p = command[a] /\ p.alone /\ Fits(p) /\ TypeOK /\ made \in Nat /\ rows \in Nat
           /\ p.kind \in {"setup", "custom"} => GoodSetup(p)
           /\ p.kind = "resetup" => GoodResetup(p)
           /\ p.kind = "cleanup" => GoodCleanup(p)
BY RunsIs DEF Good, Base, Stored

LEMMA CreateCategoryGood ==
  ASSUME Base, NEW a \in Admins, command[a].alone, Good(command[a]), CreateCategory(a)
  PROVE  Good(command[a])'
<1>1. ~Free(a) /\ command[a].stage = "category" /\ command[a].kind \in Provisioning
      /\ UNCHANGED <<channels, records>>
  BY DEF CreateCategory, At, Free
<1>2. CASE GoesTo(a, "create")
  <2>1. PICK p \in Op :
          /\ p = command[a] /\ p.alone
          /\ p.kind \in {"setup", "custom"} => GoodSetup(p)
          /\ p.kind = "resetup" => GoodResetup(p)
    BY <1>1, RunsAlone
  <2>2. PICK op : op = [p EXCEPT !.stage = "create"]
    OBVIOUS
  <2>3. /\ op \in Op /\ op.stage = "create" /\ op.kind = p.kind /\ op.types = p.types
        /\ op.chan = p.chan /\ op.mine = p.mine /\ op.target = p.target
        /\ op.later = p.later /\ op.doomed = p.doomed /\ op.gone = p.gone
        /\ op.alone = p.alone /\ op.asked = p.asked /\ op.used = p.used
    BY <2>2 DEF Op, Stages
  <2>4. op.aborting = p.aborting /\ op.failed = p.failed
    BY <2>2 DEF Op
  <2>5. ASSUME p.kind \in {"setup", "custom"} PROVE GoodSetup(op)
    <3>1. ASSUME ~p.failed PROVE GoodSetup(op)
      <4>1. ~p.aborting /\ Forward(p) /\ KeepsToItsTypes(p)
        BY <1>1, <2>1, <2>5, <3>1, GoesForward
      <4>2. Forward(op) /\ KeepsToItsTypes(op)
        BY <1>1, <2>1, <2>3, <4>1 DEF Forward, KeepsToItsTypes, Own, Elsewhere
      <4> QED
        BY <2>4, <4>1, <4>2 DEF GoodSetup
    <3>2. ASSUME p.failed PROVE GoodSetup(op)
      BY <2>4, <3>2 DEF GoodSetup
    <3> QED
      BY <3>1, <3>2 DEF Op
  <2>6. ASSUME p.kind = "resetup" PROVE GoodResetup(op)
    <3>1. GoodResetup(p) /\ Replacing(p)
      BY <1>1, <2>1, <2>6 DEF GoodResetup
    <3>2. Replacing(op)
      BY <2>3, <2>4, <3>1 DEF Replacing, OldThere, OthersIn
    <3> QED
      BY <2>3, <3>1, <3>2 DEF GoodResetup
  <2>7. Good(op)
    BY <1>1, <2>1, <2>3, <2>5, <2>6 DEF Good, Provisioning
  <2> QED
    BY <1>1, <1>2, <2>1, <2>2, <2>3, <2>7, GoodUnchanged, AloneOn DEF GoesTo
<1>3. CASE UndoMade(a)
  BY <1>1, <1>3, UndoGood
<1> QED
  BY <1>2, <1>3 DEF CreateCategory

LEMMA CreateTextChannelGood ==
  ASSUME Base, NEW a \in Admins, command[a].alone, Good(command[a]), CreateTextChannel(a)
  PROVE  Good(command[a])'
<1> DEFINE name == IF command[a].kind = "setup" THEN Head(command[a].types) ELSE command[a].name
<1>1. ~Free(a) /\ command[a].stage = "create" /\ command[a].kind \in Provisioning
      /\ UNCHANGED records
  BY DEF CreateTextChannel, At, Free
<1>2. CASE /\ channels' = With(channels, made + 1, [name |-> name, posted |-> FALSE])
           /\ On(a, [command[a] EXCEPT !.stage = "post", !.chan = made + 1])
  <2>1. PICK p \in Op :
          /\ p = command[a] /\ p.alone /\ Fits(p) /\ TypeOK /\ made \in Nat
          /\ p.kind \in {"setup", "custom"} => GoodSetup(p)
          /\ p.kind = "resetup" => GoodResetup(p)
    BY <1>1, RunsAlone
  <2>2. PICK new \in Nat : new = made + 1
    BY <2>1
  <2>3. PICK op : op = [p EXCEPT !.stage = "post", !.chan = new]
    OBVIOUS
  <2>4. /\ op \in Op /\ op.stage = "post" /\ op.kind = p.kind /\ op.types = p.types
        /\ op.chan = new /\ op.mine = p.mine /\ op.target = p.target
        /\ op.later = p.later /\ op.doomed = p.doomed /\ op.gone = p.gone
        /\ op.alone = p.alone /\ op.asked = p.asked /\ op.used = p.used
    BY <2>3 DEF Op, Stages
  <2>5. op.aborting = p.aborting /\ op.failed = p.failed
    BY <2>3 DEF Op
  <2>6. /\ DOMAIN channels' = DOMAIN channels \cup {new} /\ new \notin DOMAIN channels
        /\ \A c \in DOMAIN channels : channels'[c] = channels[c]
        /\ \A r \in records : r.channel # new /\ r.channel # 0
        /\ 0 \notin DOMAIN channels
    <3>1. DOMAIN channels \subseteq 1..made /\ \A c \in 1..made : c # new /\ c # 0
      BY <2>1, <2>2 DEF TypeOK
    <3>2. \A r \in records : r.channel \in 1..made
      BY <2>1 DEF TypeOK
    <3> QED
      BY <1>2, <2>2, <3>1, <3>2 DEF With
  <2>7. ASSUME p.kind \in {"setup", "custom"} PROVE GoodSetup(op)'
    <3>1. ASSUME ~p.failed PROVE GoodSetup(op)'
      <4>1. ~p.aborting /\ Forward(p) /\ KeepsToItsTypes(p)
        BY <1>1, <2>1, <2>7, <3>1, GoesForward
      <4>2. KeepsToItsTypes(op)'
        BY <1>1, <2>4, <2>6, <4>1 DEF KeepsToItsTypes, Own, Recorded
      <4>3. /\ op.stage = "post" /\ Range(op.types) \subseteq op.asked /\ IsInjective(op.types)
            /\ op.doomed = <<>> /\ op.gone = {}
        BY <2>4, <4>1 DEF Forward
      <4>4. new \in DOMAIN channels'
        BY <2>6
      <4>5. /\ \A t \in Range(op.types) : Recorded(t)' = {}
            /\ \A t \in op.asked \ Range(op.types) :
                 \E r \in records' : /\ Recorded(t)' = {r} /\ r.channel \in DOMAIN channels'
                                     /\ r.channel \in Range(op.mine)
        BY <1>1, <2>4, <2>6, <4>1 DEF Forward, Recorded, Exists
      <4>6. op.kind = "setup" => \A c \in DOMAIN channels' :
              channels'[c].name \in op.asked => c \in Own(op) \/ Elsewhere(op, c)'
        <5> SUFFICES ASSUME op.kind = "setup", NEW c \in DOMAIN channels',
                            channels'[c].name \in op.asked, c # new
                     PROVE  c \in Range(op.mine) \/ Elsewhere(op, c)'
          BY <2>4 DEF Own
        <5>1. c \in DOMAIN channels /\ c # 0 /\ channels[c].name \in p.asked
          BY <2>4, <2>6
        <5>2. c \in Own(p) \/ Elsewhere(p, c)
          BY <2>4, <4>1, <5>1 DEF Forward
        <5>3. p.chan \in Range(p.mine) \cup {0}
          BY <1>1, <2>1, <4>1 DEF Forward
        <5> QED
          BY <1>1, <2>4, <5>1, <5>2, <5>3 DEF Own, Elsewhere
      <4>7. Forward(op)'
        BY <2>4, <4>3, <4>4, <4>5, <4>6 DEF Forward, Exists
      <4> QED
        BY <2>5, <4>1, <4>2, <4>7 DEF GoodSetup
    <3>2. ASSUME p.failed PROVE GoodSetup(op)'
      BY <2>5, <3>2 DEF GoodSetup
    <3> QED
      BY <3>1, <3>2 DEF Op
  <2>8. ASSUME p.kind = "resetup" PROVE GoodResetup(op)'
    <3>1. GoodResetup(p) /\ Replacing(p)
      BY <1>1, <2>1, <2>8 DEF GoodResetup
    <3>2. Replacing(op)'
      BY <1>1, <2>4, <2>5, <2>6, <3>1 DEF Replacing, OldThere, OthersIn, Recorded, Exists
    <3> QED
      BY <2>4, <3>1, <3>2 DEF GoodResetup
  <2>9. Good(op)'
    BY <1>1, <2>1, <2>4, <2>7, <2>8 DEF Good, Provisioning
  <2> QED
    BY <1>1, <1>2, <2>1, <2>2, <2>3, <2>4, <2>9, AloneOn
<1>3. CASE UndoMade(a) /\ UNCHANGED channels
  BY <1>1, <1>3, UndoGood
<1>4. CASE /\ channels' = With(channels, made + 1, [name |-> name, posted |-> FALSE])
           /\ On(a, IF command[a].kind = "setup" THEN Crowded(Undo(command[a], command[a].mine))
                                               ELSE Undo(command[a], command[a].mine))
  <2>1. PICK p \in Op :
          /\ p = command[a] /\ p.alone /\ Fits(p) /\ TypeOK /\ made \in Nat
          /\ p.kind \in {"setup", "custom"} => GoodSetup(p)
          /\ p.kind = "resetup" => GoodResetup(p)
    BY <1>1, RunsAlone
  <2>2. p.mine \in Seq(Nat) /\ p.chan \in Nat /\ p.chan <= made
    BY <2>1 DEF Op, Fits
  <2>3. PICK op : op = Undo(p, p.mine)
    OBVIOUS
  <2>4. /\ op \in Op /\ op.kind = p.kind /\ op.alone /\ Good(op)
    BY <1>1, <2>1, <2>2, <2>3, UndoneGood
  <2>5. /\ op.chan = p.chan /\ op.gone = p.gone /\ op.aborting /\ op.failed = p.failed
        /\ op.stage \in {"over", "delete"}
    BY <2>2, <2>3, UndoIs
  <2>6. CASE p.kind = "setup"
    <3>1. On(a, Crowded(op))
      BY <1>4, <2>1, <2>3, <2>6
    <3> QED
      BY <1>1, <2>4, <3>1, CrowdedOnGood
  <2>7. CASE p.kind # "setup"
    <3>1. On(a, op) /\ p.kind \in {"custom", "resetup"}
      BY <1>1, <1>4, <2>1, <2>3, <2>7 DEF Provisioning
    <3>2. PICK new \in Nat : new = made + 1
      BY <2>1
    <3>3. /\ DOMAIN channels' = DOMAIN channels \cup {new} /\ new \notin DOMAIN channels
          /\ \A c \in DOMAIN channels : channels'[c] = channels[c]
      <4>1. DOMAIN channels \subseteq 1..made /\ \A c \in 1..made : c # new
        BY <2>1, <3>2 DEF TypeOK
      <4> QED
        BY <1>4, <3>2, <4>1 DEF With
    <3>4. p.kind = "custom" /\ ~p.failed => p.gone = {}
      BY <1>1, <2>1, GoesForward DEF Forward
    <3>5. new # op.chan
      BY <2>1, <2>2, <2>5, <3>2
    <3>6. Good(op)'
      BY <1>1, <2>4, <2>5, <3>1, <3>3, <3>4, <3>5, GoodStray
    <3> QED
      BY <1>1, <2>4, <3>1, <3>6, AloneOn
  <2> QED
    BY <2>6, <2>7
<1> QED
  BY <1>2, <1>3, <1>4 DEF CreateTextChannel

LEMMA SendInitialMessageGood ==
  ASSUME Base, NEW a \in Admins, command[a].alone, Good(command[a]), SendInitialMessage(a)
  PROVE  Good(command[a])'
<1> DEFINE next == IF command[a].kind = "resetup" THEN "swap" ELSE "record"
<1>1. ~Free(a) /\ command[a].stage = "post" /\ command[a].kind \in Provisioning
      /\ UNCHANGED records
  BY DEF SendInitialMessage, At, Free
<1>2. CASE /\ Exists(command[a].chan)
           /\ channels' = [channels EXCEPT ![command[a].chan].posted = TRUE]
           /\ GoesTo(a, next)
  <2>1. PICK p \in Op :
          /\ p = command[a] /\ p.alone /\ TypeOK
          /\ p.kind \in {"setup", "custom"} => GoodSetup(p)
          /\ p.kind = "resetup" => GoodResetup(p)
    BY <1>1, RunsAlone
  <2>2. PICK st \in Stages : st = next
    BY DEF Stages
  <2>3. PICK op : op = [p EXCEPT !.stage = st]
    OBVIOUS
  <2>4. /\ op \in Op /\ op.stage = st /\ op.kind = p.kind /\ op.types = p.types
        /\ op.chan = p.chan /\ op.mine = p.mine /\ op.target = p.target
        /\ op.later = p.later /\ op.doomed = p.doomed /\ op.gone = p.gone
        /\ op.alone = p.alone /\ op.asked = p.asked /\ op.used = p.used
    BY <2>3, StageIs
  <2>5. op.aborting = p.aborting /\ op.failed = p.failed
    BY <2>3, StageIs
  <2>6. /\ DOMAIN channels' = DOMAIN channels /\ p.chan \in DOMAIN channels
        /\ \A c \in DOMAIN channels : channels'[c].name = channels[c].name
    <3>1. \A c \in DOMAIN channels : channels[c] \in [name : Names, posted : BOOLEAN]
      BY <2>1 DEF TypeOK
    <3> QED
      BY <1>2, <2>1, <3>1 DEF Exists
  <2>7. ASSUME p.kind \in {"setup", "custom"} PROVE GoodSetup(op)'
    <3>0. op.stage = "record"
      BY <2>1, <2>2, <2>4, <2>7
    <3>1. ASSUME ~p.failed PROVE GoodSetup(op)'
      <4>1. ~p.aborting /\ Forward(p) /\ KeepsToItsTypes(p)
        BY <1>1, <2>1, <2>7, <3>1, GoesForward
      <4>2. KeepsToItsTypes(op)'
        BY <1>1, <2>4, <4>1 DEF KeepsToItsTypes, Own, Recorded
      <4>3. Forward(op)'
        BY <1>1, <2>4, <2>6, <3>0, <4>1 DEF Forward, Own, Elsewhere, Recorded, Exists
      <4> QED
        BY <2>5, <4>1, <4>2, <4>3 DEF GoodSetup
    <3>2. ASSUME p.failed PROVE GoodSetup(op)'
      BY <2>5, <3>2 DEF GoodSetup
    <3> QED
      BY <3>1, <3>2 DEF Op
  <2>8. ASSUME p.kind = "resetup" PROVE GoodResetup(op)'
    <3>1. GoodResetup(p) /\ Replacing(p)
      BY <1>1, <2>1, <2>8 DEF GoodResetup
    <3>2. op.stage = "swap"
      BY <2>1, <2>2, <2>4, <2>8
    <3>3. Replacing(op)'
      BY <1>1, <2>4, <2>5, <2>6, <3>1 DEF Replacing, OldThere, OthersIn, Recorded, Exists
    <3> QED
      BY <2>4, <3>1, <3>2, <3>3 DEF GoodResetup
  <2>9. Good(op)'
    BY <1>1, <2>1, <2>4, <2>7, <2>8 DEF Good, Provisioning
  <2> QED
    BY <1>1, <1>2, <2>1, <2>2, <2>3, <2>4, <2>9, AloneOn DEF GoesTo
<1>3. CASE UndoWithNew(a) /\ UNCHANGED channels
  BY <1>1, <1>3, UndoGood
<1> QED
  BY <1>2, <1>3 DEF SendInitialMessage

LEMMA CreateRecordGood ==
  ASSUME Base, NEW a \in Admins, command[a].alone, Good(command[a]), CreateRecord(a)
  PROVE  Good(command[a])'
<1> DEFINE next == IF Len(command[a].types) = 1 THEN "over" ELSE "create"
<1>1. ~Free(a) /\ command[a].stage = "record" /\ command[a].kind \in {"setup", "custom"}
      /\ UNCHANGED channels
  BY DEF CreateRecord, At, Free
<1>2. CASE /\ records' = records \cup {[id |-> rows + 1, type |-> Head(command[a].types),
                                       channel |-> command[a].chan]}
           /\ On(a, [command[a] EXCEPT !.stage = next, !.types = Tail(@),
                                       !.mine = Append(@, command[a].chan)])
  <2>1. PICK p \in Op :
          /\ p = command[a] /\ p.alone /\ Fits(p) /\ TypeOK
          /\ p.kind \in {"setup", "custom"} => GoodSetup(p)
    BY <1>1, RunsAlone
  <2>2. p.types \in Seq(Types) /\ p.types # <<>> /\ p.mine \in Seq(Nat) /\ p.chan \in Nat
    BY <1>1, <2>1 DEF Fits, Op
  <2>3. PICK st \in Stages, left \in Seq(Types), mine \in Seq(Nat) :
          /\ left = Tail(p.types) /\ mine = Append(p.mine, p.chan)
          /\ st = IF left = <<>> THEN "over" ELSE "create"
          /\ st = next
          /\ Range(mine) = Range(p.mine) \cup {p.chan}
          /\ Range(p.types) = Range(left) \cup {Head(p.types)}
          /\ IsInjective(p.types) => IsInjective(left) /\ Head(p.types) \notin Range(left)
    <3>1. /\ Tail(p.types) \in Seq(Types)
          /\ Len(p.types) = 1 <=> Tail(p.types) = <<>>
          /\ Range(p.types) = Range(Tail(p.types)) \cup {Head(p.types)}
          /\ IsInjective(p.types) =>
               IsInjective(Tail(p.types)) /\ Head(p.types) \notin Range(Tail(p.types))
      BY <2>2, HeadAndTail
    <3>2. /\ Append(p.mine, p.chan) \in Seq(Nat)
          /\ Range(Append(p.mine, p.chan)) = Range(p.mine) \cup {p.chan}
      BY MadeIs
    <3>3. next = IF Tail(p.types) = <<>> THEN "over" ELSE "create"
      BY <2>1, <3>1
    <3>4. next \in Stages
      BY DEF Stages
    <3> HIDE DEF next
    <3> QED
      BY <3>1, <3>2, <3>3, <3>4
  <2>4. PICK op : op = [p EXCEPT !.stage = st, !.types = left, !.mine = mine]
    OBVIOUS
  <2>5. /\ op \in Op /\ op.stage = st /\ op.kind = p.kind /\ op.types = left
        /\ op.chan = p.chan /\ op.mine = mine /\ op.doomed = p.doomed /\ op.gone = p.gone
        /\ op.alone = p.alone /\ op.asked = p.asked
    BY <2>4 DEF Op
  <2>6. op.aborting = p.aborting /\ op.failed = p.failed
    BY <2>4 DEF Op
  <2>7. PICK new : new = [id |-> rows + 1, type |-> Head(p.types), channel |-> p.chan]
    OBVIOUS
  <2>8. records' = records \cup {new} /\ new.type = Head(p.types) /\ new.channel = p.chan
    BY <1>2, <2>1, <2>7
  <2>9. On(a, op)
    BY <1>2, <2>1, <2>3, <2>4
  <2>10. ASSUME ~p.failed PROVE GoodSetup(op)'
    <3>1. ~p.aborting /\ Forward(p) /\ KeepsToItsTypes(p)
      BY <1>1, <2>1, <2>10, GoesForward
    <3>2. Own(op) = Own(p) /\ Head(p.types) \in p.asked
      BY <2>3, <2>5, <3>1 DEF Own, Forward
    <3>3. KeepsToItsTypes(op)'
      <4>1. \A r \in records' : r.type \notin op.asked => r.channel \notin Own(op)
        BY <2>5, <2>8, <3>1, <3>2 DEF KeepsToItsTypes
      <4>2. op.kind = "setup" => \A t \in Types \ op.asked : Recorded(t)' # {}
        BY <2>5, <2>8, <3>1 DEF KeepsToItsTypes, Recorded
      <4> QED
        BY <4>1, <4>2 DEF KeepsToItsTypes, Own
    <3>4. \A t \in Range(left) : Recorded(t)' = {}
      BY <2>3, <2>8, <3>1 DEF Forward, Recorded
    <3>5. ASSUME NEW t \in p.asked \ Range(left)
          PROVE  \E r \in records' : /\ Recorded(t)' = {r} /\ r.channel \in DOMAIN channels
                                     /\ r.channel \in Range(mine)
      <4>1. CASE t = Head(p.types)
        <5>1. Recorded(t) = {}
          BY <2>3, <3>1, <4>1 DEF Forward
        <5>2. Recorded(t)' = {new}
          BY <2>8, <4>1, <5>1 DEF Recorded
        <5>3. p.chan \in DOMAIN channels
          BY <1>1, <2>1, <3>1 DEF Forward, Exists
        <5> QED
          BY <2>3, <2>8, <5>2, <5>3
      <4>2. CASE t # Head(p.types)
        <5>1. t \in p.asked \ Range(p.types)
          BY <2>3, <4>2
        <5>2. PICK r \in records : /\ Recorded(t) = {r} /\ Exists(r.channel)
                                   /\ r.channel \in Range(p.mine)
          BY <3>1, <5>1 DEF Forward
        <5>3. Recorded(t)' = Recorded(t)
          BY <2>8, <4>2 DEF Recorded
        <5> QED
          BY <2>3, <2>8, <5>2, <5>3 DEF Exists
      <4> QED
        BY <4>1, <4>2
    <3>6. op.kind = "setup" => \A c \in DOMAIN channels :
            channels[c].name \in op.asked => c \in Own(op) \/ Elsewhere(op, c)'
      BY <2>5, <2>8, <3>1, <3>2 DEF Forward, Elsewhere
    <3>7. /\ st \in {"create", "over"} /\ Range(left) \subseteq p.asked /\ IsInjective(left)
          /\ st = "over" => left = <<>>
          /\ p.chan \in Range(mine) /\ p.doomed = <<>> /\ p.gone = {}
      BY <2>3, <3>1 DEF Forward
    <3>8. Forward(op)'
      BY <1>1, <2>5, <3>4, <3>5, <3>6, <3>7 DEF Forward, Exists, Own
    <3> QED
      BY <2>6, <3>1, <3>3, <3>8 DEF GoodSetup
  <2>11. ASSUME p.failed PROVE GoodSetup(op)'
    BY <2>6, <2>11 DEF GoodSetup
  <2>12. GoodSetup(op)'
    BY <2>10, <2>11 DEF Op
  <2>13. Good(op)'
    BY <1>1, <2>1, <2>5, <2>12 DEF Good
  <2> QED
    BY <1>1, <2>1, <2>5, <2>9, <2>13, AloneOn
<1>3. CASE UndoWithNew(a) /\ UNCHANGED records
  BY <1>1, <1>3, UndoGood
<1> QED
  BY <1>2, <1>3 DEF CreateRecord

\* What a resetup's change of its record does to the table.
LEMMA RepointIs ==
  ASSUME TypeOK, NEW target \in records, NEW c, NEW new, new = [target EXCEPT !.channel = c],
         records' = Repoint(target.id, c)
  PROVE  /\ new \in records' /\ new.type = target.type /\ new.channel = c /\ new.id = target.id
         /\ \A q \in records' : q = new \/ (q \in records /\ q # target)
         /\ \A q \in records : q = target \/ q \in records'
<1>1. new.type = target.type /\ new.channel = c /\ new.id = target.id
  BY DEF TypeOK
<1>2. \A r \in records : r.id = target.id => r = target
  BY DEF TypeOK
<1>3. new \in records'
  BY DEF Repoint
<1>4. \A q \in records' : q = new \/ (q \in records /\ q # target)
  BY <1>2 DEF Repoint
<1>5. \A q \in records : q = target \/ q \in records'
  BY <1>2 DEF Repoint
<1> QED
  BY <1>1, <1>3, <1>4, <1>5

LEMMA UpdateRecordGood ==
  ASSUME Base, NEW a \in Admins, command[a].alone, Good(command[a]), UpdateRecord(a)
  PROVE  Good(command[a])'
<1>1. ~Free(a) /\ command[a].stage = "swap" /\ command[a].kind = "resetup"
      /\ UNCHANGED channels
  BY DEF UpdateRecord, At, Free
<1>2. CASE /\ records' = Repoint(command[a].target.id, command[a].chan)
           /\ GoesTo(a, "retire")
  <2>1. PICK p \in Op : /\ p = command[a] /\ p.alone /\ TypeOK /\ GoodResetup(p)
    BY <1>1, RunsAlone
  <2>2. PICK op : op = [p EXCEPT !.stage = "retire"]
    OBVIOUS
  <2>3. /\ op \in Op /\ op.stage = "retire" /\ op.kind = p.kind
        /\ op.chan = p.chan /\ op.mine = p.mine /\ op.target = p.target
        /\ op.later = p.later /\ op.doomed = p.doomed /\ op.gone = p.gone
        /\ op.alone = p.alone /\ op.asked = p.asked /\ op.used = p.used
    BY <2>2 DEF Op, Stages
  <2>4. op.aborting = p.aborting /\ op.failed = p.failed
    BY <2>2 DEF Op
  <2>5. Replacing(p) /\ p.target \in records /\ Exists(p.chan)
    BY <1>1, <2>1 DEF GoodResetup, Replacing, OldThere
  <2>6. PICK new : new = [p.target EXCEPT !.channel = p.chan]
    OBVIOUS
  <2>7. /\ new \in records' /\ new.type = p.target.type /\ new.channel = p.chan
        /\ \A q \in records' : q = new \/ (q \in records /\ q # p.target)
    BY <1>2, <2>1, <2>5, <2>6, RepointIs
  <2>8. New(op) = new
    BY <2>3, <2>6 DEF New
  <2>9. NewThere(op)'
    BY <1>1, <2>3, <2>5, <2>7, <2>8 DEF NewThere, New, Exists
  <2>10. OthersIn(op, new, Range(op.later))'
    BY <2>3, <2>5, <2>7 DEF Replacing, OthersIn, Recorded
  <2>11. Replaced(op)'
    BY <2>3, <2>4, <2>5, <2>8, <2>9, <2>10 DEF Replaced, Replacing, New
  <2>12. GoodResetup(op)'
    BY <2>1, <2>3, <2>11 DEF GoodResetup
  <2>13. Good(op)'
    BY <1>1, <2>1, <2>3, <2>12 DEF Good
  <2> QED
    BY <1>1, <1>2, <2>1, <2>2, <2>3, <2>13, AloneOn DEF GoesTo
<1>3. CASE UndoWithNew(a) /\ UNCHANGED records
  BY <1>1, <1>3, UndoGood
<1> QED
  BY <1>2, <1>3 DEF UpdateRecord

LEMMA DeleteOldChannelGood ==
  ASSUME Base, NEW a \in Admins, command[a].alone, Good(command[a]), DeleteOldChannel(a)
  PROVE  Good(command[a])'
<1>1. ~Free(a) /\ command[a].stage = "retire" /\ command[a].kind = "resetup"
      /\ UNCHANGED records
  BY DEF DeleteOldChannel, At, Free
<1>2. PICK p \in Op : /\ p = command[a] /\ p.alone /\ TypeOK /\ Fits(p) /\ GoodResetup(p)
  BY <1>1, RunsAlone
<1>3. Replaced(p) /\ p.chan # p.target.channel /\ p.chan \notin Range(p.later)
  BY <1>1, <1>2 DEF GoodResetup, Fits
<1>4. CASE /\ channels' = Restrict(channels, DOMAIN channels \ {command[a].target.channel})
           /\ On(a, Rest(command[a]))
  <2>1. PICK op : op = Rest(p)
    OBVIOUS
  <2>2. /\ op \in Op /\ op.kind = p.kind /\ op.chan = p.chan /\ op.target = p.target
        /\ op.later = p.later /\ op.gone = p.gone /\ op.doomed = p.later
        /\ op.alone = p.alone /\ op.asked = p.asked /\ op.used = p.used
        /\ op.stage = IF p.later = <<>> THEN "over" ELSE "delete"
    BY <2>1, RestIs
  <2>3. op.aborting = p.aborting /\ op.failed = p.failed
    BY <2>1, RestIs
  <2>4. /\ DOMAIN channels' = DOMAIN channels \ {p.target.channel}
        /\ p.chan \in DOMAIN channels'
    BY <1>2, <1>3, <1>4 DEF Replaced, NewThere, Exists, Restrict
  <2>5. New(op) = New(p)
    BY <2>2 DEF New
  <2>6. NewThere(op)' /\ OthersIn(op, New(op), Range(op.later))'
    <3>1. NewThere(op)'
      BY <1>1, <1>3, <2>2, <2>4, <2>5 DEF Replaced, NewThere, New, Exists
    <3>2. OthersIn(op, New(op), Range(op.later))'
      BY <1>1, <1>3, <2>2, <2>5 DEF Replaced, OthersIn, Recorded, New
    <3> QED
      BY <3>1, <3>2
  <2>7. ~op.aborting /\ ~op.failed /\ op.gone = {}
    BY <1>3, <2>2, <2>3 DEF Replaced
  <2>8. CASE p.later = <<>>
    <3>1. Range(op.later) = {}
      <4>1. p.later \in Seq(Nat)
        BY DEF Op
      <4> QED
        BY <2>2, <2>8, <4>1, SeqRange
    <3>2. Recorded(op.target.type)' = {New(op)}'
      <4>1. New(op) \in records' /\ New(op).type = op.target.type
        BY <1>2, <1>3, <2>2, <2>5, <2>6 DEF NewThere, New, Op, Row, Fits
      <4>2. \A s \in Recorded(op.target.type)' : s = New(op)
        BY <2>6, <3>1 DEF OthersIn, New
      <4> QED
        BY <4>1, <4>2 DEF Recorded, New
    <3>3. Settled(op)'
      BY <2>6, <3>1, <3>2 DEF Settled
    <3>4. op.stage = "over"
      BY <2>2, <2>8
    <3>5. GoodResetup(op)'
      BY <1>2, <2>2, <3>3, <3>4 DEF GoodResetup
    <3>6. Good(op)'
      BY <1>1, <1>2, <2>2, <3>5 DEF Good
    <3> QED
      BY <1>1, <1>2, <1>4, <2>1, <2>2, <3>6, AloneOn
  <2>9. CASE p.later # <<>>
    <3>1. ClearingUp(op)'
      BY <1>3, <2>2, <2>6, <2>7, <2>9 DEF ClearingUp
    <3>2. GoodResetup(op)'
      BY <1>2, <2>2, <2>7, <2>9, <3>1 DEF GoodResetup
    <3> QED
      BY <1>1, <1>2, <1>4, <2>1, <2>2, <3>2, AloneOn DEF Good
  <2> QED
    BY <2>8, <2>9
<1>5. CASE Exists(command[a].target.channel) /\ GoesTo(a, "restore") /\ UNCHANGED channels
  <2>1. PICK op : op = [p EXCEPT !.stage = "restore"]
    OBVIOUS
  <2>2. /\ op \in Op /\ op.stage = "restore" /\ op.kind = p.kind
        /\ op.chan = p.chan /\ op.mine = p.mine /\ op.target = p.target
        /\ op.later = p.later /\ op.doomed = p.doomed /\ op.gone = p.gone
        /\ op.alone = p.alone /\ op.asked = p.asked /\ op.used = p.used
    BY <2>1 DEF Op, Stages
  <2>3. op.aborting = p.aborting /\ op.failed = p.failed
    BY <2>1 DEF Op
  <2>4. Replaced(op)
    BY <1>2, <1>3, <1>5, <2>2, <2>3 DEF Replaced, NewThere, New, OthersIn
  <2>5. Good(op)
    BY <1>1, <1>2, <2>2, <2>4 DEF Good, GoodResetup
  <2> QED
    BY <1>1, <1>2, <1>5, <2>1, <2>2, <2>5, GoodUnchanged, AloneOn DEF GoesTo
<1>6. CASE On(a, Crowded([command[a] EXCEPT !.stage = "restore"]))
  <2>1. PICK q \in Op : q = [p EXCEPT !.stage = "restore"]
    BY StageIs DEF Stages
  <2> QED
    BY <1>1, <1>2, <1>6, <2>1, CrowdedOnGood
<1> QED
  BY <1>4, <1>5, <1>6 DEF DeleteOldChannel

LEMMA RestoreRecordGood ==
  ASSUME Base, NEW a \in Admins, command[a].alone, Good(command[a]), RestoreRecord(a)
  PROVE  Good(command[a])'
<1>1. ~Free(a) /\ command[a].stage = "restore" /\ command[a].kind = "resetup"
      /\ UNCHANGED channels
  BY DEF RestoreRecord, At, Free
<1>2. PICK p \in Op : /\ p = command[a] /\ p.alone /\ TypeOK /\ Fits(p) /\ GoodResetup(p)
  BY <1>1, RunsAlone
<1>3. Replaced(p) /\ NewThere(p) /\ Exists(p.target.channel) /\ p.gone = {} /\ p.doomed = <<>>
  BY <1>1, <1>2 DEF GoodResetup, Replaced
<1>4. CASE /\ records' = Repoint(command[a].target.id, command[a].target.channel)
           /\ GoesTo(a, "drop")
  <2>1. PICK op : op = [p EXCEPT !.stage = "drop"]
    OBVIOUS
  <2>2. /\ op \in Op /\ op.stage = "drop" /\ op.kind = p.kind /\ op.target = p.target
        /\ op.doomed = p.doomed /\ op.gone = p.gone
        /\ op.alone = p.alone /\ op.asked = p.asked /\ op.used = p.used
    BY <2>1 DEF Op, Stages
  <2>3. p.target \in Row
    BY <1>1, <1>2 DEF Fits
  <2>4. New(p) \in records /\ New(p).id = p.target.id
        /\ p.target = [New(p) EXCEPT !.channel = p.target.channel]
    BY <1>3, <2>3 DEF NewThere, New, Row
  <2>5. p.target \in records'
    BY <1>2, <1>4, <2>4, RepointIs
  <2>6. OldThere(op)'
    BY <1>1, <1>3, <2>2, <2>5 DEF OldThere, Exists
  <2>7. Good(op)'
    BY <1>1, <1>2, <1>3, <2>2, <2>6 DEF Good, GoodResetup
  <2> QED
    BY <1>1, <1>2, <1>4, <2>1, <2>2, <2>7, AloneOn DEF GoesTo
<1>5. CASE On(a, Failed(command[a])) /\ UNCHANGED records
  <2>1. PICK op : op = Failed(p)
    OBVIOUS
  <2>2. /\ op \in Op /\ op.kind = p.kind /\ op.chan = p.chan /\ op.target = p.target
        /\ op.alone = p.alone /\ op.asked = p.asked /\ op.used = p.used /\ op.stage = "over"
    BY <2>1, EndIs
  <2>3. op.aborting = TRUE
    BY <2>1, EndIs DEF Op
  <2>4. Settled(op)
    BY <1>3, <2>2, <2>3 DEF Settled, NewThere, New
  <2>5. Good(op)
    BY <1>1, <1>2, <2>2, <2>4 DEF Good, GoodResetup
  <2> QED
    BY <1>1, <1>2, <1>5, <2>1, <2>2, <2>5, GoodUnchanged, AloneOn
<1> QED
  BY <1>4, <1>5 DEF RestoreRecord

LEMMA DropReplacementGood ==
  ASSUME Base, NEW a \in Admins, command[a].alone, Good(command[a]), DropReplacement(a)
  PROVE  Good(command[a])'
<1>1. ~Free(a) /\ command[a].stage = "drop" /\ command[a].kind = "resetup"
      /\ UNCHANGED records
  BY DEF DropReplacement, At, Free
<1>2. PICK p \in Op : /\ p = command[a] /\ p.alone /\ Fits(p) /\ GoodResetup(p)
  BY <1>1, RunsAlone
<1>3. OldThere(p) /\ p.chan # p.target.channel
  BY <1>1, <1>2 DEF GoodResetup, Fits
<1>4. p.target \in records' /\ p.target.channel \in DOMAIN channels'
  BY <1>1, <1>2, <1>3 DEF DropReplacement, MayBeGone, OldThere, Exists, Restrict
<1>5. PICK op : op \in {Aborted(p), Failed(p)} /\ On(a, op)
  BY <1>2 DEF DropReplacement
<1>6. /\ op \in Op /\ op.kind = p.kind /\ op.target = p.target
      /\ op.alone = p.alone /\ op.asked = p.asked /\ op.used = p.used /\ op.stage = "over"
  BY <1>5, EndIs
<1>7. op.aborting = TRUE
  BY <1>5, <1>6 DEF Aborted, Failed, Op
<1>8. Settled(op)'
  BY <1>4, <1>6, <1>7 DEF Settled, OldThere, Exists
<1>9. Good(op)'
  BY <1>1, <1>2, <1>6, <1>8 DEF Good, GoodResetup
<1> QED
  BY <1>1, <1>2, <1>5, <1>6, <1>9, AloneOn

LEMMA DeleteChannelGood ==
  ASSUME Base, NEW a \in Admins, command[a].alone, Good(command[a]), DeleteChannel(a)
  PROVE  Good(command[a])'
<1>1. ~Free(a) /\ command[a].stage = "delete" /\ UNCHANGED records
  BY DEF DeleteChannel, At, Free
<1>2. PICK p \in Op :
        /\ p = command[a] /\ p.alone /\ Fits(p) /\ TypeOK
        /\ p.kind \in {"setup", "custom"} => GoodSetup(p)
        /\ p.kind = "resetup" => GoodResetup(p)
        /\ p.kind = "cleanup" => GoodCleanup(p)
  BY <1>1, RunsAlone
<1>3. p.doomed # <<>> /\ p.doomed \in Seq(Nat) /\ p.gone \in SUBSET Nat /\ p.failed \in BOOLEAN
  BY <1>1, <1>2 DEF Fits, Op
<1>4. PICK c \in Nat : c = Head(p.doomed)
  BY <1>3, HeadAndTail
<1>5. c \in Range(p.doomed)
  BY <1>3, <1>4, HeadAndTail
<1>6. PICK gone \in SUBSET Nat, failed \in BOOLEAN :
        /\ On(a, Deleted(p, gone, failed))
        /\ gone \subseteq p.gone \cup {c} /\ p.gone \subseteq gone
        /\ DOMAIN channels' \subseteq DOMAIN channels
        /\ \A d \in DOMAIN channels' : channels'[d] = channels[d]
        /\ \A d \in DOMAIN channels : d # c => d \in DOMAIN channels'
        /\ ~failed => ~p.failed /\ c \in gone /\ c \notin DOMAIN channels'
  <2>1. CASE /\ channels' = Restrict(channels, DOMAIN channels \ {c})
             /\ On(a, Deleted(p, p.gone \cup {c}, p.failed))
    <3>1. /\ DOMAIN channels' = DOMAIN channels \ {c}
          /\ \A d \in DOMAIN channels' : channels'[d] = channels[d]
      BY <2>1 DEF Restrict
    <3>2. PICK g \in SUBSET Nat, f \in BOOLEAN : g = p.gone \cup {c} /\ f = p.failed
      BY <1>3
    <3> QED
      BY <2>1, <3>1, <3>2
  <2>2. CASE MayBeGone(c) /\ On(a, Deleted(p, p.gone, TRUE))
    <3>1. /\ DOMAIN channels' \subseteq DOMAIN channels
          /\ \A d \in DOMAIN channels' : channels'[d] = channels[d]
          /\ \A d \in DOMAIN channels : d # c => d \in DOMAIN channels'
      BY <2>2 DEF MayBeGone, Restrict
    <3> QED
      BY <1>3, <2>2, <3>1
  <2> QED
    BY <1>2, <1>4, <2>1, <2>2 DEF DeleteChannel
<1>7. PICK op : op = Deleted(p, gone, failed)
  OBVIOUS
<1>8. /\ op \in Op /\ op.kind = p.kind /\ op.chan = p.chan /\ op.mine = p.mine
      /\ op.target = p.target /\ op.later = p.later /\ op.failed = failed
      /\ op.alone = p.alone /\ op.asked = p.asked /\ op.used = p.used
  BY <1>3, <1>7, DeletedKeeps
<1>9. op.aborting = p.aborting
  BY <1>3, <1>7, DeletedKeeps
<1>10. /\ Range(p.doomed) = Range(op.doomed) \cup {c}
       /\ op.gone = IF p.kind = "cleanup" THEN {} ELSE gone
       /\ op.stage \in {"over", "delete", "forget"}
       /\ op.stage = "delete" => op.doomed # <<>>
       /\ p.kind = "cleanup" => op.stage \in {"over", "delete"}
       /\ p.kind \in Provisioning =>
            /\ op.stage # "delete" => op.doomed = <<>>
            /\ op.stage = "over" => gone = {}
  <2>1. PICK left : left = Tail(p.doomed)
    OBVIOUS
  <2>2. Range(p.doomed) = Range(left) \cup {c}
    BY <1>3, <1>4, <2>1, HeadAndTail
  <2>3. /\ op.doomed = left /\ op.gone = IF p.kind = "cleanup" THEN {} ELSE gone
        /\ op.stage = IF IF p.kind = "teardown" THEN gone # p.gone
                          ELSE p.kind # "cleanup" /\ gone # {} /\ left = <<>>
                       THEN "forget" ELSE IF left = <<>> THEN "over" ELSE "delete"
    BY <1>7, <2>1 DEF Deleted, Op
  <2> QED
    BY <2>2, <2>3 DEF Provisioning
<1>11. ASSUME p.kind \in {"setup", "custom"} PROVE GoodSetup(op)'
  <2>1. ASSUME ~failed PROVE GoodSetup(op)'
    <3>1. p.aborting /\ Backward(p) /\ KeepsToItsTypes(p)
      BY <1>1, <1>2, <1>6, <1>11, <2>1 DEF GoodSetup, Forward, Op
    <3>2. gone \cup Range(op.doomed) = p.gone \cup Range(p.doomed)
      BY <1>6, <1>10, <2>1
    <3>3. KeepsToItsTypes(op)'
      BY <1>1, <1>8, <3>1 DEF KeepsToItsTypes, Own, Recorded
    <3>4. gone \cap DOMAIN channels' = {}
      BY <1>6, <2>1, <3>1 DEF Backward
    <3>5. \A d \in Range(p.doomed) : d \in DOMAIN channels' => d \in Range(op.doomed)
      BY <1>6, <1>10, <2>1
    <3>6. op.chan \in DOMAIN channels' => op.chan \in Range(op.doomed)
      BY <1>6, <1>8, <3>1, <3>5 DEF Backward, Exists
    <3>7. op.kind = "setup" => \A d \in DOMAIN channels' :
            channels'[d].name \in op.asked => d \in Range(op.doomed) \/ Elsewhere(op, d)'
      BY <1>1, <1>6, <1>8, <3>1, <3>5 DEF Backward, Elsewhere
    <3>8. op.gone = gone /\ p.kind \in Provisioning
      BY <1>10, <1>11 DEF Provisioning
    <3>9. Own(op) = Own(p)
      BY <1>8 DEF Own
    <3>10. /\ op.gone \cup Range(op.doomed) \subseteq Own(op)
           /\ \A r \in records' : r.type \in op.asked => r.channel \in op.gone \cup Range(op.doomed)
      BY <1>1, <1>8, <3>1, <3>2, <3>8, <3>9 DEF Backward
    <3>11. Backward(op)'
      BY <1>10, <3>4, <3>6, <3>7, <3>8, <3>10 DEF Backward, Own, Exists
    <3> QED
      BY <1>9, <3>1, <3>3, <3>11 DEF GoodSetup
  <2>2. ASSUME failed PROVE GoodSetup(op)'
    BY <1>8, <2>2 DEF GoodSetup
  <2> QED
    BY <2>1, <2>2
<1>12. ASSUME p.kind = "resetup" PROVE GoodResetup(op)'
  <2>1. /\ GoodResetup(p) /\ op.gone = gone /\ p.kind \in Provisioning
        /\ gone \cup Range(op.doomed) \subseteq p.gone \cup Range(p.doomed)
    BY <1>2, <1>5, <1>6, <1>10, <1>12 DEF Provisioning
  <2>2. CASE p.aborting
    <3>1. RollingBack(p)
      BY <1>1, <1>2, <2>1, <2>2 DEF GoodResetup
    <3>2. p.target.channel # c
      BY <1>5, <3>1 DEF RollingBack
    <3>3. OldThere(op)'
      BY <1>1, <1>6, <1>8, <3>1, <3>2 DEF RollingBack, OldThere, Exists
    <3>4. RollingBack(op)' /\ Settled(op)'
      BY <1>8, <1>9, <2>1, <2>2, <3>1, <3>3 DEF RollingBack, Settled
    <3> QED
      BY <1>8, <1>9, <1>10, <2>1, <2>2, <3>4 DEF GoodResetup
  <2>3. CASE ~p.aborting
    <3>1. ClearingUp(p)
      BY <1>1, <1>2, <2>1, <2>3 DEF GoodResetup
    <3>2. p.chan # c
      BY <1>5, <3>1 DEF ClearingUp
    <3>3. New(op) = New(p)
      BY <1>8 DEF New
    <3>4. NewThere(op)'
      BY <1>1, <1>6, <1>8, <3>1, <3>2, <3>3 DEF ClearingUp, NewThere, New, Exists
    <3>5. ASSUME ~failed
          PROVE  /\ OthersIn(op, New(op), op.gone \cup Range(op.doomed))'
                 /\ Range(op.later) \subseteq op.gone \cup Range(op.doomed)
                 /\ op.gone \cap DOMAIN channels' = {}
      <4>1. gone \cup Range(op.doomed) = p.gone \cup Range(p.doomed)
        BY <1>6, <1>10, <3>5
      <4>2. /\ OthersIn(p, New(p), p.gone \cup Range(p.doomed))
            /\ Range(p.later) \subseteq p.gone \cup Range(p.doomed)
            /\ p.gone \cap DOMAIN channels = {}
        BY <1>6, <3>1, <3>5 DEF ClearingUp
      <4>3. OthersIn(op, New(op), op.gone \cup Range(op.doomed))'
        BY <1>1, <1>8, <2>1, <3>3, <4>1, <4>2 DEF OthersIn, Recorded, New
      <4> QED
        BY <1>6, <1>8, <2>1, <3>5, <4>1, <4>2, <4>3
    <3>6. ClearingUp(op)'
      BY <1>8, <1>10, <2>1, <3>1, <3>4, <3>5 DEF ClearingUp, Exists
    <3>7. op.stage = "over" => failed
      BY <1>6, <1>10, <2>1
    <3>8. Settled(op)' \/ op.stage # "over"
      BY <1>8, <3>4, <3>7 DEF Settled
    <3> QED
      BY <1>8, <1>9, <1>10, <2>1, <2>3, <3>6, <3>8 DEF GoodResetup
  <2> QED
    BY <2>2, <2>3
<1>13. ASSUME p.kind = "cleanup" PROVE GoodCleanup(op)'
  <2>1. /\ Range(p.doomed) \cap Managed = {} /\ \A t \in p.used : Usable(t)
        /\ op.gone = {} /\ op.stage \in {"over", "delete"}
    BY <1>2, <1>10, <1>13 DEF GoodCleanup
  <2>2. Managed' = Managed
    BY <1>1 DEF Managed
  <2>3. ASSUME NEW t \in p.used PROVE Usable(t)'
    <3>1. PICK r \in Recorded(t) : Exists(r.channel) /\ channels[r.channel].posted
      BY <2>1 DEF Usable
    <3>2. r \in records /\ r.channel # c
      BY <1>5, <2>1, <3>1 DEF Recorded, Managed
    <3>3. r.channel \in DOMAIN channels' /\ channels'[r.channel].posted
      BY <1>6, <3>1, <3>2 DEF Exists
    <3>4. r \in Recorded(t)'
      BY <1>1, <3>1 DEF Recorded
    <3> QED
      BY <3>3, <3>4 DEF Usable, Exists
  <2> QED
    BY <1>8, <1>10, <2>1, <2>2, <2>3 DEF GoodCleanup
<1>14. Good(op)'
  BY <1>8, <1>11, <1>12, <1>13 DEF Good
<1> QED
  BY <1>1, <1>2, <1>6, <1>7, <1>8, <1>14, AloneOn

LEMMA ForgetChannelsGood ==
  ASSUME Base, NEW a \in Admins, command[a].alone, Good(command[a]), ForgetChannels(a)
  PROVE  Good(command[a])'
<1>1. ~Free(a) /\ command[a].stage = "forget" /\ UNCHANGED channels
  BY DEF ForgetChannels, At, Free
<1>2. PICK p \in Op :
        /\ p = command[a] /\ p.alone /\ Fits(p) /\ TypeOK
        /\ p.kind \in {"setup", "custom"} => GoodSetup(p)
        /\ p.kind = "resetup" => GoodResetup(p)
        /\ p.kind = "cleanup" => GoodCleanup(p)
  BY <1>1, RunsAlone
<1>3. PICK failed \in BOOLEAN :
        /\ On(a, Forgot(p, failed))
        /\ IF failed THEN records' = records
           ELSE records' = {r \in records : r.channel \notin p.gone}
  BY <1>2 DEF ForgetChannels
<1>4. PICK op : op = Forgot(p, failed)
  OBVIOUS
<1>5. /\ op \in Op /\ op.kind = p.kind /\ op.chan = p.chan /\ op.mine = p.mine
      /\ op.target = p.target /\ op.later = p.later
      /\ op.alone = p.alone /\ op.asked = p.asked /\ op.used = p.used
      /\ op.doomed = p.doomed /\ op.gone = {}
      /\ op.stage = IF p.doomed = <<>> THEN "over" ELSE "delete"
  BY <1>4, ForgotIs
<1>6. op.aborting = p.aborting /\ op.failed = (p.failed \/ failed)
  BY <1>4, ForgotIs
<1>7. Range(<<>>) = {}
  BY SeqRange, EmptySeq
<1>8. ASSUME p.kind \in {"setup", "custom"} PROVE GoodSetup(op)'
  <2>1. ASSUME ~op.failed PROVE GoodSetup(op)'
    <3>1. ~p.failed /\ ~failed
      BY <1>6, <2>1 DEF Op
    <3>2. p.aborting /\ Backward(p) /\ KeepsToItsTypes(p)
      BY <1>1, <1>2, <1>8, <3>1 DEF GoodSetup, Forward, Op
    <3>3. records' = {r \in records : r.channel \notin p.gone}
      BY <1>3, <3>1
    <3>4. p.doomed = <<>> /\ op.stage = "over" /\ Range(op.doomed) = {} /\ op.gone = {}
          /\ Range(p.doomed) = {}
      BY <1>1, <1>2, <1>5, <1>7, <3>2 DEF Backward
    <3>5. Own(op) = Own(p) /\ p.gone \subseteq Own(p)
      BY <1>5, <3>2 DEF Own, Backward
    <3>6. \A r \in records : r.type \notin p.asked => r \in records'
      BY <3>2, <3>3, <3>5 DEF KeepsToItsTypes
    <3>7. KeepsToItsTypes(op)'
      <4>1. \A r \in records' : r.type \notin op.asked => r.channel \notin Own(op)
        BY <1>5, <3>2, <3>3, <3>5 DEF KeepsToItsTypes
      <4>2. op.kind = "setup" => \A t \in Types \ op.asked : Recorded(t)' # {}
        BY <1>5, <3>2, <3>6 DEF KeepsToItsTypes, Recorded
      <4> QED
        BY <4>1, <4>2 DEF KeepsToItsTypes, Own
    <3>8. \A r \in records' : r.type \notin op.asked
      BY <1>5, <3>2, <3>3, <3>4 DEF Backward
    <3>9. op.chan \notin DOMAIN channels
      BY <1>5, <3>2, <3>4 DEF Backward, Exists
    <3>10. op.kind = "setup" => \A d \in DOMAIN channels :
             channels[d].name \in op.asked => Elsewhere(op, d)'
      BY <1>5, <3>2, <3>4, <3>6 DEF Backward, Elsewhere
    <3>11. op.gone \cup Range(op.doomed) = {}
      BY <3>4
    <3>12. Backward(op)'
      <4>1. op.stage = "over" /\ op.doomed = <<>> /\ op.gone = {}
        BY <1>5, <3>4
      <4>2. op.gone \cup Range(op.doomed) \subseteq Own(op)
        BY <3>11
      <4>3. DOMAIN channels' = DOMAIN channels /\ channels' = channels
        BY <1>1
      <4>4. op.kind = "setup" => \A d \in DOMAIN channels' :
             channels'[d].name \in op.asked => d \in Range(op.doomed) \/ Elsewhere(op, d)'
        BY <3>10, <4>3
      <4>5. op.chan \notin DOMAIN channels'
        BY <3>9, <4>3
      <4> QED
        BY <3>8, <3>11, <4>1, <4>2, <4>4, <4>5 DEF Backward, Own, Exists
    <3> QED
      BY <1>6, <3>2, <3>7, <3>12 DEF GoodSetup
  <2>2. ASSUME op.failed PROVE GoodSetup(op)'
    BY <2>2 DEF GoodSetup
  <2> QED
    BY <2>1, <2>2
<1>9. ASSUME p.kind = "resetup" PROVE GoodResetup(op)'
  <2>1. GoodResetup(p)
    BY <1>2, <1>9
  <2>2. CASE p.aborting
    <3>1. RollingBack(p)
      BY <1>1, <1>2, <2>1, <2>2 DEF GoodResetup
    <3>2. p.target \in records'
      BY <1>3, <3>1 DEF RollingBack, OldThere
    <3>3. OldThere(op)'
      BY <1>1, <1>5, <3>1, <3>2 DEF RollingBack, OldThere, Exists
    <3>4. RollingBack(op)' /\ Settled(op)'
      BY <1>5, <1>6, <2>2, <3>1, <3>3 DEF RollingBack, Settled
    <3> QED
      BY <1>5, <1>6, <2>1, <2>2, <3>4 DEF GoodResetup
  <2>3. CASE ~p.aborting
    <3>1. ClearingUp(p) /\ p.doomed = <<>> /\ op.stage = "over" /\ Range(p.doomed) = {}
      BY <1>1, <1>2, <1>5, <1>7, <2>1, <2>3 DEF GoodResetup, ClearingUp
    <3>2. New(op) = New(p)
      BY <1>5 DEF New
    <3>3. New(p).channel = p.chan /\ New(p).type = p.target.type
      BY <1>2, <1>9 DEF Fits, Row, New
    <3>4. NewThere(op)'
      <4>1. New(p) \in records' /\ Exists(p.chan)
        BY <1>3, <3>1, <3>3 DEF ClearingUp, NewThere
      <4> QED
        BY <1>1, <1>5, <3>2, <4>1 DEF NewThere, New, Exists
    <3>5. ASSUME ~op.failed
          PROVE  /\ Recorded(op.target.type)' = {New(op)}'
                 /\ Range(op.later) \cap DOMAIN channels' = {}
      <4>1. ~p.failed /\ ~failed
        BY <1>6, <3>5 DEF Op
      <4>2. /\ records' = {r \in records : r.channel \notin p.gone}
            /\ OthersIn(p, New(p), p.gone) /\ Range(p.later) \subseteq p.gone
            /\ p.gone \cap DOMAIN channels = {}
        BY <1>3, <3>1, <4>1 DEF ClearingUp
      <4>3. \A s \in records' : s.type = p.target.type => s = New(p)
        BY <4>2 DEF OthersIn, Recorded
      <4>4. New(p) \in records'
        BY <1>5, <3>2, <3>4 DEF NewThere, New
      <4>5. Recorded(op.target.type)' = {New(p)}
        BY <1>5, <3>3, <4>3, <4>4 DEF Recorded
      <4> QED
        BY <1>1, <1>5, <3>2, <4>2, <4>5 DEF New
    <3>6. Settled(op)'
      BY <3>4, <3>5 DEF Settled
    <3> QED
      BY <1>5, <2>1, <3>1, <3>6 DEF GoodResetup
  <2> QED
    BY <2>2, <2>3
<1>10. p.kind # "cleanup"
  BY <1>1, <1>2 DEF GoodCleanup
<1>11. Good(op)'
  BY <1>5, <1>8, <1>9, <1>10 DEF Good
<1> QED
  BY <1>1, <1>2, <1>3, <1>4, <1>5, <1>11, AloneOn

-----------------------------------------------------------------------------
(* What a command that begins alone starts from. *)

LEMMA BeginGood ==
  ASSUME Base, NEW a \in Admins, NEW op \in Op, op.stage # "over", Free(a), Begin(a, op),
         UNCHANGED <<channels, records>>,
         \A m \in Op : Same(m, op) /\ m.asked = op.asked /\ m.used = {t \in op.asked : Usable(t)}
                         => Good(m)
  PROVE  \A b \in Admins : Good(command[b])'
<1>1. /\ Same(command'[a], op) /\ command' \in [Admins -> Op]
      /\ command'[a].alone => /\ command'[a].asked = op.asked
                              /\ command'[a].used = {t \in op.asked : Usable(t)}
      /\ \A b \in Admins \ {a} : ~command'[b].alone
  BY BeginIs DEF Base
<1>2. \A b \in Admins \ {a} : Good(command[b])'
  BY <1>1 DEF Good
<1>3. CASE ~command'[a].alone
  BY <1>2, <1>3 DEF Good
<1>4. CASE command'[a].alone
  <2>1. PICK m \in Op : m = command'[a]
    BY <1>1
  <2>2. Good(m)
    BY <1>1, <1>4, <2>1
  <2>3. Good(m)'
    BY <2>2, GoodUnchanged
  <2>4. Good(command[a])'
    BY <2>1, <2>3, BecameGood
  <2> QED
    BY <1>2, <2>4
<1> QED
  BY <1>3, <1>4

LEMMA SetupUiChannelsGood ==
  ASSUME UiAssumption, Base, NEW a \in Admins, SetupUiChannels(a)
  PROVE  \A b \in Admins : Good(command[b])'
<1>1. PICK types \in Sorted(MissingTypes, Place) :
        Begin(a, [Nothing EXCEPT !.kind = "setup", !.stage = First, !.types = types,
                                 !.asked = MissingTypes])
  BY DEF SetupUiChannels
<1>2. MissingTypes \in SUBSET Types /\ Blocking = {} /\ TypeOK
  BY DEF MissingTypes, SetupUiChannels, Base
<1>3. types \in Seq(Types) /\ Range(types) = MissingTypes /\ IsInjective(types)
  BY <1>2, TypesAre
<1>4. PICK st \in Stages, T \in SUBSET Types : st = First /\ T = MissingTypes
  BY <1>2, FirstIs DEF Stages
<1>5. PICK op : op = [Nothing EXCEPT !.kind = "setup", !.stage = st, !.types = types, !.asked = T]
  OBVIOUS
<1>6. /\ op \in Op /\ op.kind = "setup" /\ op.stage = st /\ op.types = types /\ op.asked = T
      /\ op.chan = 0 /\ op.mine = <<>> /\ op.doomed = <<>> /\ op.gone = {}
  BY <1>3, <1>5, NothingIs DEF Op, All
<1>7. op.aborting = FALSE
  BY <1>5 DEF Nothing
<1>8. /\ \A r \in records : r.channel # 0 /\ r.type \notin T
      /\ \A t \in Types \ T : Recorded(t) # {}
      /\ \A t \in T : Recorded(t) = {}
      /\ \A c \in DOMAIN channels :
           channels[c].name \in T => \E r \in records : r.channel = c /\ r.type \notin T
  <2>1. \A r \in records : r.channel # 0 /\ r \in Recorded(r.type)
    BY <1>2 DEF TypeOK, Recorded
  <2>2. \A r \in records : r.type \notin T
    BY <1>4, <2>1 DEF MissingTypes
  <2>3. \A c \in DOMAIN channels : channels[c].name \in T => \E r \in records : r.channel = c
    BY <1>2, <1>4 DEF Blocking, Managed
  <2> QED
    BY <1>4, <2>1, <2>2, <2>3 DEF MissingTypes
<1>9. Range(<<>>) = {}
  BY SeqRange, EmptySeq
<1>10. ASSUME NEW m \in Op, Same(m, op), m.asked = op.asked PROVE Good(m)
  <2>1. /\ m.kind = "setup" /\ m.stage = st /\ m.types = types /\ m.asked = T
        /\ m.chan = 0 /\ m.mine = <<>> /\ m.doomed = <<>> /\ m.gone = {} /\ m.aborting = FALSE
    BY <1>6, <1>7, <1>10 DEF Same
  <2>2. Own(m) = {0}
    BY <1>9, <2>1 DEF Own
  <2>3. KeepsToItsTypes(m)
    BY <1>8, <2>1, <2>2 DEF KeepsToItsTypes
  <2>4. Forward(m)
    BY <1>3, <1>4, <1>8, <2>1, FirstIs DEF Forward, Elsewhere
  <2> QED
    BY <2>1, <2>3, <2>4 DEF Good, GoodSetup
<1>11. Begin(a, op) /\ op.stage # "over"
  BY <1>1, <1>4, <1>5, <1>6, FirstIs
<1>12. Free(a) /\ UNCHANGED <<channels, records>>
  BY DEF SetupUiChannels
<1> QED
  BY <1>6, <1>10, <1>11, <1>12, BeginGood

LEMMA SetupCustomUiChannelGood ==
  ASSUME Base, NEW a \in Admins, NEW t \in Types, NEW n \in Names, SetupCustomUiChannel(a, t, n)
  PROVE  \A b \in Admins : Good(command[b])'
<1>1. PICK st \in Stages, types \in Seq(Types), T \in SUBSET Types :
        st = First /\ types = <<t>> /\ T = {t}
  <2>1. <<t>> \in Seq(Types) /\ {t} \in SUBSET Types /\ First \in Stages
    BY FirstIs DEF Stages
  <2> QED
    BY <2>1
<1>2. Range(types) = {t} /\ IsInjective(types)
  BY <1>1 DEF Range, IsInjective
<1>3. PICK op : op = [Nothing EXCEPT !.kind = "custom", !.stage = st, !.types = types, !.name = n,
                                     !.asked = T]
  OBVIOUS
<1>4. /\ op \in Op /\ op.kind = "custom" /\ op.stage = st /\ op.types = types /\ op.asked = T
      /\ op.chan = 0 /\ op.mine = <<>> /\ op.doomed = <<>> /\ op.gone = {}
  BY <1>3, NothingIs DEF Op, All
<1>5. op.aborting = FALSE
  BY <1>3 DEF Nothing
<1>6. Recorded(t) = {} /\ \A r \in records : r.channel # 0
  BY DEF SetupCustomUiChannel, Base, TypeOK
<1>7. Range(<<>>) = {}
  BY SeqRange, EmptySeq
<1>8. ASSUME NEW m \in Op, Same(m, op), m.asked = op.asked PROVE Good(m)
  <2>1. /\ m.kind = "custom" /\ m.stage = st /\ m.types = types /\ m.asked = T
        /\ m.chan = 0 /\ m.mine = <<>> /\ m.doomed = <<>> /\ m.gone = {} /\ m.aborting = FALSE
    BY <1>4, <1>5, <1>8 DEF Same
  <2>2. Own(m) = {0}
    BY <1>7, <2>1 DEF Own
  <2>3. KeepsToItsTypes(m)
    BY <1>6, <2>1, <2>2 DEF KeepsToItsTypes
  <2>4. Forward(m)
    BY <1>1, <1>2, <1>6, <2>1, FirstIs DEF Forward
  <2> QED
    BY <2>1, <2>3, <2>4 DEF Good, GoodSetup
<1>9. Begin(a, op) /\ op.stage # "over" /\ Free(a) /\ UNCHANGED <<channels, records>>
  BY <1>1, <1>3, <1>4, FirstIs DEF SetupCustomUiChannel
<1> QED
  BY <1>4, <1>8, <1>9, BeginGood

LEMMA ResetupUiChannelGood ==
  ASSUME Base, NEW a \in Admins, NEW t \in Types, ResetupUiChannel(a, t)
  PROVE  \A b \in Admins : Good(command[b])'
<1>1. PICK target \in Targets(Recorded(t)) : \E later \in ChannelsOf(Recorded(t) \ {target}) :
        Begin(a, [Nothing EXCEPT !.kind = "resetup", !.stage = First, !.types = <<t>>,
                                 !.name = channels[target.channel].name, !.target = target,
                                 !.later = later, !.asked = {t}])
  BY DEF ResetupUiChannel
<1>2. PICK later \in ChannelsOf(Recorded(t) \ {target}) :
        Begin(a, [Nothing EXCEPT !.kind = "resetup", !.stage = First, !.types = <<t>>,
                                 !.name = channels[target.channel].name, !.target = target,
                                 !.later = later, !.asked = {t}])
  BY <1>1
<1>3. target \in records /\ Exists(target.channel) /\ target.type = t
  BY DEF Targets, Recorded
<1>4. target \in Row /\ channels[target.channel].name \in Names
  BY <1>3 DEF Base, TypeOK, Row, Exists, Stored
<1>5. later \in Seq(Nat) /\ Range(later) = {r.channel : r \in Recorded(t) \ {target}}
  <2>1. Recorded(t) \ {target} \in SUBSET records
    BY DEF Recorded
  <2> QED
    BY <2>1, ChannelsAre DEF Base
<1>6. PICK nm \in Names, st \in Stages, types \in Seq(Types), T \in SUBSET Types :
        nm = channels[target.channel].name /\ st = First /\ types = <<t>> /\ T = {t}
  <2>1. <<t>> \in Seq(Types) /\ {t} \in SUBSET Types /\ First \in Stages
    BY FirstIs DEF Stages
  <2> QED
    BY <1>4, <2>1
<1>7. PICK op : op = [Nothing EXCEPT !.kind = "resetup", !.stage = st, !.types = types, !.name = nm,
                                     !.target = target, !.later = later, !.asked = T]
  OBVIOUS
<1>8. /\ op \in Op /\ op.kind = "resetup" /\ op.stage = st /\ op.target = target
      /\ op.later = later /\ op.asked = T /\ op.mine = <<>> /\ op.doomed = <<>> /\ op.gone = {}
  BY <1>4, <1>5, <1>7, NothingIs DEF Op, All
<1>9. op.aborting = FALSE /\ op.failed = FALSE
  BY <1>7 DEF Nothing
<1>10. ASSUME NEW m \in Op, Same(m, op), m.asked = op.asked,
              m.used = {u \in op.asked : Usable(u)}
       PROVE  Good(m)
  <2>1. /\ m.kind = "resetup" /\ m.stage = st /\ m.target = target /\ m.later = later
        /\ m.asked = T /\ m.mine = <<>> /\ m.doomed = <<>> /\ m.gone = {}
        /\ m.aborting = FALSE /\ m.failed = FALSE
    BY <1>8, <1>9, <1>10 DEF Same
  <2>2. OldThere(m)
    BY <1>3, <2>1 DEF OldThere
  <2>3. OthersIn(m, m.target, Range(m.later))
    BY <1>3, <1>5, <2>1 DEF OthersIn
  <2>4. st \in {"category", "create"}
    BY <1>6, FirstIs
  <2>5. Replacing(m)
    BY <2>1, <2>2, <2>3, <2>4 DEF Replacing
  <2>6. m.asked = {m.target.type} /\ m.used \subseteq m.asked
    BY <1>3, <1>6, <1>8, <1>10, <2>1
  <2>7. GoodResetup(m)
    BY <2>1, <2>4, <2>5, <2>6 DEF GoodResetup
  <2> QED
    BY <2>1, <2>7 DEF Good
<1>11. Begin(a, op) /\ op.stage # "over"
  BY <1>2, <1>6, <1>7, <1>8, FirstIs
<1>12. Free(a) /\ UNCHANGED <<channels, records>>
  BY DEF ResetupUiChannel
<1> QED
  BY <1>8, <1>10, <1>11, <1>12, BeginGood

LEMMA CleanupUiChannelsGood ==
  ASSUME Base, NEW a \in Admins, CleanupUiChannels(a)
  PROVE  \A b \in Admins : Good(command[b])'
<1>1. PICK doomed \in Sorted(Blocking, [c \in Blocking |-> c]) :
        Begin(a, [Nothing EXCEPT !.kind = "cleanup", !.stage = "delete", !.doomed = doomed,
                                 !.asked = Types])
  BY DEF CleanupUiChannels
<1>2. Blocking \in SUBSET DOMAIN channels /\ Blocking \cap Managed = {}
  BY DEF Blocking
<1>3. doomed \in Seq(Nat) /\ Range(doomed) = Blocking
  BY <1>2, DoomedAre DEF Base
<1>4. PICK op : op = [Nothing EXCEPT !.kind = "cleanup", !.stage = "delete", !.doomed = doomed,
                                     !.asked = Types]
  OBVIOUS
<1>5. /\ op \in Op /\ op.kind = "cleanup" /\ op.stage = "delete" /\ op.doomed = doomed
      /\ op.gone = {}
  BY <1>3, <1>4, NothingIs DEF Op, Stages, All
<1>6. ASSUME NEW m \in Op, Same(m, op), m.used = {u \in op.asked : Usable(u)} PROVE Good(m)
  <2>1. m.kind = "cleanup" /\ m.stage = "delete" /\ m.doomed = doomed /\ m.gone = {}
    BY <1>5, <1>6 DEF Same
  <2>2. \A t \in m.used : Usable(t)
    BY <1>6
  <2>3. GoodCleanup(m)
    BY <1>2, <1>3, <2>1, <2>2 DEF GoodCleanup
  <2> QED
    BY <2>1, <2>3 DEF Good
<1>7. Free(a) /\ UNCHANGED <<channels, records>>
  BY DEF CleanupUiChannels
<1> QED
  BY <1>1, <1>4, <1>5, <1>6, <1>7, BeginGood

LEMMA TeardownUiChannelsGood ==
  ASSUME Base, NEW a \in Admins, TeardownUiChannels(a)
  PROVE  \A b \in Admins : Good(command[b])'
<1>1. PICK doomed \in ChannelsOf(records) :
        Begin(a, [Nothing EXCEPT !.kind = "teardown", !.stage = "delete", !.doomed = doomed])
  BY DEF TeardownUiChannels
<1>2. doomed \in Seq(Nat)
  BY ChannelsAre DEF Base
<1>3. PICK op : op = [Nothing EXCEPT !.kind = "teardown", !.stage = "delete", !.doomed = doomed]
  OBVIOUS
<1>4. op \in Op /\ op.kind = "teardown" /\ op.stage = "delete"
  BY <1>2, <1>3, NothingIs DEF Op, Stages, All
<1>5. ASSUME NEW m \in Op, Same(m, op) PROVE Good(m)
  BY <1>4, <1>5 DEF Same, Good
<1>6. Free(a) /\ UNCHANGED <<channels, records>>
  BY DEF TeardownUiChannels
<1> QED
  BY <1>1, <1>3, <1>4, <1>5, <1>6, BeginGood

-----------------------------------------------------------------------------
(* The invariant. *)

\* A command that goes on is alone only if it was before.
LEMMA GoOnIs ==
  ASSUME Base, NEW a \in Admins, GoOn(a)
  PROVE  ~Free(a) /\ \E op : On(a, op) /\ (op.alone => command[a].alone)
<1>1. ~Free(a)
  BY DEF GoOn, Free, At, CreateCategory, CreateTextChannel, SendInitialMessage, CreateRecord,
     UpdateRecord, DeleteOldChannel, RestoreRecord, DropReplacement, DeleteChannel, ForgetChannels
<1>2. PICK p \in Op : p = command[a]
  BY <1>1, RunsIs
<1>3. \A st : [p EXCEPT !.stage = st].alone = p.alone
  BY DEF Op
<1>4. \A cs : Undo(p, cs).alone = p.alone
  BY DEF Undo, Aborted, Op
<1>5. Rest(p).alone = p.alone /\ Aborted(p).alone = p.alone /\ Failed(p).alone = p.alone
  BY DEF Rest, Aborted, Failed, Op
<1>6. \A gone, failed : Deleted(p, gone, failed).alone = p.alone
  BY DEF Deleted, Op
<1>7. \A failed : Forgot(p, failed).alone = p.alone
  BY DEF Forgot, Op
<1>8. CASE \/ \E st : GoesTo(a, st)
            \/ UndoMade(a) \/ UndoWithNew(a)
            \/ On(a, Rest(p)) \/ On(a, Aborted(p)) \/ On(a, Failed(p))
  BY <1>1, <1>2, <1>3, <1>4, <1>5, <1>8 DEF GoesTo, UndoMade, UndoWithNew
<1>9. CASE CreateTextChannel(a) \/ CreateRecord(a)
  <2>3. CASE \E q \in Op : On(a, Crowded(q))
    BY <1>1, <2>3, CrowdedIs
  <2>4. Undo(p, p.mine) \in Op /\ (On(a, Undo(p, p.mine)) => UndoMade(a))
    BY <1>2, MadeIs, UndoIs DEF UndoMade
  <2>1. CASE CreateTextChannel(a) /\ On(a, [p EXCEPT !.stage = "post", !.chan = made + 1])
    <3>1. PICK op : op = [p EXCEPT !.stage = "post", !.chan = made + 1]
      OBVIOUS
    <3>2. op.alone = p.alone /\ On(a, op)
      BY <2>1, <3>1 DEF Op
    <3> QED
      BY <1>1, <1>2, <3>2
  <2>2. CASE CreateRecord(a) /\ ~UndoWithNew(a)
    <3>1. PICK op : op = [p EXCEPT !.stage = IF Len(p.types) = 1 THEN "over" ELSE "create",
                                   !.types = Tail(@), !.mine = Append(@, p.chan)]
      OBVIOUS
    <3>2. op.alone = p.alone
      BY <3>1 DEF Op
    <3>3. On(a, op)
      BY <1>2, <2>2, <3>1 DEF CreateRecord
    <3> QED
      BY <1>1, <1>2, <3>2, <3>3
  <2> QED
    BY <1>2, <1>8, <1>9, <2>1, <2>2, <2>3, <2>4 DEF CreateTextChannel
<1>10. CASE DeleteChannel(a) \/ ForgetChannels(a)
  <2>1. CASE \E gone, failed : On(a, Deleted(p, gone, failed))
    <3>1. PICK gone, failed : On(a, Deleted(p, gone, failed))
      BY <2>1
    <3> QED
      BY <1>1, <1>2, <1>6, <3>1
  <2>2. CASE \E failed : On(a, Forgot(p, failed))
    <3>1. PICK failed : On(a, Forgot(p, failed))
      BY <2>2
    <3> QED
      BY <1>1, <1>2, <1>7, <3>1
  <2>3. DeleteChannel(a) => \E gone, failed : On(a, Deleted(p, gone, failed))
    BY <1>2 DEF DeleteChannel
  <2> QED
    BY <1>2, <1>10, <2>1, <2>2, <2>3 DEF ForgetChannels
<1>11. CASE \/ CreateCategory(a) \/ SendInitialMessage(a) \/ UpdateRecord(a)
            \/ RestoreRecord(a) \/ DropReplacement(a)
  BY <1>2, <1>8, <1>11 DEF CreateCategory, SendInitialMessage, UpdateRecord,
     RestoreRecord, DropReplacement
<1>12. CASE DeleteOldChannel(a)
  <2>1. CASE On(a, Crowded([p EXCEPT !.stage = "restore"]))
    <3>1. [p EXCEPT !.stage = "restore"] \in Op
      BY StageIs DEF Stages
    <3> QED
      BY <1>1, <2>1, <3>1, CrowdedIs
  <2> QED
    BY <1>2, <1>8, <1>12, <2>1 DEF DeleteOldChannel
<1> QED
  BY <1>9, <1>10, <1>11, <1>12 DEF GoOn

LEMMA GoOnGood ==
  ASSUME Base, NEW a \in Admins, GoOn(a), Good(command[a])
  PROVE  \A b \in Admins : Good(command[b])'
<1>1. PICK op : On(a, op) /\ (op.alone => command[a].alone)
  BY GoOnIs
<1>2. ~Free(a)
  BY GoOnIs
<1>3. /\ command'[a] = Kept(op)
      /\ \A b \in Admins \ {a} : command'[b] = command[b]
  BY <1>1 DEF On, Base, Stored
<1>4. \A b \in Admins \ {a} : ~command'[b].alone
  BY <1>2, <1>3, NothingIs DEF Base, Quiet, Free
<1>5. \A b \in Admins \ {a} : Good(command[b])'
  BY <1>4 DEF Good
<1>6. CASE ~command[a].alone
  <2>1. ~command'[a].alone
    BY <1>1, <1>3, <1>6, NothingIs DEF Kept
  <2> QED
    BY <1>5, <2>1 DEF Good
<1>7. CASE command[a].alone
  BY <1>5, <1>7, CreateCategoryGood, CreateTextChannelGood, SendInitialMessageGood,
     CreateRecordGood, UpdateRecordGood, DeleteOldChannelGood, RestoreRecordGood,
     DropReplacementGood, DeleteChannelGood, ForgetChannelsGood DEF GoOn
<1> QED
  BY <1>6, <1>7

LEMMA InductiveInit ==
  ASSUME UiAssumption, Init
  PROVE  UiInductive
<1>1. \A a \in Admins : Good(command[a])
  BY NothingIs DEF Init, Good
<1> QED
  BY <1>1, InitBase DEF UiInductive

LEMMA InductiveNext ==
  ASSUME UiAssumption, UiInductive, [Next]_vars
  PROVE  UiInductive'
<1>1. Base /\ \A a \in Admins : Good(command[a])
  BY DEF UiInductive
<1>2. Base'
  BY <1>1, BaseKept
<1>3. ASSUME NEW a \in Admins,
             \/ SetupUiChannels(a) \/ CleanupUiChannels(a) \/ TeardownUiChannels(a)
             \/ \E t \in Types : ResetupUiChannel(a, t)
             \/ \E t \in Types, n \in Names : SetupCustomUiChannel(a, t, n)
             \/ GoOn(a)
      PROVE  \A b \in Admins : Good(command[b])'
  BY <1>1, <1>3, SetupUiChannelsGood, CleanupUiChannelsGood, TeardownUiChannelsGood,
     ResetupUiChannelGood, SetupCustomUiChannelGood, GoOnGood
<1>4. ASSUME command' = Disturbed PROVE \A b \in Admins : Good(command[b])'
  BY <1>1, <1>4, DisturbedIs DEF Base, Good
<1>5. ASSUME Restart PROVE \A b \in Admins : Good(command[b])'
  BY <1>5, NothingIs DEF Restart, Good
<1>6. ASSUME UNCHANGED vars, NEW b \in Admins PROVE Good(command[b])'
  <2>1. PICK m : m = command[b]
    OBVIOUS
  <2>2. Good(m) /\ UNCHANGED <<channels, records>> /\ m = command'[b]
    BY <1>1, <1>6, <2>1 DEF vars
  <2> QED
    BY <2>2, GoodUnchanged, BecameGood
<1>7. ASSUME Next PROVE \A b \in Admins : Good(command[b])'
  BY <1>3, <1>4, <1>5, <1>7 DEF Next, CreateByHand, DeleteByHand
<1>8. \A b \in Admins : Good(command[b])'
  BY <1>6, <1>7
<1> QED
  BY <1>2, <1>8 DEF UiInductive

\* Whatever commands run at once, whatever fails and whatever people do: the
\* table keeps its form, what each command has in hand fits its stage, no two
\* commands are about to record one channel, and a command that runs alone has
\* left its types as its stage says.
THEOREM UiInvariant == Spec => []UiInductive
<1>1. Init => UiInductive
  BY InductiveInit, UiAssumption
<1>2. UiInductive /\ [Next]_vars => UiInductive'
  BY InductiveNext, UiAssumption
<1> QED
  BY <1>1, <1>2, PTL DEF Spec

-----------------------------------------------------------------------------
(* What follows from it. *)

LEMMA UsableFollows ==
  ASSUME UiInductive
  PROVE  UsableStaysUsable
<1> SUFFICES ASSUME NEW a \in Admins, command[a].kind \in {"resetup", "cleanup"},
                    command[a].alone, NEW t \in command[a].used
             PROVE  Usable(t)
  BY DEF UsableStaysUsable
<1>1. PICK op \in Op : op = command[a]
  BY DEF UiInductive, Base, Stored
<1>2. Good(op) /\ Fits(op) /\ TypeOK
  BY <1>1 DEF UiInductive, Base
<1>3. CASE op.kind = "cleanup"
  BY <1>1, <1>2, <1>3 DEF Good, GoodCleanup
<1>4. CASE op.kind = "resetup"
  <2>1. GoodResetup(op)
    BY <1>1, <1>2, <1>4 DEF Good
  <2>2. t = op.target.type
    BY <1>1, <2>1 DEF GoodResetup
  <2>3. op.target \in Row
    BY <1>2, <1>4 DEF Fits
  <2>4. OldThere(op) \/ NewThere(op)
    <3>1. op.stage \in Stages /\ op.stage # "record"
      BY <1>2, <1>4 DEF Op, Fits
    <3> QED
      BY <2>1, <3>1 DEF GoodResetup, Replacing, Replaced, RollingBack, ClearingUp, Settled, Stages
  <2>5. ASSUME OldThere(op) PROVE Usable(t)
    BY <1>2, <2>2, <2>5 DEF OldThere, Usable, Recorded, TypeOK
  <2>6. ASSUME NewThere(op) PROVE Usable(t)
    <3>1. New(op).channel = op.chan /\ New(op).type = t
      BY <2>2, <2>3 DEF New, Row
    <3> QED
      BY <1>2, <2>6, <3>1 DEF NewThere, Usable, Recorded, TypeOK
  <2> QED
    BY <2>4, <2>5, <2>6
<1> QED
  BY <1>1, <1>3, <1>4

\* The table and the server keep their form, no two rows share an id or a
\* channel, no row is written before the messages of its channel; and no resetup
\* and no cleanup that runs alone takes away a UI that was usable when it began.
THEOREM UiCorrect == Spec => []UiInv
<1>1. UiInductive => UiInv
  BY UsableFollows DEF UiInductive, Base, UiInv
<1> QED
  BY <1>1, UiInvariant, PTL

LEMMA SetupFollows ==
  ASSUME UiInductive
  PROVE  SetupIsAllOrNothing
<1> SUFFICES ASSUME NEW a \in Admins, Ended(a, {"setup", "custom"})
             PROVE  /\ Succeeded(a) => \A t \in command[a].asked :
                                         Usable(t) /\ Cardinality(Recorded(t)) = 1
                    /\ Undone(a) => /\ \A t \in command[a].asked : Recorded(t) = {}
                                    /\ command[a].chan \notin DOMAIN channels
                                    /\ command[a].kind = "setup" => Blocking = {}
  BY DEF SetupIsAllOrNothing
<1>1. PICK op \in Op : op = command[a]
  BY DEF UiInductive, Base, Stored
<1>2. op.kind \in {"setup", "custom"} /\ op.stage = "over" /\ GoodSetup(op) /\ TypeOK
  BY <1>1 DEF UiInductive, Base, Ended, Free, Good
<1>3. Range(<<>>) = {}
  BY SeqRange, EmptySeq
<1>4. ASSUME Succeeded(a), NEW t \in op.asked
      PROVE  Usable(t) /\ Cardinality(Recorded(t)) = 1
  <2>1. Forward(op)
    BY <1>1, <1>2, <1>4 DEF GoodSetup, Succeeded
  <2>2. PICK r \in records : Recorded(t) = {r} /\ Exists(r.channel)
    BY <1>2, <1>3, <2>1 DEF Forward
  <2>3. Usable(t)
    BY <1>2, <2>2 DEF Usable, TypeOK
  <2> QED
    BY <2>2, <2>3, FS_Singleton
<1>5. ASSUME Undone(a)
      PROVE  /\ \A t \in op.asked : Recorded(t) = {}
             /\ ~Exists(op.chan)
             /\ op.kind = "setup" => Blocking = {}
  <2>1. Backward(op) /\ KeepsToItsTypes(op)
    BY <1>1, <1>2, <1>5 DEF GoodSetup, Undone
  <2>2. Range(op.doomed) = {} /\ op.gone = {}
    BY <1>2, <1>3, <2>1 DEF Backward
  <2>3. \A t \in op.asked : Recorded(t) = {}
    BY <2>1, <2>2 DEF Backward, Recorded
  <2>4. ~Exists(op.chan)
    BY <2>1, <2>2 DEF Backward
  <2>5. ASSUME op.kind = "setup" PROVE Blocking = {}
    <3>1. MissingTypes \subseteq op.asked
      BY <2>1, <2>5 DEF MissingTypes, KeepsToItsTypes
    <3>2. \A c \in DOMAIN channels : channels[c].name \in op.asked => c \in Managed
      BY <2>1, <2>2, <2>5 DEF Backward, Elsewhere, Managed
    <3> QED
      BY <3>1, <3>2 DEF Blocking
  <2> QED
    BY <2>3, <2>4, <2>5
<1> QED
  BY <1>1, <1>4, <1>5 DEF Exists

\* A setup that ran alone did all or nothing: one record of each type it set out
\* to install with a usable channel; or, when its rollback went through, no
\* record of them and no channel that blocks the next attempt.
THEOREM SetupsAllOrNothing == Spec => []SetupIsAllOrNothing
BY UiInvariant, SetupFollows, PTL

LEMMA ResetupFollows ==
  ASSUME UiInductive
  PROVE  ResetupConverges
<1> SUFFICES ASSUME NEW a \in Admins, Ended(a, {"resetup"}), Succeeded(a)
             PROVE  /\ \A t \in command[a].asked : Usable(t) /\ Cardinality(Recorded(t)) = 1
                    /\ \A i \in DOMAIN command[a].later : ~Exists(command[a].later[i])
  BY DEF ResetupConverges
<1>1. PICK op \in Op : op = command[a]
  BY DEF UiInductive, Base, Stored
<1>2. GoodResetup(op) /\ op.stage = "over" /\ ~op.aborting /\ ~op.failed /\ TypeOK /\ Fits(op)
      /\ op.kind = "resetup"
  BY <1>1 DEF UiInductive, Base, Ended, Free, Good, Succeeded
<1>3. /\ NewThere(op) /\ Recorded(op.target.type) = {New(op)}
      /\ Range(op.later) \cap DOMAIN channels = {} /\ op.asked = {op.target.type}
  BY <1>2 DEF GoodResetup, Settled
<1>4. op.target \in Row
  BY <1>2 DEF Fits
<1>5. New(op).channel = op.chan /\ New(op).type = op.target.type
  BY <1>4 DEF New, Row
<1>6. Usable(op.target.type)
  BY <1>2, <1>3, <1>5 DEF Usable, NewThere, TypeOK
<1>7. Cardinality(Recorded(op.target.type)) = 1
  BY <1>3, FS_Singleton
<1>8. \A i \in DOMAIN op.later : ~Exists(op.later[i])
  BY <1>3 DEF Range, Exists
<1> QED
  BY <1>1, <1>3, <1>6, <1>7, <1>8

\* After a resetup that ran alone and reports success its type has exactly one
\* record, with a usable channel, and the channels of its other records are gone.
THEOREM ResetupsConverge == Spec => []ResetupConverges
BY UiInvariant, ResetupFollows, PTL
=============================================================================
