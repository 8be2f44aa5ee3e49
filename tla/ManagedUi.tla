------------------------------- MODULE ManagedUi -------------------------------
(***************************************************************************)
(* The channels that administrators have the bot install in the Discord    *)
(* server, and the table managed_ui_channels that says which channel is    *)
(* which UI (gateway/commands/application.py, contexts/ui).                *)
(*                                                                         *)
(* Every command looks at the table and the server once and then makes its *)
(* changes one await at a time: a call of Discord or a transaction of the  *)
(* database, each of which may fail. A call of Discord that fails may have *)
(* been applied, and only its answer lost: to a command the two are the    *)
(* same. Nothing keeps two commands from running at once, people change    *)
(* the server by hand, and the process may end between any two steps. A    *)
(* command that would refuse changes nothing and is no step.               *)
(***************************************************************************)
EXTENDS Integers, Sequences, FiniteSets, SequencesExt, Functions

CONSTANTS
  Admins,
  Required,      (* the types to install, in the order of their definitions  *)
  OtherNames,    (* channel names that no UI type recommends                 *)
  None,
  MaxChannels, MaxFailures, MaxByHand   (* bounds of the model   *)

Types == Range(Required)
Names == Types \cup OtherNames     \* the name recommended for a type is the type

ASSUME UiAssumption ==
  /\ Required \in Seq(Types) /\ IsInjective(Required)
  /\ OtherNames \cap Types = {}
  /\ {MaxChannels, MaxFailures, MaxByHand} \subseteq Nat

VARIABLES
  channels,      (* the text channels of the server: name and whether the    *)
                 (* initial messages are there, by channel id                *)
  categories,    (* how many categories have the name of the managed UI      *)
  records,       (* the rows of managed_ui_channels                          *)
  command,       (* what each administrator's last command is doing          *)
  made, rows,    (* the last channel id and the last row id                  *)
  failures, byHand                                  (* counters of the model *)

vars == <<channels, categories, records, command, made, rows, failures, byHand>>
counters == <<failures, byHand>>

\* "alone", "asked" and "used" are history: whether nothing else has touched the
\* server since the command began (and no call of which the command, having
\* missed the answer, does not know), the types it is about, and which of them
\* were usable then.
Nothing ==
  [kind |-> "none", stage |-> "over", types |-> <<>>, name |-> None, chan |-> 0,
   mine |-> <<>>, target |-> None, later |-> <<>>, doomed |-> <<>>, gone |-> {},
   aborting |-> FALSE, failed |-> FALSE, alone |-> FALSE, asked |-> {}, used |-> {}]

-----------------------------------------------------------------------------
With(f, x, y) == [z \in DOMAIN f \cup {x} |-> IF z = x THEN y ELSE f[z]]

\* The elements of S, in the order of their keys.
Sorted(S, key) ==
  {s \in [1..Cardinality(S) -> S] :
     Range(s) = S /\ \A i, j \in DOMAIN s : i < j => key[s[i]] < key[s[j]]}

\* What a command sees.
Exists(c) == c \in DOMAIN channels
Recorded(t) == {r \in records : r.type = t}
InOrder(rs) == Sorted(rs, [r \in rs |-> r.id])
Managed == {r.channel : r \in records}
Place == [t \in Types |-> CHOOSE i \in DOMAIN Required : Required[i] = t]
MissingTypes == {t \in Types : Recorded(t) = {}}
Blocking == {c \in DOMAIN channels \ Managed : channels[c].name \in MissingTypes}

Usable(t) == \E r \in Recorded(t) : Exists(r.channel) /\ channels[r.channel].posted

\* The record of a type whose channel is still there and that was inserted
\* first, and the channels of all its other records.
Targets(rs) ==
  {r \in rs : Exists(r.channel) /\ \A s \in rs : Exists(s.channel) => r.id <= s.id}

ChannelsOf(rs) == {[i \in DOMAIN s |-> s[i].channel] : s \in InOrder(rs)}

-----------------------------------------------------------------------------
Free(a) == command[a].stage = "over"
Running == {a \in Admins : ~Free(a)}

\* Commands that ran, or still run, without company have it from now on. What
\* a command was is of no interest once it is over and was not alone. A change
\* whose answer was lost is company where a property depends on it.
Kept(op) == IF op.stage = "over" /\ ~op.alone THEN Nothing ELSE op
Crowded(op) == [op EXCEPT !.alone = FALSE, !.asked = {}, !.used = {}]
Disturbed == [a \in Admins |-> Kept(Crowded(command[a]))]

Begin(a, op) ==
  command' = [Disturbed EXCEPT ![a] =
    IF Running = {} THEN [op EXCEPT !.alone = TRUE, !.used = {t \in op.asked : Usable(t)}]
                    ELSE Crowded(op)]

\* The managed category is taken when there is exactly one, created when there
\* is none, and with several of them the command refuses.
First == IF categories = 0 THEN "category" ELSE "create"

SetupUiChannels(a) ==
  /\ Free(a) /\ MissingTypes # {} /\ Blocking = {} /\ categories < 2
  /\ \E types \in Sorted(MissingTypes, Place) :
       Begin(a, [Nothing EXCEPT !.kind = "setup", !.stage = First, !.types = types,
                                !.asked = MissingTypes])
  /\ UNCHANGED <<channels, categories, records, made, rows, counters>>

SetupCustomUiChannel(a, t, n) ==
  /\ Free(a) /\ Recorded(t) = {} /\ categories < 2
  /\ \A c \in DOMAIN channels : channels[c].name # n
  /\ Begin(a, [Nothing EXCEPT !.kind = "custom", !.stage = First, !.types = <<t>>,
                              !.name = n, !.asked = {t}])
  /\ UNCHANGED <<channels, categories, records, made, rows, counters>>

ResetupUiChannel(a, t) ==
  /\ Free(a) /\ categories < 2
  /\ \E target \in Targets(Recorded(t)) : \E later \in ChannelsOf(Recorded(t) \ {target}) :
       Begin(a, [Nothing EXCEPT !.kind = "resetup", !.stage = First, !.types = <<t>>,
                                !.name = channels[target.channel].name, !.target = target,
                                !.later = later, !.asked = {t}])
  /\ UNCHANGED <<channels, categories, records, made, rows, counters>>

CleanupUiChannels(a) ==
  /\ Free(a) /\ Blocking # {}
  /\ \E doomed \in Sorted(Blocking, [c \in Blocking |-> c]) :
       Begin(a, [Nothing EXCEPT !.kind = "cleanup", !.stage = "delete", !.doomed = doomed,
                                !.asked = Types])
  /\ UNCHANGED <<channels, categories, records, made, rows, counters>>

TeardownUiChannels(a) ==
  /\ Free(a) /\ records # {}
  /\ \E doomed \in ChannelsOf(records) :
       Begin(a, [Nothing EXCEPT !.kind = "teardown", !.stage = "delete", !.doomed = doomed])
  /\ UNCHANGED <<channels, categories, records, made, rows, counters>>

-----------------------------------------------------------------------------
\* How a command goes on.
On(a, op) == command' = [command EXCEPT ![a] = Kept(op)]
GoesTo(a, stage) == On(a, [command[a] EXCEPT !.stage = stage])
At(a, kinds, stage) == command[a].stage = stage /\ command[a].kind \in kinds
Fails == failures < MaxFailures /\ failures' = failures + 1
Works == failures' = failures

All == {"setup", "custom", "resetup", "cleanup", "teardown"}
Provisioning == {"setup", "custom", "resetup"}

Aborted(op) == [op EXCEPT !.stage = "over", !.aborting = TRUE]
Failed(op) == [op EXCEPT !.stage = "over", !.aborting = TRUE, !.failed = TRUE]

\* Slip: the channel at which it failed is forgotten.
UndoRecorded(op, cs) ==
  IF op.mine = <<>> THEN Aborted(op)
  ELSE [op EXCEPT !.stage = "delete", !.aborting = TRUE, !.doomed = Reverse(op.mine)]

\* Deletes what the command has created, last first, and then the records.
Undo(op, cs) ==
  IF cs = <<>> THEN Aborted(op)
  ELSE [op EXCEPT !.stage = "delete", !.aborting = TRUE, !.doomed = Reverse(cs)]

\* When no further channel could be created, and when the last one was created
\* and then could not be finished.
UndoMade(a) == On(a, Undo(command[a], command[a].mine))
UndoWithNew(a) == On(a, Undo(command[a], Append(command[a].mine, command[a].chan)))

CreateCategory(a) ==
  /\ At(a, Provisioning, "category")
  /\ \/ Works /\ categories' = categories + 1 /\ GoesTo(a, "create")
     \/ Fails /\ UndoMade(a) /\ categories' \in {categories, categories + 1}
  /\ UNCHANGED <<channels, records, made, rows, byHand>>

\* A channel that was created while the answer was lost is not undone, since the
\* command does not know it.
CreateTextChannel(a) ==
  LET op == command[a]
      undone == Undo(op, op.mine)
      name == IF op.kind = "setup" THEN Head(op.types) ELSE op.name
  IN
  /\ At(a, Provisioning, "create")
  /\ \/ /\ made < MaxChannels
        /\ channels' = With(channels, made + 1, [name |-> name, posted |-> FALSE])
        /\ made' = made + 1
        /\ \/ Works /\ On(a, [op EXCEPT !.stage = "post", !.chan = made + 1])
           \/ Fails /\ On(a, IF op.kind = "setup" THEN Crowded(undone) ELSE undone)
     \/ Fails /\ UndoMade(a) /\ UNCHANGED <<channels, made>>
  /\ UNCHANGED <<categories, records, rows, byHand>>

\* "posted" is that the messages are there and the command knows it. Of a channel
\* for which it does not know it the command keeps no record.
SendInitialMessage(a) ==
  LET op == command[a] IN
  /\ At(a, Provisioning, "post")
  /\ \/ /\ Works /\ Exists(op.chan)
        /\ channels' = [channels EXCEPT ![op.chan].posted = TRUE]
        /\ GoesTo(a, IF op.kind = "resetup" THEN "swap" ELSE "record")
     \/ /\ IF Exists(op.chan) THEN Fails ELSE Works
        /\ UndoWithNew(a)
        /\ UNCHANGED channels
  /\ UNCHANGED <<categories, records, made, rows, byHand>>

CreateRecord(a) ==
  LET op == command[a] IN
  /\ At(a, {"setup", "custom"}, "record")
  /\ \/ /\ Works
        /\ records' = records \cup {[id |-> rows + 1, type |-> Head(op.types), channel |-> op.chan]}
        /\ rows' = rows + 1
        /\ On(a, [op EXCEPT !.stage = IF Len(op.types) = 1 THEN "over" ELSE "create",
                            !.types = Tail(@), !.mine = Append(@, op.chan)])
     \/ Fails /\ UndoWithNew(a) /\ UNCHANGED <<records, rows>>
  /\ UNCHANGED <<channels, categories, made, byHand>>

-----------------------------------------------------------------------------
\* A resetup gives the record of the old channel the new one, and only then
\* deletes the old channel.
Repoint(id, c) == {IF r.id = id THEN [r EXCEPT !.channel = c] ELSE r : r \in records}
HasRow(id) == \E r \in records : r.id = id

\* Slip: the other records of the type are forgotten.
NoRest(op) == [op EXCEPT !.stage = "over"]

Rest(op) == [op EXCEPT !.stage = IF op.later = <<>> THEN "over" ELSE "delete",
                       !.doomed = op.later]

UpdateRecord(a) ==
  LET op == command[a] IN
  /\ At(a, {"resetup"}, "swap")
  /\ \/ /\ Works /\ HasRow(op.target.id)
        /\ records' = Repoint(op.target.id, op.chan)
        /\ GoesTo(a, "retire")
     \/ /\ IF HasRow(op.target.id) THEN Fails ELSE Works
        /\ UndoWithNew(a)
        /\ UNCHANGED records
  /\ UNCHANGED <<channels, categories, made, rows, byHand>>

\* Slip: the replacement is dropped and the record not restored.
DeleteOrDrop(a) ==
  LET op == command[a] IN
  /\ At(a, {"resetup"}, "retire")
  /\ \/ /\ channels' = Restrict(channels, DOMAIN channels \ {op.target.channel})
        /\ \/ Works /\ On(a, Rest(op))
           \/ /\ Fails /\ Exists(op.target.channel)
              /\ On(a, Crowded([op EXCEPT !.stage = "drop"]))
     \/ Fails /\ Exists(op.target.channel) /\ GoesTo(a, "drop") /\ UNCHANGED channels
  /\ UNCHANGED <<categories, records, made, rows, byHand>>

\* If the channel was deleted and the answer lost, the record is restored to a
\* channel that is gone.
DeleteOldChannel(a) ==
  LET op == command[a] IN
  /\ At(a, {"resetup"}, "retire")
  /\ \/ /\ channels' = Restrict(channels, DOMAIN channels \ {op.target.channel})
        /\ \/ Works /\ On(a, Rest(op))
           \/ /\ Fails /\ Exists(op.target.channel)
              /\ On(a, Crowded([op EXCEPT !.stage = "restore"]))
     \/ Fails /\ Exists(op.target.channel) /\ GoesTo(a, "restore") /\ UNCHANGED channels
  /\ UNCHANGED <<categories, records, made, rows, byHand>>

\* What a call that deletes a channel and fails leaves of the channels.
MayBeGone(c) == channels' \in {channels, Restrict(channels, DOMAIN channels \ {c})}

\* The rollback of a resetup. It ends at its first failure.
RestoreRecord(a) ==
  LET op == command[a] IN
  /\ At(a, {"resetup"}, "restore")
  /\ \/ /\ Works /\ HasRow(op.target.id)
        /\ records' = Repoint(op.target.id, op.target.channel)
        /\ GoesTo(a, "drop")
     \/ /\ IF HasRow(op.target.id) THEN Fails ELSE Works
        /\ On(a, Failed(op)) /\ UNCHANGED records
  /\ UNCHANGED <<channels, categories, made, rows, byHand>>

DropReplacement(a) ==
  LET op == command[a] IN
  /\ At(a, {"resetup"}, "drop")
  /\ \/ /\ Works
        /\ channels' = Restrict(channels, DOMAIN channels \ {op.chan})
        /\ On(a, Aborted(op))
     \/ Fails /\ Exists(op.chan) /\ MayBeGone(op.chan) /\ On(a, Failed(op))
  /\ UNCHANGED <<categories, records, made, rows, byHand>>

-----------------------------------------------------------------------------
\* The channels to delete, one after another. A channel that is already gone
\* counts as deleted; one whose deletion fails keeps its record.
\* A cleanup has no records to delete, a teardown deletes each record with its
\* channel, and all other deletions end with the records of what they deleted.
Deleted(op, gone, failed) ==
  LET left == Tail(op.doomed)
      forget == IF op.kind = "teardown" THEN gone # op.gone
                ELSE op.kind # "cleanup" /\ gone # {} /\ left = <<>>
  IN  [op EXCEPT !.stage = IF forget THEN "forget" ELSE IF left = <<>> THEN "over" ELSE "delete",
                 !.doomed = left, !.gone = IF op.kind = "cleanup" THEN {} ELSE gone,
                 !.failed = failed]

DeleteChannel(a) ==
  LET op == command[a]
      c == Head(op.doomed)
  IN
  /\ At(a, All, "delete")
  /\ \/ /\ Works
        /\ channels' = Restrict(channels, DOMAIN channels \ {c})
        /\ On(a, Deleted(op, op.gone \cup {c}, op.failed))
     \/ Fails /\ Exists(c) /\ MayBeGone(c) /\ On(a, Deleted(op, op.gone, TRUE))
  /\ UNCHANGED <<categories, records, made, rows, byHand>>

Forgot(op, failed) ==
  [op EXCEPT !.stage = IF op.doomed = <<>> THEN "over" ELSE "delete", !.gone = {},
             !.failed = op.failed \/ failed]

ForgetChannels(a) ==
  LET op == command[a] IN
  /\ At(a, All, "forget")
  /\ \/ /\ Works
        /\ records' = {r \in records : r.channel \notin op.gone}
        /\ On(a, Forgot(op, FALSE))
     \/ Fails /\ On(a, Forgot(op, TRUE)) /\ UNCHANGED records
  /\ UNCHANGED <<channels, categories, made, rows, byHand>>

GoOn(a) ==
  \/ CreateCategory(a) \/ CreateTextChannel(a) \/ SendInitialMessage(a) \/ CreateRecord(a)
  \/ UpdateRecord(a) \/ DeleteOldChannel(a) \/ RestoreRecord(a) \/ DropReplacement(a)
  \/ DeleteChannel(a) \/ ForgetChannels(a)

-----------------------------------------------------------------------------
\* The process ends and is started again: the commands are lost.
Restart ==
  /\ Running # {}
  /\ command' = [a \in Admins |-> Nothing]
  /\ UNCHANGED <<channels, categories, records, made, rows, failures, byHand>>

\* People create and delete channels without the bot.
CreateByHand(n) ==
  /\ byHand < MaxByHand /\ made < MaxChannels
  /\ channels' = With(channels, made + 1, [name |-> n, posted |-> FALSE])
  /\ made' = made + 1 /\ byHand' = byHand + 1
  /\ command' = Disturbed
  /\ UNCHANGED <<categories, records, rows, failures>>

DeleteByHand(c) ==
  /\ byHand < MaxByHand
  /\ channels' = Restrict(channels, DOMAIN channels \ {c})
  /\ byHand' = byHand + 1
  /\ command' = Disturbed
  /\ UNCHANGED <<categories, records, made, rows, failures>>

-----------------------------------------------------------------------------
Init ==
  /\ channels = <<>> /\ categories = 0 /\ records = {}
  /\ command = [a \in Admins |-> Nothing]
  /\ made = 0 /\ rows = 0
  /\ failures = 0 /\ byHand = 0

Next ==
  \/ \E a \in Admins :
       \/ SetupUiChannels(a) \/ CleanupUiChannels(a) \/ TeardownUiChannels(a)
       \/ \E t \in Types : ResetupUiChannel(a, t)
       \/ \E t \in Types, n \in Names : SetupCustomUiChannel(a, t, n)
       \/ GoOn(a)
  \/ \E n \in Names : CreateByHand(n)
  \/ \E c \in DOMAIN channels : DeleteByHand(c)
  \/ Restart

Spec == Init /\ [][Next]_vars

-----------------------------------------------------------------------------
\* The tables and the server have the right form, no two rows share an id or a
\* channel (the unique constraints), and no row was written before the messages
\* of its channel.
TypeOK ==
  /\ DOMAIN channels \subseteq 1..made
  /\ \A c \in DOMAIN channels : channels[c] \in [name : Names, posted : BOOLEAN]
  /\ categories \in Nat
  /\ records \subseteq [id : 1..rows, type : Types, channel : 1..made]
  /\ \A r, s \in records : (r.id = s.id \/ r.channel = s.channel) => r = s
  /\ \A r \in records : Exists(r.channel) => channels[r.channel].posted
  /\ DOMAIN command = Admins

Ended(a, kinds) == command[a].kind \in kinds /\ Free(a) /\ command[a].alone
Succeeded(a) == ~command[a].failed /\ ~command[a].aborting
Undone(a) == command[a].aborting /\ ~command[a].failed

\* A setup that ran alone did all or nothing: when it reports success every
\* type it set out to install has one record, of a channel with its messages;
\* when it failed and its rollback did not, no type has a record it did not
\* have and no channel is left that blocks the next attempt (unless one was
\* created of which Discord never told the command).
SetupIsAllOrNothing ==
  \A a \in Admins : Ended(a, {"setup", "custom"}) =>
    /\ Succeeded(a) => \A t \in command[a].asked : Usable(t) /\ Cardinality(Recorded(t)) = 1
    /\ Undone(a) => /\ \A t \in command[a].asked : Recorded(t) = {}
                    /\ command[a].chan \notin DOMAIN channels
                    /\ command[a].kind = "setup" => Blocking = {}

\* After a resetup that ran alone and reports success there is exactly one
\* record of the type, with a usable channel, whatever there was before; and the
\* channels of the other records are gone.
ResetupConverges ==
  \A a \in Admins : Ended(a, {"resetup"}) /\ Succeeded(a) =>
    /\ \A t \in command[a].asked : Usable(t) /\ Cardinality(Recorded(t)) = 1
    /\ \A i \in DOMAIN command[a].later : ~Exists(command[a].later[i])

\* A resetup or a cleanup that runs alone never takes away a UI that was usable
\* when it began: not while it runs, not by a failure of the database or of
\* Discord, and not when the process ends in the middle of it. (The exception is
\* a deletion of the old channel that Discord applied and whose answer was lost.)
UsableStaysUsable ==
  \A a \in Admins : command[a].kind \in {"resetup", "cleanup"} /\ command[a].alone =>
    \A t \in command[a].used : Usable(t)

\* The types, too.
UiInv == TypeOK /\ UsableStaysUsable
=============================================================================
