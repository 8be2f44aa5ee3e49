------------------------------ MODULE InfoThreads ------------------------------
(***************************************************************************)
(* The private threads in which players read their results and the         *)
(* rankings (ui/info_thread.py, gateway/commands/application.py,           *)
(* contexts/ui/application/info_threads.py).                               *)
(*                                                                         *)
(* A command creates a thread for a target, always a new one, and saves it *)
(* as the target's latest. Results go to the latest thread: those asked    *)
(* for with a slash command, and those asked for with a button, if it is   *)
(* the latest thread that the button is in. What was chosen in the menus   *)
(* of a thread is kept in memory until its button is pressed.              *)
(*                                                                         *)
(* The interactions of a user, and those of an administrator who can see   *)
(* the threads of all, run at the same time, one await after another.      *)
(***************************************************************************)
EXTENDS Integers, FiniteSets, Functions

CONSTANTS
  Users, Admins,
  Kinds,         (* the commands that the threads of the instance are for    *)
  Interactions,  (* how many of them may run at once                         *)
  LastPage,      (* of every leaderboard                                     *)
  None,
  MaxStarted, MaxPicks, MaxFailures, MaxRestarts    (* bounds of the model   *)

AllKinds == {"player_info", "player_info_season", "leaderboard", "leaderboard_season"}

ASSUME InfoAssumption ==
  /\ Admins \subseteq Users /\ Kinds \subseteq AllKinds
  /\ LastPage \in Nat \ {0}
  /\ IsFiniteSet(Interactions) /\ None \notin Nat
  /\ {MaxStarted, MaxPicks, MaxFailures, MaxRestarts} \subseteq Nat

VARIABLES
  threads,       (* the threads that exist, by id: owner, the command they   *)
                 (* are for, and whether initial message and menus are there *)
  enabled,       (* the buttons that can be pressed: their thread, their     *)
                 (* command, and the next page that they ask for or 0        *)
  binding,       (* player_info_thread_bindings: the latest thread of a user *)
  chosen,        (* what a user has chosen in a thread                       *)
  tasks,         (* the interactions that are being handled                  *)
  made,          (* how many threads were made: their ids are 1..made        *)
  started, picks, failures, restarts,               (* counters of the model *)
  spent,         (* history: the choices that a button has used              *)
  replaced       (* history: the threads that were the latest of their owner *)

vars == <<threads, enabled, binding, chosen, tasks, made, started, picks,
          failures, restarts, spent, replaced>>
history == <<spent, replaced>>

\* What has to be chosen before the button of the first message is pressed.
Choices(kind) ==
  CASE kind = "player_info" -> {}
    [] kind = "player_info_season" -> {"season"}
    [] kind = "leaderboard" -> {"format"}
    [] kind = "leaderboard_season" -> {"season", "format"}

Fields == {"season", "format"}
NothingChosen == [f \in Fields |-> 0]
ChosenIn(u, th) == IF <<u, th>> \in DOMAIN chosen THEN chosen[<<u, th>>] ELSE NothingChosen
PicksOf(c) == {c[f] : f \in Fields} \ {0}

\* A handler: how far it is, for whom, the thread that it makes or posts to, the
\* button that it serves, whether its transaction saw the user's row, and
\* (history) whether the button's thread had been replaced when it was pressed.
Stages == {"idle", "equip", "read", "save", "discard", "disable", "resolve", "show"}
Task == [stage : Stages, target : Users \cup {None}, thread : Nat \cup {None},
         from : Nat \cup {None}, kind : AllKinds \cup {None}, page : 0..LastPage,
         row : BOOLEAN, late : BOOLEAN]

Idle == [stage |-> "idle", target |-> None, thread |-> None, from |-> None,
         kind |-> None, page |-> 0, row |-> FALSE, late |-> FALSE]
Begin(i, task) ==
  /\ tasks[i] = Idle /\ started < MaxStarted
  /\ started' = started + 1
  /\ tasks' = [tasks EXCEPT ![i] = task]
At(i, stage) == tasks[i].stage = stage
GoesTo(i, stage) == tasks' = [tasks EXCEPT ![i].stage = stage]
End(i) == tasks' = [tasks EXCEPT ![i] = Idle]

\* The failures that are counted are those in a creation.
Fails == failures < MaxFailures /\ failures' = failures + 1
Works == failures' = failures

With(f, x, y) == [z \in DOMAIN f \cup {x} |-> IF z = x THEN y ELSE f[z]]

Exists(th) == th \in DOMAIN threads
Sees(u, th) == Exists(th) /\ (u = threads[th].owner \/ u \in Admins)

-----------------------------------------------------------------------------
\* A thread is made for its owner, by the owner or, with the dev command, by an
\* administrator. (If Discord refuses, nothing has happened.)
InfoThread(i, u, target, kind) ==
  /\ u = target \/ u \in Admins
  /\ Begin(i, [Idle EXCEPT !.stage = "equip", !.target = target, !.thread = made + 1])
  /\ made' = made + 1
  /\ threads' = With(threads, made + 1, [owner |-> target, kind |-> kind, ready |-> FALSE])
  /\ UNCHANGED <<enabled, binding, chosen, picks, failures, restarts, history>>

\* Slip: a thread that could not be equipped is good enough, as it is for the
\* presence threads of the queue.
EquipAtBest(i) ==
  LET task == tasks[i] IN
  /\ At(i, "equip")
  /\ \/ /\ Works
        /\ threads' = [threads EXCEPT ![task.thread].ready = TRUE]
        /\ enabled' = enabled \cup {<<task.thread, threads[task.thread].kind, 0>>}
     \/ Fails /\ UNCHANGED <<threads, enabled>>
  /\ GoesTo(i, "read")
  /\ UNCHANGED <<binding, chosen, made, picks, started, restarts, history>>

\* Invites the user and the administrators and posts the first message. When
\* that fails nobody remembers the thread, and it stays.
Equip(i) ==
  LET task == tasks[i] IN
  /\ At(i, "equip")
  /\ \/ /\ Works
        /\ threads' = [threads EXCEPT ![task.thread].ready = TRUE]
        /\ enabled' = enabled \cup {<<task.thread, threads[task.thread].kind, 0>>}
        /\ GoesTo(i, "read")
     \/ Fails /\ End(i) /\ UNCHANGED <<threads, enabled>>
  /\ UNCHANGED <<binding, chosen, made, picks, started, restarts, history>>

\* The transaction that saves the latest thread begins by reading the user's row.
HasRow(u) == binding[u] # None

ReadBinding(i) ==
  /\ At(i, "read")
  /\ tasks' = [tasks EXCEPT ![i].stage = "save", ![i].row = HasRow(tasks[i].target)]
  /\ UNCHANGED <<threads, enabled, binding, chosen, made, picks, failures, started, restarts, history>>

\* The row is updated, or inserted: of two that saw none the second fails.
SaveBinding(i) ==
  LET target == tasks[i].target
      conflict == ~tasks[i].row /\ HasRow(target)
  IN
  /\ At(i, "save")
  /\ \/ /\ Works /\ ~conflict
        /\ binding' = [binding EXCEPT ![target] = tasks[i].thread]
        /\ replaced' = replaced \cup ({binding[target]} \ {None})
        /\ End(i)
     \/ /\ IF conflict THEN Works ELSE Fails
        /\ GoesTo(i, "discard")
        /\ UNCHANGED <<binding, replaced>>
  /\ UNCHANGED <<threads, enabled, chosen, made, picks, started, restarts, spent>>

Gone(th) ==
  /\ threads' = Restrict(threads, DOMAIN threads \ {th})
  /\ enabled' = {b \in enabled : b[1] # th}

\* Slip: the thread that could not be saved is left.
LeaveThread(i) ==
  /\ At(i, "discard") /\ Works /\ End(i)
  /\ UNCHANGED <<threads, enabled, binding, chosen, made, picks, started, restarts, history>>

DiscardThread(i) ==
  /\ At(i, "discard")
  /\ End(i)
  /\ \/ Works /\ Gone(tasks[i].thread)
     \/ Fails /\ UNCHANGED <<threads, enabled>>
  /\ UNCHANGED <<binding, chosen, made, picks, started, restarts, history>>

-----------------------------------------------------------------------------
\* The menus and the buttons of a thread.
Select(u, th, f) ==
  /\ Sees(u, th) /\ <<th, threads[th].kind, 0>> \in enabled /\ f \in Choices(threads[th].kind)
  /\ picks < MaxPicks /\ started < MaxStarted
  /\ picks' = picks + 1
  /\ chosen' = With(chosen, <<u, th>>, [ChosenIn(u, th) EXCEPT ![f] = picks + 1])
  /\ UNCHANGED <<threads, enabled, binding, tasks, made, failures, started, restarts, history>>

Press(i, u, b) ==
  /\ b \in enabled /\ Sees(u, b[1])
  /\ Begin(i, [Idle EXCEPT !.stage = "disable", !.target = u, !.from = b[1],
                            !.kind = b[2], !.page = b[3], !.late = b[1] \in replaced])
  /\ UNCHANGED <<threads, enabled, binding, chosen, made, picks, failures, restarts, history>>

\* Before anything else the message loses its buttons (or the handler ends);
\* then those that need a choice take it. The next page is named by its button.
Complete(kind, c) == \A f \in Choices(kind) : c[f] # 0
Key(i) == <<tasks[i].target, tasks[i].from>>
Choice(i) == ChosenIn(tasks[i].target, tasks[i].from)

NextPageButton(i) ==
  /\ GoesTo(i, "resolve")
  /\ UNCHANGED <<chosen, spent>>

TakeChoice(i) ==
  /\ chosen' = Restrict(chosen, DOMAIN chosen \ {Key(i)})
  /\ spent' = spent \cup PicksOf(Choice(i))
  /\ IF Complete(tasks[i].kind, Choice(i)) THEN GoesTo(i, "resolve") ELSE End(i)

DisableComponents(i) ==
  LET task == tasks[i] IN
  /\ At(i, "disable")
  /\ \/ /\ Exists(task.from)
        /\ enabled' = enabled \ {<<task.from, task.kind, task.page>>}
        /\ IF task.page = 0 THEN TakeChoice(i) ELSE NextPageButton(i)
     \/ End(i) /\ UNCHANGED <<enabled, chosen, spent>>
  /\ UNCHANGED <<threads, binding, made, picks, failures, started, restarts, replaced>>

\* A slash command gives everything as arguments; the dev command also whose
\* latest thread it is about.
Ask(i, u, target, kind) ==
  /\ u = target \/ u \in Admins
  /\ binding[target] # None
  /\ Begin(i, [Idle EXCEPT !.stage = "show", !.target = target, !.kind = kind,
                            !.thread = binding[target]])
  /\ UNCHANGED <<threads, enabled, binding, chosen, made, picks, failures, restarts, history>>

Shows(i, th) == tasks' = [tasks EXCEPT ![i].stage = "show", ![i].thread = th]

\* Slip: a button may be anywhere.
ResolveAny(i) ==
  /\ At(i, "resolve")
  /\ IF binding[tasks[i].target] = None THEN End(i)
     ELSE Shows(i, binding[tasks[i].target])
  /\ UNCHANGED <<threads, enabled, binding, chosen, made, picks, failures, started, restarts, history>>

\* The latest thread of the target; a button must be in it.
Resolve(i) ==
  LET latest == binding[tasks[i].target] IN
  /\ At(i, "resolve")
  /\ IF latest = None \/ tasks[i].from \notin {None, latest} THEN End(i)
     ELSE Shows(i, latest)
  /\ UNCHANGED <<threads, enabled, binding, chosen, made, picks, failures, started, restarts, history>>

\* Looks up the result and posts it, unless the thread is no longer there,
\* there is no such season or page, the player has no row, or Discord refuses.
Post(i, pages) ==
  /\ At(i, "show") /\ End(i)
  /\ \/ /\ Exists(tasks[i].thread)
        /\ enabled' = enabled \cup {<<tasks[i].thread, tasks[i].kind, p>> : p \in pages}
     \/ UNCHANGED enabled
  /\ UNCHANGED <<threads, binding, chosen, made, picks, failures, started, restarts, history>>

\* A page of a leaderboard has a button for the next one, if there is one.
PageOf(i) == IF tasks[i].page = 0 THEN 1 ELSE tasks[i].page
NextPage(i) == IF PageOf(i) < LastPage THEN {PageOf(i) + 1} ELSE {}

ShowPlayerInfo(i) == At(i, "show") /\ tasks[i].kind = "player_info" /\ Post(i, {})
ShowPlayerInfoSeason(i) == At(i, "show") /\ tasks[i].kind = "player_info_season" /\ Post(i, {})
ShowLeaderboard(i) == At(i, "show") /\ tasks[i].kind = "leaderboard" /\ Post(i, NextPage(i))
ShowLeaderboardSeason(i) ==
  At(i, "show") /\ tasks[i].kind = "leaderboard_season" /\ Post(i, NextPage(i))

GoOn(i) ==
  \/ Equip(i) \/ ReadBinding(i) \/ SaveBinding(i) \/ DiscardThread(i)
  \/ DisableComponents(i) \/ Resolve(i)
  \/ ShowPlayerInfo(i) \/ ShowPlayerInfoSeason(i)
  \/ ShowLeaderboard(i) \/ ShowLeaderboardSeason(i)

-----------------------------------------------------------------------------
\* The process ends and starts again: what it had in memory is lost, and the
\* buttons of the threads are registered anew.
Restart ==
  /\ restarts < MaxRestarts
  /\ restarts' = restarts + 1
  /\ tasks' = [i \in Interactions |-> Idle]
  /\ chosen' = <<>>
  /\ UNCHANGED <<threads, enabled, binding, made, started, picks, failures, history>>

Init ==
  /\ threads = <<>> /\ enabled = {}
  /\ binding = [u \in Users |-> None]
  /\ chosen = <<>>
  /\ tasks = [i \in Interactions |-> Idle]
  /\ made = 0 /\ started = 0 /\ picks = 0 /\ failures = 0 /\ restarts = 0
  /\ spent = {} /\ replaced = {}

Next ==
  \/ \E i \in Interactions :
       \/ \E u, t \in Users, k \in Kinds : InfoThread(i, u, t, k)
       \/ \E u, t \in Users, k \in AllKinds : Ask(i, u, t, k)
       \/ \E u \in Users, b \in enabled : Press(i, u, b)
       \/ GoOn(i)
  \/ \E u \in Users, th \in DOMAIN threads, f \in Fields : Select(u, th, f)
  \/ Restart

Spec == Init /\ [][Next]_vars

-----------------------------------------------------------------------------
\* Threads, bindings, choices and buttons have the right form: bindings are of
\* threads that were made, no button asks for a page after the last, and nobody
\* has chosen anything where there is nothing to choose.
TypeOK ==
  /\ DOMAIN threads \subseteq 1..made
  /\ \A th \in DOMAIN threads : threads[th] \in [owner : Users, kind : Kinds, ready : BOOLEAN]
  /\ enabled \subseteq (DOMAIN threads) \X AllKinds \X (0..LastPage)
  /\ binding \in [Users -> (1..made) \cup {None}]
  /\ \A key \in DOMAIN chosen : chosen[key] \in [Fields -> 0..picks]
  /\ \A key \in DOMAIN chosen : Exists(key[2]) =>
       \A f \in Fields : chosen[key][f] # 0 => f \in Choices(threads[key[2]].kind)

\* The latest thread of a user is there, is the user's own, and has its first
\* message: no failure in the middle of a creation, no second creation at the
\* same time and no restart leaves a user bound to anything less.
BoundThreadIsReady ==
  \A u \in Users : binding[u] # None =>
    Exists(binding[u]) /\ threads[binding[u]].owner = u /\ threads[binding[u]].ready

\* What is about to be posted is for the thread's own player, and if a button
\* asked for it, it goes to the thread of that button, which had not been
\* replaced when the button was pressed.
ResultsStayHome ==
  \A i \in {j \in Interactions : At(j, "show")} :
    LET task == tasks[i] IN
    /\ Exists(task.thread) => threads[task.thread].owner = task.target
    /\ task.from # None => task.thread = task.from /\ ~task.late

\* A choice is used at most once, by however many buttons that were pressed
\* before the first of them disabled the message.
ChoiceUsedOnce == \A key \in DOMAIN chosen : PicksOf(chosen[key]) \cap spent = {}

\* A thread that is neither the latest of its owner nor an earlier one, and that
\* nobody is creating, is what a failure or a restart has left: there are no
\* more of these than failures, and creations that a restart has cut short.
Creating(i) == tasks[i].stage \in {"equip", "read", "save", "discard"}
InCreation == {tasks[i].thread : i \in {j \in Interactions : Creating(j)}}
Strays == DOMAIN threads \ (Range(binding) \cup replaced \cup InCreation)
StraysHaveAReason == Cardinality(Strays) <= failures + restarts * Cardinality(Interactions)

\* The types, what a user is bound to, and what was chosen.
ThreadsInv == TypeOK /\ BoundThreadIsReady /\ ChoiceUsedOnce
=============================================================================
