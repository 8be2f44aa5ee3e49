--------------------------- MODULE InfoThreadsProofs ---------------------------
(***************************************************************************)
(* Proofs about InfoThreads, for any users, interactions and bounds: what  *)
(* a user is bound to, where results go, what choices are used for, and    *)
(* how many threads are left behind.                                       *)
(***************************************************************************)
EXTENDS InfoThreads, FiniteSetTheorems, TLAPS

-----------------------------------------------------------------------------
(* The inductive invariant. *)

Serving(i) == tasks[i].stage \in {"disable", "resolve", "show"}

CountersOK ==
  /\ made \in Nat /\ started \in Nat /\ picks \in Nat
  /\ failures \in Nat /\ restarts \in Nat

\* The thread that is being made is its target's and nobody's latest, and once
\* it is equipped it has its first message. It is no other creation's.
CreationFits(i) ==
  /\ tasks[i].target \in Users /\ tasks[i].thread \in DOMAIN threads
  /\ threads[tasks[i].thread].owner = tasks[i].target
  /\ tasks[i].thread \notin replaced
  /\ \A u \in Users : binding[u] # tasks[i].thread
  /\ ~At(i, "equip") => threads[tasks[i].thread].ready

CreationsFit == \A i \in Interactions : Creating(i) => CreationFits(i)
CreationsApart ==
  \A i, j \in Interactions :
    Creating(i) /\ Creating(j) /\ i # j => tasks[i].thread # tasks[j].thread

\* A button's handler knows its thread, and it was only late if the thread had
\* been replaced by then. What is shown is shown in a thread of the target's.
ServiceFits(i) ==
  /\ tasks[i].target \in Users /\ tasks[i].kind \in AllKinds
  /\ tasks[i].from \in (1..made) \cup {None}
  /\ tasks[i].late => tasks[i].from \in replaced

ShowFits(i) ==
  /\ tasks[i].thread \in 1..made
  /\ Exists(tasks[i].thread) => threads[tasks[i].thread].owner = tasks[i].target
  /\ tasks[i].from # None => tasks[i].thread = tasks[i].from /\ ~tasks[i].late

ServicesFit ==
  \A i \in Interactions : /\ Serving(i) => ServiceFits(i)
                          /\ At(i, "show") => ShowFits(i)

\* A replaced thread is not anybody's latest again.
ReplacedForGood ==
  /\ replaced \subseteq 1..made
  /\ \A u \in Users : binding[u] \notin replaced

\* What is chosen is chosen in a thread that was made, and every choice is a
\* choice of its own.
ChoicesApart ==
  /\ DOMAIN chosen \subseteq Users \X (1..made)
  /\ spent \subseteq 1..picks
  /\ \A k1, k2 \in DOMAIN chosen : k1 # k2 => PicksOf(chosen[k1]) \cap PicksOf(chosen[k2]) = {}

InfoInv ==
  /\ CountersOK /\ TypeOK /\ tasks \in [Interactions -> Task]
  /\ BoundThreadIsReady /\ ReplacedForGood
  /\ CreationsFit /\ CreationsApart /\ ServicesFit
  /\ ChoicesApart /\ ChoiceUsedOnce

-----------------------------------------------------------------------------
(* Functions, choices and tasks. *)

\* A function without some of its values.
LEMMA RestrictIs ==
  ASSUME NEW f, NEW S
  PROVE  /\ DOMAIN Restrict(f, S) = S
         /\ \A z \in S : Restrict(f, S)[z] = f[z]
BY DEF Restrict

\* What can be chosen is a season and a format.
LEMMA ChoicesAreFields ==
  ASSUME NEW kind \in AllKinds
  PROVE  Choices(kind) \subseteq Fields
BY DEF Choices, AllKinds, Fields

\* What is chosen in a thread, chosen now or not at all, has the form of a choice.
LEMMA ChosenIsChoice ==
  ASSUME TypeOK, picks \in Nat, NEW u, NEW th
  PROVE  ChosenIn(u, th) \in [Fields -> 0..picks]
BY DEF TypeOK, ChosenIn, NothingChosen

\* A task that begins is a task, of the stage and with the values it is given.
LEMMA IdleIsTask ==
  ASSUME InfoAssumption
  PROVE  Idle \in Task /\ Idle.stage = "idle" /\ Idle.page = 0 /\ Idle.from = None /\ ~Idle.late
BY DEF InfoAssumption, Idle, Task, Stages

-----------------------------------------------------------------------------
(* What each handler's step keeps. *)

\* The handlers that only wait, or end, keep everything that their own task is
\* not part of.
LEMMA TaskEnds ==
  ASSUME InfoAssumption, InfoInv, NEW i \in Interactions, End(i),
         UNCHANGED <<threads, enabled, binding, chosen, made, picks, spent, replaced, started, restarts>>,
         failures' \in Nat
  PROVE  InfoInv'
<1>1. Idle \in Task /\ Idle.stage = "idle"
  BY DEF Idle, Task, Stages, InfoAssumption
<1>2. tasks' \in [Interactions -> Task] /\ tasks'[i].stage = "idle"
      /\ \A j \in Interactions \ {i} : tasks'[j] = tasks[j]
  BY <1>1 DEF End, InfoInv
<1>3. CountersOK' /\ TypeOK' /\ BoundThreadIsReady' /\ ReplacedForGood' /\ ChoicesApart'
      /\ ChoiceUsedOnce'
  BY DEF InfoInv, CountersOK, TypeOK, BoundThreadIsReady, ReplacedForGood, ChoicesApart,
         ChoiceUsedOnce, Exists
<1>4. CreationsFit' /\ CreationsApart'
  BY <1>2 DEF InfoInv, CreationsFit, CreationFits, CreationsApart, Creating, At
<1>5. ServicesFit'
  BY <1>2 DEF InfoInv, ServicesFit, ServiceFits, ShowFits, Serving, At, Exists
<1> QED
  BY <1>2, <1>3, <1>4, <1>5 DEF InfoInv

\* A new thread is the one of its creation alone.
LEMMA InfoThreadKeeps ==
  ASSUME InfoAssumption, InfoInv, NEW i \in Interactions,
         NEW u \in Users, NEW t \in Users, NEW k \in Kinds, InfoThread(i, u, t, k)
  PROVE  InfoInv'
<1> DEFINE new == [owner |-> t, kind |-> k, ready |-> FALSE]
<1>1. /\ made \in Nat /\ made' = made + 1 /\ made + 1 \notin 1..made
      /\ \A n \in 1..made : n \in 1..made'
      /\ started' = started + 1
      /\ UNCHANGED <<enabled, binding, chosen, picks, failures, restarts, spent, replaced>>
  BY DEF InfoThread, Begin, InfoInv, CountersOK, history
<1>2. PICK task \in Task : /\ tasks' = [tasks EXCEPT ![i] = task]
                           /\ task.stage = "equip" /\ task.target = t /\ task.thread = made + 1
  <2>1. [Idle EXCEPT !.stage = "equip", !.target = t, !.thread = made + 1] \in Task
    <3>1. made + 1 \in Nat /\ Idle \in Task
      BY <1>1, IdleIsTask
    <3> QED
      BY <3>1 DEF Task, Stages
  <2> QED
    BY <2>1, IdleIsTask DEF InfoThread, Begin, Task
<1>3. /\ DOMAIN threads' = DOMAIN threads \cup {made + 1}
      /\ threads'[made + 1] = new
      /\ \A th \in DOMAIN threads : threads'[th] = threads[th]
  <2>1. threads' = With(threads, made + 1, new) /\ made + 1 \notin DOMAIN threads
    BY <1>1 DEF InfoThread, InfoInv, TypeOK
  <2> QED
    BY <2>1, <1>1 DEF With
<1>4. CountersOK' /\ tasks' \in [Interactions -> Task]
  BY <1>1, <1>2 DEF InfoInv, CountersOK
<1>5. \A th \in 1..made : Exists(th)' <=> Exists(th)
  BY <1>1, <1>3 DEF Exists
<1>6. TypeOK'
  <2>1. DOMAIN threads' \subseteq 1..made'
    BY <1>1, <1>3 DEF InfoInv, TypeOK
  <2>2. \A th \in DOMAIN threads' : threads'[th] \in [owner : Users, kind : Kinds, ready : BOOLEAN]
    <3> TAKE th \in DOMAIN threads'
    <3>1. CASE th = made + 1
      BY <3>1, <1>3
    <3>2. CASE th # made + 1
      <4>1. th \in DOMAIN threads /\ threads'[th] = threads[th]
        BY <3>2, <1>3
      <4> QED
        BY <4>1 DEF InfoInv, TypeOK
    <3> QED
      BY <3>1, <3>2
  <2>3. enabled' \subseteq (DOMAIN threads') \X AllKinds \X (0..LastPage)
    BY <1>1, <1>3 DEF InfoInv, TypeOK
  <2>4. binding' \in [Users -> (1..made') \cup {None}]
    BY <1>1 DEF InfoInv, TypeOK
  <2>5. \A key \in DOMAIN chosen' : chosen'[key] \in [Fields -> 0..picks']
    BY <1>1 DEF InfoInv, TypeOK
  <2>6. \A key \in DOMAIN chosen' : Exists(key[2])' =>
          \A f \in Fields : chosen'[key][f] # 0 => f \in Choices(threads'[key[2]].kind)
    <3> TAKE key \in DOMAIN chosen'
    <3>1. key \in DOMAIN chosen /\ key[2] \in 1..made
      BY <1>1 DEF InfoInv, ChoicesApart
    <3>2. (key[2] \in DOMAIN threads') => (key[2] \in DOMAIN threads /\ threads'[key[2]] = threads[key[2]])
      BY <3>1, <1>1, <1>3
    <3> QED
      BY <3>1, <3>2, <1>1 DEF InfoInv, TypeOK, Exists
  <2> QED
    BY <2>1, <2>2, <2>3, <2>4, <2>5, <2>6 DEF TypeOK, Exists
<1>7. BoundThreadIsReady'
  BY <1>1, <1>3 DEF InfoInv, BoundThreadIsReady, Exists
<1>8. ReplacedForGood' /\ ChoicesApart' /\ ChoiceUsedOnce'
  BY <1>1 DEF InfoInv, ReplacedForGood, ChoicesApart, ChoiceUsedOnce
<1>9. /\ tasks'[i].stage = "equip" /\ tasks'[i].target = t /\ tasks'[i].thread = made + 1
      /\ \A j \in Interactions \ {i} : tasks'[j] = tasks[j]
  BY <1>2 DEF InfoInv
<1>10. /\ ~Exists(made + 1) /\ made + 1 \notin replaced
       /\ \A v \in Users : binding[v] # made + 1
  BY <1>1 DEF InfoInv, TypeOK, ReplacedForGood, Exists, InfoAssumption
<1>11. \A j \in Interactions : Creating(j)' =>
          \/ j = i
          \/ j # i /\ Creating(j) /\ CreationFits(j) /\ tasks[j].thread # made + 1
  BY <1>9, <1>10 DEF InfoInv, CreationsFit, CreationFits, Creating, Exists
<1>12. CreationsFit'
  <2> SUFFICES ASSUME NEW j \in Interactions, Creating(j)'
               PROVE  CreationFits(j)'
    BY DEF CreationsFit
  <2>1. CASE j = i
    BY <2>1, <1>1, <1>3, <1>9, <1>10 DEF CreationFits, At
  <2>2. CASE j # i
    <3>1. CreationFits(j) /\ tasks'[j] = tasks[j]
      BY <2>2, <1>9, <1>11
    <3> QED
      BY <3>1, <1>1, <1>3 DEF CreationFits, At
  <2> QED
    BY <2>1, <2>2
<1>13. CreationsApart'
  BY <1>9, <1>11 DEF InfoInv, CreationsApart
<1>14. ServicesFit'
  <2> SUFFICES ASSUME NEW j \in Interactions
               PROVE  /\ Serving(j)' => ServiceFits(j)'
                      /\ At(j, "show")' => ShowFits(j)'
    BY DEF ServicesFit
  <2>1. CASE j = i
    BY <2>1, <1>9 DEF Serving, At
  <2>2. CASE j # i
    <3>1. /\ Serving(j)' => ServiceFits(j) 
          /\ At(j, "show")' => ShowFits(j)
          /\ tasks'[j] = tasks[j]
      BY <2>2, <1>9 DEF InfoInv, ServicesFit, Serving, At
    <3>2. ServiceFits(j) => ServiceFits(j)'
      BY <3>1, <1>1 DEF ServiceFits
    <3>3. ShowFits(j) => ShowFits(j)'
      BY <3>1, <1>1, <1>3 DEF ShowFits, Exists
    <3> QED
      BY <3>1, <3>2, <3>3
  <2> QED
    BY <2>1, <2>2
<1> QED
  BY <1>4, <1>6, <1>7, <1>8, <1>12, <1>13, <1>14 DEF InfoInv

\* A handler whose threads, bindings and history stay as they are, and which makes
\* no thread, disturbs no other.
LEMMA ServiceStep ==
  ASSUME InfoAssumption, InfoInv, NEW i \in Interactions, NEW task \in Task,
         tasks' = [tasks EXCEPT ![i] = task],
         task.stage \notin {"equip", "read", "save", "discard"},
         UNCHANGED <<threads, binding, made, replaced>>,
         Serving(i)' => ServiceFits(i)', At(i, "show")' => ShowFits(i)'
  PROVE  /\ tasks' \in [Interactions -> Task]
         /\ BoundThreadIsReady' /\ ReplacedForGood'
         /\ CreationsFit' /\ CreationsApart' /\ ServicesFit'
<1>1. tasks' \in [Interactions -> Task] /\ tasks'[i] = task
      /\ \A j \in Interactions \ {i} : tasks'[j] = tasks[j]
  BY DEF InfoInv
<1>2. BoundThreadIsReady' /\ ReplacedForGood'
  BY DEF InfoInv, BoundThreadIsReady, ReplacedForGood, Exists
<1>3. \A j \in Interactions : Creating(j)' => j # i /\ Creating(j) /\ tasks'[j] = tasks[j]
  BY <1>1 DEF Creating
<1>4. CreationsFit' /\ CreationsApart'
  BY <1>3 DEF InfoInv, CreationsFit, CreationFits, CreationsApart, At
<1>5. ServicesFit'
  <2> SUFFICES ASSUME NEW j \in Interactions, j # i
               PROVE  /\ Serving(j)' => ServiceFits(j)'
                      /\ At(j, "show")' => ShowFits(j)'
    BY DEF ServicesFit
  <2> QED
    BY <1>1 DEF InfoInv, ServicesFit, ServiceFits, ShowFits, Serving, At, Exists
<1> QED
  BY <1>1, <1>2, <1>4, <1>5

\* What is typed, chosen and counted stays so while none of it changes.
LEMMA NothingTyped ==
  ASSUME InfoInv, UNCHANGED <<threads, enabled, binding, chosen, made, picks, spent>>,
         started' \in Nat, failures' \in Nat, restarts' \in Nat
  PROVE  CountersOK' /\ TypeOK' /\ ChoicesApart' /\ ChoiceUsedOnce'
BY DEF InfoInv, CountersOK, TypeOK, ChoicesApart, ChoiceUsedOnce, Exists

\* A button that is pressed was in a thread that was made; whether that had been
\* replaced is what the handler remembers.
LEMMA PressKeeps ==
  ASSUME InfoAssumption, InfoInv, NEW i \in Interactions, NEW u \in Users,
         NEW b \in enabled, Press(i, u, b)
  PROVE  InfoInv'
<1>1. /\ UNCHANGED <<threads, enabled, binding, chosen, made, picks, failures, restarts, spent, replaced>>
      /\ started' = started + 1
      /\ b[1] \in DOMAIN threads /\ b[2] \in AllKinds /\ b[3] \in 0..LastPage
      /\ DOMAIN threads \subseteq 1..made /\ made \in Nat
  BY DEF Press, Begin, history, InfoInv, TypeOK, CountersOK, Sees, Exists
<1>2. b[1] \in 1..made /\ b[1] \in Nat
  BY <1>1
<1>3. PICK task \in Task : /\ tasks' = [tasks EXCEPT ![i] = task]
                           /\ task.stage = "disable" /\ task.target = u /\ task.from = b[1]
                           /\ task.kind = b[2] /\ task.late = (b[1] \in replaced)
  <2>1. [Idle EXCEPT !.stage = "disable", !.target = u, !.from = b[1], !.kind = b[2],
                     !.page = b[3], !.late = b[1] \in replaced] \in Task
    <3>1. Idle \in Task /\ (b[1] \in replaced) \in BOOLEAN
      BY IdleIsTask
    <3> QED
      BY <3>1, <1>1, <1>2 DEF Task, Stages
  <2> QED
    BY <2>1, IdleIsTask DEF Press, Begin, Task
<1>4. tasks'[i] = task
  BY <1>3 DEF InfoInv
<1>5. (Serving(i)' => ServiceFits(i)') /\ (At(i, "show")' => ShowFits(i)')
  BY <1>1, <1>2, <1>3, <1>4 DEF ServiceFits, At
<1>6. CountersOK' /\ TypeOK' /\ ChoicesApart' /\ ChoiceUsedOnce'
  BY <1>1, NothingTyped DEF InfoInv, CountersOK
<1>7. /\ tasks' \in [Interactions -> Task] /\ BoundThreadIsReady' /\ ReplacedForGood'
      /\ CreationsFit' /\ CreationsApart' /\ ServicesFit'
  BY <1>1, <1>3, <1>5, ServiceStep
<1> QED
  BY <1>6, <1>7 DEF InfoInv

\* The latest thread of a user is the user's own.
LEMMA AskKeeps ==
  ASSUME InfoAssumption, InfoInv, NEW i \in Interactions, NEW u \in Users,
         NEW target \in Users, NEW kind \in AllKinds, Ask(i, u, target, kind)
  PROVE  InfoInv'
<1> DEFINE latest == binding[target]
<1>1. /\ UNCHANGED <<threads, enabled, binding, chosen, made, picks, failures, restarts, spent, replaced>>
      /\ started' = started + 1 /\ made \in Nat
      /\ latest # None /\ latest \in (1..made) \cup {None}
  BY DEF Ask, Begin, history, InfoInv, TypeOK, CountersOK
<1>2. latest \in 1..made /\ latest \in Nat
  BY <1>1
<1>3. PICK task \in Task : /\ tasks' = [tasks EXCEPT ![i] = task]
                           /\ task.stage = "show" /\ task.target = target /\ task.from = None
                           /\ task.kind = kind /\ ~task.late /\ task.thread = latest
  <2>1. [Idle EXCEPT !.stage = "show", !.target = target, !.kind = kind, !.thread = latest] \in Task
    <3>1. Idle \in Task
      BY IdleIsTask
    <3> QED
      BY <3>1, <1>2 DEF Task, Stages
  <2> QED
    BY <2>1, IdleIsTask DEF Ask, Begin, Task
<1>4. tasks'[i] = task
  BY <1>3 DEF InfoInv
<1>5. threads[latest].owner = target
  BY <1>1 DEF InfoInv, BoundThreadIsReady
<1>6. (Serving(i)' => ServiceFits(i)') /\ (At(i, "show")' => ShowFits(i)')
  BY <1>1, <1>2, <1>3, <1>4, <1>5 DEF ServiceFits, ShowFits
<1>7. CountersOK' /\ TypeOK' /\ ChoicesApart' /\ ChoiceUsedOnce'
  BY <1>1, NothingTyped DEF InfoInv, CountersOK
<1>8. /\ tasks' \in [Interactions -> Task] /\ BoundThreadIsReady' /\ ReplacedForGood'
      /\ CreationsFit' /\ CreationsApart' /\ ServicesFit'
  BY <1>1, <1>3, <1>6, ServiceStep
<1> QED
  BY <1>7, <1>8 DEF InfoInv

\* Only the latest thread is resolved to, and a button's thread is no longer the
\* latest once it was replaced.
LEMMA ResolveKeeps ==
  ASSUME InfoAssumption, InfoInv, NEW i \in Interactions, Resolve(i)
  PROVE  InfoInv'
<1> DEFINE latest == binding[tasks[i].target]
<1>1. /\ UNCHANGED <<threads, enabled, binding, chosen, made, picks, failures, started, restarts, spent, replaced>>
      /\ started \in Nat /\ failures \in Nat /\ restarts \in Nat /\ made \in Nat
      /\ tasks[i] \in Task /\ tasks[i].stage = "resolve"
  BY DEF Resolve, At, history, InfoInv, CountersOK
<1>2. CASE End(i)
  BY <1>1, <1>2, TaskEnds
<1>3. CASE latest # None /\ tasks[i].from \in {None, latest} /\ Shows(i, latest)
  <2>1. Serving(i) /\ ServiceFits(i)
    BY <1>1 DEF InfoInv, ServicesFit, Serving
  <2>2. latest \in 1..made /\ latest \in Nat
    BY <1>3, <2>1, <1>1 DEF ServiceFits, InfoInv, TypeOK
  <2>3. threads[latest].owner = tasks[i].target /\ latest \notin replaced
    BY <1>3, <2>1 DEF ServiceFits, InfoInv, BoundThreadIsReady, ReplacedForGood
  <2>4. PICK task \in Task : /\ tasks' = [tasks EXCEPT ![i] = task]
                             /\ task.stage = "show" /\ task.target = tasks[i].target
                             /\ task.from = tasks[i].from /\ task.kind = tasks[i].kind
                             /\ task.late = tasks[i].late /\ task.thread = latest
    <3>1. [tasks[i] EXCEPT !.stage = "show", !.thread = latest] \in Task
      BY <1>1, <2>2 DEF Task, Stages
    <3> QED
      BY <3>1, <1>1, <1>3 DEF Shows, InfoInv, Task
  <2>5. tasks'[i] = task
    BY <2>4 DEF InfoInv
  <2>6. (Serving(i)' => ServiceFits(i)') /\ (At(i, "show")' => ShowFits(i)')
    <3>1. tasks[i].from # None => tasks[i].from = latest /\ ~tasks[i].late
      BY <1>3, <2>1, <2>3 DEF ServiceFits
    <3> QED
      BY <1>1, <2>1, <2>2, <2>3, <2>4, <2>5, <3>1 DEF ServiceFits, ShowFits
  <2>7. CountersOK' /\ TypeOK' /\ ChoicesApart' /\ ChoiceUsedOnce'
    BY <1>1, NothingTyped
  <2>8. /\ tasks' \in [Interactions -> Task] /\ BoundThreadIsReady' /\ ReplacedForGood'
        /\ CreationsFit' /\ CreationsApart' /\ ServicesFit'
    BY <1>1, <2>4, <2>6, ServiceStep
  <2> QED
    BY <2>7, <2>8 DEF InfoInv
<1> QED
  BY <1>2, <1>3 DEF Resolve

\* What is posted may have a button for a page that there is.
LEMMA PostKeeps ==
  ASSUME InfoAssumption, InfoInv, NEW i \in Interactions,
         NEW pages \in SUBSET (0..LastPage), Post(i, pages)
  PROVE  InfoInv'
<1>1. /\ UNCHANGED <<threads, binding, chosen, made, picks, failures, started, restarts, spent, replaced>>
      /\ tasks[i].stage = "show" /\ tasks' = [tasks EXCEPT ![i] = Idle]
      /\ tasks[i].kind \in AllKinds
  BY DEF Post, End, At, history, InfoInv, ServicesFit, ServiceFits, Serving
<1>2. enabled' \subseteq (DOMAIN threads') \X AllKinds \X (0..LastPage)
  BY <1>1 DEF Post, InfoInv, TypeOK, Exists
<1>3. CountersOK' /\ TypeOK' /\ ChoicesApart' /\ ChoiceUsedOnce'
  BY <1>1, <1>2 DEF InfoInv, CountersOK, TypeOK, ChoicesApart, ChoiceUsedOnce, Exists
<1>4. tasks'[i] = Idle
  BY <1>1 DEF InfoInv
<1>5. (Serving(i)' => ServiceFits(i)') /\ (At(i, "show")' => ShowFits(i)')
  BY <1>4, IdleIsTask DEF Serving, At
<1>6. /\ tasks' \in [Interactions -> Task] /\ BoundThreadIsReady' /\ ReplacedForGood'
      /\ CreationsFit' /\ CreationsApart' /\ ServicesFit'
  BY <1>1, <1>5, IdleIsTask, ServiceStep
<1> QED
  BY <1>3, <1>6 DEF InfoInv

\* The next page is a page.
LEMMA NextPageIsPage ==
  ASSUME InfoAssumption, InfoInv, NEW i \in Interactions
  PROVE  NextPage(i) \subseteq 0..LastPage
<1>1. tasks[i].page \in 0..LastPage /\ LastPage \in Nat \ {0}
  BY DEF InfoInv, InfoAssumption, Task
<1> QED
  BY <1>1 DEF NextPage, PageOf

\* Whoever presses takes the choice away with the buttons, whole or not.
LEMMA DisableKeeps ==
  ASSUME InfoAssumption, InfoInv, NEW i \in Interactions, DisableComponents(i)
  PROVE  InfoInv'
<1>1. /\ UNCHANGED <<threads, binding, made, picks, failures, started, restarts, replaced>>
      /\ tasks[i] \in Task /\ tasks[i].stage = "disable"
      /\ enabled' \subseteq enabled
  BY DEF DisableComponents, At, InfoInv
<1>2. PICK task \in Task : /\ tasks' = [tasks EXCEPT ![i] = task]
                           /\ \/ task = Idle
                              \/ /\ task.stage = "resolve" /\ task.target = tasks[i].target
                                 /\ task.from = tasks[i].from /\ task.kind = tasks[i].kind
                                 /\ task.late = tasks[i].late
  <2>1. CASE End(i)
    BY <2>1, IdleIsTask DEF End
  <2>2. CASE GoesTo(i, "resolve")
    <3>1. [tasks[i] EXCEPT !.stage = "resolve"] \in Task
      BY <1>1 DEF Task, Stages
    <3> QED
      BY <2>2, <3>1, <1>1 DEF GoesTo, InfoInv, Task
  <2> QED
    BY <2>1, <2>2 DEF DisableComponents, TakeChoice, NextPageButton
<1>3. Serving(i) /\ ServiceFits(i)
  BY <1>1 DEF InfoInv, ServicesFit, Serving
<1>4. tasks'[i] = task
  BY <1>2 DEF InfoInv
<1>5. (Serving(i)' => ServiceFits(i)') /\ (At(i, "show")' => ShowFits(i)')
  BY <1>1, <1>2, <1>3, <1>4, IdleIsTask DEF ServiceFits, Serving, At
<1>6. /\ tasks' \in [Interactions -> Task] /\ BoundThreadIsReady' /\ ReplacedForGood'
      /\ CreationsFit' /\ CreationsApart' /\ ServicesFit'
  BY <1>1, <1>2, <1>5, IdleIsTask, ServiceStep
<1>7. /\ DOMAIN chosen' \subseteq DOMAIN chosen
      /\ \A key \in DOMAIN chosen' : chosen'[key] = chosen[key]
      /\ \/ spent' = spent
         \/ /\ Key(i) \notin DOMAIN chosen'
            /\ spent' = spent \cup PicksOf(Choice(i))
  BY RestrictIs DEF DisableComponents, TakeChoice, NextPageButton
<1>8. TypeOK'
  BY <1>1, <1>7 DEF InfoInv, TypeOK, Exists
<1>9. CASE spent' = spent
  BY <1>1, <1>6, <1>7, <1>8, <1>9 DEF InfoInv, CountersOK, ChoicesApart, ChoiceUsedOnce
<1>10. CASE Key(i) \notin DOMAIN chosen' /\ spent' = spent \cup PicksOf(Choice(i))
  <2>1. PicksOf(Choice(i)) \subseteq 1..picks
    <3>1. Choice(i) \in [Fields -> 0..picks] /\ picks \in Nat
      BY ChosenIsChoice DEF Choice, InfoInv, CountersOK
    <3> QED
      BY <3>1 DEF PicksOf
  <2>2. \A key \in DOMAIN chosen' : PicksOf(chosen'[key]) \cap PicksOf(Choice(i)) = {}
    <3> TAKE key \in DOMAIN chosen'
    <3>1. CASE Key(i) \in DOMAIN chosen
      <4>1. Choice(i) = chosen[Key(i)]
        BY <3>1 DEF Choice, ChosenIn, Key
      <4> QED
        BY <3>1, <4>1, <1>7, <1>10 DEF InfoInv, ChoicesApart
    <3>2. CASE Key(i) \notin DOMAIN chosen
      <4>1. PicksOf(Choice(i)) = {}
        BY <3>2 DEF Choice, ChosenIn, Key, NothingChosen, PicksOf
      <4> QED
        BY <4>1
    <3> QED
      BY <3>1, <3>2
  <2>3. ChoicesApart'
    BY <1>1, <1>7, <1>10, <2>1 DEF InfoInv, ChoicesApart
  <2>4. ChoiceUsedOnce'
    BY <1>7, <1>10, <2>2 DEF InfoInv, ChoiceUsedOnce
  <2> QED
    BY <1>1, <1>6, <1>8, <2>3, <2>4 DEF InfoInv, CountersOK
<1> QED
  BY <1>7, <1>9, <1>10

\* A choice that is made now is not any choice that was made before.
LEMMA SelectKeeps ==
  ASSUME InfoAssumption, InfoInv, NEW u \in Users, NEW th \in DOMAIN threads,
         NEW f \in Fields, Select(u, th, f)
  PROVE  InfoInv'
<1> DEFINE key == <<u, th>>
           old == ChosenIn(u, th)
           now == [old EXCEPT ![f] = picks + 1]
<1>1. /\ UNCHANGED <<threads, enabled, binding, tasks, made, failures, started, restarts, spent, replaced>>
      /\ picks \in Nat /\ picks' = picks + 1 /\ th \in 1..made
      /\ f \in Choices(threads[th].kind)
  BY DEF Select, history, InfoInv, TypeOK, CountersOK
<1>2. old \in [Fields -> 0..picks]
  BY <1>1, ChosenIsChoice DEF InfoInv
<1>3. /\ now \in [Fields -> 0..picks']
      /\ now[f] = picks + 1 /\ \A g \in Fields \ {f} : now[g] = old[g]
  BY <1>1, <1>2
<1>4. /\ DOMAIN chosen' = DOMAIN chosen \cup {key} /\ chosen'[key] = now
      /\ \A k \in DOMAIN chosen : k # key => chosen'[k] = chosen[k]
  BY DEF Select, With
<1>5. \A k \in DOMAIN chosen : chosen[k] \in [Fields -> 0..picks]
  BY DEF InfoInv, TypeOK
<1>6. TypeOK'
  <2>1. \A k \in DOMAIN chosen' : chosen'[k] \in [Fields -> 0..picks']
    <3> TAKE k \in DOMAIN chosen'
    <3>1. CASE k = key
      BY <3>1, <1>3, <1>4
    <3>2. CASE k # key
      BY <3>2, <1>1, <1>4, <1>5
    <3> QED
      BY <3>1, <3>2
  <2>2. \A k \in DOMAIN chosen' : Exists(k[2])' =>
          \A g \in Fields : chosen'[k][g] # 0 => g \in Choices(threads'[k[2]].kind)
    <3> SUFFICES ASSUME NEW k \in DOMAIN chosen', k[2] \in DOMAIN threads,
                        NEW g \in Fields, chosen'[k][g] # 0
                 PROVE  g \in Choices(threads[k[2]].kind)
      BY <1>1 DEF Exists
    <3>1. CASE k # key
      <4>1. k \in DOMAIN chosen /\ chosen'[k] = chosen[k]
        BY <3>1, <1>4
      <4> QED
        BY <4>1 DEF InfoInv, TypeOK, Exists
    <3>2. CASE k = key /\ g # f
      <4>1. chosen'[k] = now /\ now[g] = old[g] /\ k[2] = th
        BY <3>2, <1>3, <1>4
      <4>2. old[g] # 0
        BY <4>1
      <4>3. key \in DOMAIN chosen /\ old = chosen[key]
        BY <4>2 DEF ChosenIn, NothingChosen
      <4> QED
        BY <4>1, <4>2, <4>3, <3>2 DEF InfoInv, TypeOK, Exists
    <3>3. CASE k = key /\ g = f
      BY <3>3, <1>1
    <3> QED
      BY <3>1, <3>2, <3>3
  <2> QED
    BY <1>1, <2>1, <2>2 DEF InfoInv, TypeOK, Exists
<1>7. /\ PicksOf(now) \subseteq PicksOf(old) \cup {picks + 1}
      /\ \A k \in DOMAIN chosen : picks + 1 \notin PicksOf(chosen[k])
      /\ picks + 1 \notin spent
  <2>1. PicksOf(now) \subseteq PicksOf(old) \cup {picks + 1}
    BY <1>3 DEF PicksOf
  <2>2. \A k \in DOMAIN chosen : picks + 1 \notin PicksOf(chosen[k])
    BY <1>1, <1>5 DEF PicksOf
  <2>3. picks + 1 \notin spent
    BY <1>1 DEF InfoInv, ChoicesApart
  <2> QED
    BY <2>1, <2>2, <2>3
<1>8. PicksOf(old) = {} \/ (key \in DOMAIN chosen /\ old = chosen[key])
  BY DEF ChosenIn, NothingChosen, PicksOf
<1>9. \A k \in DOMAIN chosen : k # key => PicksOf(chosen[k]) \cap PicksOf(now) = {}
  BY <1>7, <1>8 DEF InfoInv, ChoicesApart
<1>10. ChoicesApart'
  <2>1. DOMAIN chosen' \subseteq Users \X (1..made')
    BY <1>1, <1>4 DEF InfoInv, ChoicesApart
  <2>2. spent' \subseteq 1..picks'
    BY <1>1 DEF InfoInv, ChoicesApart
  <2>3. \A k1, k2 \in DOMAIN chosen' : k1 # k2 => PicksOf(chosen'[k1]) \cap PicksOf(chosen'[k2]) = {}
    <3> TAKE k1, k2 \in DOMAIN chosen'
    <3>1. CASE k1 # key /\ k2 # key
      <4>1. /\ k1 \in DOMAIN chosen /\ chosen'[k1] = chosen[k1]
            /\ k2 \in DOMAIN chosen /\ chosen'[k2] = chosen[k2]
        BY <3>1, <1>4
      <4> QED
        BY <4>1 DEF InfoInv, ChoicesApart
    <3>2. CASE k1 = key
      BY <3>2, <1>4, <1>9
    <3>3. CASE k2 = key
      BY <3>3, <1>4, <1>9
    <3> QED
      BY <3>1, <3>2, <3>3
  <2> QED
    BY <2>1, <2>2, <2>3 DEF ChoicesApart
<1>11. ChoiceUsedOnce'
  <2> SUFFICES ASSUME NEW k \in DOMAIN chosen'
               PROVE  PicksOf(chosen'[k]) \cap spent = {}
    BY <1>1 DEF ChoiceUsedOnce
  <2>1. CASE k = key
    <3>1. PicksOf(old) \cap spent = {}
      BY <1>8 DEF InfoInv, ChoiceUsedOnce
    <3>2. chosen'[k] = now
      BY <2>1, <1>4
    <3>3. PicksOf(chosen'[k]) = PicksOf(now)
      BY <3>2
    <3>4. \A p \in PicksOf(now) : p \notin spent
      <4>1. \A p : p \in PicksOf(now) => p \in PicksOf(old) \/ p = picks + 1
        BY <1>7
      <4> QED
        BY <3>1, <4>1, <1>7
    <3> QED
      BY <3>3, <3>4
  <2>2. CASE k # key
    BY <2>2, <1>4 DEF InfoInv, ChoiceUsedOnce
  <2> QED
    BY <2>1, <2>2
<1>12. /\ CountersOK' /\ tasks' \in [Interactions -> Task] /\ BoundThreadIsReady'
       /\ ReplacedForGood' /\ CreationsFit' /\ CreationsApart' /\ ServicesFit'
  BY <1>1 DEF InfoInv, CountersOK, BoundThreadIsReady, ReplacedForGood, CreationsFit,
              CreationFits, CreationsApart, Creating, ServicesFit, ServiceFits, ShowFits,
              Serving, At, Exists
<1> QED
  BY <1>6, <1>10, <1>11, <1>12 DEF InfoInv

\* Equipped, a thread has its first message; if it cannot be, it is left.
LEMMA EquipKeeps ==
  ASSUME InfoAssumption, InfoInv, NEW i \in Interactions, Equip(i)
  PROVE  InfoInv'
<1> DEFINE th == tasks[i].thread
<1>1. /\ UNCHANGED <<binding, chosen, made, picks, started, restarts, spent, replaced>>
      /\ failures' \in Nat /\ tasks[i] \in Task /\ tasks[i].stage = "equip"
      /\ Creating(i) /\ CreationFits(i) /\ th \in DOMAIN threads
  BY DEF Equip, Works, Fails, history, InfoInv, CountersOK, At, Creating, CreationsFit, CreationFits
<1>2. CASE End(i) /\ UNCHANGED <<threads, enabled>>
  BY <1>1, <1>2, TaskEnds
<1>3. CASE /\ threads' = [threads EXCEPT ![th].ready = TRUE]
           /\ enabled' = enabled \cup {<<th, threads[th].kind, 0>>}
           /\ GoesTo(i, "read")
  <2>1. PICK task \in Task : /\ tasks' = [tasks EXCEPT ![i] = task]
                             /\ task.stage = "read" /\ task.target = tasks[i].target
                             /\ task.thread = th
    <3>1. [tasks[i] EXCEPT !.stage = "read"] \in Task
      BY <1>1 DEF Task, Stages
    <3> QED
      BY <3>1, <1>1, <1>3 DEF GoesTo, InfoInv, Task
  <2>2. /\ DOMAIN threads' = DOMAIN threads
        /\ \A n \in DOMAIN threads :
             /\ threads'[n] \in [owner : Users, kind : Kinds, ready : BOOLEAN]
             /\ threads'[n].owner = threads[n].owner /\ threads'[n].kind = threads[n].kind
             /\ threads[n].ready => threads'[n].ready
        /\ threads'[th].ready
    BY <1>1, <1>3 DEF InfoInv, TypeOK
  <2>3. \A j \in Interactions : /\ tasks'[j] = IF j = i THEN task ELSE tasks[j]
                                /\ Creating(j)' <=> Creating(j)
                                /\ Serving(j)' <=> Serving(j)
                                /\ At(j, "show")' <=> At(j, "show")
                                /\ At(j, "equip")' => At(j, "equip")
                                /\ tasks'[j].thread = tasks[j].thread
                                /\ tasks'[j].target = tasks[j].target
    BY <1>1, <2>1 DEF InfoInv, Creating, Serving, At
  <2>4. TypeOK'
    <3>1. <<th, threads[th].kind, 0>> \in (DOMAIN threads) \X AllKinds \X (0..LastPage)
      BY <1>1 DEF InfoInv, TypeOK, InfoAssumption
    <3>2. enabled' \subseteq (DOMAIN threads') \X AllKinds \X (0..LastPage)
      BY <3>1, <1>3, <2>2 DEF InfoInv, TypeOK
    <3> QED
      BY <3>2, <2>2, <1>1 DEF InfoInv, TypeOK, Exists
  <2>5. CountersOK' /\ ReplacedForGood' /\ ChoicesApart' /\ ChoiceUsedOnce'
        /\ tasks' \in [Interactions -> Task]
    BY <1>1, <2>1 DEF InfoInv, CountersOK, ReplacedForGood, ChoicesApart, ChoiceUsedOnce
  <2>6. BoundThreadIsReady'
    BY <1>1, <2>2 DEF InfoInv, BoundThreadIsReady, Exists
  <2>7. CreationsFit'
    <3> SUFFICES ASSUME NEW j \in Interactions, Creating(j)'
                 PROVE  CreationFits(j)'
      BY DEF CreationsFit
    <3>1. CreationFits(j)
      BY <2>3 DEF InfoInv, CreationsFit
    <3>2. ~At(j, "equip")' => threads'[tasks'[j].thread].ready
      <4>1. CASE j = i
        BY <4>1, <2>2, <2>3
      <4>2. CASE j # i
        BY <4>2, <3>1, <2>2, <2>3 DEF CreationFits, At
      <4> QED
        BY <4>1, <4>2
    <3> QED
      BY <3>1, <3>2, <1>1, <2>2, <2>3 DEF CreationFits
  <2>8. CreationsApart'
    BY <2>3 DEF InfoInv, CreationsApart
  <2>9. ServicesFit'
    <3> SUFFICES ASSUME NEW j \in Interactions
                 PROVE  /\ Serving(j)' => ServiceFits(j)'
                        /\ At(j, "show")' => ShowFits(j)'
      BY DEF ServicesFit
    <3>1. CASE j = i
      BY <3>1, <2>1, <2>3 DEF Serving, At
    <3>2. CASE j # i
      BY <3>2, <1>1, <2>2, <2>3 DEF InfoInv, ServicesFit, ServiceFits, ShowFits, Exists
    <3> QED
      BY <3>1, <3>2
  <2> QED
    BY <2>4, <2>5, <2>6, <2>7, <2>8, <2>9 DEF InfoInv
<1> QED
  BY <1>2, <1>3 DEF Equip

\* What its transaction has read makes no difference to the thread.
LEMMA ReadKeeps ==
  ASSUME InfoAssumption, InfoInv, NEW i \in Interactions, ReadBinding(i)
  PROVE  InfoInv'
<1>1. /\ UNCHANGED <<threads, enabled, binding, chosen, made, picks, failures, started, restarts,
                     spent, replaced>>
      /\ tasks[i] \in Task /\ tasks[i].stage = "read"
  BY DEF ReadBinding, At, history, InfoInv
<1>2. PICK task \in Task : /\ tasks' = [tasks EXCEPT ![i] = task]
                           /\ task.stage = "save" /\ task.target = tasks[i].target
                           /\ task.thread = tasks[i].thread
  <2>1. [tasks[i] EXCEPT !.stage = "save", !.row = HasRow(tasks[i].target)] \in Task
    BY <1>1 DEF HasRow, Task, Stages
  <2> QED
    BY <2>1, <1>1 DEF ReadBinding, InfoInv, Task
<1>3. \A j \in Interactions : /\ tasks'[j] = IF j = i THEN task ELSE tasks[j]
                              /\ Creating(j)' <=> Creating(j)
                              /\ Serving(j)' <=> Serving(j)
                              /\ At(j, "show")' <=> At(j, "show")
                              /\ At(j, "equip")' <=> At(j, "equip")
                              /\ tasks'[j].thread = tasks[j].thread
                              /\ tasks'[j].target = tasks[j].target
  BY <1>1, <1>2 DEF InfoInv, Creating, Serving, At
<1>4. CountersOK' /\ TypeOK' /\ ChoicesApart' /\ ChoiceUsedOnce'
  BY <1>1, NothingTyped DEF InfoInv, CountersOK
<1>5. tasks' \in [Interactions -> Task] /\ BoundThreadIsReady' /\ ReplacedForGood'
  BY <1>1, <1>2 DEF InfoInv, BoundThreadIsReady, ReplacedForGood, Exists
<1>6. CreationsFit' /\ CreationsApart'
  BY <1>1, <1>3 DEF InfoInv, CreationsFit, CreationFits, CreationsApart
<1>7. ServicesFit'
  <2> SUFFICES ASSUME NEW j \in Interactions
               PROVE  /\ Serving(j)' => ServiceFits(j)'
                      /\ At(j, "show")' => ShowFits(j)'
    BY DEF ServicesFit
  <2>1. CASE j = i
    BY <2>1, <1>1, <1>3 DEF Serving, At
  <2>2. CASE j # i
    BY <2>2, <1>1, <1>3 DEF InfoInv, ServicesFit, ServiceFits, ShowFits, Exists
  <2> QED
    BY <2>1, <2>2
<1> QED
  BY <1>4, <1>5, <1>6, <1>7 DEF InfoInv

\* Saved, a thread is its target's latest, in place of the one before it, which no
\* other user has and nobody is making.
LEMMA SaveKeeps ==
  ASSUME InfoAssumption, InfoInv, NEW i \in Interactions, SaveBinding(i)
  PROVE  InfoInv'
<1> DEFINE th == tasks[i].thread
           target == tasks[i].target
<1>1. /\ UNCHANGED <<threads, enabled, chosen, made, picks, started, restarts, spent>>
      /\ failures' \in Nat /\ tasks[i] \in Task /\ tasks[i].stage = "save"
      /\ Creating(i) /\ CreationFits(i)
  BY DEF SaveBinding, Works, Fails, InfoInv, CountersOK, At, Creating, CreationsFit
<1>2. CountersOK' /\ ChoicesApart' /\ ChoiceUsedOnce'
  BY <1>1 DEF InfoInv, CountersOK, ChoicesApart, ChoiceUsedOnce
<1>3. CASE /\ binding' = [binding EXCEPT ![target] = th]
           /\ replaced' = replaced \cup ({binding[target]} \ {None})
           /\ End(i)
  <2>1. tasks' = [tasks EXCEPT ![i] = Idle]
    BY <1>3 DEF End
  <2>2. tasks' \in [Interactions -> Task]
        /\ \A j \in Interactions : /\ Creating(j)' => j # i /\ Creating(j) /\ tasks'[j] = tasks[j]
                                   /\ Serving(j)' => Serving(j) /\ tasks'[j] = tasks[j]
                                   /\ At(j, "show")' => At(j, "show") /\ tasks'[j] = tasks[j]
    BY <2>1, IdleIsTask DEF InfoInv, Creating, Serving, At
  <2>3. /\ target \in Users /\ th \in DOMAIN threads /\ threads[th].owner = target
        /\ threads[th].ready /\ th \notin replaced
        /\ \A u \in Users : binding[u] # th
    BY <1>1 DEF CreationFits, At
  <2>4. binding \in [Users -> (1..made) \cup {None}] /\ DOMAIN threads \subseteq 1..made
    BY DEF InfoInv, TypeOK
  <2>5. binding' \in [Users -> (1..made) \cup {None}]
        /\ binding'[target] = th /\ \A u \in Users \ {target} : binding'[u] = binding[u]
    BY <1>3, <2>3, <2>4
  <2>6. TypeOK'
    BY <1>1, <2>5 DEF InfoInv, TypeOK, Exists
  <2>7. BoundThreadIsReady'
    BY <1>1, <2>3, <2>5 DEF InfoInv, BoundThreadIsReady, Exists
  <2>8. \A u \in Users \ {target} : binding[u] # None => binding[u] # binding[target]
    BY <2>3 DEF InfoInv, BoundThreadIsReady
  <2>9. ReplacedForGood'
    <3>1. replaced' \subseteq 1..made'
      BY <1>1, <1>3, <2>3, <2>4 DEF InfoInv, ReplacedForGood
    <3>2. binding'[target] \notin replaced'
      BY <1>3, <2>3, <2>5
    <3>3. \A u \in Users \ {target} : binding'[u] \notin replaced'
      BY <1>3, <2>5, <2>8 DEF InfoInv, ReplacedForGood
    <3> QED
      BY <3>1, <3>2, <3>3 DEF ReplacedForGood
  <2>10. CreationsFit'
    <3> SUFFICES ASSUME NEW j \in Interactions, Creating(j)'
                 PROVE  CreationFits(j)'
      BY DEF CreationsFit
    <3>1. j # i /\ Creating(j) /\ CreationFits(j) /\ tasks'[j] = tasks[j]
      BY <2>2 DEF InfoInv, CreationsFit
    <3>2. tasks[j].thread # th
      BY <3>1, <1>1 DEF InfoInv, CreationsApart
    <3>3. tasks[j].thread \notin replaced'
      BY <1>3, <2>3, <3>1 DEF CreationFits
    <3> QED
      BY <3>1, <3>2, <3>3, <1>1, <2>3, <2>5 DEF CreationFits, At
  <2>11. CreationsApart'
    BY <2>2 DEF InfoInv, CreationsApart
  <2>12. ServicesFit'
    <3> SUFFICES ASSUME NEW j \in Interactions
                 PROVE  /\ Serving(j)' => ServiceFits(j)'
                        /\ At(j, "show")' => ShowFits(j)'
      BY DEF ServicesFit
    <3>1. /\ Serving(j)' => ServiceFits(j) /\ tasks'[j] = tasks[j]
          /\ At(j, "show")' => ShowFits(j) /\ tasks'[j] = tasks[j]
      BY <2>2 DEF InfoInv, ServicesFit
    <3> QED
      BY <3>1, <1>1, <1>3 DEF ServiceFits, ShowFits, Exists
  <2> QED
    BY <1>2, <2>2, <2>6, <2>7, <2>9, <2>10, <2>11, <2>12 DEF InfoInv
<1>4. CASE GoesTo(i, "discard") /\ UNCHANGED <<binding, replaced>>
  <2>1. PICK task \in Task : /\ tasks' = [tasks EXCEPT ![i] = task]
                             /\ task.stage = "discard" /\ task.target = target
                             /\ task.thread = th
    <3>1. [tasks[i] EXCEPT !.stage = "discard"] \in Task
      BY <1>1 DEF Task, Stages
    <3> QED
      BY <3>1, <1>1, <1>4 DEF GoesTo, InfoInv, Task
  <2>2. tasks' \in [Interactions -> Task]
        /\ \A j \in Interactions : /\ Creating(j)' <=> Creating(j)
                                   /\ j # i => tasks'[j] = tasks[j]
                                   /\ ~Serving(i)' /\ ~At(i, "show")'
                                   /\ ~At(j, "equip")' => ~At(j, "equip")
                                   /\ tasks'[j].thread = tasks[j].thread
                                   /\ tasks'[j].target = tasks[j].target
    BY <1>1, <2>1 DEF InfoInv, Creating, Serving, At
  <2>3. TypeOK' /\ BoundThreadIsReady' /\ ReplacedForGood'
    BY <1>1, <1>4 DEF InfoInv, TypeOK, BoundThreadIsReady, ReplacedForGood, Exists
  <2>4. CreationsFit' /\ CreationsApart'
    <3>1. CreationsFit'
      BY <2>2, <1>1, <1>4 DEF InfoInv, CreationsFit, CreationFits
    <3>2. CreationsApart'
      BY <2>2 DEF InfoInv, CreationsApart
    <3> QED
      BY <3>1, <3>2
  <2>5. ServicesFit'
    <3> SUFFICES ASSUME NEW j \in Interactions
                 PROVE  /\ Serving(j)' => ServiceFits(j)'
                        /\ At(j, "show")' => ShowFits(j)'
      BY DEF ServicesFit
    <3>1. CASE j = i
      BY <3>1, <2>2
    <3>2. CASE j # i
      BY <3>2, <2>2, <1>1, <1>4 DEF InfoInv, ServicesFit, ServiceFits, ShowFits, Serving, At, Exists
    <3> QED
      BY <3>1, <3>2
  <2> QED
    BY <1>2, <2>2, <2>3, <2>4, <2>5 DEF InfoInv
<1> QED
  BY <1>3, <1>4 DEF SaveBinding

\* A thread that is deleted is nobody's latest and no other creation's.
LEMMA DiscardKeeps ==
  ASSUME InfoAssumption, InfoInv, NEW i \in Interactions, DiscardThread(i)
  PROVE  InfoInv'
<1> DEFINE th == tasks[i].thread
<1>1. /\ UNCHANGED <<binding, chosen, made, picks, started, restarts, spent, replaced>>
      /\ failures' \in Nat /\ tasks[i].stage = "discard" /\ End(i)
      /\ Creating(i) /\ CreationFits(i)
  BY DEF DiscardThread, Works, Fails, history, InfoInv, CountersOK, At, Creating, CreationsFit
<1>2. CASE UNCHANGED <<threads, enabled>>
  BY <1>1, <1>2, TaskEnds
<1>3. CASE Gone(th)
  <2>1. tasks' = [tasks EXCEPT ![i] = Idle]
    BY <1>1 DEF End
  <2>2. tasks' \in [Interactions -> Task]
        /\ \A j \in Interactions : /\ Creating(j)' => j # i /\ Creating(j) /\ tasks'[j] = tasks[j]
                                   /\ Serving(j)' => Serving(j) /\ tasks'[j] = tasks[j]
                                   /\ At(j, "show")' => At(j, "show") /\ tasks'[j] = tasks[j]
    BY <2>1, IdleIsTask DEF InfoInv, Creating, Serving, At
  <2>3. /\ DOMAIN threads' = DOMAIN threads \ {th}
        /\ \A n \in DOMAIN threads' : threads'[n] = threads[n]
        /\ enabled' = {b \in enabled : b[1] # th}
    BY <1>3, RestrictIs DEF Gone
  <2>4. \A u \in Users : binding[u] # th
    BY <1>1 DEF CreationFits
  <2>5. TypeOK'
    BY <1>1, <2>3 DEF InfoInv, TypeOK, Exists
  <2>6. BoundThreadIsReady'
    BY <1>1, <2>3, <2>4 DEF InfoInv, BoundThreadIsReady, Exists
  <2>7. CountersOK' /\ ReplacedForGood' /\ ChoicesApart' /\ ChoiceUsedOnce'
    BY <1>1 DEF InfoInv, CountersOK, ReplacedForGood, ChoicesApart, ChoiceUsedOnce
  <2>8. CreationsFit'
    <3> SUFFICES ASSUME NEW j \in Interactions, Creating(j)'
                 PROVE  CreationFits(j)'
      BY DEF CreationsFit
    <3>1. j # i /\ Creating(j) /\ CreationFits(j) /\ tasks'[j] = tasks[j]
      BY <2>2 DEF InfoInv, CreationsFit
    <3>2. tasks[j].thread # th
      BY <3>1, <1>1 DEF InfoInv, CreationsApart
    <3> QED
      BY <3>1, <3>2, <1>1, <2>3 DEF CreationFits, At
  <2>9. CreationsApart'
    BY <2>2 DEF InfoInv, CreationsApart
  <2>10. ServicesFit'
    <3> SUFFICES ASSUME NEW j \in Interactions
                 PROVE  /\ Serving(j)' => ServiceFits(j)'
                        /\ At(j, "show")' => ShowFits(j)'
      BY DEF ServicesFit
    <3>1. /\ Serving(j)' => ServiceFits(j) /\ tasks'[j] = tasks[j]
          /\ At(j, "show")' => ShowFits(j) /\ tasks'[j] = tasks[j]
      BY <2>2 DEF InfoInv, ServicesFit
    <3> QED
      BY <3>1, <1>1, <2>3 DEF ServiceFits, ShowFits, Exists
  <2> QED
    BY <2>2, <2>5, <2>6, <2>7, <2>8, <2>9, <2>10 DEF InfoInv
<1> QED
  BY <1>2, <1>3 DEF DiscardThread

\* After a restart nobody is making or showing anything, and nothing is chosen.
LEMMA RestartKeeps ==
  ASSUME InfoAssumption, InfoInv, Restart
  PROVE  InfoInv'
<1>1. /\ UNCHANGED <<threads, enabled, binding, made, started, picks, failures, spent, replaced>>
      /\ restarts' \in Nat /\ DOMAIN chosen' = {}
      /\ tasks' = [i \in Interactions |-> Idle]
  BY DEF Restart, history, InfoInv, CountersOK
<1>2. tasks' \in [Interactions -> Task]
      /\ \A i \in Interactions : ~Creating(i)' /\ ~Serving(i)' /\ ~At(i, "show")'
  BY <1>1, IdleIsTask DEF Creating, Serving, At
<1>3. CreationsFit' /\ CreationsApart' /\ ServicesFit'
  BY <1>2 DEF CreationsFit, CreationsApart, ServicesFit
<1>4. TypeOK' /\ BoundThreadIsReady' /\ ReplacedForGood' /\ ChoiceUsedOnce'
  BY <1>1 DEF InfoInv, TypeOK, BoundThreadIsReady, ReplacedForGood, ChoiceUsedOnce, Exists
<1>5. CountersOK' /\ ChoicesApart'
  BY <1>1 DEF InfoInv, CountersOK, ChoicesApart
<1> QED
  BY <1>2, <1>3, <1>4, <1>5 DEF InfoInv

-----------------------------------------------------------------------------
(* The invariant. *)

\* The process starts with no threads and nothing under way.
LEMMA InfoInit == ASSUME InfoAssumption, Init PROVE InfoInv
<1>1. tasks \in [Interactions -> Task]
      /\ \A i \in Interactions : ~Creating(i) /\ ~Serving(i) /\ ~At(i, "show")
  BY IdleIsTask DEF Init, Creating, Serving, At
<1>2. CreationsFit /\ CreationsApart /\ ServicesFit
  BY <1>1 DEF CreationsFit, CreationsApart, ServicesFit
<1>3. DOMAIN threads = {} /\ DOMAIN chosen = {}
  BY DEF Init
<1>4. TypeOK /\ BoundThreadIsReady /\ ReplacedForGood /\ ChoiceUsedOnce /\ CountersOK /\ ChoicesApart
  BY <1>3 DEF Init, TypeOK, BoundThreadIsReady, ReplacedForGood, ChoiceUsedOnce, CountersOK,
              ChoicesApart
<1> QED
  BY <1>1, <1>2, <1>4 DEF InfoInv

\* Every step keeps the invariant.
LEMMA InfoStep == ASSUME InfoAssumption, InfoInv, [Next]_vars PROVE InfoInv'
<1>1. CASE UNCHANGED vars
  BY <1>1 DEF vars, InfoInv, CountersOK, TypeOK, BoundThreadIsReady, ReplacedForGood,
              CreationsFit, CreationFits, CreationsApart, Creating, ServicesFit, ServiceFits,
              ShowFits, Serving, ChoicesApart, ChoiceUsedOnce, At, Exists
<1>2. CASE \E i \in Interactions, u, t \in Users, k \in Kinds : InfoThread(i, u, t, k)
  BY <1>2, InfoThreadKeeps
<1>3. CASE \E i \in Interactions, u, t \in Users, k \in AllKinds : Ask(i, u, t, k)
  BY <1>3, AskKeeps
<1>4. CASE \E i \in Interactions, u \in Users, b \in enabled : Press(i, u, b)
  BY <1>4, PressKeeps
<1>5. CASE \E i \in Interactions : GoOn(i)
  <2> SUFFICES ASSUME NEW i \in Interactions, GoOn(i)
               PROVE  InfoInv'
    BY <1>5
  <2>1. CASE Equip(i) \/ ReadBinding(i) \/ SaveBinding(i) \/ DiscardThread(i)
    BY <2>1, EquipKeeps, ReadKeeps, SaveKeeps, DiscardKeeps
  <2>2. CASE DisableComponents(i) \/ Resolve(i)
    BY <2>2, DisableKeeps, ResolveKeeps
  <2>3. CASE ShowPlayerInfo(i) \/ ShowPlayerInfoSeason(i)
    BY <2>3, PostKeeps DEF ShowPlayerInfo, ShowPlayerInfoSeason
  <2>4. CASE ShowLeaderboard(i) \/ ShowLeaderboardSeason(i)
    BY <2>4, PostKeeps, NextPageIsPage DEF ShowLeaderboard, ShowLeaderboardSeason
  <2> QED
    BY <2>1, <2>2, <2>3, <2>4 DEF GoOn
<1>6. CASE \E u \in Users, th \in DOMAIN threads, f \in Fields : Select(u, th, f)
  BY <1>6, SelectKeeps
<1>7. CASE Restart
  BY <1>7, RestartKeeps
<1> QED
  BY <1>1, <1>2, <1>3, <1>4, <1>5, <1>6, <1>7 DEF Next

\* The invariant of the private threads.
THEOREM InfoInvariant == Spec => []InfoInv
<1>1. Init => InfoInv
  BY InfoInit, InfoAssumption
<1>2. InfoInv /\ [Next]_vars => InfoInv'
  BY InfoStep, InfoAssumption
<1> QED
  BY <1>1, <1>2, PTL DEF Spec

\* Bindings and choices: a user's latest thread is there, is the user's own and
\* ready, and a choice is used at most once.
THEOREM BoundToTheirOwn == Spec => []ThreadsInv
<1>1. InfoInv => ThreadsInv
  BY DEF InfoInv, ThreadsInv
<1> QED
  BY <1>1, InfoInvariant, PTL

\* Results are posted in a thread of the player they are for, and a button's in
\* the thread of the button, which was the latest when it was pressed.
THEOREM ResultsAtHome == Spec => []ResultsStayHome
<1>1. InfoInv => ResultsStayHome
  BY DEF InfoInv, ServicesFit, ShowFits, ResultsStayHome
<1> QED
  BY <1>1, InfoInvariant, PTL

-----------------------------------------------------------------------------
(* The threads that are left behind. *)

\* A thread is a stray if nobody is bound to it, was, or is making it.
Stray(th) ==
  /\ th \in DOMAIN threads /\ th \notin replaced
  /\ \A u \in Users : binding[u] # th
  /\ \A i \in Interactions : Creating(i) => tasks[i].thread # th

\* The strays, before and after a step.
LEMMA StraysAre ==
  ASSUME InfoInv, InfoInv'
  PROVE  \A th : (th \in Strays <=> Stray(th)) /\ (th \in Strays' <=> Stray(th)')
<1>1. DOMAIN binding = Users /\ DOMAIN binding' = Users
  BY DEF InfoInv, TypeOK
<1> QED
  BY <1>1 DEF Strays, Stray, InCreation, Creating, Range

\* There are finitely many of them.
LEMMA StraysFinite ==
  ASSUME InfoInv
  PROVE  IsFiniteSet(Strays) /\ Cardinality(Strays) \in Nat
<1>1. Strays \subseteq 1..made /\ made \in Nat
  BY DEF InfoInv, TypeOK, CountersOK, Strays
<1>2. IsFiniteSet(1..made)
  BY <1>1, FS_Interval
<1> QED
  BY <1>1, <1>2, FS_Subset, FS_CardinalityType

\* There are at most as many creations as interactions.
LEMMA FewInCreation ==
  ASSUME InfoAssumption
  PROVE  /\ IsFiniteSet(InCreation)
         /\ Cardinality(InCreation) <= Cardinality(Interactions)
<1> DEFINE creating == {i \in Interactions : Creating(i)}
           thread == [i \in creating |-> tasks[i].thread]
<1>1. IsFiniteSet(Interactions)
  BY DEF InfoAssumption
<1>2. IsFiniteSet(creating) /\ Cardinality(creating) <= Cardinality(Interactions)
  BY <1>1, FS_Subset
<1>3. thread \in Surjection(creating, InCreation)
  BY DEF Surjection, Creating, InCreation
<1>4. IsFiniteSet(InCreation) /\ Cardinality(InCreation) <= Cardinality(creating)
  BY <1>2, <1>3, FS_Surjection
<1> QED
  BY <1>1, <1>2, <1>4, FS_CardinalityType

\* A failure leaves one thread at most.
LEMMA OneMore ==
  ASSUME NEW S, NEW T, IsFiniteSet(S), NEW x, T \subseteq S \cup {x}
  PROVE  Cardinality(T) <= Cardinality(S) + 1
<1>1. IsFiniteSet(S \cup {x}) /\ Cardinality(S \cup {x}) <= Cardinality(S) + 1
      /\ Cardinality(S) \in Nat /\ Cardinality(S \cup {x}) \in Nat
  BY FS_AddElement, FS_CardinalityType
<1>2. Cardinality(T) <= Cardinality(S \cup {x}) /\ Cardinality(T) \in Nat
  BY <1>1, FS_Subset, FS_CardinalityType
<1> QED
  BY <1>1, <1>2

\* A step of a creation leaves its thread, or no thread; every other step of a
\* handler and of a user leaves none.
LEMMA StepLeavesOne ==
  ASSUME InfoAssumption, InfoInv, InfoInv', Next, ~Restart
  PROVE  /\ restarts' = restarts
         /\ \/ failures' >= failures /\ Strays' \subseteq Strays
            \/ \E th : failures' = failures + 1 /\ Strays' \subseteq Strays \cup {th}
<1>1. \A th : (th \in Strays <=> Stray(th)) /\ (th \in Strays' <=> Stray(th)')
  BY StraysAre
<1>2. failures \in Nat /\ tasks \in [Interactions -> Task]
  BY DEF InfoInv, CountersOK
<1>3. ASSUME NEW i \in Interactions, NEW task, tasks' = [tasks EXCEPT ![i] = task], ~Creating(i),
             UNCHANGED <<threads, binding, replaced, failures, restarts>>
      PROVE  Strays' \subseteq Strays /\ failures' >= failures /\ restarts' = restarts
  <2>1. \A j \in Interactions : Creating(j) => tasks'[j] = tasks[j]
    BY <1>2, <1>3
  <2>2. \A th : Stray(th)' => Stray(th)
    BY <1>3, <2>1 DEF Stray, Creating
  <2> QED
    BY <1>1, <1>2, <1>3, <2>2
<1>4. ASSUME NEW i \in Interactions, NEW u \in Users, NEW t \in Users, NEW k \in Kinds,
             InfoThread(i, u, t, k)
      PROVE  Strays' \subseteq Strays /\ failures' >= failures /\ restarts' = restarts
  <2>1. /\ tasks[i].stage = "idle"
        /\ \A j \in Interactions \ {i} : tasks'[j] = tasks[j]
        /\ tasks'[i].stage = "equip" /\ tasks'[i].thread = made + 1
        /\ DOMAIN threads' = DOMAIN threads \cup {made + 1}
        /\ UNCHANGED <<binding, replaced, failures, restarts>>
    <3>1. tasks[i].stage = "idle" /\ UNCHANGED <<binding, replaced, failures, restarts>>
      BY <1>4, IdleIsTask DEF InfoThread, Begin, history
    <3>2. DOMAIN threads' = DOMAIN threads \cup {made + 1}
      BY <1>4 DEF InfoThread, With
    <3>3. tasks'[i] = [Idle EXCEPT !.stage = "equip", !.target = t, !.thread = made + 1]
          /\ \A j \in Interactions \ {i} : tasks'[j] = tasks[j]
      BY <1>2, <1>4 DEF InfoThread, Begin
    <3>4. tasks'[i].stage = "equip" /\ tasks'[i].thread = made + 1
      BY <3>3, IdleIsTask DEF Task
    <3> QED
      BY <3>1, <3>2, <3>3, <3>4
  <2>2. \A th : Stray(th)' => Stray(th)
    BY <2>1 DEF Stray, Creating
  <2> QED
    BY <1>1, <1>2, <2>1, <2>2
<1>5. ASSUME NEW i \in Interactions, End(i), UNCHANGED <<threads, binding, replaced>>
      PROVE  \A th : Stray(th)' => Stray(th) \/ th = tasks[i].thread
  <2>1. \A j \in Interactions \ {i} : tasks'[j] = tasks[j]
    BY <1>2, <1>5 DEF End
  <2> QED
    BY <1>5, <2>1 DEF Stray, Creating
<1>6. ASSUME NEW i \in Interactions, NEW task, tasks' = [tasks EXCEPT ![i] = task],
             task.stage \in {"equip", "read", "save", "discard"}, task.thread = tasks[i].thread,
             DOMAIN threads' = DOMAIN threads, UNCHANGED <<binding, replaced>>
      PROVE  \A th : Stray(th)' => Stray(th)
  <2>1. \A j \in Interactions : tasks'[j] = IF j = i THEN task ELSE tasks[j]
    BY <1>2, <1>6
  <2>2. \A j \in Interactions : Creating(j) => Creating(j)' /\ tasks'[j].thread = tasks[j].thread
    BY <1>6, <2>1 DEF Creating
  <2> QED
    BY <1>6, <2>2 DEF Stray
<1>7. ASSUME NEW i \in Interactions, Equip(i)
      PROVE  /\ restarts' = restarts
             /\ \/ failures' >= failures /\ Strays' \subseteq Strays
                \/ \E th : failures' = failures + 1 /\ Strays' \subseteq Strays \cup {th}
  <2>1. UNCHANGED <<binding, replaced, restarts>>
    BY <1>7 DEF Equip, history
  <2>2. CASE Fails /\ End(i) /\ UNCHANGED <<threads, enabled>>
    BY <2>1, <2>2, <1>1, <1>5 DEF Fails
  <2>3. CASE /\ Works
             /\ threads' = [threads EXCEPT ![tasks[i].thread].ready = TRUE]
             /\ GoesTo(i, "read")
    <3>1. PICK task : /\ tasks' = [tasks EXCEPT ![i] = task]
                      /\ task.stage = "read" /\ task.thread = tasks[i].thread
      <4> DEFINE reads == [tasks[i] EXCEPT !.stage = "read"]
      <4>1. tasks[i] \in Task
        BY <1>2, <1>7
      <4>2. tasks' = [tasks EXCEPT ![i] = reads]
        BY <1>2, <2>3 DEF GoesTo
      <4>3. reads.stage = "read" /\ reads.thread = tasks[i].thread
        BY <4>1 DEF Task
      <4> QED
        BY <4>2, <4>3
    <3>2. \A th : Stray(th)' => Stray(th)
      BY <2>1, <2>3, <3>1, <1>6
    <3> QED
      BY <1>1, <1>2, <2>1, <2>3, <3>2 DEF Works
  <2> QED
    BY <1>7, <2>2, <2>3 DEF Equip
<1>8. ASSUME NEW i \in Interactions, SaveBinding(i)
      PROVE  /\ restarts' = restarts
             /\ failures' >= failures /\ Strays' \subseteq Strays
  <2> DEFINE target == tasks[i].target
  <2>1. /\ UNCHANGED <<threads, restarts>> /\ failures' >= failures
        /\ target \in Users
    BY <1>2, <1>8 DEF SaveBinding, Works, Fails, InfoInv, CreationsFit, CreationFits, Creating, At
  <2>2. CASE /\ binding' = [binding EXCEPT ![target] = tasks[i].thread]
             /\ replaced' = replaced \cup ({binding[target]} \ {None})
             /\ End(i)
    <3>1. \A j \in Interactions \ {i} : tasks'[j] = tasks[j]
      BY <1>2, <2>2 DEF End
    <3>2. binding'[target] = tasks[i].thread /\ \A u \in Users \ {target} : binding'[u] = binding[u]
      BY <2>1, <2>2 DEF InfoInv, TypeOK
    <3>3. DOMAIN threads \subseteq Nat /\ None \notin Nat
      BY DEF InfoInv, TypeOK, CountersOK, InfoAssumption
    <3>4. \A th : Stray(th)' => Stray(th)
      BY <2>1, <2>2, <3>1, <3>2, <3>3 DEF Stray, Creating
    <3> QED
      BY <1>1, <2>1, <3>4
  <2>3. CASE GoesTo(i, "discard") /\ UNCHANGED <<binding, replaced>>
    <3>1. PICK task : /\ tasks' = [tasks EXCEPT ![i] = task]
                      /\ task.stage = "discard" /\ task.thread = tasks[i].thread
      <4> DEFINE discards == [tasks[i] EXCEPT !.stage = "discard"]
      <4>1. tasks[i] \in Task
        BY <1>2, <1>8
      <4>2. tasks' = [tasks EXCEPT ![i] = discards]
        BY <1>2, <2>3 DEF GoesTo
      <4>3. discards.stage = "discard" /\ discards.thread = tasks[i].thread
        BY <4>1 DEF Task
      <4> QED
        BY <4>2, <4>3
    <3>2. \A th : Stray(th)' => Stray(th)
      BY <2>1, <2>3, <3>1, <1>6
    <3> QED
      BY <1>1, <2>1, <3>2
  <2> QED
    BY <1>8, <2>2, <2>3 DEF SaveBinding
<1>9. ASSUME NEW i \in Interactions, DiscardThread(i)
      PROVE  /\ restarts' = restarts
             /\ \/ failures' >= failures /\ Strays' \subseteq Strays
                \/ \E th : failures' = failures + 1 /\ Strays' \subseteq Strays \cup {th}
  <2>1. UNCHANGED <<binding, replaced, restarts>> /\ End(i)
    BY <1>9 DEF DiscardThread, history
  <2>2. CASE Fails /\ UNCHANGED <<threads, enabled>>
    BY <2>1, <2>2, <1>1, <1>5 DEF Fails
  <2>3. CASE Works /\ Gone(tasks[i].thread)
    <3>1. \A j \in Interactions \ {i} : tasks'[j] = tasks[j]
      BY <1>2, <2>1 DEF End
    <3>2. DOMAIN threads' = DOMAIN threads \ {tasks[i].thread}
      BY <2>3, RestrictIs DEF Gone
    <3>3. \A th : Stray(th)' => Stray(th)
      BY <2>1, <3>1, <3>2 DEF Stray, Creating
    <3> QED
      BY <1>1, <1>2, <2>1, <2>3, <3>3 DEF Works
  <2> QED
    BY <1>9, <2>2, <2>3 DEF DiscardThread
<1>10. ASSUME NEW i \in Interactions, NEW task, tasks' = [tasks EXCEPT ![i] = task],
              tasks[i].stage \in {"idle", "disable", "resolve", "show"},
              UNCHANGED <<threads, binding, replaced, failures, restarts>>
       PROVE  Strays' \subseteq Strays /\ failures' >= failures /\ restarts' = restarts
  BY <1>3, <1>10 DEF Creating
<1>11. ASSUME NEW i \in Interactions, NEW u \in Users, NEW t \in Users, NEW k \in AllKinds,
              Ask(i, u, t, k)
       PROVE  Strays' \subseteq Strays /\ failures' >= failures /\ restarts' = restarts
  BY <1>10, <1>11, IdleIsTask DEF Ask, Begin, history
<1>12. ASSUME NEW i \in Interactions, NEW u \in Users, NEW b \in enabled, Press(i, u, b)
       PROVE  Strays' \subseteq Strays /\ failures' >= failures /\ restarts' = restarts
  BY <1>10, <1>12, IdleIsTask DEF Press, Begin, history
<1>13. ASSUME NEW i \in Interactions, DisableComponents(i)
       PROVE  Strays' \subseteq Strays /\ failures' >= failures /\ restarts' = restarts
  <2>1. \E task : tasks' = [tasks EXCEPT ![i] = task]
    BY <1>2, <1>13 DEF DisableComponents, TakeChoice, NextPageButton, End, GoesTo
  <2> QED
    BY <1>10, <1>13, <2>1 DEF DisableComponents, At
<1>14. ASSUME NEW i \in Interactions, Resolve(i)
       PROVE  Strays' \subseteq Strays /\ failures' >= failures /\ restarts' = restarts
  <2>1. \E task : tasks' = [tasks EXCEPT ![i] = task]
    BY <1>2, <1>14 DEF Resolve, End, Shows
  <2> QED
    BY <1>10, <1>14, <2>1 DEF Resolve, At, history
<1>15. ASSUME NEW i \in Interactions, NEW pages, Post(i, pages)
       PROVE  Strays' \subseteq Strays /\ failures' >= failures /\ restarts' = restarts
  BY <1>10, <1>15 DEF Post, End, At, history
<1>16. ASSUME NEW u \in Users, NEW th \in DOMAIN threads, NEW f \in Fields, Select(u, th, f)
       PROVE  Strays' \subseteq Strays /\ failures' >= failures /\ restarts' = restarts
  <2>1. UNCHANGED <<threads, binding, replaced, tasks, failures, restarts>>
    BY <1>16 DEF Select, history
  <2>2. \A n : Stray(n)' => Stray(n)
    BY <2>1 DEF Stray, Creating
  <2> QED
    BY <1>1, <1>2, <2>1, <2>2
<1>17. ASSUME NEW i \in Interactions, ReadBinding(i)
       PROVE  Strays' \subseteq Strays /\ failures' >= failures /\ restarts' = restarts
  <2>1. PICK task : /\ tasks' = [tasks EXCEPT ![i] = task]
                    /\ task.stage = "save" /\ task.thread = tasks[i].thread
    <3> DEFINE saves == [tasks[i] EXCEPT !.stage = "save", !.row = HasRow(tasks[i].target)]
    <3>1. tasks[i] \in Task
      BY <1>2, <1>17
    <3>2. tasks' = [tasks EXCEPT ![i] = saves]
      BY <1>2, <1>17 DEF ReadBinding
    <3>3. saves.stage = "save" /\ saves.thread = tasks[i].thread
      BY <3>1 DEF Task
    <3> QED
      BY <3>2, <3>3
  <2>2. UNCHANGED <<threads, binding, replaced, failures, restarts>>
    BY <1>17 DEF ReadBinding, history
  <2>3. \A th : Stray(th)' => Stray(th)
    BY <2>1, <2>2, <1>6
  <2> QED
    BY <1>1, <1>2, <2>2, <2>3
<1>18. ASSUME NEW i \in Interactions, GoOn(i)
       PROVE  /\ restarts' = restarts
              /\ \/ failures' >= failures /\ Strays' \subseteq Strays
                 \/ \E th : failures' = failures + 1 /\ Strays' \subseteq Strays \cup {th}
  BY <1>7, <1>8, <1>9, <1>13, <1>14, <1>15, <1>17, <1>18
     DEF GoOn, ShowPlayerInfo, ShowPlayerInfoSeason, ShowLeaderboard, ShowLeaderboardSeason
<1> QED
  BY <1>4, <1>11, <1>12, <1>16, <1>18 DEF Next

\* Of the threads that a restart leaves behind all were in creation.
LEMMA RestartLeaves ==
  ASSUME InfoAssumption, InfoInv, InfoInv', Restart
  PROVE  Strays' \subseteq Strays \cup InCreation
<1>1. \A th : (th \in Strays <=> Stray(th)) /\ (th \in Strays' <=> Stray(th)')
  BY StraysAre
<1>2. \A th : Stray(th)' => Stray(th) \/ \E i \in Interactions : Creating(i) /\ tasks[i].thread = th
  BY DEF Restart, history, Stray
<1> QED
  BY <1>1, <1>2 DEF InCreation, Creating

\* Threads are only left behind by failures, one by each, and by restarts, at most
\* as many by each as there were creations to cut short.
THEOREM FewLeftBehind == Spec => []StraysHaveAReason
<1> DEFINE C == Cardinality(Interactions)
<1>0. C \in Nat
  BY InfoAssumption, FS_CardinalityType DEF InfoAssumption
<1>1. Init /\ InfoInv => StraysHaveAReason
  <2> SUFFICES ASSUME Init, InfoInv
               PROVE  StraysHaveAReason
    OBVIOUS
  <2>1. Strays = {}
    BY DEF Init, Strays
  <2>2. Cardinality(Strays) = 0 /\ restarts * C = 0
    BY <2>1, <1>0, FS_EmptySet DEF Init
  <2> QED
    BY <2>2 DEF Init, StraysHaveAReason
<1>2. InfoInv /\ InfoInv' /\ StraysHaveAReason /\ [Next]_vars => StraysHaveAReason'
  <2> SUFFICES ASSUME InfoInv, InfoInv', StraysHaveAReason, [Next]_vars
               PROVE  StraysHaveAReason'
    OBVIOUS
  <2>1. /\ IsFiniteSet(Strays) /\ Cardinality(Strays) \in Nat
        /\ Cardinality(Strays) <= failures + restarts * C
        /\ failures \in Nat /\ restarts \in Nat /\ failures' \in Nat /\ restarts' \in Nat
        /\ restarts * C \in Nat
    BY <1>0, StraysFinite DEF StraysHaveAReason, InfoInv, CountersOK
  <2>2. CASE UNCHANGED vars
    BY <2>1, <2>2 DEF vars, StraysHaveAReason, Strays, InCreation, Creating, Range
  <2>3. CASE Next /\ ~Restart
    <3>1. restarts' * C = restarts * C
      BY <2>3, StepLeavesOne, InfoAssumption
    <3>2. CASE failures' >= failures /\ Strays' \subseteq Strays
      <4>1. Cardinality(Strays') <= Cardinality(Strays) /\ Cardinality(Strays') \in Nat
        BY <2>1, <3>2, FS_Subset, FS_CardinalityType
      <4> QED
        BY <2>1, <3>1, <3>2, <4>1 DEF StraysHaveAReason
    <3>3. CASE \E th : failures' = failures + 1 /\ Strays' \subseteq Strays \cup {th}
      <4>1. Cardinality(Strays') <= Cardinality(Strays) + 1
        BY <2>1, <3>3, OneMore
      <4>2. IsFiniteSet(Strays') /\ Cardinality(Strays') \in Nat
        <5>1. PICK th : Strays' \subseteq Strays \cup {th}
          BY <3>3
        <5>2. IsFiniteSet(Strays \cup {th})
          BY <2>1, FS_AddElement
        <5> QED
          BY <5>1, <5>2, FS_Subset, FS_CardinalityType
      <4> QED
        BY <2>1, <3>1, <3>3, <4>1, <4>2 DEF StraysHaveAReason
    <3> QED
      BY <2>3, <3>2, <3>3, StepLeavesOne, InfoAssumption
  <2>4. CASE Restart
    <3>1. /\ failures' = failures /\ restarts' = restarts + 1
          /\ Strays' \subseteq Strays \cup InCreation
      BY <2>4, RestartLeaves, InfoAssumption DEF Restart
    <3>2. IsFiniteSet(InCreation) /\ Cardinality(InCreation) <= C /\ Cardinality(InCreation) \in Nat
      BY FewInCreation, InfoAssumption, FS_CardinalityType
    <3>3. /\ IsFiniteSet(Strays \cup InCreation)
          /\ Cardinality(Strays \cup InCreation) <= Cardinality(Strays) + Cardinality(InCreation)
          /\ Cardinality(Strays \cup InCreation) \in Nat
      <4>1. IsFiniteSet(Strays \cup InCreation) /\ IsFiniteSet(Strays \cap InCreation)
        BY <2>1, <3>2, FS_Union, FS_Intersection
      <4>2. Cardinality(Strays \cup InCreation)
              = Cardinality(Strays) + Cardinality(InCreation) - Cardinality(Strays \cap InCreation)
        BY <2>1, <3>2, FS_Union
      <4>3. Cardinality(Strays \cup InCreation) \in Nat /\ Cardinality(Strays \cap InCreation) \in Nat
        BY <4>1, FS_CardinalityType
      <4> QED
        BY <2>1, <3>2, <4>1, <4>2, <4>3
    <3>4. Cardinality(Strays') <= Cardinality(Strays \cup InCreation) /\ Cardinality(Strays') \in Nat
      BY <3>1, <3>3, FS_Subset, FS_CardinalityType
    <3>5. restarts' * C = restarts * C + C
      BY <1>0, <2>1, <3>1
    <3> QED
      BY <1>0, <2>1, <3>1, <3>2, <3>3, <3>4, <3>5 DEF StraysHaveAReason
  <2> QED
    BY <2>2, <2>3, <2>4
<1> QED
  BY <1>1, <1>2, InfoInvariant, PTL DEF Spec
=============================================================================
