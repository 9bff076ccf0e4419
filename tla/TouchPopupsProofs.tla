------------------------- MODULE TouchPopupsProofs -------------------------
(***************************************************************************)
(* Theorems about TouchPopups for any number of security keys, any limit   *)
(* and any number of episodes.                                             *)
(***************************************************************************)
EXTENDS TouchPopups, FiniteSetTheorems, SequenceTheorems, TLAPS

\* Run's map and the goroutines: whoever runs is in the map, under its device.
TasksOK ==
    /\ \A d \in Device : popup[d] # 0 => task[popup[d]].device = d
    /\ \A i \in Running : popup[task[i].device] = i
    /\ Cardinality(Occupied(popup)) <= MaxDevices
    /\ NoneLeftBehind

\* An epoch is drawn once, for one device.
EpochsOK ==
    /\ \A d \in Device :
          /\ desired[d] <= epoch /\ seen[d] <= epoch
          /\ desired[d] # 0 => seen[d] <= desired[d]
    /\ \A c, d \in Device : c # d =>
          /\ desired[d] # 0 => desired[c] # desired[d] /\ seen[c] # desired[d]
          /\ seen[d] # 0 => seen[c] # seen[d]
    /\ \A i \in DOMAIN task :
          /\ task[i].epoch <= epoch
          /\ \A c \in Device :
                task[i].epoch \in {desired[c], seen[c]} => c = task[i].device

\* An episode that lasts and has had a popup is remembered, by Run's map or by
\* finished, until Run has seen that it is over.
EpisodesOK ==
    \A i \in DOMAIN task :
        LET d == task[i].device
            e == task[i].epoch
        IN /\ desired[d] # 0 => e <= desired[d]
           /\ seen[d] # 0 => e <= seen[d]
           /\ popup[d] # 0 => e <= task[popup[d]].epoch
           /\ e \in {desired[d], seen[d]} => popup[d] = i \/ finished[d] = e
           /\ run = "round" /\ desired[d] = e => seen[d] = e

\* The invariant of the popups.
PopupsIndInv ==
    TypeOK /\ TasksOK /\ EpochsOK /\ EpisodesOK /\ OneWorkerPerEpisode

LEMMA TaskFields ==
  ASSUME TypeOK
  PROVE  /\ Len(task) \in Nat /\ DOMAIN task = 1..Len(task)
         /\ \A i \in DOMAIN task :
               /\ task[i] \in Task
               /\ i \in Nat \ {0}
               /\ task[i].device \in Device
               /\ task[i].epoch \in Nat \ {0}
  <1>1. task \in Seq(Task)
    BY DEF TypeOK
  <1>2. \A i \in DOMAIN task : task[i] \in Task /\ i \in Nat \ {0}
    BY <1>1
  <1>3. Len(task) \in Nat /\ DOMAIN task = 1..Len(task)
    BY <1>1
  <1> QED
    BY <1>2, <1>3 DEF Task

LEMMA InitialPopups == Init => PopupsIndInv
  <1> SUFFICES ASSUME Init PROVE PopupsIndInv
    OBVIOUS
  <1>1. /\ \A d \in Device : desired[d] = 0 /\ popup[d] = 0 /\ seen[d] = 0
        /\ DOMAIN task = {} /\ epoch = 0 /\ run = "wait"
    BY DEF Init, None
  <1>2. Occupied(popup) = {} /\ Running = {}
    BY <1>1 DEF Occupied, Running
  <1>3. TypeOK
    <2>1. /\ desired \in [Device -> Nat] /\ finished \in [Device -> Nat]
          /\ seen \in [Device -> Nat] /\ epoch \in Nat
          /\ task \in Seq(Task) /\ popup \in [Device -> 0..Len(task)]
      BY DEF Init, None
    <2>2. /\ wake \in BOOLEAN /\ failed \in BOOLEAN /\ stop \in BOOLEAN
          /\ run \in {"wait", "round", "leave", "over"}
      BY DEF Init
    <2> QED
      BY <2>1, <2>2 DEF TypeOK
  <1>4. TasksOK
    BY <1>1, <1>2, FS_EmptySet, DevicesAssumption DEF TasksOK, NoneLeftBehind
  <1> QED
    BY <1>1, <1>3, <1>4 DEF PopupsIndInv, EpochsOK, EpisodesOK, OneWorkerPerEpisode

---------------------------------------------------------------------------
(* Reports and the steps of Run that leave the goroutines alone.           *)

LEMMA ReportsKeep ==
  ASSUME PopupsIndInv, NEW d \in Device, Pending(d) \/ NotPending(d)
  PROVE  PopupsIndInv'
  <1>0. TypeOK /\ TasksOK /\ EpochsOK /\ EpisodesOK /\ OneWorkerPerEpisode
    BY DEF PopupsIndInv
  <1>1. /\ UNCHANGED <<failed, task, popup, finished, run, seen, stop>>
        /\ wake' \in BOOLEAN
    BY DEF Pending, NotPending, table, Signal
  <1>2. /\ desired \in [Device -> Nat] /\ epoch \in Nat
        /\ seen \in [Device -> Nat]
    BY <1>0 DEF TypeOK
  <1>3. \/ desired' = desired /\ epoch' = epoch
        \/ /\ epoch' = epoch + 1
           /\ desired' = [desired EXCEPT ![d] = epoch + 1]
        \/ epoch' = epoch /\ desired' = [desired EXCEPT ![d] = 0]
    BY DEF Pending, NotPending, mailbox
  <1>4. desired' \in [Device -> Nat] /\ epoch' \in Nat /\ epoch <= epoch'
    BY <1>2, <1>3
  <1>5. \A c \in Device : \/ desired'[c] = desired[c]
                          \/ desired'[c] = 0
                          \/ c = d /\ desired'[c] = epoch + 1 /\ epoch' = epoch + 1
    BY <1>2, <1>3
  <1>6. \A i \in DOMAIN task : /\ task[i].device \in Device
                               /\ task[i].epoch \in Nat \ {0}
    BY <1>0, TaskFields
  <1>7. TypeOK'
    BY <1>0, <1>1, <1>4 DEF TypeOK
  <1>8. TasksOK' /\ OneWorkerPerEpisode'
    BY <1>0, <1>1
    DEF TasksOK, NoneLeftBehind, Running, Done, Occupied, OneWorkerPerEpisode
  <1>9. EpochsOK'
    <2>1. \A c \in Device : /\ desired'[c] <= epoch' /\ seen[c] <= epoch'
                            /\ desired'[c] # 0 => seen[c] <= desired'[c]
      BY <1>0, <1>2, <1>4, <1>5 DEF EpochsOK
    <2>2. ASSUME NEW b \in Device, NEW c \in Device, b # c
          PROVE  /\ desired'[c] # 0 => desired'[b] # desired'[c] /\ seen[b] # desired'[c]
                 /\ seen[c] # 0 => seen[b] # seen[c]
      <3>1. /\ desired[b] <= epoch /\ seen[b] <= epoch
            /\ desired[c] <= epoch /\ seen[c] <= epoch
            /\ desired[c] # 0 => desired[b] # desired[c] /\ seen[b] # desired[c]
            /\ seen[c] # 0 => seen[b] # seen[c]
            /\ desired[b] # 0 => desired[c] # desired[b]
        BY <1>0, <2>2 DEF EpochsOK
      <3>2. /\ desired[b] \in Nat /\ desired[c] \in Nat
            /\ seen[b] \in Nat /\ seen[c] \in Nat
        BY <1>2
      <3> QED
        BY <1>2, <1>5, <2>2, <3>1, <3>2
    <2>3. ASSUME NEW i \in DOMAIN task
          PROVE  /\ task[i].epoch <= epoch'
                 /\ \A c \in Device :
                       task[i].epoch \in {desired'[c], seen[c]} => c = task[i].device
      BY <1>0, <1>2, <1>4, <1>5, <1>6 DEF EpochsOK
    <2> QED
      BY <1>1, <2>1, <2>2, <2>3 DEF EpochsOK
  <1>10. EpisodesOK'
    <2> SUFFICES ASSUME NEW i \in DOMAIN task,
                        NEW c \in Device, c = task[i].device,
                        NEW e \in Nat \ {0}, e = task[i].epoch
                 PROVE  /\ desired'[c] # 0 => e <= desired'[c]
                        /\ seen[c] # 0 => e <= seen[c]
                        /\ popup[c] # 0 => e <= task[popup[c]].epoch
                        /\ e \in {desired'[c], seen[c]} =>
                              popup[c] = i \/ finished[c] = e
                        /\ run = "round" /\ desired'[c] = e => seen[c] = e
      BY <1>1, <1>6 DEF EpisodesOK
    <2>1. e <= epoch
      BY <1>0 DEF EpochsOK
    <2>2. desired'[c] = desired[c] \/ desired'[c] = 0 \/ desired'[c] = epoch + 1
      BY <1>5
    <2> QED
      BY <1>0, <1>2, <2>1, <2>2 DEF EpisodesOK
  <1> QED
    BY <1>7, <1>8, <1>9, <1>10 DEF PopupsIndInv

LEMMA RunKeeps ==
  ASSUME PopupsIndInv, Snapshot \/ Leave \/ Return
  PROVE  PopupsIndInv'
  <1>0. TypeOK /\ TasksOK /\ EpochsOK /\ EpisodesOK /\ OneWorkerPerEpisode
    BY DEF PopupsIndInv
  <1>1. UNCHANGED <<desired, epoch, failed, task, popup, finished, stop>>
    BY DEF Snapshot, Leave, Return, mailbox
  <1>2. seen' \in {seen, desired} /\ run' \in {"round", "leave", "over"}
    BY DEF Snapshot, Leave, Return
  <1>3. TypeOK'
    BY <1>0, <1>1, <1>2 DEF TypeOK, Snapshot, Leave, Return
  <1>4. TasksOK' /\ OneWorkerPerEpisode'
    <2>1. ASSUME run' = "over" PROVE Running = {}
      <3>1. AllDone
        BY <2>1 DEF Snapshot, Leave, Return
      <3>2. \A i \in Running : popup[task[i].device] = i /\ task[i].device \in Device
        BY <1>0, TaskFields DEF TasksOK, Running
      <3>3. \A i \in Running : i # 0 /\ ~Done(i)
        BY <1>0, TaskFields DEF Running
      <3>4. \A i \in Running : task[i].device \in Occupied(popup)
        BY <3>2, <3>3 DEF Occupied
      <3> QED
        BY <3>1, <3>2, <3>3, <3>4 DEF AllDone
    <2> QED
      BY <1>0, <1>1, <2>1
      DEF TasksOK, NoneLeftBehind, Running, Done, Occupied, OneWorkerPerEpisode
  <1>5. EpochsOK'
    <2>1. \A d \in Device : desired[d] \in Nat /\ desired[d] <= desired[d]
      BY <1>0 DEF TypeOK
    <2>2. CASE seen' = seen
      BY <1>0, <1>1, <2>2 DEF EpochsOK
    <2>3. CASE seen' = desired
      BY <1>0, <1>1, <2>1, <2>3 DEF EpochsOK
    <2> QED
      BY <1>2, <2>2, <2>3
  <1>6. EpisodesOK'
    <2>1. CASE Snapshot
      BY <1>0, <1>1, <2>1 DEF EpisodesOK, Snapshot
    <2>2. CASE Leave \/ Return
      BY <1>0, <1>1, <2>2 DEF EpisodesOK, Leave, Return
    <2> QED
      BY <2>1, <2>2
  <1> QED
    BY <1>3, <1>4, <1>5, <1>6 DEF PopupsIndInv

---------------------------------------------------------------------------
(* The goroutines.                                                         *)

\* A step of a goroutine keeps its device and its epoch; it does not come back
\* once it is done; its dialog is started once, while it runs.
Proceeds(i, t) ==
    /\ t \in Task
    /\ t.device = task[i].device /\ t.epoch = task[i].epoch
    /\ Done(i) => t.pc = "done"
    /\ task[i].window # "none" => t.window # "none"
    /\ t.window # "none" /\ task[i].window = "none" => t.pc # "done"

LEMMA TaskMoves ==
  ASSUME PopupsIndInv, NEW i \in DOMAIN task, NEW t, Proceeds(i, t), Becomes(i, t),
         wake' \in BOOLEAN, failed' \in BOOLEAN
  PROVE  PopupsIndInv'
  <1>0. TypeOK /\ TasksOK /\ EpochsOK /\ EpisodesOK /\ OneWorkerPerEpisode
    BY DEF PopupsIndInv
  <1>1. /\ task' = [task EXCEPT ![i] = t]
        /\ UNCHANGED <<desired, epoch, popup, finished, run, seen, stop>>
    BY DEF Becomes, mailbox, table
  <1>2. task \in Seq(Task)
    BY <1>0 DEF TypeOK
  <1>3. /\ task' \in Seq(Task) /\ Len(task') = Len(task)
        /\ DOMAIN task' = DOMAIN task
    BY <1>1, <1>2 DEF Proceeds
  <1>4. \A j \in DOMAIN task : /\ task'[j].device = task[j].device
                               /\ task'[j].epoch = task[j].epoch
                               /\ task[j].pc = "done" => task'[j].pc = "done"
    BY <1>1, <1>2 DEF Proceeds, Done
  <1>5. \A d \in Device : popup[d] # 0 => popup[d] \in DOMAIN task
    BY <1>0, TaskFields DEF TypeOK
  <1>6. TypeOK'
    BY <1>0, <1>1, <1>3 DEF TypeOK
  <1>7. Running' \subseteq Running
    BY <1>3, <1>4 DEF Running, Done
  <1>8. TasksOK'
    <2>1. \A d \in Device : popup'[d] # 0 => task'[popup'[d]].device = d
      BY <1>0, <1>1, <1>4, <1>5 DEF TasksOK
    <2>2. \A j \in Running' : popup'[task'[j].device] = j
      BY <1>0, <1>1, <1>4, <1>7 DEF TasksOK, Running
    <2> QED
      BY <1>0, <1>1, <1>7, <2>1, <2>2 DEF TasksOK, NoneLeftBehind, Occupied
  <1>9. EpochsOK'
    BY <1>0, <1>1, <1>3, <1>4 DEF EpochsOK
  <1>10. EpisodesOK'
    BY <1>0, <1>1, <1>3, <1>4, <1>5, TaskFields DEF EpisodesOK
  <1>11. OneWorkerPerEpisode'
    BY <1>0, <1>3, <1>4 DEF OneWorkerPerEpisode
  <1> QED
    BY <1>6, <1>8, <1>9, <1>10, <1>11 DEF PopupsIndInv

LEMMA TaskRecord ==
  ASSUME NEW t \in Task
  PROVE  /\ t.cancelled \in BOOLEAN /\ t.news \in BOOLEAN
         /\ t.pc \in {"delay", "start", "show", "loop", "done"}
         /\ t.window \in Windows
  BY DEF Task

Moves(i) == \E t : Proceeds(i, t) /\ Becomes(i, t)

LEMMA GoroutineMoves ==
  ASSUME TypeOK, NEW i \in DOMAIN task,
         TaskStep(i) \/ Map(i) \/ Dismiss(i) \/ Die(i)
  PROVE  /\ wake' \in BOOLEAN /\ failed' \in BOOLEAN
         /\ Moves(i)
  <1> DEFINE w == task[i]
  <1>0. TypeOK /\ w \in Task
    BY TaskFields
  <1>1. wake' \in BOOLEAN /\ failed' \in BOOLEAN
    <2>1. wake \in BOOLEAN /\ failed \in BOOLEAN
      BY <1>0 DEF TypeOK
    <2>2. wake' = wake \/ wake' = TRUE
      BY DEF TaskStep, Delay, Start, Show, HearShown, GiveUp, LoseDialog, Map,
             Dismiss, Die, Ends, Signal
    <2>3. \/ failed' = failed \/ failed' = TRUE \/ failed' = FALSE
          \/ failed' = (failed \/ ~Cancelled(i))
      BY DEF TaskStep, Delay, Start, Show, HearShown, GiveUp, LoseDialog, Map,
             Dismiss, Die
    <2> QED
      BY <2>1, <2>2, <2>3
  <1> SUFFICES Moves(i)
    BY <1>1
  <1>2. ASSUME NEW t, Proceeds(i, t), Becomes(i, t) PROVE Moves(i)
    BY <1>2 DEF Moves
  <1>3. ASSUME Ends(i) PROVE  Moves(i)
    <2> DEFINE t == [w EXCEPT !.pc = "done", !.cancelled = FALSE,
                              !.window = IF w.window = "none" THEN "none"
                                         ELSE "closed",
                              !.news = FALSE]
    <2>1. Becomes(i, t)
      BY <1>3 DEF Ends
    <2>2. Proceeds(i, t)
      BY <1>0 DEF Proceeds, Task, Windows
    <2> QED
      BY <1>2, <2>1, <2>2
  <1>4. ASSUME NEW pc \in {"start", "show", "loop"}, NEW win \in {w.window, "blank", "told"},
               ~Done(i), Becomes(i, [w EXCEPT !.pc = pc, !.window = win])
        PROVE  Moves(i)
    <2>1. Proceeds(i, [w EXCEPT !.pc = pc, !.window = win])
      BY <1>0, <1>4 DEF Proceeds, Task, Windows
    <2> QED
      BY <1>2, <1>4, <2>1
  <1>5. CASE Delay(i)
    <2>1. CASE Becomes(i, [w EXCEPT !.pc = "start"])
      <3>1. Proceeds(i, [w EXCEPT !.pc = "start"])
        BY <1>0, <1>5 DEF Proceeds, Task, Delay, Done
      <3> QED
        BY <1>2, <2>1, <3>1
    <2> QED
      BY <1>3, <1>5, <2>1 DEF Delay
  <1>6. CASE Start(i)
    BY <1>3, <1>4, <1>6 DEF Start, Done
  <1>7. CASE Show(i)
    BY <1>3, <1>4, <1>7 DEF Show, Done
  <1>8. CASE HearShown(i)
    <2>1. Proceeds(i, [w EXCEPT !.news = FALSE])
      BY <1>0 DEF Proceeds, Task, Done
    <2> QED
      BY <1>2, <1>8, <2>1 DEF HearShown
  <1>9. CASE GiveUp(i) \/ LoseDialog(i)
    BY <1>3, <1>9 DEF GiveUp, LoseDialog
  <1>10. CASE Map(i)
    <2>1. Proceeds(i, [w EXCEPT !.window = "open", !.news = TRUE])
      BY <1>0, <1>10 DEF Map, Proceeds, Task, Windows, Done
    <2> QED
      BY <1>2, <1>10, <2>1 DEF Map
  <1>11. CASE Dismiss(i)
    <2>1. Proceeds(i, [w EXCEPT !.window = "hidden"])
      BY <1>0, <1>11 DEF Dismiss, Proceeds, Task, Windows, Done
    <2> QED
      BY <1>2, <1>11, <2>1 DEF Dismiss
  <1>12. CASE Die(i)
    <2>1. PICK news \in {FALSE, w.news} :
             Becomes(i, [w EXCEPT !.window = "dead", !.news = news])
      BY <1>12 DEF Die
    <2>2. news \in BOOLEAN
      BY <1>0, TaskRecord
    <2>3. Proceeds(i, [w EXCEPT !.window = "dead", !.news = news])
      <3>1. w.window # "none"
        BY <1>12 DEF Die
      <3> QED
        BY <1>0, <2>2, <3>1 DEF Proceeds, Task, Windows, Done
    <2> QED
      BY <1>2, <2>1, <2>3
  <1> QED
    BY <1>5, <1>6, <1>7, <1>8, <1>9, <1>10, <1>11, <1>12 DEF TaskStep

LEMMA GoroutinesKeep ==
  ASSUME PopupsIndInv, NEW i \in DOMAIN task,
         TaskStep(i) \/ Map(i) \/ Dismiss(i) \/ Die(i)
  PROVE  PopupsIndInv'
  <1>1. TypeOK
    BY DEF PopupsIndInv
  <1>2. wake' \in BOOLEAN /\ failed' \in BOOLEAN /\ Moves(i)
    BY <1>1, GoroutineMoves
  <1> QED
    BY <1>2, TaskMoves DEF Moves

---------------------------------------------------------------------------
(* A round of Run.                                                         *)

\* SetToSeq lists every element once.
LEMMA Listed ==
  ASSUME NEW S, IsFiniteSet(S)
  PROVE  /\ Cardinality(S) \in Nat
         /\ SetToSeq(S) \in [1..Cardinality(S) -> S]
         /\ IsInjective(SetToSeq(S))
         /\ \A x \in S : \E j \in 1..Cardinality(S) : SetToSeq(S)[j] = x
  <1> DEFINE n == Cardinality(S)
  <1>1. n \in Nat /\ ExistsBijection(1..n, S)
    BY FS_CardinalityType
  <1>2. \E f \in [1..n -> S] : IsInjective(f)
    BY <1>1 DEF ExistsBijection, Bijection, Injection
  <1>3. SetToSeq(S) \in [1..n -> S] /\ IsInjective(SetToSeq(S))
    BY <1>2 DEF SetToSeq
  <1>4. SetToSeq(S) \in Injection(1..n, S)
    BY <1>3 DEF Injection
  <1>5. Cardinality(1..n) = n
    BY <1>1, FS_Interval
  <1>6. SetToSeq(S) \in Surjection(1..n, S)
    BY <1>4, <1>5, FS_Injection
  <1>7. \A x \in S : \E j \in 1..n : SetToSeq(S)[j] = x
    BY <1>6 DEF Surjection
  <1> QED
    BY <1>1, <1>3, <1>7

LEMMA Rounds ==
  ASSUME TypeOK, Round
  PROVE  \E S \in Started :
            /\ task' \in Seq(Task)
            /\ DOMAIN task \subseteq DOMAIN task' /\ Len(task') \in Nat
            /\ DOMAIN task' = 1..Len(task') /\ Len(task) <= Len(task')
            /\ \A i \in DOMAIN task : task'[i] = Cancel(i)
            /\ popup' \in [Device -> 0..Len(task')]
            /\ \A d \in Device \ S : popup'[d] = Kept[d]
            /\ \A d \in S : /\ popup'[d] \in DOMAIN task' \ DOMAIN task
                            /\ task'[popup'[d]] = NewTask(d)
            /\ \A i \in DOMAIN task' \ DOMAIN task : \E d \in S : popup'[d] = i
  <1>1. PICK S \in Started :
           LET new == SetToSeq(S)
           IN /\ task' = [i \in DOMAIN task |-> Cancel(i)]
                             \o [j \in DOMAIN new |-> NewTask(new[j])]
              /\ popup' = [d \in Device |->
                              IF d \in S
                              THEN Len(task) + CHOOSE j \in DOMAIN new : new[j] = d
                              ELSE Kept[d]]
    BY DEF Round
  <1> DEFINE new == SetToSeq(S)
             n == Cardinality(S)
             old == [i \in DOMAIN task |-> Cancel(i)]
             added == [j \in DOMAIN new |-> NewTask(new[j])]
             at(d) == CHOOSE j \in DOMAIN new : new[j] = d
  <1>2. S \subseteq Device /\ IsFiniteSet(S)
    BY DevicesAssumption, FS_Subset DEF Started, Wanting, Occupied
  <1>3. /\ n \in Nat /\ DOMAIN new = 1..n /\ IsInjective(new)
        /\ \A j \in 1..n : new[j] \in S
        /\ \A d \in S : \E j \in 1..n : new[j] = d
    BY <1>2, Listed
  <1>4. Len(task) \in Nat /\ DOMAIN task = 1..Len(task)
    BY TaskFields
  <1>5. \A d \in S : at(d) \in 1..n /\ new[at(d)] = d
    BY <1>3
  <1>6. /\ task' = old \o added
        /\ popup' = [d \in Device |-> IF d \in S THEN Len(task) + at(d) ELSE Kept[d]]
    BY <1>1
  <1>7. \A d \in S : d \in Device /\ NewTask(d) \in Task
    <2>1. \A d \in S : d \in Device /\ seen[d] \in Nat \ {0}
      BY DEF TypeOK, Started, Wanting, Occupied
    <2> QED
      BY <2>1 DEF NewTask, Task, Windows
  <1>8. old \in Seq(Task) /\ Len(old) = Len(task)
    <2>1. \A i \in DOMAIN task : Cancel(i) \in Task
      BY TaskFields DEF Cancel, Task
    <2>2. old \in [1..Len(task) -> Task]
      BY <1>4, <2>1
    <2> HIDE DEF old
    <2> QED
      BY <1>4, <2>2
  <1>8a. added \in Seq(Task) /\ Len(added) = n
    <2>1. \A j \in 1..n : NewTask(new[j]) \in Task
      BY <1>3, <1>7
    <2>2. added \in [1..n -> Task]
      BY <1>3, <2>1
    <2> HIDE DEF added
    <2> QED
      BY <1>3, <2>2
  <1>8b. /\ \A i \in DOMAIN task : old[i] = Cancel(i)
         /\ \A j \in 1..n : added[j] = NewTask(new[j])
    BY <1>3
  <1> HIDE DEF at, new, n, old, added
  <1>9. /\ DOMAIN task' = 1..(Len(task) + n) /\ Len(task') = Len(task) + n
        /\ \A i \in 1..(Len(task) + n) :
              task'[i] = IF i <= Len(task) THEN old[i] ELSE added[i - Len(task)]
        /\ task' \in Seq(Task)
    <2>1. /\ task' \in Seq(Task) /\ Len(task') = Len(old) + Len(added)
          /\ \A i \in 1..Len(old) + Len(added) :
                task'[i] = IF i <= Len(old) THEN old[i] ELSE added[i - Len(old)]
      BY <1>6, <1>8, <1>8a, ConcatProperties
    <2>2. DOMAIN task' = 1..Len(task')
      BY <2>1
    <2> QED
      BY <1>8, <1>8a, <2>1, <2>2
  <1>10. \A i \in DOMAIN task : task'[i] = Cancel(i)
    BY <1>3, <1>4, <1>8b, <1>9
  <1>11. \A d \in S : /\ popup'[d] = Len(task) + at(d)
                      /\ popup'[d] \in DOMAIN task' \ DOMAIN task
    BY <1>2, <1>3, <1>4, <1>5, <1>6, <1>9
  <1>12. \A d \in S : task'[popup'[d]] = NewTask(d)
    <2> SUFFICES ASSUME NEW d \in S PROVE task'[popup'[d]] = NewTask(d)
      OBVIOUS
    <2>1. /\ popup'[d] \in 1..(Len(task) + n) /\ ~(popup'[d] <= Len(task))
          /\ popup'[d] - Len(task) = at(d)
      BY <1>3, <1>4, <1>5, <1>9, <1>11
    <2>2. task'[popup'[d]] = added[at(d)]
      BY <1>9, <2>1
    <2>3. added[at(d)] = NewTask(new[at(d)])
      BY <1>5, <1>8b
    <2>4. NewTask(new[at(d)]) = NewTask(d)
      BY <1>5
    <2> QED
      BY <2>2, <2>3, <2>4
  <1>13. ASSUME NEW i \in DOMAIN task' \ DOMAIN task
         PROVE  \E d \in S : popup'[d] = i
    <2>1. i - Len(task) \in 1..n
      BY <1>3, <1>4, <1>9
    <2> DEFINE d == new[i - Len(task)]
    <2>2. d \in S
      BY <1>3, <2>1
    <2>3. at(d) = i - Len(task)
      BY <1>3, <1>5, <2>1, <2>2 DEF IsInjective
    <2>4. popup'[d] = i
      BY <1>3, <1>4, <1>9, <1>11, <2>2, <2>3
    <2> QED
      BY <2>2, <2>4
  <1>14. \A d \in Device \ S : popup'[d] = Kept[d]
    BY <1>6
  <1>15. popup' \in [Device -> 0..Len(task')]
    <2>1. \A d \in Device : Kept[d] \in 0..Len(task')
      BY <1>3, <1>4, <1>9 DEF TypeOK, Kept
    <2>2. \A d \in Device : popup'[d] \in 0..Len(task')
      BY <1>3, <1>4, <1>9, <1>11, <1>14, <2>1
    <2> QED
      BY <1>6, <2>2
  <1>16. /\ DOMAIN task \subseteq DOMAIN task' /\ Len(task') \in Nat
         /\ DOMAIN task' = 1..Len(task') /\ Len(task) <= Len(task')
    BY <1>3, <1>4, <1>9
  <1> QED
    BY <1>9, <1>10, <1>11, <1>12, <1>13, <1>14, <1>15, <1>16

\* What a round finds of a popup whose episode Run still sees: it runs, or
\* the episode is finished.
LEMMA Remembered ==
  ASSUME PopupsIndInv, NEW i \in DOMAIN task,
         task[i].epoch = seen[task[i].device]
  PROVE  LET d == task[i].device
         IN (popup[d] = i /\ Kept[d] = i) \/ Finished[d] = seen[d]
  <1>0. TypeOK /\ TasksOK /\ EpochsOK /\ EpisodesOK
    BY DEF PopupsIndInv
  <1> SUFFICES ASSUME NEW d \in Device, d = task[i].device
               PROVE  (popup[d] = i /\ Kept[d] = i) \/ Finished[d] = seen[d]
    BY <1>0, TaskFields
  <1>1. seen[d] = task[i].epoch /\ seen[d] # 0
    BY <1>0, TaskFields
  <1>2. popup[d] = i \/ finished[d] = seen[d]
    BY <1>0, <1>1 DEF EpisodesOK
  <1>3. CASE ~Collected(d)
    BY <1>1, <1>2, <1>3 DEF Kept, Finished
  <1>4. CASE Collected(d)
    <2>1. popup[d] # 0 /\ popup[d] \in DOMAIN task
      BY <1>0, <1>4, TaskFields DEF Collected, TypeOK
    <2>2. task[popup[d]].device = d
      BY <1>0, <2>1 DEF TasksOK
    <2>3. seen[d] <= task[popup[d]].epoch
      BY <1>0, <1>1, <2>1 DEF EpisodesOK
    <2>4. task[popup[d]].epoch <= seen[d]
      BY <1>0, <1>1, <2>1, <2>2 DEF EpisodesOK
    <2>5. task[popup[d]].epoch \in Nat /\ seen[d] \in Nat
      BY <1>0, <2>1, TaskFields DEF TypeOK
    <2>6. task[popup[d]].epoch = seen[d]
      BY <2>3, <2>4, <2>5
    <2> QED
      BY <1>1, <1>4, <2>6 DEF Finished
  <1> QED
    BY <1>3, <1>4

LEMMA RoundKeeps ==
  ASSUME PopupsIndInv, Round
  PROVE  PopupsIndInv'
  <1>0. TypeOK /\ TasksOK /\ EpochsOK /\ EpisodesOK /\ OneWorkerPerEpisode
    BY DEF PopupsIndInv
  <1>1. PICK S \in Started :
            /\ task' \in Seq(Task)
            /\ DOMAIN task \subseteq DOMAIN task' /\ Len(task') \in Nat
            /\ DOMAIN task' = 1..Len(task') /\ Len(task) <= Len(task')
            /\ \A i \in DOMAIN task : task'[i] = Cancel(i)
            /\ popup' \in [Device -> 0..Len(task')]
            /\ \A d \in Device \ S : popup'[d] = Kept[d]
            /\ \A d \in S : /\ popup'[d] \in DOMAIN task' \ DOMAIN task
                            /\ task'[popup'[d]] = NewTask(d)
            /\ \A i \in DOMAIN task' \ DOMAIN task : \E d \in S : popup'[d] = i
    BY <1>0, Rounds
  <1>2. /\ UNCHANGED <<desired, epoch, wake, failed, stop>>
        /\ finished' = Finished /\ seen' = None /\ run' = "wait" /\ run = "round"
    BY DEF Round, mailbox
  <1>3. \A d \in S : /\ d \in Device /\ seen[d] # 0
                     /\ Kept[d] = 0 /\ Finished[d] # seen[d]
    BY DEF Started, Wanting, Occupied
  <1>4. \A i \in DOMAIN task :
           /\ i \in Nat \ {0} /\ task[i].device \in Device
           /\ task[i].epoch \in Nat \ {0}
           /\ task'[i].device = task[i].device /\ task'[i].epoch = task[i].epoch
           /\ task'[i].pc = task[i].pc
    <2>1. \A i \in DOMAIN task : task[i] \in Task
      BY <1>0, TaskFields
    <2>2. \A i \in DOMAIN task : /\ Cancel(i).device = task[i].device
                                 /\ Cancel(i).epoch = task[i].epoch
                                 /\ Cancel(i).pc = task[i].pc
      BY <2>1 DEF Cancel, Task
    <2> QED
      BY <1>0, <1>1, <2>2, TaskFields
  <1>5. \A i \in DOMAIN task' \ DOMAIN task :
           \E d \in S : popup'[d] = i /\ task'[i].device = d
                        /\ task'[i].epoch = seen[d] /\ task'[i].pc = "delay"
    <2>1. \A d : NewTask(d).device = d /\ NewTask(d).epoch = seen[d]
                 /\ NewTask(d).pc = "delay"
      BY DEF NewTask
    <2> QED
      BY <1>1, <2>1
  <1>6. \A d \in S : /\ popup'[d] \in DOMAIN task' /\ task'[popup'[d]].device = d
                     /\ task'[popup'[d]].epoch = seen[d]
    <2>1. \A d : NewTask(d).device = d /\ NewTask(d).epoch = seen[d]
      BY DEF NewTask
    <2> QED
      BY <1>1, <2>1
  <1>7. \A d \in Device : popup[d] # 0 => popup[d] \in DOMAIN task
    BY <1>0, TaskFields DEF TypeOK
  <1>8. \A d \in Device : Kept[d] = popup[d] \/ Kept[d] = 0
    BY DEF Kept
  <1>9. TypeOK'
    <2>1. \A d \in Device : Finished[d] \in Nat
      <3>1. \A d \in Device : Collected(d) => task[popup[d]].epoch \in Nat
        BY <1>4, <1>7 DEF Collected
      <3> QED
        BY <1>0, <3>1 DEF Finished, TypeOK
    <2>2. finished' \in [Device -> Nat] /\ seen' \in [Device -> Nat]
      BY <1>2, <2>1 DEF Finished, None
    <2> QED
      BY <1>0, <1>1, <1>2, <2>2 DEF TypeOK
  <1>10. TasksOK'
    <2>1. ASSUME NEW d \in Device, popup'[d] # 0
          PROVE  task'[popup'[d]].device = d
      <3>1. CASE d \in S
        BY <1>6, <3>1
      <3>2. CASE d \notin S
        <4>1. popup'[d] = popup[d] /\ popup[d] \in DOMAIN task
          BY <1>1, <1>7, <1>8, <2>1, <3>2
        <4> QED
          BY <1>0, <1>4, <2>1, <4>1 DEF TasksOK
      <3> QED
        BY <3>1, <3>2
    <2>2. ASSUME NEW i \in Running' PROVE popup'[task'[i].device] = i
      <3>1. i \in DOMAIN task' /\ task'[i].pc # "done"
        BY <2>2 DEF Running, Done
      <3>2. CASE i \in DOMAIN task
        <4>1. ~Done(i) /\ i \in Running
          BY <1>4, <3>1, <3>2 DEF Running, Done
        <4>2. PICK d \in Device : d = task[i].device
          BY <1>4, <3>2
        <4>3. popup[d] = i
          BY <1>0, <4>1, <4>2 DEF TasksOK
        <4>4. Kept[d] = i /\ i # 0
          BY <1>4, <3>2, <4>1, <4>3 DEF Kept, Collected
        <4>5. d \notin S
          BY <1>3, <4>4
        <4> QED
          BY <1>1, <1>4, <3>2, <4>2, <4>4, <4>5
      <3>3. CASE i \notin DOMAIN task
        BY <1>5, <3>1, <3>3
      <3> QED
        BY <3>2, <3>3
    <2>3. Cardinality(Occupied(popup')) <= MaxDevices
      <3>1. Occupied(popup') \subseteq Occupied(Kept) \cup S
        BY <1>1 DEF Occupied
      <3>2. IsFiniteSet(Occupied(Kept)) /\ IsFiniteSet(S)
        BY <1>3, FS_Subset, DevicesAssumption DEF Occupied
      <3>3. /\ IsFiniteSet(Occupied(Kept) \cup S)
            /\ Cardinality(Occupied(popup')) <= Cardinality(Occupied(Kept) \cup S)
        BY <3>1, <3>2, FS_Union, FS_Subset
      <3>4. /\ Cardinality(Occupied(Kept) \cup S)
                  = Cardinality(Occupied(Kept)) + Cardinality(S)
                       - Cardinality(Occupied(Kept) \cap S)
            /\ Cardinality(Occupied(Kept) \cap S) \in Nat
        BY <3>2, FS_Union, FS_Intersection, FS_CardinalityType
      <3>5. /\ Cardinality(S) \in Nat /\ Cardinality(Occupied(Kept)) \in Nat
            /\ Cardinality(Occupied(popup')) \in Nat
        BY <3>1, <3>2, <3>3, FS_CardinalityType, FS_Subset
      <3>6. Cardinality(S) <= MaxDevices - Cardinality(Occupied(Kept))
        BY DEF Started, Free
      <3> QED
        BY <3>3, <3>4, <3>5, <3>6, DevicesAssumption
    <2> QED
      BY <1>2, <2>1, <2>2, <2>3 DEF TasksOK, NoneLeftBehind
  <1>11. EpochsOK'
    <2>1. \A d \in Device : seen'[d] = 0 /\ desired[d] \in Nat
      BY <1>0, <1>2 DEF None, TypeOK
    <2>2. ASSUME NEW i \in DOMAIN task'
          PROVE  /\ task'[i].epoch <= epoch'
                 /\ \A c \in Device :
                       task'[i].epoch \in {desired'[c], seen'[c]} =>
                           c = task'[i].device
      <3>1. CASE i \in DOMAIN task
        BY <1>0, <1>2, <1>4, <2>1, <3>1 DEF EpochsOK
      <3>2. CASE i \notin DOMAIN task
        BY <1>0, <1>2, <1>3, <1>5, <2>1, <3>2 DEF EpochsOK
      <3> QED
        BY <3>1, <3>2
    <2>3. \A d \in Device : /\ desired'[d] <= epoch' /\ seen'[d] <= epoch'
                            /\ desired'[d] # 0 => seen'[d] <= desired'[d]
      BY <1>0, <1>2, <2>1 DEF EpochsOK, TypeOK
    <2>4. \A c, d \in Device : c # d =>
             /\ desired'[d] # 0 => desired'[c] # desired'[d] /\ seen'[c] # desired'[d]
             /\ seen'[d] # 0 => seen'[c] # seen'[d]
      BY <1>0, <1>2, <2>1 DEF EpochsOK
    <2> QED
      BY <2>2, <2>3, <2>4 DEF EpochsOK
  <1>12. EpisodesOK'
    <2>1. \A d \in Device : seen'[d] = 0 /\ desired[d] \in Nat
      BY <1>0, <1>2 DEF None, TypeOK
    <2>2. ASSUME NEW i \in DOMAIN task, NEW d \in Device, d = task[i].device,
                 NEW e \in Nat \ {0}, e = task[i].epoch
          PROVE  /\ desired[d] # 0 => e <= desired[d]
                 /\ popup'[d] # 0 => e <= task'[popup'[d]].epoch
                 /\ desired[d] = e => popup'[d] = i \/ finished'[d] = e
      <3>1. desired[d] # 0 => e <= desired[d]
        BY <1>0, <2>2 DEF EpisodesOK
      <3>2. ASSUME popup'[d] # 0 PROVE e <= task'[popup'[d]].epoch
        <4>1. CASE d \in S
          BY <1>0, <1>3, <1>6, <2>2, <4>1 DEF EpisodesOK
        <4>2. CASE d \notin S
          <5>1. popup'[d] = popup[d] /\ popup[d] \in DOMAIN task
            BY <1>1, <1>7, <1>8, <3>2, <4>2
          <5> QED
            BY <1>0, <1>4, <2>2, <3>2, <5>1 DEF EpisodesOK
        <4> QED
          BY <4>1, <4>2
      <3>3. ASSUME desired[d] = e PROVE popup'[d] = i \/ finished'[d] = e
        <4>1. seen[d] = e
          BY <1>0, <1>2, <2>2, <3>3 DEF EpisodesOK
        <4>2. (popup[d] = i /\ Kept[d] = i) \/ Finished[d] = e
          BY <2>2, <4>1, Remembered
        <4>3. CASE Kept[d] = i
          <5>1. d \notin S
            BY <1>3, <1>4, <4>3
          <5> QED
            BY <1>1, <4>3, <5>1
        <4> QED
          BY <1>2, <4>2, <4>3
      <3> QED
        BY <3>1, <3>2, <3>3
    <2>3. ASSUME NEW i \in DOMAIN task' \ DOMAIN task, NEW d \in S,
                 popup'[d] = i, task'[i].device = d, task'[i].epoch = seen[d]
          PROVE  /\ desired[d] # 0 => seen[d] <= desired[d]
                 /\ seen[d] <= task'[popup'[d]].epoch /\ seen[d] # 0
      <3>1. d \in Device /\ seen[d] \in Nat /\ seen[d] # 0
        BY <1>0, <1>3 DEF TypeOK
      <3> QED
        BY <1>0, <2>3, <3>1 DEF EpochsOK
    <2> SUFFICES ASSUME NEW i \in DOMAIN task'
                 PROVE  LET d == task'[i].device
                            e == task'[i].epoch
                        IN /\ desired'[d] # 0 => e <= desired'[d]
                           /\ seen'[d] # 0 => e <= seen'[d]
                           /\ popup'[d] # 0 => e <= task'[popup'[d]].epoch
                           /\ e \in {desired'[d], seen'[d]} =>
                                 popup'[d] = i \/ finished'[d] = e
                           /\ run' = "round" /\ desired'[d] = e => seen'[d] = e
      BY DEF EpisodesOK
    <2>4. CASE i \in DOMAIN task
      BY <1>2, <1>4, <2>1, <2>2, <2>4
    <2>5. CASE i \notin DOMAIN task
      <3>1. PICK d \in S : popup'[d] = i /\ task'[i].device = d
                           /\ task'[i].epoch = seen[d]
        BY <1>5, <2>5
      <3>2. d \in Device
        BY <1>3
      <3> QED
        BY <1>2, <2>1, <2>3, <2>5, <3>1, <3>2
    <2> QED
      BY <2>4, <2>5
  <1>13. OneWorkerPerEpisode'
    <2> SUFFICES ASSUME NEW i \in DOMAIN task', NEW j \in DOMAIN task',
                        task'[i].epoch = task'[j].epoch
                 PROVE  i = j
      BY DEF OneWorkerPerEpisode
    <2>1. ASSUME NEW k \in DOMAIN task, NEW d \in S
          PROVE  task[k].epoch # seen[d]
      <3>1. SUFFICES ASSUME task[k].epoch = seen[d] PROVE FALSE
        OBVIOUS
      <3>2. d = task[k].device
        BY <1>0, <1>3, <3>1 DEF EpochsOK
      <3>3. Kept[d] = k \/ Finished[d] = seen[d]
        BY <3>1, <3>2, Remembered
      <3> QED
        BY <1>3, <1>4, <3>3
    <2>2. CASE i \in DOMAIN task /\ j \in DOMAIN task
      BY <1>0, <1>4, <2>2 DEF OneWorkerPerEpisode
    <2>3. CASE i \in DOMAIN task /\ j \notin DOMAIN task
      BY <1>4, <1>5, <2>1, <2>3
    <2>4. CASE i \notin DOMAIN task /\ j \in DOMAIN task
      BY <1>4, <1>5, <2>1, <2>4
    <2>5. CASE i \notin DOMAIN task /\ j \notin DOMAIN task
      <3>1. PICK d \in S : popup'[d] = i /\ task'[i].epoch = seen[d]
        BY <1>5, <2>5
      <3>2. PICK c \in S : popup'[c] = j /\ task'[j].epoch = seen[c]
        BY <1>5, <2>5
      <3>3. c = d
        BY <1>0, <1>3, <3>1, <3>2 DEF EpochsOK
      <3> QED
        BY <3>1, <3>2, <3>3
    <2> QED
      BY <2>2, <2>3, <2>4, <2>5
  <1> QED
    BY <1>9, <1>10, <1>11, <1>12, <1>13 DEF PopupsIndInv

---------------------------------------------------------------------------
(* The theorems.                                                           *)

LEMMA NextKeepsPopups ==
  ASSUME PopupsIndInv, [Next]_vars
  PROVE  PopupsIndInv'
  <1>1. CASE \E d \in Device : Pending(d) \/ NotPending(d)
    BY <1>1, ReportsKeep
  <1>2. CASE RunStep
    BY <1>2, RunKeeps, RoundKeeps DEF RunStep
  <1>3. CASE \E i \in DOMAIN task : TaskStep(i) \/ Map(i) \/ Dismiss(i) \/ Die(i)
    BY <1>3, GoroutinesKeep
  <1>4. CASE Shutdown
    <2>1. /\ UNCHANGED <<desired, epoch, wake, failed, task, popup, finished, run,
                         seen>>
          /\ stop' \in BOOLEAN
      BY <1>4 DEF Shutdown, mailbox, table
    <2> QED
      BY <2>1 DEF PopupsIndInv, TypeOK, TasksOK, EpochsOK, EpisodesOK,
                  OneWorkerPerEpisode, NoneLeftBehind, Running, Done, Occupied
  <1>5. CASE UNCHANGED vars
    BY <1>5 DEF vars, PopupsIndInv, TypeOK, TasksOK, EpochsOK, EpisodesOK,
                OneWorkerPerEpisode, NoneLeftBehind, Running, Done, Occupied
  <1> QED
    BY <1>1, <1>2, <1>3, <1>4, <1>5 DEF Next, Rest

LEMMA PopupsAlways == Spec => []PopupsIndInv
  <1>1. PopupsIndInv /\ [Next]_vars => PopupsIndInv'
    BY NextKeepsPopups
  <1> QED
    BY InitialPopups, <1>1, PTL DEF Spec

\* Whoever runs is in Run's map: no more run than the map has room for.
LEMMA PopupsFit == PopupsIndInv => PopupsInv
  <1> SUFFICES ASSUME PopupsIndInv PROVE PopupsInv
    OBVIOUS
  <1>0. TypeOK /\ TasksOK
    BY DEF PopupsIndInv
  <1>1. \A i \in Running : /\ task[i].device \in Device /\ i # 0
                           /\ popup[task[i].device] = i
    BY <1>0, TaskFields DEF TasksOK, Running
  <1>2. OneWorkerPerDevice
    BY <1>1 DEF OneWorkerPerDevice
  <1>3. WorkersBounded
    <2> DEFINE h == [i \in Running |-> task[i].device]
    <2>1. IsFiniteSet(Occupied(popup)) /\ IsFiniteSet(Running)
      <3>1. Occupied(popup) \subseteq Device
        BY DEF Occupied
      <3>2. Running \subseteq 1..Len(task) /\ Len(task) \in Nat
        BY <1>0, TaskFields DEF Running
      <3>3. IsFiniteSet(1..Len(task))
        BY <3>2, FS_Interval
      <3> QED
        BY <3>1, <3>2, <3>3, FS_Subset, DevicesAssumption
    <2>2. h \in [Running -> Occupied(popup)]
      BY <1>1 DEF Occupied
    <2>3. IsInjective(h)
      BY <1>1 DEF IsInjective
    <2>4. h \in Injection(Running, Occupied(popup))
      BY <2>2, <2>3 DEF Injection
    <2>5. Cardinality(Running) <= Cardinality(Occupied(popup))
      BY <2>1, <2>4, FS_Injection
    <2>6. Cardinality(Running) \in Nat /\ Cardinality(Occupied(popup)) \in Nat
      BY <2>1, FS_CardinalityType
    <2> QED
      BY <1>0, <2>5, <2>6, DevicesAssumption DEF TasksOK, WorkersBounded
  <1> QED
    BY <1>0, <1>2, <1>3 DEF PopupsInv, TasksOK

\* However the reports of episodes interleave with Run, its goroutines and the
\* dialogs: a device has one popup at a time, no more popups are alive than
\* Run has room for, and none is left when Run has returned (touch.go:122-165).
THEOREM PopupsStayBounded == Spec => []PopupsInv
  BY PopupsAlways, PopupsFit, PTL

\* No episode gets a second popup, however it lost the first one
\* (touch.go:114).
THEOREM EpisodesPopUpOnce == Spec => []OneWorkerPerEpisode
  <1>1. PopupsIndInv => OneWorkerPerEpisode
    BY DEF PopupsIndInv
  <1> QED
    BY PopupsAlways, <1>1, PTL

---------------------------------------------------------------------------
(* The popups take the steps of TouchReminder and no others.               *)

\* Goroutine i has a dialog that is not closed.
HasDialog(i) == i \in Running /\ task[i].window # "none"

ShownOf(d) == {task[i].epoch : i \in {j \in Running : /\ task[j].device = d
                                                      /\ task[j].window # "none"}}

\* The episodes that have had their window.
SpentSet == {task[i].epoch : i \in {j \in DOMAIN task : task[j].window # "none"}}

WindowMap == [d \in Device |-> WindowOf(d)]

LEMMA WindowOfShown ==
  ASSUME NEW d
  PROVE  WindowOf(d) = IF ShownOf(d) = {} THEN 0 ELSE CHOOSE e \in ShownOf(d) : TRUE
  BY DEF WindowOf, ShownOf

LEMMA ShownEpoch ==
  ASSUME NEW d, NEW e
  PROVE  e \in ShownOf(d) <=>
            \E i \in DOMAIN task : HasDialog(i) /\ task[i].device = d /\ task[i].epoch = e
  BY DEF ShownOf, HasDialog, Running

\* A device has the window of its one popup.
WindowsKnown ==
    \A d \in Device :
        /\ \A i \in DOMAIN task : HasDialog(i) /\ task[i].device = d =>
                                      WindowOf(d) = task[i].epoch
        /\ (\A i \in DOMAIN task : HasDialog(i) => task[i].device # d) =>
               WindowOf(d) = 0

LEMMA WindowEpoch == PopupsIndInv => WindowsKnown
  <1> SUFFICES ASSUME PopupsIndInv, NEW d \in Device
               PROVE  /\ \A i \in DOMAIN task : HasDialog(i) /\ task[i].device = d =>
                                                     WindowOf(d) = task[i].epoch
                      /\ (\A i \in DOMAIN task : HasDialog(i) => task[i].device # d) =>
                             WindowOf(d) = 0
    BY DEF WindowsKnown
  <1>1. ASSUME NEW i \in DOMAIN task, HasDialog(i), task[i].device = d
        PROVE  WindowOf(d) = task[i].epoch
    <2>1. ASSUME NEW j \in DOMAIN task, HasDialog(j), task[j].device = d PROVE j = i
      BY <1>1, <2>1, PopupsFit DEF PopupsInv, OneWorkerPerDevice, HasDialog
    <2>2. ShownOf(d) = {task[i].epoch}
      BY <1>1, <2>1, ShownEpoch
    <2> QED
      BY <2>2, WindowOfShown
  <1>2. ASSUME \A i \in DOMAIN task : HasDialog(i) => task[i].device # d
        PROVE  WindowOf(d) = 0
    <2>1. ShownOf(d) = {}
      BY <1>2 DEF ShownOf, HasDialog, Running
    <2> QED
      BY <2>1, WindowOfShown
  <1> QED
    BY <1>1, <1>2

LEMMA ReminderBegins == Init => Reminder!Init
  <1> SUFFICES ASSUME Init PROVE Reminder!Init
    OBVIOUS
  <1>1. DOMAIN task = {} /\ Running = {}
    BY DEF Init, Running
  <1>2. \A d \in Device : WindowOf(d) = 0
    BY <1>1, WindowOfShown DEF ShownOf
  <1>3. {task[i].epoch : i \in {j \in DOMAIN task : task[j].window # "none"}} = {}
    BY <1>1
  <1> QED
    BY <1>2, <1>3 DEF Init, None, Reminder!Init

\* No dialog comes or goes: the windows stay.
LEMMA WindowsStay ==
  ASSUME DOMAIN task \subseteq DOMAIN task',
         \A i \in DOMAIN task : /\ task'[i].device = task[i].device
                                /\ task'[i].epoch = task[i].epoch
                                /\ task'[i].window = "none" <=> task[i].window = "none"
                                /\ task[i].window # "none" => (Done(i)' <=> Done(i)),
         \A i \in DOMAIN task' \ DOMAIN task : task'[i].window = "none"
  PROVE  WindowMap' = WindowMap /\ SpentSet' = SpentSet
  <1>1. \A d : ShownOf(d)' = ShownOf(d)
    BY DEF ShownOf, Running, Done
  <1>2. \A d : WindowOf(d)' = WindowOf(d)
    BY <1>1, WindowOfShown DEF WindowOf, ShownOf
  <1> QED
    BY <1>2 DEF WindowMap, SpentSet

LEMMA ReminderStutters ==
  ASSUME WindowMap' = WindowMap, SpentSet' = SpentSet, UNCHANGED mailbox
  PROVE  UNCHANGED Reminder!vars
  BY DEF Reminder!vars, WindowMap, SpentSet, mailbox

\* One goroutine moves: its window opens, or closes, or nothing is to be seen.
LEMMA WindowMoves ==
  ASSUME PopupsIndInv, PopupsIndInv', UNCHANGED mailbox,
         NEW i \in DOMAIN task, NEW t, Proceeds(i, t), task' = [task EXCEPT ![i] = t]
  PROVE  [Reminder!Next]_(Reminder!vars)
  <1>0. TypeOK /\ EpochsOK /\ OneWorkerPerEpisode /\ PopupsInv /\ PopupsInv'
    BY PopupsFit, PTL DEF PopupsIndInv
  <1>1. /\ task \in Seq(Task) /\ DOMAIN task' = DOMAIN task /\ task'[i] = t
        /\ \A j \in DOMAIN task : j # i => task'[j] = task[j]
    BY <1>0 DEF TypeOK
  <1>2. /\ t.device = task[i].device /\ t.epoch = task[i].epoch
        /\ Done(i) => t.pc = "done"
        /\ task[i].window # "none" => t.window # "none"
        /\ t.window # "none" /\ task[i].window = "none" => t.pc # "done"
    BY DEF Proceeds
  <1>3. PICK d \in Device : d = task[i].device
    BY <1>0, TaskFields
  <1>3a. PICK e \in 1..epoch : e = task[i].epoch /\ e # 0
    BY <1>0, TaskFields DEF EpochsOK, TypeOK
  <1>4. \A j \in DOMAIN task : j # i => (HasDialog(j)' <=> HasDialog(j))
    BY <1>1 DEF HasDialog, Running, Done
  <1>5. /\ HasDialog(i) <=> task[i].pc # "done" /\ task[i].window # "none"
        /\ HasDialog(i)' <=> t.pc # "done" /\ t.window # "none"
    BY <1>1 DEF HasDialog, Running, Done
  <1>6. ASSUME NEW c \in Device, c # d PROVE WindowOf(c)' = WindowOf(c)
    <2>1. \A x : x \in ShownOf(c)' <=> x \in ShownOf(c)
      BY <1>1, <1>2, <1>3, <1>4, <1>6 DEF ShownOf, HasDialog, Running
    <2>2. ShownOf(c)' = ShownOf(c)
      BY <2>1
    <2> QED
      BY <2>2 DEF WindowOf, ShownOf
  <1>7. WindowsKnown /\ WindowsKnown'
    BY WindowEpoch, PTL
  <1>8. HasDialog(i) => WindowOf(d) = e
    BY <1>3, <1>3a, <1>7 DEF WindowsKnown
  <1>9. HasDialog(i)' => WindowOf(d)' = e
    BY <1>1, <1>2, <1>3, <1>3a, <1>7 DEF WindowsKnown
  <1>10. (\A j \in DOMAIN task : HasDialog(j) => task[j].device # d)
           => WindowOf(d) = 0
    BY <1>3, <1>3a, <1>7 DEF WindowsKnown
  <1>11. (\A j \in DOMAIN task : HasDialog(j)' => task'[j].device # d)
           => WindowOf(d)' = 0
    <2>1. (\A j \in DOMAIN task' : HasDialog(j)' => task'[j].device # d)
             => WindowOf(d)' = 0
      BY <1>3, <1>3a, <1>7 DEF WindowsKnown
    <2> QED
      BY <1>1, <1>3, <2>1
  <1>12. HasDialog(i) \/ HasDialog(i)' =>
            \A j \in DOMAIN task : j # i /\ HasDialog(j) => task[j].device # d
    <2> SUFFICES ASSUME HasDialog(i) \/ HasDialog(i)', NEW j \in DOMAIN task, j # i,
                        HasDialog(j), task[j].device = d
                 PROVE  FALSE
      OBVIOUS
    <2>1. i \in Running /\ j \in Running
      BY <1>1, <1>2, <1>3, <1>5 DEF HasDialog, Running, Done
    <2> QED
      BY <1>0, <1>3, <2>1 DEF PopupsInv, OneWorkerPerDevice
  <1>13. SpentSet' = IF task[i].window = "none" /\ t.window # "none"
                     THEN SpentSet \cup {e} ELSE SpentSet
    <2>1. \A x : x \in SpentSet' <=>
               \E j \in DOMAIN task : task'[j].window # "none" /\ x = task'[j].epoch
      BY <1>1 DEF SpentSet
    <2>2. \A x : x \in SpentSet <=>
               \E j \in DOMAIN task : task[j].window # "none" /\ x = task[j].epoch
      BY DEF SpentSet
    <2>3. \A x : x \in SpentSet' <=>
               x \in SpentSet \/ (task[i].window = "none" /\ t.window # "none" /\ x = e)
      BY <1>1, <1>2, <1>3a, <2>1, <2>2
    <2> QED
      BY <2>3
  <1>14. \A c \in Device : WindowMap[c] = WindowOf(c) /\ WindowMap'[c] = WindowOf(c)'
    BY DEF WindowMap
  <1>16. CASE HasDialog(i) <=> HasDialog(i)'
    <2>1. WindowOf(d)' = WindowOf(d)
      <3>1. CASE HasDialog(i)
        BY <1>8, <1>9, <1>16, <3>1
      <3>2. CASE ~HasDialog(i)
        <4>1. \A x : x \in ShownOf(d)' <=> x \in ShownOf(d)
          BY <1>1, <1>2, <1>3, <1>4, <1>16, <3>2 DEF ShownOf, HasDialog, Running
        <4>2. ShownOf(d)' = ShownOf(d)
          BY <4>1
        <4> QED
          BY <4>2 DEF WindowOf, ShownOf
      <3> QED
        BY <3>1, <3>2
    <2>2. WindowMap' = WindowMap
      BY <1>3, <1>6, <2>1 DEF WindowMap
    <2>3. SpentSet' = SpentSet
      BY <1>2, <1>5, <1>13, <1>16 DEF Done
    <2> QED
      BY <2>2, <2>3, ReminderStutters
  <1>17. CASE HasDialog(i) /\ ~HasDialog(i)'
    <2>1. WindowOf(d) = e /\ WindowOf(d)' = 0
      BY <1>1, <1>4, <1>8, <1>11, <1>12, <1>17
    <2>2. WindowMap' = [WindowMap EXCEPT ![d] = 0]
      BY <1>3, <1>6, <2>1 DEF WindowMap
    <2>3. SpentSet' = SpentSet
      BY <1>2, <1>5, <1>13, <1>17
    <2>4. Reminder!Close(d)
      BY <1>3, <1>3a, <1>14, <2>1, <2>2, <2>3 DEF Reminder!Close, WindowMap, SpentSet, mailbox
    <2> QED
      BY <1>3, <2>4 DEF Reminder!Next
  <1>18. CASE ~HasDialog(i) /\ HasDialog(i)'
    <2>1. task[i].window = "none" /\ t.window # "none"
      BY <1>2, <1>5, <1>18 DEF Done
    <2>2. WindowOf(d) = 0 /\ WindowOf(d)' = e
      BY <1>9, <1>10, <1>12, <1>18
    <2>3. WindowMap' = [WindowMap EXCEPT ![d] = e]
      BY <1>3, <1>6, <2>2 DEF WindowMap
    <2>4. SpentSet' = SpentSet \cup {e}
      BY <1>13, <2>1
    <2>5. e \notin SpentSet
      BY <1>0, <1>3a, <2>1 DEF SpentSet, OneWorkerPerEpisode
    <2>6. Reminder!Open(d)
      BY <1>3, <1>3a, <1>14, <2>2, <2>3, <2>4, <2>5 DEF Reminder!Open, WindowMap, SpentSet, mailbox
    <2> QED
      BY <1>3, <2>6 DEF Reminder!Next
  <1> QED
    BY <1>16, <1>17, <1>18


LEMMA StepsAsReminder ==
  ASSUME PopupsIndInv, PopupsIndInv', [Next]_vars
  PROVE  [Reminder!Next]_(Reminder!vars)
  <1>0. TypeOK
    BY DEF PopupsIndInv
  <1>1. ASSUME UNCHANGED task PROVE WindowMap' = WindowMap /\ SpentSet' = SpentSet
    <2>1. Running' = Running
      BY <1>1 DEF Running, Done
    <2>2. \A d \in Device : WindowOf(d)' = WindowOf(d)
      BY <1>1, <2>1 DEF WindowOf
    <2> QED
      BY <1>1, <2>2 DEF WindowMap, SpentSet
  <1>2. ASSUME NEW d \in Device, Pending(d)
        PROVE  [Reminder!Next]_(Reminder!vars)
    <2>1. UNCHANGED task
      BY <1>2 DEF Pending
    <2>2. CASE BeginsEpisode(d)
      <3>1. Reminder!Begin(d)
        BY <1>1, <1>2, <2>1, <2>2
        DEF Reminder!Begin, Pending, BeginsEpisode, WindowMap, SpentSet
      <3> QED
        BY <3>1 DEF Reminder!Next
    <2>3. CASE ~BeginsEpisode(d)
      BY <1>1, <1>2, <2>1, <2>3, ReminderStutters DEF Pending
    <2> QED
      BY <2>2, <2>3
  <1>3. ASSUME NEW d \in Device, NotPending(d)
        PROVE  [Reminder!Next]_(Reminder!vars)
    <2>1. UNCHANGED <<task, epoch>> /\ desired' = [desired EXCEPT ![d] = 0]
      BY <1>3 DEF NotPending
    <2>2. CASE desired[d] = 0
      <3>1. desired' = desired
        BY <1>0, <2>1, <2>2 DEF TypeOK
      <3> QED
        BY <1>1, <2>1, <3>1, ReminderStutters DEF mailbox
    <2>3. CASE desired[d] # 0
      <3>1. Reminder!End(d)
        BY <1>1, <2>1, <2>3 DEF Reminder!End, WindowMap, SpentSet
      <3> QED
        BY <3>1 DEF Reminder!Next
    <2> QED
      BY <2>2, <2>3
  <1>4. CASE Snapshot \/ Leave \/ Return \/ Shutdown \/ UNCHANGED vars
    <2>1. UNCHANGED <<task, mailbox>>
      BY <1>4 DEF Snapshot, Leave, Return, Shutdown, vars, mailbox, table
    <2> QED
      BY <1>1, <2>1, ReminderStutters
  <1>5. CASE Round
    <2>1. UNCHANGED mailbox
      BY <1>5 DEF Round
    <2>2. PICK S \in Started :
            /\ DOMAIN task \subseteq DOMAIN task'
            /\ \A i \in DOMAIN task : task'[i] = Cancel(i)
            /\ \A d \in S : task'[popup'[d]] = NewTask(d)
            /\ \A i \in DOMAIN task' \ DOMAIN task : \E d \in S : popup'[d] = i
      BY <1>0, <1>5, Rounds
    <2>3. \A i \in DOMAIN task : /\ task'[i].device = task[i].device
                                 /\ task'[i].epoch = task[i].epoch
                                 /\ task'[i].pc = task[i].pc
                                 /\ task'[i].window = task[i].window
      <3>1. \A i \in DOMAIN task : task[i] \in Task
        BY <1>0, TaskFields
      <3>2. ASSUME NEW i \in DOMAIN task
            PROVE  \E b : Cancel(i) = [task[i] EXCEPT !.cancelled = b]
        BY DEF Cancel
      <3>3. ASSUME NEW t \in Task, NEW b, NEW u, u = [t EXCEPT !.cancelled = b]
            PROVE  /\ u.device = t.device /\ u.epoch = t.epoch
                   /\ u.pc = t.pc /\ u.window = t.window
        BY <3>3 DEF Task
      <3> QED
        BY <2>2, <3>1, <3>2, <3>3
    <2>4. \A i \in DOMAIN task' \ DOMAIN task : task'[i].window = "none"
      <3>1. \A d : NewTask(d).window = "none"
        BY DEF NewTask
      <3> QED
        BY <2>2, <3>1
    <2>5. \A i \in DOMAIN task : Done(i)' <=> Done(i)
      BY <2>3 DEF Done
    <2>6. WindowMap' = WindowMap /\ SpentSet' = SpentSet
      BY <2>2, <2>3, <2>4, <2>5, WindowsStay
    <2> QED
      BY <2>1, <2>6, ReminderStutters
  <1>6. ASSUME NEW i \in DOMAIN task, TaskStep(i) \/ Map(i) \/ Dismiss(i) \/ Die(i)
        PROVE  [Reminder!Next]_(Reminder!vars)
    <2>1. PICK t : Proceeds(i, t) /\ Becomes(i, t)
      BY <1>0, <1>6, GoroutineMoves DEF Moves
    <2>2. UNCHANGED mailbox /\ task' = [task EXCEPT ![i] = t]
      BY <2>1 DEF Becomes
    <2> QED
      BY <2>1, <2>2, WindowMoves
  <1> QED
    BY <1>2, <1>3, <1>4, <1>5, <1>6 DEF Next, RunStep, Rest

\* Every step of the popups, the rounds of Run and the crashes of dialogs
\* included, is a step of TouchReminder or none (touch.go:56-244): a device has
\* one window, an episode gets its window once, and only while it is the one
\* that was begun.
THEOREM PopupsTakeReminderSteps == Spec => Reminder!Steps
  <1>1. PopupsIndInv /\ PopupsIndInv' /\ [Next]_vars => [Reminder!Next]_(Reminder!vars)
    BY StepsAsReminder
  <1> QED
    BY ReminderBegins, PopupsAlways, <1>1, PTL DEF Spec, Reminder!Steps

===========================================================================
