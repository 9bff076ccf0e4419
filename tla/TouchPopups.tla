---------------------------- MODULE TouchPopups ----------------------------
(***************************************************************************)
(* The popups that ask for a touch: TouchPopups of internal/service/       *)
(* touch.go.  The touch monitor reports for each security key when it      *)
(* begins and stops to wait (SetTouch); Run reads the latest state of all  *)
(* keys when it is woken and starts or cancels one goroutine per key,      *)
(* which owns one dialog process (worker.go, gtkui).                       *)
(*                                                                         *)
(* Goroutines and their popup records are the elements of the sequence     *)
(* task, in the order in which they are started; popup is Run's map.       *)
(* Sending to wake belongs to the step before it: nobody but Run can tell, *)
(* and a token that arrives later only causes a round that finds nothing.  *)
(***************************************************************************)
EXTENDS Naturals, FiniteSets, SequencesExt

CONSTANTS
    Device,      \* the security keys
    MaxDevices,  \* touch.MaxDevices
    HasDisplay,  \* whether the session has a display
    Failures,    \* whether dialogs crash or fail to start
    MaxEpoch     \* bound: episodes

ASSUME DevicesAssumption ==
    /\ IsFiniteSet(Device) /\ MaxDevices \in Nat \ {0}
    /\ HasDisplay \in BOOLEAN /\ Failures \in BOOLEAN
    /\ MaxEpoch \in Nat

VARIABLES
    desired,   \* per device the epoch of its episode, or 0 if absent
    epoch,     \* the counter of epochs
    wake,      \* whether a token is in the mailbox
    failed,    \* popups cannot be displayed: Available says so
    task,      \* the goroutines of runPopup with their dialogs
    popup,     \* per device its goroutine in task, or 0
    finished,  \* per device the epoch whose popup has ended, or 0
    run,       \* where Run is: "wait", "round", "leave", "over"
    seen,      \* the copy of desired that Run works on
    stop       \* whether the context of Run is cancelled

vars == <<desired, epoch, wake, failed, task, popup, finished, run,
          seen, stop>>

mailbox == <<desired, epoch>>
table == <<popup, finished, run, seen>>

None == [d \in Device |-> 0]

Init ==
    /\ desired = None
    /\ epoch = 0
    /\ wake = FALSE
    /\ failed = FALSE
    /\ task = <<>>
    /\ popup = None
    /\ finished = None
    /\ run = "wait"
    /\ seen = None
    /\ stop = FALSE

Occupied(f) == {d \in Device : f[d] # 0}

\* Mistake: the mailbox has no buffer, a signal needs a waiting Run.
SignalUnbuffered == wake \/ run = "wait"

\* The mailbox holds one token; a second one is not needed.
Signal == TRUE

---------------------------------------------------------------------------
(* SetTouch: at any time and for any device, whatever was reported before. *)

BeginsEpisode(d) ==
    desired[d] = 0 /\ Cardinality(Occupied(desired)) < MaxDevices

Pending(d) ==
    /\ IF BeginsEpisode(d)
       THEN /\ epoch < MaxEpoch
            /\ epoch' = epoch + 1
            /\ desired' = [desired EXCEPT ![d] = epoch + 1]
       ELSE UNCHANGED mailbox
    /\ wake' = Signal
    /\ UNCHANGED <<failed, task, table, stop>>

NotPending(d) ==
    /\ desired' = [desired EXCEPT ![d] = 0]
    /\ wake' = Signal
    /\ UNCHANGED <<epoch, failed, task, table, stop>>

---------------------------------------------------------------------------
(* Run.                                                                    *)

Snapshot ==
    /\ run = "wait" /\ wake
    /\ wake' = FALSE
    /\ seen' = desired
    /\ run' = "round"
    /\ UNCHANGED <<mailbox, failed, task, popup, finished, stop>>

Done(i) == task[i].pc = "done"

\* Mistake: a cancelled popup is forgotten before its goroutine has returned.
CollectedEarly(d) ==
    popup[d] # 0 /\ (Done(popup[d]) \/ seen[d] # task[popup[d]].epoch)

Collected(d) == popup[d] # 0 /\ Done(popup[d])

Outdated(d) == popup[d] # 0 /\ seen[d] # task[popup[d]].epoch

\* Mistake: an episode is remembered only as long as its popup runs.
FinishedForgotten == None

\* An episode whose popup has ended keeps quiet until the device stops waiting.
Finished ==
    [d \in Device |-> IF seen[d] = 0 THEN 0
                      ELSE IF Collected(d) THEN task[popup[d]].epoch
                      ELSE finished[d]]

Kept == [d \in Device |-> IF Collected(d) THEN 0 ELSE popup[d]]

Wanting == {d \in Occupied(seen) : Kept[d] = 0 /\ Finished[d] # seen[d]}

Free == MaxDevices - Cardinality(Occupied(Kept))

\* The map is iterated in any order: as many are started as there is room for.
Started ==
    {S \in SUBSET Wanting : /\ Cardinality(S) <= Free
                            /\ Cardinality(S) = Free \/ S = Wanting}

NewTask(d) ==
    [device |-> d, epoch |-> seen[d], cancelled |-> FALSE, pc |-> "delay",
     window |-> "none", news |-> FALSE]

Cancel(i) ==
    [task[i] EXCEPT !.cancelled = @ \/ \E d \in Device :
                                         popup[d] = i /\ Outdated(d) /\ ~Done(i)]

Round ==
    /\ run = "round"
    /\ \E S \in Started :
         LET new == SetToSeq(S)
         IN /\ task' = [i \in DOMAIN task |-> Cancel(i)]
                           \o [j \in DOMAIN new |-> NewTask(new[j])]
            /\ popup' = [d \in Device |->
                            IF d \in S
                            THEN Len(task) + CHOOSE j \in DOMAIN new : new[j] = d
                            ELSE Kept[d]]
    /\ finished' = Finished
    /\ seen' = None
    /\ run' = "wait"
    /\ UNCHANGED <<mailbox, wake, failed, stop>>

\* The deferred calls of Run: cancel every popup, then wait for all of them.
Leave ==
    /\ run = "wait" /\ stop
    /\ run' = "leave"
    /\ UNCHANGED <<mailbox, wake, failed, task, popup, finished, seen, stop>>

AllDone == \A d \in Occupied(popup) : Done(popup[d])

Return ==
    /\ run = "leave" /\ AllDone
    /\ run' = "over"
    /\ UNCHANGED <<mailbox, wake, failed, task, popup, finished, seen, stop>>

---------------------------------------------------------------------------
(* runPopup, and the dialog it owns.                                       *)

Cancelled(i) == task[i].cancelled \/ stop

Becomes(i, t) ==
    /\ task' = [task EXCEPT ![i] = t]
    /\ UNCHANGED <<mailbox, table, stop>>

\* The dialog is closed, done is closed, and Run is woken.
Ends(i) ==
    /\ Becomes(i, [task[i] EXCEPT !.pc = "done", !.cancelled = FALSE,
                     !.window = IF @ = "none" THEN "none" ELSE "closed",
                     !.news = FALSE])
    /\ wake' = Signal

\* 120 ms: a touch that was already on its way needs no window.
Delay(i) ==
    /\ task[i].pc = "delay"
    /\ \/ Cancelled(i) /\ Ends(i)
       \/ HasDisplay /\ Becomes(i, [task[i] EXCEPT !.pc = "start"]) /\ UNCHANGED wake
       \/ ~HasDisplay /\ Ends(i)
    /\ UNCHANGED failed

\* exec refuses to start a process for a cancelled context.
Start(i) ==
    /\ task[i].pc = "start"
    /\ \/ /\ ~Cancelled(i)
          /\ Becomes(i, [task[i] EXCEPT !.pc = "show", !.window = "blank"])
          /\ UNCHANGED <<wake, failed>>
       \/ /\ Cancelled(i) \/ Failures
          /\ Ends(i)
          /\ failed' = TRUE

\* The connection is closed as soon as the context is cancelled.
Show(i) ==
    /\ task[i].pc = "show"
    /\ \/ /\ task[i].window = "blank"
          /\ Becomes(i, [task[i] EXCEPT !.pc = "loop", !.window = "told"])
          /\ UNCHANGED <<wake, failed>>
       \/ /\ task[i].window = "dead" \/ Cancelled(i)
          /\ Ends(i)
          /\ failed' = TRUE

HearShown(i) ==
    /\ task[i].pc = "loop" /\ task[i].news
    /\ Becomes(i, [task[i] EXCEPT !.news = FALSE])
    /\ failed' = FALSE
    /\ UNCHANGED wake

\* Mistake: the loop looks at its dialog only.
LoopsOn(i) == FALSE

HearsCancel(i) == task[i].pc = "loop" /\ Cancelled(i)

GiveUp(i) ==
    /\ HearsCancel(i)
    /\ Ends(i)
    /\ UNCHANGED failed

LoseDialog(i) ==
    /\ task[i].pc = "loop" /\ task[i].window = "dead"
    /\ Ends(i)
    /\ failed' = (failed \/ ~Cancelled(i))

Map(i) ==
    /\ task[i].window = "told"
    /\ Becomes(i, [task[i] EXCEPT !.window = "open", !.news = TRUE])
    /\ UNCHANGED <<wake, failed>>

\* The user hides the window; the process goes on and sends nothing.
Dismiss(i) ==
    /\ task[i].window = "open"
    /\ Becomes(i, [task[i] EXCEPT !.window = "hidden"])
    /\ UNCHANGED <<wake, failed>>

\* The process crashes, or is killed because its context is cancelled.
Die(i) ==
    /\ task[i].window \in {"blank", "told", "open", "hidden"}
    /\ Failures \/ Cancelled(i)
    /\ \E news \in {FALSE, task[i].news} :
          Becomes(i, [task[i] EXCEPT !.window = "dead", !.news = news])
    /\ UNCHANGED <<wake, failed>>

TaskStep(i) ==
    \/ Delay(i) \/ Start(i) \/ Show(i) \/ HearShown(i) \/ GiveUp(i)
    \/ LoseDialog(i)

---------------------------------------------------------------------------
Shutdown ==
    /\ ~stop
    /\ stop' = TRUE
    /\ UNCHANGED <<mailbox, wake, failed, task, table>>

\* Nothing is left to do once Run has returned.
Rest == run = "over" /\ UNCHANGED vars

RunStep == Snapshot \/ Round \/ Leave \/ Return

Next ==
    \/ \E d \in Device : Pending(d) \/ NotPending(d)
    \/ RunStep
    \/ \E i \in DOMAIN task : TaskStep(i) \/ Map(i) \/ Dismiss(i) \/ Die(i)
    \/ Shutdown
    \/ Rest

Spec == Init /\ [][Next]_vars

\* Run and its goroutines are scheduled.  A select between a cancelled context
\* and a process that keeps talking takes the context at last: the dialog of a
\* popup talks once.  Neither device, user nor dialog owes anything.
FairSpec ==
    /\ Spec
    /\ WF_vars(RunStep)
    /\ \A i \in 1..MaxEpoch : WF_vars(i \in DOMAIN task /\ TaskStep(i))

---------------------------------------------------------------------------
(* Properties.                                                             *)

Windows == {"none", "blank", "told", "open", "hidden", "dead", "closed"}

Task ==
    [device : Device, epoch : Nat \ {0}, cancelled : BOOLEAN,
     pc : {"delay", "start", "show", "loop", "done"}, window : Windows,
     news : BOOLEAN]

\* Types: epochs, goroutines and Run's map.
TypeOK ==
    /\ desired \in [Device -> Nat] /\ finished \in [Device -> Nat]
    /\ seen \in [Device -> Nat] /\ epoch \in Nat
    /\ wake \in BOOLEAN /\ failed \in BOOLEAN /\ stop \in BOOLEAN
    /\ task \in Seq(Task)
    /\ popup \in [Device -> 0..Len(task)]
    /\ run \in {"wait", "round", "leave", "over"}

Running == {i \in DOMAIN task : ~Done(i)}

\* A device never has two popups, whatever episodes of it follow on each other
\* while the first one is still being taken down (touch.go:142-152).
OneWorkerPerDevice ==
    \A i, j \in Running : task[i].device = task[j].device => i = j

\* "Dismissal only hides this worker. Further keepalives do not recreate it"
\* (touch.go:114): neither dismissal nor a crash lets an episode have a second
\* popup.
OneWorkerPerEpisode ==
    \A i, j \in DOMAIN task : task[i].epoch = task[j].epoch => i = j

\* Never more dialogs than devices are watched, those included that are still
\* being taken down (touch.go:160).
WorkersBounded == Cardinality(Running) <= MaxDevices

\* Once Run has returned no dialog is left behind (touch.go:122).
NoneLeftBehind == run = "over" => Running = {}

\* The goroutines of popups at any time: one per device, no more than there is
\* room for, none after shutdown.
PopupsInv == TypeOK /\ OneWorkerPerDevice /\ WorkersBounded /\ NoneLeftBehind

HasWindow(d) ==
    \E i \in Running : task[i].device = d /\ task[i].window # "none"

\* "Cannot lose a close event" (touch.go:28): a device that no longer waits
\* gets rid of its popup.
EpisodeEndCloses ==
    \A d \in Device :
        desired[d] = 0 ~> (desired[d] # 0 \/ ~HasWindow(d))

\* A device that goes on waiting gets its popup, however full the table was
\* when it began, unless the service stops.
PendingGetsPopup ==
    \A e \in 1..MaxEpoch :
        (\E d \in Device : desired[d] = e)
            ~> \/ \A d \in Device : desired[d] # e
               \/ \E i \in DOMAIN task : task[i].epoch = e
               \/ stop

---------------------------------------------------------------------------
(* The popups implement TouchReminder.  A window is a started dialog, also *)
(* one that is hidden or has just died.                                    *)

WindowOf(d) ==
    LET shown == {task[i].epoch : i \in {j \in Running : /\ task[j].device = d
                                                         /\ task[j].window # "none"}}
    IN IF shown = {} THEN 0 ELSE CHOOSE e \in shown : TRUE

Reminder == INSTANCE TouchReminder
    WITH episode <- desired,
         window <- [d \in Device |-> WindowOf(d)],
         spent <- {task[i].epoch : i \in {j \in DOMAIN task : task[j].window # "none"}},
         last <- epoch

\* Whatever the order of reports, rounds, dismissals and crashes: a window per
\* device, one per episode, and none that stays behind.
ImplementsReminder == Reminder!ReminderSpec
===========================================================================
