--------------------------- MODULE NoticeRequest ---------------------------
(***************************************************************************)
(* A request without a response to type: the notices and confirmations of  *)
(* Service.Handle, from the askpass helper (App.Run) over its connection   *)
(* to the handler and its dialog, while the helper's parent, the service,  *)
(* the dialog and the user do what they like.                              *)
(*                                                                         *)
(* ssh shows a notice by starting a helper and ends it by ending the       *)
(* helper, with a signal or by exiting itself.  A helper that ended before *)
(* that would be taken for the end of the operation it announces.          *)
(***************************************************************************)
EXTENDS ParentLifetime, DialogWorker

CONSTANTS
    Kinds,  \* bound: the requests that helpers make
    Allow   \* what the button of a confirmation sends

AllKinds == {"notice", "touch", "confirm", "malformed"}

ASSUME NoticeAssumption == Kinds \subseteq AllKinds /\ Response = {Allow}

VARIABLES
    request,  \* its kind, and whether it names this user's runtime directory
    helper,   \* the helper: where it is, what it knows, printed and returned
    inbox,    \* the frames on their way to the helper
    link,     \* the ends of the connection that are open
    handler,  \* where Handle is, and the ends it has learnt of
    worker,   \* the dialog, a value of DialogWorker
    service,  \* "up", "stopping" or "gone"
    covered,  \* what TouchMonitored says
    chosen    \* history: the control of the confirmation that was used first

notice == <<request, helper, inbox, link, handler, worker, service, covered,
            chosen>>
vars == <<lifetime, notice>>

Silent(kind) == kind \in {"notice", "touch"}

Init ==
    /\ LifetimeInit
    /\ request \in [kind : Kinds, routed : BOOLEAN]
    /\ helper = [at |-> "start", notify |-> FALSE, printed |-> FALSE, code |-> 0]
    /\ inbox = <<>>
    /\ link = {}
    /\ handler = [at |-> "none", done |-> FALSE]
    /\ worker = NoWorker
    /\ service = "up"
    /\ covered = FALSE
    /\ chosen = "none"

---------------------------------------------------------------------------
(* The helper.                                                             *)

Exit(code) ==
    /\ helper' = [helper EXCEPT !.at = "exited", !.code = code]
    /\ link' = link \ {"helper"}

HelperGoes(h) == helper' = h /\ UNCHANGED link

\* The parent is looked up; then WaitParent runs on its own.
LookUpParent ==
    /\ helper.at = "start"
    /\ AskNumber \/ ReadIdentity
    /\ UNCHANGED notice

\* The server may be at its limit and close the connection.
Dial ==
    /\ helper.at = "start" /\ watch \notin {"start", "number"}
    /\ \/ cancelled /\ Exit(1) /\ UNCHANGED handler
       \/ ~cancelled /\ service # "up" /\ Exit(2) /\ UNCHANGED handler
       \/ /\ ~cancelled /\ service = "up"
          /\ helper' = [helper EXCEPT !.at = "read"]
          /\ \/ link' = {"helper", "service"} /\ handler' = [handler EXCEPT !.at = "parse"]
             \/ link' = {"helper"} /\ UNCHANGED handler
    /\ UNCHANGED <<lifetime, request, inbox, worker, service, covered, chosen>>

\* What the context's end does to the connection: AfterFunc closes it.
HangUp ==
    /\ cancelled /\ "helper" \in link
    /\ link' = link \ {"helper"}
    /\ UNCHANGED <<lifetime, request, helper, inbox, handler, worker, service,
                   covered, chosen>>

HelperReads(what) ==
    /\ helper.at = "read" /\ "helper" \in link
    /\ inbox # <<>> /\ Head(inbox).event = what
    /\ inbox' = Tail(inbox)

ReadAccepted ==
    /\ HelperReads("accepted")
    /\ HelperGoes([helper EXCEPT !.notify = Head(inbox).notify])

ReadRefusal ==
    /\ HelperReads("result") /\ Head(inbox).code # 0
    /\ Exit(Head(inbox).code)

\* "yes" is printed, unless the context has ended or stdout is closed.
ReadYes ==
    /\ HelperReads("result") /\ Head(inbox).code = 0
    /\ \/ cancelled /\ Exit(1)
       \/ ~cancelled /\ HelperGoes([helper EXCEPT !.at = "print"])

PrintYes ==
    /\ helper.at = "print"
    /\ \/ /\ helper' = [helper EXCEPT !.at = "exited", !.printed = TRUE]
          /\ link' = link \ {"helper"}
       \/ Exit(2)
    /\ UNCHANGED inbox

\* Mistake: every lost connection of a notice counts as its end.
EndStatusOfNotice == IF helper.notify THEN 0 ELSE IF cancelled THEN 1 ELSE 2

EndStatus == IF ~cancelled THEN 2 ELSE IF helper.notify THEN 0 ELSE 1

\* ReadFrame fails: its own end was closed, or the other one and no frame is
\* left, or the deadline of the handshake has passed.
ReadFails ==
    /\ helper.at = "read"
    /\ \/ "helper" \notin link
       \/ "service" \notin link /\ inbox = <<>>
    /\ Exit(EndStatus)
    /\ UNCHANGED inbox

HandshakeTimesOut ==
    /\ helper.at = "read" /\ ~helper.notify /\ handler.at \in {"parse", "accept"}
    /\ Exit(EndStatus)
    /\ UNCHANGED <<lifetime, request, inbox, handler, worker, service, covered,
                   chosen>>

HelperStep ==
    \/ Dial \/ HangUp \/ LookUpParent
    \/ /\ ReadAccepted \/ ReadRefusal \/ ReadYes \/ PrintYes \/ ReadFails
       /\ UNCHANGED <<lifetime, request, handler, worker, service, covered, chosen>>

---------------------------------------------------------------------------
(* Handle.  Its context ends when its reader finds the connection closed   *)
(* or the service stops.                                                   *)

HandlerGoes(to) == handler' = [handler EXCEPT !.at = to]

\* send: an error if the helper has hung up, which the kernel may notice late.
Send(frame) ==
    inbox' = IF link = {"helper", "service"} THEN Append(inbox, frame) ELSE inbox

Accepted(silent) == [event |-> "accepted", notify |-> silent]
Result(code) == [event |-> "result", code |-> code]

\* finish: the dialog is closed first; Handle returns.
Finish(code) ==
    /\ worker' = Close(worker)
    /\ Send(Result(code))
    /\ HandlerGoes("end")

ParseRequest ==
    /\ handler.at = "parse"
    /\ \/ request.kind = "malformed" /\ Finish(2)
       \/ request.kind # "malformed" /\ HandlerGoes("accept") /\ UNCHANGED <<inbox, worker>>

AcceptRequest ==
    /\ handler.at = "accept"
    /\ \/ Send(Accepted(Silent(request.kind))) /\ HandlerGoes("route")
       \/ link # {"helper", "service"} /\ HandlerGoes("end") /\ UNCHANGED inbox
    /\ UNCHANGED worker

\* TouchMonitored is asked once.
Suppressed == request.kind = "touch" /\ covered

Route ==
    /\ handler.at = "route"
    /\ \/ Suppressed /\ HandlerGoes("await") /\ UNCHANGED <<inbox, worker>>
       \/ ~Suppressed /\ ~request.routed /\ Finish(2)
       \/ /\ ~Suppressed /\ request.routed
          /\ HandlerGoes("show") /\ UNCHANGED <<inbox, worker>>

\* Mistake: a notice that cannot be shown is over.
GiveUpAlways == Finish(2)

\* No dialog: a notice lasts all the same.
GiveUp ==
    IF Silent(request.kind) THEN HandlerGoes("await") /\ UNCHANGED <<inbox, worker>>
    ELSE Finish(2)

TheView ==
    View(IF request.kind = "confirm" THEN "input" ELSE "notice", <<>>, FALSE, FALSE)

ShowDialog ==
    /\ handler.at = "show"
    /\ \/ /\ worker' = Show(worker, TheView)
          /\ HandlerGoes("heed") /\ UNCHANGED inbox
       \/ GiveUp

Heard == worker.actions # <<>> /\ Head(worker.actions).kind # "shown"

PassOver ==
    /\ handler.at = "heed" /\ worker.actions # <<>> /\ ~Heard
    /\ worker' = Take(worker)
    /\ UNCHANGED <<handler, inbox>>

\* Mistake: only cancel is no consent; a lost dialog has not cancelled.
ConsentsUnlessCancelled ==
    Disconnected(worker) \/ (Heard /\ Head(worker.actions).kind # "cancel")

Consents == Heard /\ Head(worker.actions).kind = "submit"

HeedConfirmation ==
    /\ handler.at = "heed" /\ request.kind = "confirm"
    /\ \/ Consents /\ Finish(0)
       \/ Heard /\ ~Consents /\ Finish(1)
       \/ Disconnected(worker) /\ ~Consents /\ HandlerGoes("end") /\ UNCHANGED <<inbox, worker>>

\* Whatever its dialog does, a notice lasts until the context ends.
HeedNotice ==
    /\ handler.at = "heed" /\ Silent(request.kind)
    /\ Heard \/ Disconnected(worker)
    /\ HandlerGoes("await")
    /\ UNCHANGED <<inbox, worker>>

ContextEnds ==
    /\ handler.at \in {"heed", "await"} /\ handler.done
    /\ HandlerGoes("end")
    /\ UNCHANGED <<inbox, worker>>

\* The deferred calls: the dialog and the connection are closed.
Return ==
    /\ handler.at = "end" /\ "service" \in link
    /\ link' = link \ {"service"}
    /\ worker' = Close(worker)
    /\ UNCHANGED <<lifetime, request, helper, inbox, handler, service, covered, chosen>>

\* Mistake: only a stopping service ends the request.
NeverHungUp == service = "stopping"

HungUp == "helper" \notin link \/ service = "stopping"

NoticeHangup ==
    /\ handler.at \notin {"none", "end"} /\ ~handler.done
    /\ HungUp
    /\ handler' = [handler EXCEPT !.done = TRUE]
    /\ UNCHANGED <<lifetime, request, helper, inbox, link, worker, service,
                   covered, chosen>>

HandlerStep ==
    \/ Return \/ NoticeHangup
    \/ /\ \/ ParseRequest \/ AcceptRequest \/ Route \/ ShowDialog \/ PassOver
          \/ HeedConfirmation \/ HeedNotice \/ ContextEnds
       /\ UNCHANGED <<lifetime, request, helper, link, service, covered, chosen>>

---------------------------------------------------------------------------
(* The dialog, its reader and its user.                                    *)

WorkerBecomes(w) ==
    /\ worker' = w
    /\ UNCHANGED <<lifetime, request, helper, inbox, link, handler, service, covered>>

WorkerStep ==
    /\ \/ worker.process = "up" /\ worker.views # <<>> /\ WorkerBecomes(Render(worker))
       \/ worker.sent # <<>> /\ ~ReaderBlocked(worker) /\ WorkerBecomes(Read(worker))
    /\ UNCHANGED chosen

OnScreen == worker.process = "up" /\ worker.screen # Blank

First(control) == chosen' = IF chosen = "none" THEN control ELSE chosen

PressAllow ==
    /\ OnScreen /\ worker.sensitive
    /\ \E frame \in Controls(worker.screen) : WorkerBecomes(Press(worker, frame))
    /\ First("allow")

\* Deny, Escape, or closing the window; a notice is only hidden.
PressDeny ==
    /\ OnScreen /\ request.kind = "confirm" /\ ~worker.dismissed
    /\ WorkerBecomes(Dismiss(worker))
    /\ First("deny")

DialogDies ==
    /\ worker.process = "up"
    /\ \E w \in Crash(worker) : WorkerBecomes(w)
    /\ UNCHANGED chosen

---------------------------------------------------------------------------
(* The service and the monitor.                                            *)

ServiceStops ==
    /\ service = "up"
    /\ service' = "stopping"
    /\ UNCHANGED <<lifetime, request, helper, inbox, link, handler, worker,
                   covered, chosen>>

\* The service is killed: the kernel closes its connections, and a dialog
\* that finds its own closed ends.
ServiceDies ==
    /\ service # "gone"
    /\ service' = "gone"
    /\ link' = link \ {"service"}
    /\ worker' = Close(worker)
    /\ handler' = [at |-> "end", done |-> TRUE]
    /\ UNCHANGED <<lifetime, request, helper, inbox, covered, chosen>>

\* Of interest only until a touch notice has asked.
CoverageChanges ==
    /\ request.kind = "touch" /\ handler.at \in {"none", "parse", "accept", "route"}
    /\ covered' = ~covered
    /\ UNCHANGED <<lifetime, request, helper, inbox, link, handler, worker,
                   service, chosen>>

Next ==
    \/ HelperStep \/ HandshakeTimesOut \/ HandlerStep
    \/ WatchStep /\ UNCHANGED notice
    \/ WorkerStep \/ PressAllow \/ PressDeny \/ DialogDies
    \/ (ProcessTable \/ Signalled) /\ UNCHANGED notice
    \/ ServiceStops \/ ServiceDies \/ CoverageChanges

Spec == Init /\ [][Next]_vars

\* The helper and its two goroutines, the handler, its reader and the dialog
\* run; the user, ssh and the machine need not do anything.
FairSpec ==
    /\ Spec
    /\ WF_vars(HelperStep)
    /\ WF_vars(HangUp)
    /\ WF_vars(WatchStep /\ UNCHANGED notice)
    /\ WF_vars(HandlerStep)
    /\ WF_vars(NoticeHangup)
    /\ WF_vars(WorkerStep)

---------------------------------------------------------------------------
(* Properties.                                                             *)

Places == {"none", "parse", "accept", "route", "show", "heed", "await", "end"}

\* Types: where helper, handler and dialog are.
TypeOK ==
    /\ holder \in {"parent", "zombie", "nobody", "stranger"}
    /\ watch \in {"start", "number", "read", "loop", "poll", "returned", "absent"}
    /\ watched \in {"none", "parent", "stranger", "reaper", "ended"}
    /\ pidfd \in {"none", "parent", "stranger", "reaper", "ended"}
    /\ helper.at \in {"start", "read", "print", "exited"}
    /\ helper.code \in 0..2
    /\ Len(inbox) <= 2 /\ Len(worker.sent) <= 3 /\ Len(worker.actions) <= 2
    /\ link \subseteq {"helper", "service"}
    /\ handler \in [at : Places, done : BOOLEAN]
    /\ worker.process \in {"none", "up", "dead", "closed"}
    /\ service \in {"up", "stopping", "gone"}
    /\ {cancelled, covered} \subseteq BOOLEAN

\* "Keep the helper alive until OpenSSH ends its notification request"
\* (service.go:136): once a notice is accepted, neither its dialog, nor a
\* monitor that covers its device only at first, ends the helper.
NoticeLasts ==
    helper.at = "exited" /\ helper.notify
        => cancelled \/ service # "up" \/ ~request.routed

\* "Notification termination produces no response", and reports success only
\* if ssh ended it and not because the service was lost.
NoticeStatus ==
    helper.at = "exited" /\ helper.notify
        => ~helper.printed /\ (helper.code = 0 => cancelled)

\* What holds of a helper at any time: its state, and how a notice ends.
NoticeInv == TypeOK /\ NoticeStatus

\* "yes" is printed only if the user's first choice was to allow it: not for a
\* dialog that is denied, crashes, or is answered twice.
YesMeansAllow == helper.printed => chosen = "allow" /\ request.kind = "confirm"

\* A parent that lives is never taken for dead: the helper ends before it only
\* on a signal, which is not part of watching.
NeverEarly == watch = "returned" => cancelled \/ ~Alive(watched)

\* "Parent death closes its request connection": whatever becomes of the
\* parent's number, if it was the parent that was read (linux.go:49).
ParentDeathEnds ==
    (watched = "parent" /\ holder # "parent") ~> helper.at = "exited"

\* A helper that has ended leaves no dialog behind.
HelperEndEndsDialog ==
    helper.at = "exited" ~> worker.process # "up" /\ link = {}
===========================================================================
