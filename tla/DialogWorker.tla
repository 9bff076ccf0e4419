--------------------------- MODULE DialogWorker ---------------------------
(***************************************************************************)
(* The dialog of one request: the worker process that shows the views      *)
(* (internal/gtkui), the socket between it and the service, and the        *)
(* goroutine of the service that reads its frames into a channel           *)
(* (internal/service/worker.go).  A worker is a value; PinRequest keeps    *)
(* one per request and interleaves its steps with those of the request.    *)
(*                                                                         *)
(* Nothing in a frame says which view it answers: a frame that was sent    *)
(* for one view may be read after the service has moved on to another.     *)
(***************************************************************************)
EXTENDS Naturals, Sequences

CONSTANT Response  \* what the user may type

\* A view, reduced to what decides which frames the user can send from it.
View(stage, devices, offerRemember, offerChange) ==
    [stage |-> stage, devices |-> devices, offerRemember |-> offerRemember,
     offerChange |-> offerChange]

Blank == View("blank", <<>>, FALSE, FALSE)

\* The devices that were on the screen travel with a frame as history.
Frame(kind) ==
    [kind |-> kind, selected |-> 0, remember |-> FALSE, devices |-> <<>>]

NoWorker ==
    [process   |-> "none",  \* then "up", then "dead" or "closed"
     views     |-> <<>>,    \* written by the service, not rendered yet
     screen    |-> Blank,
     sensitive |-> FALSE,   \* no control was used since the last render
     sent      |-> <<>>,    \* written by the process, not read yet
     actions   |-> <<>>,    \* in the channel, or in the hand of its reader
     cancelled |-> FALSE,   \* what Cancelled() says
     dismissed |-> FALSE]   \* history: the user has cancelled

---------------------------------------------------------------------------
(* The service's side.                                                     *)

\* The first view starts the process; a view for a dead one is an error.
CanShow(w) == w.process \in {"none", "up"}

Show(w, view) ==
    IF w.process = "none"
    THEN [NoWorker EXCEPT !.process = "up", !.views = <<view>>]
    ELSE [w EXCEPT !.views = Append(@, view)]

\* Mistake: the channel is not buffered.
ReaderUnbuffered(w) == w.actions # <<>>

\* The channel holds one action and its blocked reader another.
ReaderBlocked(w) == Len(w.actions) >= 2

Read(w) ==
    [w EXCEPT !.sent = Tail(@),
              !.actions = Append(@, Head(w.sent)),
              !.cancelled = @ \/ Head(w.sent).kind = "cancel"]

Take(w) == [w EXCEPT !.actions = Tail(@)]

\* Mistake: the channel is not closed when the reader gives up.
NeverDisconnected(w) == FALSE

\* The reader has given up and the channel is empty: Action returns an error.
Disconnected(w) == w.process = "dead" /\ w.actions = <<>>

\* The process is killed and reaped; nothing of it is read any more.
Close(w) ==
    [NoWorker EXCEPT !.process = IF w.process = "none" THEN "none" ELSE "closed",
                     !.dismissed = w.dismissed]

---------------------------------------------------------------------------
(* The process's side.                                                     *)

Render(w) ==
    [w EXCEPT !.views = Tail(@),
              !.screen = Head(w.views),
              !.sensitive = TRUE,
              !.sent = Append(@, Frame("shown"))]

\* What the controls of a view send, besides cancel.  Only a view to choose
\* from has devices, and only an input view offers a change.
Controls(view) ==
    (IF view.stage \in {"wait", "choose"} THEN {Frame("refresh")} ELSE {})
    \cup {[kind |-> "select", selected |-> i, remember |-> FALSE,
              devices |-> view.devices] :
             i \in DOMAIN view.devices}
    \cup {[kind |-> "submit", value |-> v, remember |-> m] :
             v \in IF view.stage = "input" THEN Response ELSE {},
             m \in {FALSE, view.offerRemember}}
    \cup (IF view.offerChange THEN {Frame("change")} ELSE {})

\* Mistake: the controls stay sensitive after one was used.
PressRepeatedly(w, frame) == [w EXCEPT !.sent = Append(@, frame)]

Press(w, frame) ==
    [w EXCEPT !.sent = Append(@, frame), !.sensitive = FALSE]

\* The button, Escape, or closing the window: also while it is insensitive.
Dismiss(w) ==
    [w EXCEPT !.sent = Append(@, Frame("cancel")),
              !.sensitive = FALSE,
              !.dismissed = TRUE]

\* The timer refreshes a wait view whether or not the user just has.
AutoRefresh(w) == [w EXCEPT !.sent = Append(@, Frame("refresh"))]

\* The process dies.  What the reader held in its hand may be lost.
Crash(w) ==
    {[w EXCEPT !.process = "dead", !.views = <<>>, !.sent = <<>>,
               !.actions = SubSeq(@, 1, n)] :
        n \in {m \in 0..Len(w.actions) : m >= 1 \/ m = Len(w.actions)}}
===========================================================================
