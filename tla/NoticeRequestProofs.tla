------------------------ MODULE NoticeRequestProofs ------------------------
(***************************************************************************)
(* Theorems about NoticeRequest for any kinds of requests, whatever the    *)
(* helper's parent, the service, the dialog and the user do.               *)
(***************************************************************************)
EXTENDS NoticeRequest, SequenceTheorems, TLAPS

---------------------------------------------------------------------------
(* The helper's parent.                                                    *)

\* Whom the helper watches: the process that was read and the one whose pidfd
\* was opened need not be the same, but if they differ the former is no more.
LifetimeOK ==
    /\ holder \in {"parent", "zombie", "nobody", "stranger"}
    /\ watch \in {"start", "number", "read", "loop", "poll", "returned", "absent"}
    /\ watched \in {"none", "parent", "stranger", "reaper", "ended"}
    /\ pidfd \in {"none", "parent", "stranger", "reaper", "ended"}
    /\ cancelled \in BOOLEAN
    /\ watched = "none" <=> watch \in {"start", "number", "absent"}
    /\ watch \in {"start", "number", "absent", "read"} => pidfd = "none"
    /\ watched = "reaper" => pidfd \in {"none", "reaper"}
    /\ pidfd = "reaper" => watched = "reaper"
    /\ watched = "stranger" => holder = "stranger" /\ pidfd \in {"none", "stranger"}
    /\ pidfd = "stranger" => holder = "stranger"
    /\ watched = "ended" \/ pidfd = "ended" => holder \in {"nobody", "stranger"}
    /\ watch = "returned" => cancelled \/ ~Alive(watched)

LEMMA AliveMeans ==
  ASSUME NEW who
  PROVE  /\ who = "parent" => (Alive(who) <=> holder = "parent")
         /\ who = "stranger" => (Alive(who) <=> holder = "stranger")
         /\ who = "reaper" => Alive(who)
         /\ who \in {"none", "ended"} => ~Alive(who)
  BY DEF Alive

LifetimeStep ==
    \/ AskNumber \/ ReadIdentity \/ WatchStep \/ ProcessTable \/ Signalled
    \/ UNCHANGED lifetime

LEMMA LifetimeKeeps ==
  ASSUME LifetimeOK, LifetimeStep
  PROVE  LifetimeOK' /\ (cancelled => cancelled')
  <1>1. cancelled => cancelled'
    BY DEF LifetimeStep, AskNumber, ReadIdentity, WatchStep, OpenPidfd, CheckAlive,
           PollParent, CancelByParent, ProcessTable, ParentEnds, ParentReaped,
           NumberReused, StrangerEnds, Signalled, lifetime, WatchGoes, HolderBecomes
  <1>2. CASE AskNumber \/ ReadIdentity
    BY <1>2 DEF LifetimeOK, AskNumber, ReadIdentity, WatchGoes
  <1>3. CASE OpenPidfd
    BY <1>3 DEF LifetimeOK, OpenPidfd, WatchGoes
  <1>4. CASE CheckAlive
    BY <1>4 DEF LifetimeOK, CheckAlive, WatchGoes, Alive, StillThere
  <1>5. CASE PollParent
    BY <1>5 DEF LifetimeOK, PollParent, WatchGoes, Gone, Readable, Alive
  <1>6. CASE CancelByParent \/ Signalled
    BY <1>6 DEF LifetimeOK, CancelByParent, Signalled, Alive
  <1>7. CASE ParentEnds \/ ParentReaped \/ NumberReused
    BY <1>7 DEF LifetimeOK, ParentEnds, ParentReaped, NumberReused, HolderBecomes, Alive
  <1>8. CASE StrangerEnds
    BY <1>8 DEF LifetimeOK, StrangerEnds, HolderBecomes, Alive
  <1>9. CASE UNCHANGED lifetime
    BY <1>9 DEF LifetimeOK, lifetime, Alive
  <1> QED
    BY <1>1, <1>2, <1>3, <1>4, <1>5, <1>6, <1>7, <1>8, <1>9
    DEF LifetimeStep, WatchStep, ProcessTable

---------------------------------------------------------------------------
(* The dialog.                                                             *)

Views == {View("input", <<>>, FALSE, FALSE), View("notice", <<>>, FALSE, FALSE)}

Submits == {[kind |-> "submit", value |-> v, remember |-> FALSE] : v \in Response}

Frames == {Frame("shown"), Frame("cancel")} \cup Submits

Workers ==
    [process : {"none", "up", "dead", "closed"}, views : {<<>>} \cup {<<v>> : v \in Views},
     screen : Views \cup {Blank}, sensitive : BOOLEAN, sent : Seq(Frames),
     actions : Seq(Frames), cancelled : BOOLEAN, dismissed : BOOLEAN]

LEMMA WorkerFields ==
  ASSUME NEW w \in Workers
  PROVE  /\ w.process \in {"none", "up", "dead", "closed"}
         /\ w.views \in {<<>>} \cup {<<v>> : v \in Views}
         /\ w.screen \in Views \cup {Blank}
         /\ w.sensitive \in BOOLEAN /\ w.cancelled \in BOOLEAN
         /\ w.dismissed \in BOOLEAN
         /\ w.sent \in Seq(Frames) /\ w.actions \in Seq(Frames)
  BY DEF Workers

\* The places of the handler before there is a dialog.
Early == {"none", "parse", "accept", "route", "show"}

\* The frames that a dialog may have sent: it shows one view, of which one
\* control can be used, and can be dismissed once.
Owed(w) ==
    (IF w.screen = Blank THEN 0 ELSE IF w.sensitive THEN 1 ELSE 2)
        + (IF w.dismissed THEN 1 ELSE 0)

\* "allow" is in a frame of the dialog only if it was used first.
Honest(frames, first) ==
    \A i \in DOMAIN frames : frames[i].kind = "submit" => first = "allow"

DialogOK ==
    /\ worker \in Workers
    /\ handler.at \in Early => worker = NoWorker /\ chosen = "none"
    /\ worker.views # <<>> => worker.screen = Blank
    /\ worker.sensitive => worker.screen # Blank /\ chosen = "none"
    /\ worker.views # <<>> => chosen = "none"
    /\ Honest(worker.sent, chosen) /\ Honest(worker.actions, chosen)
    /\ Len(worker.sent) <= Owed(worker) /\ Len(worker.actions) <= 2

LEMMA NoWorkerTyped ==
  /\ NoWorker \in Workers /\ Owed(NoWorker) = 0
  /\ NoWorker.views = <<>> /\ NoWorker.sent = <<>> /\ NoWorker.actions = <<>>
  /\ ~NoWorker.sensitive /\ NoWorker.process = "none"
  <1>1. <<>> \in Seq(Frames)
    OBVIOUS
  <1> QED
    BY <1>1 DEF NoWorker, Workers, Owed

LEMMA ClosedTyped ==
  ASSUME NEW w \in Workers
  PROVE  /\ Close(w) \in Workers
         /\ Close(w).views = <<>> /\ Close(w).sent = <<>> /\ Close(w).actions = <<>>
         /\ ~Close(w).sensitive /\ Close(w).process # "up"
         /\ Owed(Close(w)) \in 0..1
  <1>1. <<>> \in Seq(Frames)
    OBVIOUS
  <1>2. w.dismissed \in BOOLEAN
    BY WorkerFields
  <1>3. /\ Close(w).process \in {"none", "closed"} /\ Close(w).screen = Blank
        /\ Close(w).dismissed = w.dismissed
    BY DEF Close, NoWorker
  <1>4. Close(w) \in Workers
    BY <1>1, <1>2 DEF Close, NoWorker, Workers
  <1>5. Owed(Close(w)) \in 0..1
    BY <1>2, <1>3 DEF Owed
  <1>6. /\ Close(w).views = <<>> /\ Close(w).sent = <<>> /\ Close(w).actions = <<>>
        /\ ~Close(w).sensitive
    BY DEF Close, NoWorker
  <1> QED
    BY <1>3, <1>4, <1>5, <1>6

\* What the dialog may do.
LEMMA ClosingKeeps ==
  ASSUME DialogOK, worker' = Close(worker), chosen' = chosen, handler'.at \notin Early
  PROVE  DialogOK'
  <1>1. /\ worker' \in Workers /\ worker'.views = <<>> /\ worker'.sent = <<>>
        /\ worker'.actions = <<>> /\ ~worker'.sensitive /\ Owed(worker') \in 0..1
    BY ClosedTyped DEF DialogOK
  <1>2. Len(<<>>) = 0 /\ DOMAIN <<>> = {}
    OBVIOUS
  <1>3. Len(worker'.sent) <= Owed(worker)' /\ Len(worker'.actions) <= 2
    BY <1>1, <1>2
  <1>4. Honest(worker'.sent, chosen') /\ Honest(worker'.actions, chosen')
    BY <1>1, <1>2 DEF Honest
  <1> QED
    BY <1>1, <1>3, <1>4 DEF DialogOK

LEMMA Untouched ==
  ASSUME DialogOK, worker' = worker, chosen' = chosen,
         handler'.at \in Early => handler.at \in Early
  PROVE  DialogOK'
  BY DEF DialogOK, Honest, Owed

LEMMA ShowingKeeps ==
  ASSUME DialogOK, ShowDialog, chosen' = chosen
  PROVE  DialogOK'
  <1>1. CASE worker' = Show(worker, TheView) /\ HandlerGoes("heed")
    <2>1. worker = NoWorker /\ chosen = "none"
      BY DEF DialogOK, ShowDialog, Early
    <2>2. worker' = [NoWorker EXCEPT !.process = "up", !.views = <<TheView>>]
      BY <1>1, <2>1, NoWorkerTyped DEF Show
    <2>3. TheView \in Views
      BY DEF TheView, Views
    <2>4. <<TheView>> \in {<<v>> : v \in Views}
      BY <2>3
    <2>5. <<>> \in Seq(Frames) /\ Len(<<>>) = 0 /\ DOMAIN <<>> = {}
      OBVIOUS
    <2>6. /\ worker'.sent = <<>> /\ worker'.actions = <<>> /\ ~worker'.sensitive
          /\ worker'.screen = Blank /\ worker' \in Workers /\ ~worker'.dismissed
      BY <2>2, <2>4, <2>5 DEF NoWorker, Workers
    <2>7. handler'.at \notin Early
      BY <1>1 DEF HandlerGoes, Early
    <2> QED
      BY <2>1, <2>5, <2>6, <2>7 DEF DialogOK, Honest, Owed
  <1>2. CASE GiveUp /\ Silent(request.kind)
    <2>1. worker' = worker /\ handler'.at \notin Early
      <3>1. worker' = worker /\ HandlerGoes("await")
        BY <1>2 DEF GiveUp
      <3> QED
        BY <3>1 DEF HandlerGoes, Early
    <2> QED
      BY <2>1, Untouched
  <1>3. CASE GiveUp /\ ~Silent(request.kind)
    <2>1. worker' = Close(worker) /\ handler'.at \notin Early
      <3>1. worker' = Close(worker) /\ HandlerGoes("end")
        BY <1>3 DEF GiveUp, Finish
      <3> QED
        BY <3>1 DEF HandlerGoes, Early
    <2> QED
      BY <2>1, ClosingKeeps
  <1> QED
    BY <1>1, <1>2, <1>3 DEF ShowDialog

LEMMA TakingKeeps ==
  ASSUME DialogOK, PassOver, chosen' = chosen
  PROVE  DialogOK'
  <1>1. worker \in Workers /\ worker.actions \in Seq(Frames) /\ worker.actions # <<>>
    BY WorkerFields DEF DialogOK, PassOver
  <1>2. /\ Tail(worker.actions) \in Seq(Frames)
        /\ Len(Tail(worker.actions)) = Len(worker.actions) - 1
        /\ \A i \in 1..(Len(worker.actions) - 1) :
              Tail(worker.actions)[i] = worker.actions[i + 1]
    BY <1>1, HeadTailProperties
  <1>3. /\ worker' \in Workers /\ worker'.actions = Tail(worker.actions)
        /\ worker'.sent = worker.sent /\ worker'.views = worker.views
        /\ worker'.screen = worker.screen /\ worker'.sensitive = worker.sensitive
        /\ worker'.dismissed = worker.dismissed
    BY <1>1, <1>2 DEF PassOver, Take, Workers
  <1>4. Honest(worker'.actions, chosen)
    <2>1. DOMAIN worker.actions = 1..Len(worker.actions)
      BY <1>1
    <2>2. DOMAIN Tail(worker.actions) = 1..(Len(worker.actions) - 1)
      BY <1>2
    <2>3. Len(worker.actions) \in Nat
      BY <1>1
    <2> QED
      BY <1>2, <1>3, <2>1, <2>2, <2>3 DEF DialogOK, Honest
  <1>5. Len(worker'.actions) <= 2
    BY <1>1, <1>2, <1>3 DEF DialogOK
  <1>6. handler'.at \in Early => handler.at \in Early
    BY DEF PassOver, Early
  <1>7. handler.at \notin Early
    BY DEF PassOver, Early
  <1> QED
    BY <1>3, <1>4, <1>5, <1>6, <1>7 DEF DialogOK, Honest, Owed, PassOver

LEMMA FrameKinds ==
  /\ Frame("shown") \in Frames /\ Frame("shown").kind = "shown"
  /\ Frame("cancel") \in Frames /\ Frame("cancel").kind = "cancel"
  BY DEF Frames, Frame

\* One more frame in a sequence.
LEMMA Appended ==
  ASSUME NEW s \in Seq(Frames), NEW f \in Frames, Honest(s, chosen),
         f.kind = "submit" => chosen' = "allow",
         chosen = "allow" => chosen' = "allow"
  PROVE  /\ Append(s, f) \in Seq(Frames) /\ Len(Append(s, f)) = Len(s) + 1
         /\ Honest(Append(s, f), chosen')
  <1>1. /\ Append(s, f) \in Seq(Frames) /\ Len(Append(s, f)) = Len(s) + 1
        /\ \A i \in 1..Len(s) : Append(s, f)[i] = s[i]
        /\ Append(s, f)[Len(s) + 1] = f
    BY AppendProperties
  <1>2. Len(s) \in Nat /\ DOMAIN s = 1..Len(s) /\ DOMAIN Append(s, f) = 1..(Len(s) + 1)
    OBVIOUS
  <1>3. \A i \in 1..(Len(s) + 1) : i \in 1..Len(s) \/ i = Len(s) + 1
    BY <1>2
  <1> QED
    BY <1>1, <1>2, <1>3 DEF Honest

LEMMA RenderingKeeps ==
  ASSUME DialogOK, worker.views # <<>>, worker' = Render(worker),
         UNCHANGED <<handler, chosen>>
  PROVE  DialogOK'
  <1>1. /\ worker \in Workers /\ worker.screen = Blank /\ chosen = "none"
        /\ worker.sent \in Seq(Frames) /\ worker.dismissed \in BOOLEAN
        /\ Honest(worker.sent, chosen) /\ Len(worker.sent) <= Owed(worker)
        /\ handler.at \notin Early
    BY WorkerFields, NoWorkerTyped DEF DialogOK
  <1>2. PICK v \in Views : worker.views = <<v>>
    BY <1>1, WorkerFields
  <1>3. v # Blank
    BY DEF Views, View, Blank
  <1>4. Head(worker.views) = v /\ Tail(worker.views) = <<>>
    BY <1>2
  <1> DEFINE s == Append(worker.sent, Frame("shown"))
  <1>5. s \in Seq(Frames) /\ Len(s) = Len(worker.sent) + 1 /\ Honest(s, chosen')
    BY <1>1, FrameKinds, Appended
  <1> HIDE DEF s
  <1>6. /\ worker' \in Workers /\ worker'.views = <<>> /\ worker'.screen = v
        /\ worker'.sensitive /\ worker'.sent = s /\ worker'.actions = worker.actions
        /\ worker'.dismissed = worker.dismissed
    BY <1>1, <1>4, <1>5 DEF Render, Workers, s
  <1>7. Len(worker'.sent) <= Owed(worker)'
    <2>1. Owed(worker)' = 1 + Owed(worker) /\ Owed(worker) \in Nat
      BY <1>1, <1>3, <1>6 DEF Owed
    <2>2. Len(worker.sent) \in Nat
      BY <1>1
    <2> QED
      BY <1>1, <1>5, <1>6, <2>1, <2>2
  <1>8. Honest(worker'.actions, chosen') /\ Honest(worker'.sent, chosen')
    BY <1>5, <1>6 DEF DialogOK, Honest
  <1> QED
    BY <1>1, <1>3, <1>6, <1>7, <1>8 DEF DialogOK

LEMMA ReadingKeeps ==
  ASSUME DialogOK, worker.sent # <<>>, ~ReaderBlocked(worker), worker' = Read(worker),
         UNCHANGED <<handler, chosen>>
  PROVE  DialogOK'
  <1>1. /\ worker \in Workers /\ worker.sent \in Seq(Frames)
        /\ worker.actions \in Seq(Frames) /\ Honest(worker.actions, chosen)
        /\ Honest(worker.sent, chosen) /\ Len(worker.sent) <= Owed(worker)
        /\ handler.at \notin Early /\ worker.cancelled \in BOOLEAN
    BY WorkerFields, NoWorkerTyped DEF DialogOK
  <1>2. /\ Head(worker.sent) \in Frames /\ Tail(worker.sent) \in Seq(Frames)
        /\ Len(Tail(worker.sent)) = Len(worker.sent) - 1
        /\ \A i \in 1..Len(Tail(worker.sent)) : Tail(worker.sent)[i] = worker.sent[i + 1]
        /\ Head(worker.sent) = worker.sent[1] /\ 1 \in DOMAIN worker.sent
        /\ Len(worker.sent) \in Nat
    <2>1. /\ Head(worker.sent) \in Frames /\ Tail(worker.sent) \in Seq(Frames)
          /\ Len(Tail(worker.sent)) = Len(worker.sent) - 1
          /\ \A i \in 1..Len(Tail(worker.sent)) :
                Tail(worker.sent)[i] = worker.sent[i + 1]
      BY <1>1, HeadTailProperties
    <2> QED
      BY <1>1, <2>1
  <1> DEFINE a == Append(worker.actions, Head(worker.sent))
             t == Tail(worker.sent)
             c == worker.cancelled \/ Head(worker.sent).kind = "cancel"
  <1>3. Head(worker.sent).kind = "submit" => chosen' = "allow"
    BY <1>1, <1>2 DEF Honest
  <1>4. a \in Seq(Frames) /\ Len(a) = Len(worker.actions) + 1 /\ Honest(a, chosen')
    BY <1>1, <1>2, <1>3, Appended
  <1>5. Honest(t, chosen')
    <2>1. DOMAIN t = 1..(Len(worker.sent) - 1) /\ DOMAIN worker.sent = 1..Len(worker.sent)
      BY <1>1, <1>2
    <2> QED
      BY <1>1, <1>2, <2>1 DEF Honest
  <1>6. c \in BOOLEAN /\ t \in Seq(Frames) /\ Len(t) = Len(worker.sent) - 1
    BY <1>1, <1>2
  <1>7. worker' = [worker EXCEPT !.sent = t, !.actions = a, !.cancelled = c]
    BY DEF Read
  <1> HIDE DEF a, t, c
  <1>8. /\ worker' \in Workers /\ worker'.views = worker.views
        /\ worker'.screen = worker.screen /\ worker'.sensitive = worker.sensitive
        /\ worker'.sent = t /\ worker'.actions = a /\ worker'.dismissed = worker.dismissed
    BY <1>1, <1>4, <1>6, <1>7 DEF Workers
  <1>9. Len(worker'.sent) <= Owed(worker)' /\ Len(worker'.actions) <= 2
    <2>1. Owed(worker)' = Owed(worker) /\ Owed(worker) \in Nat
      BY <1>8 DEF Owed
    <2>2. Len(worker.actions) \in Nat /\ Len(worker.actions) < 2
      BY <1>1 DEF ReaderBlocked
    <2> QED
      BY <1>1, <1>2, <1>4, <1>6, <1>8, <2>1, <2>2
  <1>10. Honest(worker'.actions, chosen') /\ Honest(worker'.sent, chosen')
    BY <1>4, <1>5, <1>8
  <1> QED
    BY <1>1, <1>8, <1>9, <1>10 DEF DialogOK

\* The only frames that the controls of these views send are submissions.
LEMMA PressedFrames ==
  ASSUME NEW v \in Views, NEW f \in Controls(v)
  PROVE  f \in Submits /\ f.kind = "submit"
  <1>1. /\ v.devices = <<>> /\ v.offerRemember = FALSE /\ v.offerChange = FALSE
        /\ v.stage \in {"input", "notice"}
    BY DEF Views, View
  <1>2. DOMAIN v.devices = {}
    BY <1>1
  <1>3. PICK r \in Response : f = [kind |-> "submit", value |-> r, remember |-> FALSE]
    BY <1>1, <1>2 DEF Controls
  <1> QED
    BY <1>3 DEF Submits

\* The user presses or dismisses: one more frame, and no control is left.
LEMMA UsingKeeps ==
  ASSUME DialogOK, worker.screen # Blank, NEW f \in Frames, NEW b \in BOOLEAN,
         worker' = [worker EXCEPT !.sent = Append(@, f), !.sensitive = FALSE,
                                  !.dismissed = b],
         handler' = handler, handler.at \notin Early,
         (worker.sensitive /\ b = worker.dismissed) \/ (b /\ ~worker.dismissed),
         f.kind = "submit" => chosen' = "allow", chosen = "allow" => chosen' = "allow"
  PROVE  DialogOK'
  <1>1. /\ worker \in Workers /\ worker.sent \in Seq(Frames)
        /\ Honest(worker.sent, chosen) /\ Honest(worker.actions, chosen)
        /\ Len(worker.sent) <= Owed(worker) /\ Len(worker.actions) <= 2
        /\ worker.sensitive \in BOOLEAN /\ worker.dismissed \in BOOLEAN
        /\ worker.views = <<>>
    BY WorkerFields DEF DialogOK
  <1> DEFINE s == Append(worker.sent, f)
  <1>2. s \in Seq(Frames) /\ Len(s) = Len(worker.sent) + 1 /\ Honest(s, chosen')
    BY <1>1, Appended
  <1>3. worker' = [worker EXCEPT !.sent = s, !.sensitive = FALSE, !.dismissed = b]
    OBVIOUS
  <1> HIDE DEF s
  <1>4. /\ worker' \in Workers /\ worker'.views = <<>> /\ worker'.screen = worker.screen
        /\ ~worker'.sensitive /\ worker'.sent = s /\ worker'.actions = worker.actions
        /\ worker'.dismissed = b
    BY <1>1, <1>2, <1>3 DEF Workers
  <1>5. Honest(worker'.actions, chosen')
    BY <1>1, <1>4 DEF Honest
  <1>6. Owed(worker)' >= Owed(worker) + 1 /\ Owed(worker) \in Nat /\ Owed(worker)' \in Nat
    BY <1>1, <1>4 DEF Owed
  <1>7. Len(worker'.sent) <= Owed(worker)'
    <2>1. Len(worker.sent) \in Nat
      BY <1>1
    <2> QED
      BY <1>1, <1>2, <1>4, <1>6, <2>1
  <1> QED
    BY <1>1, <1>2, <1>4, <1>5, <1>7 DEF DialogOK

LEMMA UserKeeps ==
  ASSUME DialogOK, PressAllow \/ PressDeny
  PROVE  DialogOK'
  <1>1. /\ worker \in Workers /\ worker.process = "up" /\ worker.screen # Blank
        /\ worker.screen \in Views /\ worker.dismissed \in BOOLEAN
        /\ handler' = handler
    BY WorkerFields DEF DialogOK, PressAllow, PressDeny, OnScreen, WorkerBecomes
  <1>2. handler.at \notin Early
    BY <1>1, NoWorkerTyped DEF DialogOK
  <1>3. CASE PressAllow
    <2>1. PICK f \in Controls(worker.screen) : worker' = Press(worker, f)
      BY <1>3 DEF PressAllow, WorkerBecomes
    <2>2. f \in Frames /\ f.kind = "submit"
      BY <1>1, PressedFrames DEF Frames
    <2>3. worker.sensitive /\ chosen = "none" /\ chosen' = "allow"
      BY <1>3 DEF PressAllow, DialogOK, First
    <2>4. worker' = [worker EXCEPT !.sent = Append(@, f), !.sensitive = FALSE,
                                   !.dismissed = worker.dismissed]
      BY <1>1, <2>1 DEF Press, Workers
    <2> QED
      BY <1>1, <1>2, <2>2, <2>3, <2>4, UsingKeeps
  <1>4. CASE PressDeny
    <2>1. worker' = [worker EXCEPT !.sent = Append(@, Frame("cancel")),
                                   !.sensitive = FALSE, !.dismissed = TRUE]
      BY <1>4 DEF PressDeny, WorkerBecomes, Dismiss
    <2>2. Frame("cancel") \in Frames /\ Frame("cancel").kind # "submit"
      BY FrameKinds
    <2>3. ~worker.dismissed /\ (chosen = "allow" => chosen' = "allow")
      BY <1>4 DEF PressDeny, First
    <2> QED
      BY <1>1, <1>2, <2>1, <2>2, <2>3, UsingKeeps
  <1> QED
    BY <1>3, <1>4

LEMMA CrashingKeeps ==
  ASSUME DialogOK, DialogDies
  PROVE  DialogOK'
  <1>1. /\ worker \in Workers /\ worker.actions \in Seq(Frames)
        /\ Honest(worker.actions, chosen) /\ Len(worker.actions) <= 2
        /\ worker.process = "up" /\ worker.dismissed \in BOOLEAN
        /\ UNCHANGED <<handler, chosen>>
    BY WorkerFields DEF DialogOK, DialogDies, WorkerBecomes
  <1>2. PICK w \in Crash(worker) : worker' = w
    BY DEF DialogDies, WorkerBecomes
  <1>3. PICK n \in 0..Len(worker.actions) :
            worker' = [worker EXCEPT !.process = "dead", !.views = <<>>, !.sent = <<>>,
                                     !.actions = SubSeq(@, 1, n)]
    BY <1>2 DEF Crash
  <1>4. Len(worker.actions) \in Nat /\ DOMAIN worker.actions = 1..Len(worker.actions)
    BY <1>1
  <1> DEFINE a == SubSeq(worker.actions, 1, n)
  <1>5. /\ a \in Seq(Frames) /\ Len(a) = n
        /\ \A i \in 1..n : a[i] = worker.actions[i]
    BY <1>1, <1>4
  <1>6. Honest(a, chosen)
    <2>1. DOMAIN a = 1..n
      BY <1>5
    <2> QED
      BY <1>1, <1>4, <1>5, <2>1 DEF Honest
  <1>7. worker' = [worker EXCEPT !.process = "dead", !.views = <<>>, !.sent = <<>>,
                                 !.actions = a]
    BY <1>3
  <1> HIDE DEF a
  <1>8. <<>> \in Seq(Frames) /\ Len(<<>>) = 0 /\ DOMAIN <<>> = {}
    OBVIOUS
  <1>9. /\ worker' \in Workers /\ worker'.views = <<>> /\ worker'.sent = <<>>
        /\ worker'.actions = a /\ worker'.screen = worker.screen
        /\ worker'.sensitive = worker.sensitive /\ worker'.dismissed = worker.dismissed
    BY <1>1, <1>5, <1>7, <1>8 DEF Workers
  <1>10. Len(worker'.sent) <= Owed(worker)' /\ Len(worker'.actions) <= 2
    <2>1. Owed(worker)' \in Nat
      BY <1>1, <1>9 DEF Owed
    <2> QED
      BY <1>1, <1>4, <1>5, <1>8, <1>9, <2>1
  <1>11. Honest(worker'.sent, chosen') /\ Honest(worker'.actions, chosen')
    BY <1>1, <1>6, <1>8, <1>9 DEF Honest
  <1>12. handler.at \notin Early
    BY <1>1, NoWorkerTyped DEF DialogOK
  <1> QED
    BY <1>1, <1>9, <1>10, <1>11, <1>12 DEF DialogOK

LEMMA WorkerKeeps ==
  ASSUME DialogOK, WorkerStep \/ PressAllow \/ PressDeny \/ DialogDies
  PROVE  DialogOK'
  BY RenderingKeeps, ReadingKeeps, UserKeeps, CrashingKeeps DEF WorkerStep, WorkerBecomes

---------------------------------------------------------------------------
(* The connection, the helper and the handler.                             *)

Replies == {Accepted(TRUE), Accepted(FALSE)} \cup {Result(c) : c \in 0..2}

\* The user has allowed it.
Yes == chosen = "allow" /\ request.kind = "confirm"

\* Nobody can expect a notice to last any longer.
Over == cancelled \/ service # "up" \/ ~request.routed

\* The frames that are under way: at most an acceptance and a result.
InboxOK ==
    /\ inbox \in Seq(Replies) /\ Len(inbox) <= 2
    /\ handler.at \in {"none", "parse", "accept"} => inbox = <<>>
    /\ handler.at # "end" => Len(inbox) <= 1
    /\ \A i \in DOMAIN inbox :
          /\ inbox[i].event = "accepted" =>
                inbox[i].notify = Silent(request.kind)
          /\ inbox[i].event = "result" =>
                /\ handler.at = "end"
                /\ inbox[i].code = 0 => Yes
                /\ Silent(request.kind) => ~request.routed

RequestTypes ==
    /\ request \in [kind : Kinds, routed : BOOLEAN]
    /\ helper \in [at : {"start", "read", "print", "exited"}, notify : BOOLEAN,
                   printed : BOOLEAN, code : 0..2]
    /\ link \subseteq {"helper", "service"}
    /\ handler \in [at : Places, done : BOOLEAN]
    /\ service \in {"up", "stopping", "gone"} /\ covered \in BOOLEAN

\* The helper stays on the line, and a notice lasts, until it is over.
HelperOK ==
    /\ helper.at = "start" =>
          /\ handler.at = "none" \/ (handler.at = "end" /\ service # "up")
          /\ ~helper.notify /\ ~helper.printed
    /\ helper.notify =>
          Silent(request.kind) /\ handler.at \notin {"none", "parse", "accept"}
    /\ helper.at \in {"read", "print"} /\ ~cancelled => "helper" \in link
    /\ helper.at = "print" \/ helper.printed => Yes
    /\ handler.at \notin {"none", "end"} => "service" \in link
    /\ handler.at = "end" /\ Silent(request.kind) /\ helper.at # "exited" => Over
    /\ handler.done /\ helper.at # "exited" => cancelled \/ service # "up"
    /\ helper.at = "exited" /\ helper.notify =>
          Over /\ (helper.code = 0 => cancelled)

NoticeIndInv == LifetimeOK /\ RequestTypes /\ DialogOK /\ InboxOK /\ HelperOK

LEMMA ReplyFields ==
  /\ \A b : Accepted(b).event = "accepted" /\ Accepted(b).notify = b
  /\ \A c : Result(c).event = "result" /\ Result(c).code = c
  BY DEF Accepted, Result

LEMMA ReplyCases ==
  ASSUME NEW f \in Replies
  PROVE  \/ f.event = "accepted" /\ f.notify \in BOOLEAN
         \/ f.event = "result" /\ f.code \in 0..2
  <1>1. CASE f \in {Accepted(TRUE), Accepted(FALSE)}
    BY <1>1, ReplyFields
  <1>2. CASE \E c \in 0..2 : f = Result(c)
    BY <1>2, ReplyFields
  <1> QED
    BY <1>1, <1>2 DEF Replies

LEMMA InitialNotice == Init => NoticeIndInv
  <1> SUFFICES ASSUME Init PROVE NoticeIndInv
    OBVIOUS
  <1>1. LifetimeOK
    BY DEF Init, LifetimeInit, LifetimeOK
  <1>2. /\ request \in [kind : Kinds, routed : BOOLEAN]
        /\ helper = [at |-> "start", notify |-> FALSE, printed |-> FALSE, code |-> 0]
        /\ inbox = <<>> /\ link = {} /\ handler = [at |-> "none", done |-> FALSE]
        /\ worker = NoWorker /\ service = "up" /\ covered = FALSE /\ chosen = "none"
    BY DEF Init
  <1>3. /\ helper.at = "start" /\ helper.notify = FALSE /\ helper.printed = FALSE
        /\ handler.at = "none" /\ handler.done = FALSE
    BY <1>2
  <1>4. RequestTypes
    <2>1. handler \in [at : Places, done : BOOLEAN]
      BY <1>2 DEF Places
    <2>2. helper \in [at : {"start", "read", "print", "exited"}, notify : BOOLEAN,
                      printed : BOOLEAN, code : 0..2]
      BY <1>2
    <2> QED
      BY <1>2, <2>1, <2>2 DEF RequestTypes
  <1>5. Len(<<>>) = 0 /\ DOMAIN <<>> = {} /\ \A S : <<>> \in Seq(S)
    OBVIOUS
  <1>6. DialogOK
    BY <1>2, <1>5, NoWorkerTyped DEF DialogOK, Honest
  <1>7. InboxOK
    BY <1>2, <1>5 DEF InboxOK
  <1>8. HelperOK
    BY <1>2, <1>3 DEF HelperOK
  <1> QED
    BY <1>1, <1>4, <1>6, <1>7, <1>8 DEF NoticeIndInv

\* Time only makes things over, and nobody unsays a first choice.
LEMMA OverStays ==
  ASSUME RequestTypes, service' = service \/ service' # "up", request' = request,
         cancelled => cancelled', Over
  PROVE  Over'
  BY DEF Over

\* Steps elsewhere: of the parent, the dialog, and the service.
LEMMA LineStays ==
  ASSUME InboxOK, HelperOK, RequestTypes,
         UNCHANGED <<request, helper, inbox, link, handler>>,
         cancelled => cancelled', service' = service \/ service' # "up",
         chosen # "none" => chosen' = chosen
  PROVE  InboxOK' /\ HelperOK'
  <1>1. Yes => Yes'
    BY DEF Yes
  <1>2. Over => Over'
    BY OverStays
  <1>3. InboxOK'
    BY <1>1 DEF InboxOK
  <1>4. HelperOK'
    BY <1>1, <1>2 DEF HelperOK
  <1> QED
    BY <1>3, <1>4

LEMMA HelperFields ==
  ASSUME RequestTypes
  PROVE  /\ helper.at \in {"start", "read", "print", "exited"}
         /\ helper.notify \in BOOLEAN /\ helper.printed \in BOOLEAN
         /\ helper.code \in 0..2
         /\ handler.at \in Places /\ handler.done \in BOOLEAN
         /\ request.kind \in Kinds /\ request.routed \in BOOLEAN
  BY DEF RequestTypes

\* What a helper is after a step of its own.
LEMMA HelperBecomes ==
  ASSUME RequestTypes, NEW at \in {"start", "read", "print", "exited"},
         NEW n \in BOOLEAN, NEW p \in BOOLEAN, NEW c \in 0..2,
         helper' = [helper EXCEPT !.at = at, !.notify = n, !.printed = p, !.code = c]
  PROVE  /\ helper' \in [at : {"start", "read", "print", "exited"}, notify : BOOLEAN,
                         printed : BOOLEAN, code : 0..2]
         /\ helper'.at = at /\ helper'.notify = n /\ helper'.printed = p
         /\ helper'.code = c
  BY DEF RequestTypes

LEMMA Exits ==
  ASSUME RequestTypes, NEW c \in 0..2, Exit(c)
  PROVE  /\ helper' \in [at : {"start", "read", "print", "exited"}, notify : BOOLEAN,
                         printed : BOOLEAN, code : 0..2]
         /\ helper'.at = "exited" /\ helper'.notify = helper.notify
         /\ helper'.printed = helper.printed /\ helper'.code = c
         /\ link' = link \ {"helper"}
  BY DEF RequestTypes, Exit

\* The frame at the head of the inbox, and what is left when it is read.
LEMMA InboxRead ==
  ASSUME InboxOK, RequestTypes, inbox # <<>>, inbox' = Tail(inbox),
         UNCHANGED <<request, handler, chosen>>
  PROVE  /\ InboxOK' /\ Head(inbox) \in Replies
         /\ handler.at \notin {"none", "parse", "accept"}
         /\ Head(inbox).event = "accepted" => Head(inbox).notify = Silent(request.kind)
         /\ Head(inbox).event = "result" =>
               /\ handler.at = "end"
               /\ Head(inbox).code = 0 => Yes
               /\ Silent(request.kind) => ~request.routed
  <1>1. /\ Head(inbox) \in Replies /\ Tail(inbox) \in Seq(Replies)
        /\ Len(Tail(inbox)) = Len(inbox) - 1
        /\ \A i \in 1..Len(Tail(inbox)) : Tail(inbox)[i] = inbox[i + 1]
    BY HeadTailProperties DEF InboxOK
  <1>2. /\ Head(inbox) = inbox[1] /\ 1 \in DOMAIN inbox /\ Len(inbox) \in Nat
        /\ DOMAIN inbox = 1..Len(inbox) /\ DOMAIN Tail(inbox) = 1..(Len(inbox) - 1)
    BY <1>1 DEF InboxOK
  <1>3. \A i \in DOMAIN Tail(inbox) : i + 1 \in DOMAIN inbox /\ Tail(inbox)[i] = inbox[i + 1]
    BY <1>1, <1>2
  <1>4. Len(Tail(inbox)) <= 2 /\ (Len(inbox) <= 1 => Len(Tail(inbox)) <= 1)
    BY <1>1, <1>2 DEF InboxOK
  <1>5. InboxOK'
    BY <1>1, <1>3, <1>4 DEF InboxOK, Yes
  <1> QED
    BY <1>1, <1>2, <1>5 DEF InboxOK

LEMMA HelperKeeps ==
  ASSUME NoticeIndInv,
         ReadAccepted \/ ReadRefusal \/ ReadYes \/ PrintYes \/ ReadFails,
         UNCHANGED <<lifetime, request, handler, worker, service, covered, chosen>>
  PROVE  RequestTypes' /\ InboxOK' /\ HelperOK'
  <1>0. /\ RequestTypes /\ InboxOK /\ HelperOK
        /\ UNCHANGED <<request, handler, service, covered, chosen, cancelled>>
    BY DEF NoticeIndInv, lifetime
  <1>00. cancelled \in BOOLEAN /\ EndStatus \in 0..2
    BY DEF NoticeIndInv, LifetimeOK, EndStatus
  <1>1. /\ Yes' = Yes /\ Over' = Over /\ (Yes => ~Silent(request.kind))
        /\ Silent(request.kind) \in BOOLEAN
    BY <1>0 DEF Yes, Over, Silent
  <1>2. ASSUME NEW c \in 0..2, Exit(c), InboxOK',
               helper.notify => Over /\ (c = 0 => cancelled)
        PROVE  RequestTypes' /\ InboxOK' /\ HelperOK'
    <2>1. /\ helper' \in [at : {"start", "read", "print", "exited"}, notify : BOOLEAN,
                         printed : BOOLEAN, code : 0..2]
          /\ helper'.at = "exited" /\ helper'.notify = helper.notify
          /\ helper'.printed = helper.printed /\ helper'.code = c
          /\ link' = link \ {"helper"}
      BY <1>0, <1>2, Exits
    <2>2. RequestTypes'
      BY <1>0, <2>1 DEF RequestTypes
    <2>3. HelperOK'
      BY <1>0, <1>1, <1>2, <2>1 DEF HelperOK
    <2> QED
      BY <1>2, <2>2, <2>3
  <1>3. CASE ReadAccepted
    <2>1. /\ helper.at = "read" /\ link' = link
          /\ inbox # <<>> /\ inbox' = Tail(inbox) /\ Head(inbox).event = "accepted"
          /\ helper' = [helper EXCEPT !.notify = Head(inbox).notify]
      BY <1>3 DEF ReadAccepted, HelperReads, HelperGoes
    <2>2. /\ InboxOK' /\ handler.at \notin {"none", "parse", "accept"}
          /\ Head(inbox).notify = Silent(request.kind)
      BY <1>0, <2>1, InboxRead
    <2>3. /\ helper' \in [at : {"start", "read", "print", "exited"}, notify : BOOLEAN,
                         printed : BOOLEAN, code : 0..2]
          /\ helper'.at = "read" /\ helper'.notify = Silent(request.kind)
          /\ helper'.printed = helper.printed
      BY <1>0, <1>1, <2>1, <2>2 DEF RequestTypes
    <2>4. RequestTypes'
      BY <1>0, <2>1, <2>3 DEF RequestTypes
    <2>5. HelperOK'
      BY <1>0, <1>1, <2>1, <2>2, <2>3 DEF HelperOK
    <2> QED
      BY <2>2, <2>4, <2>5
  <1>4. CASE ReadRefusal
    <2>1. /\ inbox # <<>> /\ inbox' = Tail(inbox) /\ Head(inbox).event = "result"
          /\ Head(inbox).code # 0 /\ Exit(Head(inbox).code)
      BY <1>4 DEF ReadRefusal, HelperReads
    <2>2. InboxOK' /\ Head(inbox) \in Replies /\ (Silent(request.kind) => ~request.routed)
      BY <1>0, <2>1, InboxRead
    <2>3. Head(inbox).code \in 0..2
      BY <2>1, <2>2, ReplyCases
    <2>4. helper.notify => Over
      BY <1>0, <2>2 DEF HelperOK, Over
    <2> QED
      BY <1>2, <2>1, <2>2, <2>3, <2>4
  <1>5. CASE ReadYes
    <2>1. /\ helper.at = "read"
          /\ inbox # <<>> /\ inbox' = Tail(inbox) /\ Head(inbox).event = "result"
          /\ Head(inbox).code = 0
      BY <1>5 DEF ReadYes, HelperReads
    <2>2. InboxOK' /\ Yes /\ ~Silent(request.kind)
      BY <1>0, <1>1, <2>1, InboxRead
    <2>3. ~helper.notify
      BY <1>0, <2>2 DEF HelperOK
    <2>4. CASE Exit(1)
      BY <1>2, <2>2, <2>3, <2>4
    <2>5. CASE ~cancelled /\ HelperGoes([helper EXCEPT !.at = "print"])
      <3>1. /\ link' = link /\ helper' = [helper EXCEPT !.at = "print"]
        BY <2>5 DEF HelperGoes
      <3>2. /\ helper' \in [at : {"start", "read", "print", "exited"}, notify : BOOLEAN,
                           printed : BOOLEAN, code : 0..2]
            /\ helper'.at = "print" /\ helper'.notify = helper.notify
            /\ helper'.printed = helper.printed
        BY <1>0, <3>1 DEF RequestTypes
      <3>3. RequestTypes'
        BY <1>0, <3>1, <3>2 DEF RequestTypes
      <3>4. HelperOK'
        BY <1>0, <1>1, <2>1, <2>2, <2>3, <3>1, <3>2 DEF HelperOK
      <3> QED
        BY <2>2, <3>3, <3>4
    <2> QED
      BY <1>5, <2>4, <2>5 DEF ReadYes
  <1>6. CASE PrintYes
    <2>1. helper.at = "print" /\ inbox' = inbox
      BY <1>6 DEF PrintYes
    <2>2. Yes /\ ~helper.notify
      BY <1>0, <1>1, <2>1 DEF HelperOK
    <2>3. InboxOK'
      BY <1>0, <1>1, <2>1 DEF InboxOK
    <2>4. CASE Exit(2)
      BY <1>2, <2>2, <2>3, <2>4
    <2>5. CASE /\ helper' = [helper EXCEPT !.at = "exited", !.printed = TRUE]
               /\ link' = link \ {"helper"}
      <3>1. /\ helper' \in [at : {"start", "read", "print", "exited"}, notify : BOOLEAN,
                           printed : BOOLEAN, code : 0..2]
            /\ helper'.at = "exited" /\ helper'.notify = helper.notify
        BY <1>0, <2>5 DEF RequestTypes
      <3>2. RequestTypes'
        BY <1>0, <2>5, <3>1 DEF RequestTypes
      <3>3. HelperOK'
        BY <1>0, <1>1, <2>2, <2>5, <3>1 DEF HelperOK
      <3> QED
        BY <2>3, <3>2, <3>3
    <2> QED
      BY <1>6, <2>4, <2>5 DEF PrintYes
  <1>7. CASE ReadFails
    <2>1. /\ helper.at = "read" /\ inbox' = inbox /\ Exit(EndStatus)
          /\ "helper" \notin link \/ ("service" \notin link /\ inbox = <<>>)
      BY <1>7 DEF ReadFails
    <2>2. InboxOK'
      BY <1>0, <1>1, <2>1 DEF InboxOK
    <2>3. helper.notify => Over
      BY <1>0, <2>1 DEF HelperOK, Over
    <2>4. EndStatus = 0 => cancelled
      BY DEF EndStatus
    <2> QED
      BY <1>00, <1>2, <2>1, <2>2, <2>3, <2>4
  <1> QED
    BY <1>3, <1>4, <1>5, <1>6, <1>7

LEMMA DialKeeps ==
  ASSUME NoticeIndInv, Dial
  PROVE  NoticeIndInv'
  <1>0. /\ LifetimeOK /\ RequestTypes /\ InboxOK /\ HelperOK /\ DialogOK
        /\ helper.at = "start" /\ cancelled \in BOOLEAN
        /\ UNCHANGED <<lifetime, cancelled, request, inbox, worker, service, covered,
                       chosen>>
    BY DEF NoticeIndInv, Dial, lifetime, LifetimeOK
  <1>1. LifetimeOK'
    BY <1>0 DEF LifetimeOK, lifetime, Alive
  <1>2. ASSUME NEW c \in 0..2, Exit(c), handler' = handler PROVE NoticeIndInv'
    <2>1. /\ helper' \in [at : {"start", "read", "print", "exited"}, notify : BOOLEAN,
                         printed : BOOLEAN, code : 0..2]
          /\ helper'.at = "exited" /\ helper'.notify = helper.notify
          /\ helper'.printed = helper.printed /\ helper'.code = c
          /\ link' = link \ {"helper"}
      BY <1>0, <1>2, Exits
    <2>2. RequestTypes'
      BY <1>0, <1>2, <2>1 DEF RequestTypes
    <2>3. InboxOK' /\ HelperOK'
      BY <1>0, <1>2, <2>1 DEF InboxOK, HelperOK, Yes
    <2>4. DialogOK'
      BY <1>0, <1>2, Untouched
    <2> QED
      BY <1>1, <2>2, <2>3, <2>4 DEF NoticeIndInv
  <1>3. CASE /\ ~cancelled /\ service = "up"
             /\ helper' = [helper EXCEPT !.at = "read"]
             /\ \/ /\ link' = {"helper", "service"}
                   /\ handler' = [handler EXCEPT !.at = "parse"]
                \/ link' = {"helper"} /\ handler' = handler
    <2>1. /\ helper' \in [at : {"start", "read", "print", "exited"}, notify : BOOLEAN,
                         printed : BOOLEAN, code : 0..2]
          /\ helper'.at = "read" /\ helper'.notify = helper.notify
          /\ helper'.printed = helper.printed
      BY <1>0, <1>3 DEF RequestTypes
    <2>2. handler.at = "none" /\ ~handler.done /\ ~helper.notify /\ ~helper.printed
      BY <1>0, <1>3 DEF HelperOK
    <2>3. /\ handler' \in [at : Places, done : BOOLEAN] /\ handler'.done = handler.done
          /\ \/ handler'.at = "parse" /\ link' = {"helper", "service"}
             \/ handler'.at = "none" /\ link' = {"helper"}
      BY <1>0, <1>3, <2>2 DEF RequestTypes, Places
    <2>4. RequestTypes'
      BY <1>0, <2>1, <2>3 DEF RequestTypes
    <2>5. inbox = <<>> /\ Len(<<>>) = 0 /\ DOMAIN <<>> = {} /\ inbox \in Seq(Replies)
      BY <1>0, <2>2 DEF InboxOK
    <2>6. InboxOK'
      BY <1>0, <2>5 DEF InboxOK
    <2>7. HelperOK'
      BY <1>0, <1>3, <2>1, <2>2, <2>3 DEF HelperOK
    <2>8. DialogOK'
      BY <1>0, <2>2, <2>3, Untouched DEF Early
    <2> QED
      BY <1>1, <2>4, <2>6, <2>7, <2>8 DEF NoticeIndInv
  <1> QED
    BY <1>2, <1>3 DEF Dial

LEMMA LineKeeps ==
  ASSUME NoticeIndInv, HangUp \/ HandshakeTimesOut
  PROVE  NoticeIndInv'
  <1>0. /\ LifetimeOK /\ RequestTypes /\ InboxOK /\ HelperOK /\ DialogOK
        /\ cancelled \in BOOLEAN
        /\ UNCHANGED <<lifetime, cancelled, request, inbox, handler, worker, service,
                       covered, chosen>>
    BY DEF NoticeIndInv, HangUp, HandshakeTimesOut, lifetime, LifetimeOK
  <1>1. LifetimeOK' /\ DialogOK'
    BY <1>0, Untouched DEF LifetimeOK, lifetime, Alive
  <1>2. InboxOK'
    BY <1>0 DEF InboxOK, Yes
  <1>3. CASE HangUp
    <2>1. cancelled /\ link' = link \ {"helper"} /\ helper' = helper
      BY <1>3 DEF HangUp
    <2>2. RequestTypes' /\ HelperOK'
      BY <1>0, <2>1 DEF RequestTypes, HelperOK, Yes, Over
    <2> QED
      BY <1>1, <1>2, <2>2 DEF NoticeIndInv
  <1>4. CASE HandshakeTimesOut
    <2>1. ~helper.notify /\ Exit(EndStatus) /\ EndStatus \in 0..2
      BY <1>4 DEF HandshakeTimesOut, EndStatus
    <2>2. /\ helper' \in [at : {"start", "read", "print", "exited"}, notify : BOOLEAN,
                         printed : BOOLEAN, code : 0..2]
          /\ helper'.at = "exited" /\ helper'.notify = helper.notify
          /\ helper'.printed = helper.printed
          /\ link' = link \ {"helper"}
      BY <1>0, <2>1, Exits
    <2>3. RequestTypes' /\ HelperOK'
      BY <1>0, <2>1, <2>2 DEF RequestTypes, HelperOK, Yes, Over
    <2> QED
      BY <1>1, <1>2, <2>3 DEF NoticeIndInv
  <1> QED
    BY <1>3, <1>4

---------------------------------------------------------------------------
(* The handler.                                                            *)

\* A frame is appended, or lost with the connection.
LEMMA Sends ==
  ASSUME InboxOK, NEW f \in Replies, Send(f)
  PROVE  /\ inbox' \in Seq(Replies) /\ Len(inbox') <= Len(inbox) + 1
         /\ \A i \in DOMAIN inbox' : (i \in DOMAIN inbox /\ inbox'[i] = inbox[i])
                                     \/ inbox'[i] = f
         /\ Len(inbox) \in Nat
  <1>1. inbox \in Seq(Replies)
    BY DEF InboxOK
  <1>2. CASE inbox' = inbox
    BY <1>1, <1>2
  <1>3. CASE inbox' = Append(inbox, f)
    <2>1. /\ inbox' \in Seq(Replies) /\ Len(inbox') = Len(inbox) + 1
          /\ \A i \in 1..Len(inbox) : inbox'[i] = inbox[i]
          /\ inbox'[Len(inbox) + 1] = f
      BY <1>1, <1>3, AppendProperties
    <2>2. DOMAIN inbox' = 1..(Len(inbox) + 1) /\ DOMAIN inbox = 1..Len(inbox)
          /\ Len(inbox) \in Nat
      BY <1>1, <2>1
    <2>3. \A i \in DOMAIN inbox' : i \in DOMAIN inbox \/ i = Len(inbox) + 1
      BY <2>2
    <2> QED
      BY <2>1, <2>2, <2>3
  <1> QED
    BY <1>2, <1>3 DEF Send

\* The handler goes on; what it sends and where it goes is legal.
LEMMA HandlerMoves ==
  ASSUME NoticeIndInv, NEW to \in Places, HandlerGoes(to),
         UNCHANGED <<lifetime, request, helper, link, service, covered, chosen>>,
         handler.at \notin {"none", "end"}, to \notin {"none", "parse", "accept"} \/ to = "accept",
         to = "accept" => handler.at = "parse",
         to = "end" /\ Silent(request.kind) => helper.at = "exited" \/ Over,
         InboxOK', DialogOK'
  PROVE  NoticeIndInv'
  <1>0. /\ LifetimeOK /\ RequestTypes /\ HelperOK /\ UNCHANGED cancelled
    BY DEF NoticeIndInv, lifetime
  <1>1. LifetimeOK'
    BY <1>0 DEF LifetimeOK, lifetime, Alive
  <1>2. /\ handler' \in [at : Places, done : BOOLEAN] /\ handler'.at = to
        /\ handler'.done = handler.done
    BY <1>0 DEF RequestTypes, HandlerGoes
  <1>3. RequestTypes'
    BY <1>0, <1>2 DEF RequestTypes
  <1>4. HelperOK'
    BY <1>0, <1>2 DEF HelperOK, Yes, Over
  <1> QED
    BY <1>1, <1>3, <1>4 DEF NoticeIndInv

\* Nothing is sent, and the dialog is left alone.
LEMMA QuietMoves ==
  ASSUME NoticeIndInv, NEW to \in Places, HandlerGoes(to), UNCHANGED <<inbox, worker>>,
         UNCHANGED <<lifetime, request, helper, link, service, covered, chosen>>,
         handler.at \notin {"none", "end"},
         \/ to = "accept" /\ handler.at = "parse"
         \/ to \notin {"none", "parse", "accept"} /\ (to \in Early => handler.at \in Early),
         to = "end" /\ Silent(request.kind) => helper.at = "exited" \/ Over
  PROVE  NoticeIndInv'
  <1>0. /\ RequestTypes /\ InboxOK /\ DialogOK
    BY DEF NoticeIndInv
  <1>1. handler'.at = to
    BY <1>0 DEF RequestTypes, HandlerGoes
  <1>2. DialogOK'
    BY <1>0, <1>1, Untouched DEF Early
  <1>3. InboxOK'
    BY <1>0, <1>1 DEF InboxOK, Yes
  <1> QED
    BY <1>2, <1>3, HandlerMoves

\* A result is sent: it is justified, and a notice is not told before it is over.
LEMMA FinishKeeps ==
  ASSUME NoticeIndInv, NEW c \in 0..2, Finish(c),
         UNCHANGED <<lifetime, request, helper, link, service, covered, chosen>>,
         handler.at \notin {"none", "end"},
         c = 0 => Yes, Silent(request.kind) => ~request.routed
  PROVE  NoticeIndInv'
  <1>0. /\ RequestTypes /\ InboxOK /\ DialogOK
    BY DEF NoticeIndInv
  <1>1. /\ HandlerGoes("end") /\ worker' = Close(worker) /\ Send(Result(c))
    BY DEF Finish
  <1>2. handler'.at = "end"
    BY <1>0, <1>1 DEF RequestTypes, HandlerGoes
  <1>3. DialogOK'
    BY <1>0, <1>1, <1>2, ClosingKeeps DEF Early
  <1>4. Result(c) \in Replies /\ Result(c).event = "result" /\ Result(c).code = c
    BY ReplyFields DEF Replies
  <1>5. /\ inbox' \in Seq(Replies) /\ Len(inbox') <= Len(inbox) + 1
        /\ \A i \in DOMAIN inbox' : (i \in DOMAIN inbox /\ inbox'[i] = inbox[i])
                                    \/ inbox'[i] = Result(c)
        /\ Len(inbox) \in Nat /\ Len(inbox') \in Nat
    BY <1>0, <1>1, <1>4, Sends
  <1>6. InboxOK'
    <2>1. Len(inbox') <= 2
      BY <1>0, <1>5 DEF InboxOK
    <2>2. Yes' = Yes
      BY DEF Yes
    <2> QED
      BY <1>0, <1>2, <1>4, <1>5, <2>1, <2>2 DEF InboxOK
  <1>7. "end" \in Places
    BY DEF Places
  <1> QED
    BY <1>1, <1>3, <1>6, <1>7, HandlerMoves DEF Over

LEMMA AcceptKeeps ==
  ASSUME NoticeIndInv, AcceptRequest,
         UNCHANGED <<lifetime, request, helper, link, service, covered, chosen>>
  PROVE  NoticeIndInv'
  <1>0. /\ RequestTypes /\ InboxOK /\ DialogOK /\ HelperOK
        /\ handler.at = "accept" /\ worker' = worker
        /\ {"route", "end"} \subseteq Places
    BY DEF NoticeIndInv, AcceptRequest, Places
  <1>1. CASE Send(Accepted(Silent(request.kind))) /\ HandlerGoes("route")
    <2>1. handler'.at = "route"
      BY <1>0, <1>1 DEF RequestTypes, HandlerGoes
    <2> DEFINE f == Accepted(Silent(request.kind))
    <2>2. /\ f \in Replies /\ f.event = "accepted" /\ f.notify = Silent(request.kind)
      <3>1. Silent(request.kind) \in BOOLEAN
        BY DEF Silent
      <3>2. f \in Replies
        BY <3>1 DEF Replies
      <3> QED
        BY <3>1, <3>2, ReplyFields
    <2>3. inbox = <<>> /\ DOMAIN <<>> = {} /\ Len(<<>>) = 0
      BY <1>0 DEF InboxOK
    <2> HIDE DEF f
    <2>4. /\ inbox' \in Seq(Replies) /\ Len(inbox') <= 1
          /\ \A i \in DOMAIN inbox' : inbox'[i] = f
      <3>1. Send(f)
        BY <1>1 DEF f
      <3> QED
        BY <1>0, <2>2, <2>3, <3>1, Sends
    <2>5. Len(inbox') \in Nat
      BY <2>4
    <2>6. InboxOK'
      BY <1>0, <2>1, <2>2, <2>4, <2>5 DEF InboxOK
    <2>7. DialogOK'
      BY <1>0, <2>1, Untouched DEF Early
    <2> QED
      BY <1>0, <1>1, <2>6, <2>7, HandlerMoves
  <1>2. CASE link # {"helper", "service"} /\ HandlerGoes("end") /\ UNCHANGED inbox
    <2>1. "helper" \notin link
      BY <1>0, <1>2 DEF RequestTypes, HelperOK
    <2>2. helper.at = "exited" \/ Over
      BY <1>0, <2>1, HelperFields DEF HelperOK, Over
    <2> QED
      BY <1>0, <1>2, <2>2, QuietMoves DEF Early
  <1> QED
    BY <1>1, <1>2 DEF AcceptRequest

LEMMA HeedKeeps ==
  ASSUME NoticeIndInv, HeedConfirmation,
         UNCHANGED <<lifetime, request, helper, link, service, covered, chosen>>
  PROVE  NoticeIndInv'
  <1>0. /\ DialogOK /\ handler.at = "heed" /\ request.kind = "confirm"
        /\ ~Silent(request.kind)
    BY DEF NoticeIndInv, HeedConfirmation, Silent
  <1>1. ASSUME Consents PROVE Yes
    <2>1. worker.actions \in Seq(Frames) /\ Honest(worker.actions, chosen)
      BY <1>0, WorkerFields DEF DialogOK
    <2>2. worker.actions # <<>> /\ Head(worker.actions).kind = "submit"
      BY <1>1 DEF Consents, Heard
    <2>3. 1 \in DOMAIN worker.actions /\ Head(worker.actions) = worker.actions[1]
      BY <2>1, <2>2
    <2> QED
      BY <1>0, <2>1, <2>2, <2>3 DEF Honest, Yes
  <1>2. CASE Consents /\ Finish(0)
    BY <1>0, <1>1, <1>2, FinishKeeps
  <1>3. CASE Finish(1)
    BY <1>0, <1>3, FinishKeeps
  <1>4. CASE HandlerGoes("end") /\ UNCHANGED <<inbox, worker>>
    BY <1>0, <1>4, QuietMoves DEF Places, Early
  <1> QED
    BY <1>2, <1>3, <1>4 DEF HeedConfirmation

LEMMA HandlerKeeps ==
  ASSUME NoticeIndInv,
         \/ ParseRequest \/ AcceptRequest \/ Route \/ ShowDialog \/ PassOver
         \/ HeedConfirmation \/ HeedNotice \/ ContextEnds,
         UNCHANGED <<lifetime, request, helper, link, service, covered, chosen>>
  PROVE  NoticeIndInv'
  <1>0. /\ RequestTypes /\ InboxOK /\ DialogOK /\ HelperOK /\ UNCHANGED cancelled
        /\ {"accept", "show", "heed", "await", "end"} \subseteq Places
    BY DEF NoticeIndInv, Places, lifetime
  <1>1. CASE ParseRequest
    <2>1. handler.at = "parse"
      BY <1>1 DEF ParseRequest
    <2>2. CASE request.kind = "malformed" /\ Finish(2)
      BY <2>1, <2>2, FinishKeeps DEF Silent
    <2>3. CASE HandlerGoes("accept") /\ UNCHANGED <<inbox, worker>>
      BY <1>0, <2>1, <2>3, QuietMoves DEF Early
    <2> QED
      BY <1>1, <2>2, <2>3 DEF ParseRequest
  <1>2. CASE Route
    <2>1. handler.at = "route"
      BY <1>2 DEF Route
    <2>2. CASE HandlerGoes("await") /\ UNCHANGED <<inbox, worker>>
      BY <1>0, <2>1, <2>2, QuietMoves DEF Early
    <2>3. CASE ~request.routed /\ Finish(2)
      BY <2>1, <2>3, FinishKeeps
    <2>4. CASE HandlerGoes("show") /\ UNCHANGED <<inbox, worker>>
      BY <1>0, <2>1, <2>4, QuietMoves DEF Early
    <2> QED
      BY <1>2, <2>2, <2>3, <2>4 DEF Route
  <1>3. CASE ShowDialog
    <2>1. handler.at = "show"
      BY <1>3 DEF ShowDialog
    <2>2. CASE GiveUp
      <3>1. CASE Silent(request.kind) /\ HandlerGoes("await") /\ UNCHANGED <<inbox, worker>>
        BY <1>0, <2>1, <3>1, QuietMoves DEF Early
      <3>2. CASE ~Silent(request.kind) /\ Finish(2)
        BY <2>1, <3>2, FinishKeeps
      <3> QED
        BY <2>2, <3>1, <3>2 DEF GiveUp
    <2>3. CASE HandlerGoes("heed") /\ UNCHANGED inbox
      <3>1. DialogOK'
        BY <1>0, <1>3, ShowingKeeps
      <3>2. handler'.at = "heed"
        BY <1>0, <2>3 DEF RequestTypes, HandlerGoes
      <3>3. InboxOK'
        BY <1>0, <2>1, <2>3, <3>2 DEF InboxOK, Yes
      <3> QED
        BY <1>0, <2>1, <2>3, <3>1, <3>3, HandlerMoves
    <2> QED
      BY <1>3, <2>2, <2>3 DEF ShowDialog
  <1>4. CASE PassOver
    <2>1. DialogOK' /\ UNCHANGED <<handler, inbox>>
      BY <1>0, <1>4, TakingKeeps DEF PassOver
    <2>2. InboxOK' /\ HelperOK' /\ RequestTypes'
      BY <1>0, <2>1 DEF InboxOK, HelperOK, RequestTypes, Yes, Over
    <2>3. LifetimeOK'
      BY DEF NoticeIndInv, LifetimeOK, lifetime, Alive
    <2> QED
      BY <2>1, <2>2, <2>3 DEF NoticeIndInv
  <1>5. CASE HeedNotice
    BY <1>0, <1>5, QuietMoves DEF HeedNotice, Early
  <1>6. CASE ContextEnds
    <2>1. /\ handler.at \in {"heed", "await"} /\ handler.done
          /\ HandlerGoes("end") /\ UNCHANGED <<inbox, worker>>
      BY <1>6 DEF ContextEnds
    <2>2. helper.at = "exited" \/ Over
      BY <1>0, <2>1 DEF HelperOK, Over
    <2> QED
      BY <1>0, <2>1, <2>2, QuietMoves DEF Early
  <1> QED
    BY <1>1, <1>2, <1>3, <1>4, <1>5, <1>6, AcceptKeeps, HeedKeeps

LEMMA EndKeeps ==
  ASSUME NoticeIndInv, Return \/ NoticeHangup \/ ServiceDies
  PROVE  NoticeIndInv'
  <1>0. /\ LifetimeOK /\ RequestTypes /\ InboxOK /\ DialogOK /\ HelperOK
        /\ UNCHANGED <<lifetime, cancelled, request, helper, inbox, covered, chosen>>
    BY DEF NoticeIndInv, Return, NoticeHangup, ServiceDies, lifetime
  <1>1. LifetimeOK' /\ Yes' = Yes
    BY <1>0 DEF LifetimeOK, lifetime, Alive, Yes
  <1>2. CASE Return
    <2>1. /\ handler.at = "end" /\ link' = link \ {"service"} /\ worker' = Close(worker)
          /\ UNCHANGED <<handler, service>>
      BY <1>2 DEF Return
    <2>2. DialogOK'
      BY <1>0, <2>1, ClosingKeeps DEF Early
    <2>3. InboxOK' /\ RequestTypes'
      BY <1>0, <1>1, <2>1 DEF InboxOK, RequestTypes
    <2>4. HelperOK'
      BY <1>0, <1>1, <2>1 DEF HelperOK, Over
    <2> QED
      BY <1>1, <2>2, <2>3, <2>4 DEF NoticeIndInv
  <1>3. CASE NoticeHangup
    <2>1. /\ handler.at \notin {"none", "end"} /\ HungUp
          /\ handler' = [handler EXCEPT !.done = TRUE]
          /\ UNCHANGED <<link, worker, service>>
      BY <1>3 DEF NoticeHangup
    <2>2. /\ handler' \in [at : Places, done : BOOLEAN] /\ handler'.at = handler.at
      BY <1>0, <2>1 DEF RequestTypes
    <2>3. helper.at # "exited" => cancelled \/ service # "up"
      BY <1>0, <2>1, HelperFields DEF HelperOK, HungUp
    <2>4. DialogOK'
      BY <1>0, <2>1, <2>2, Untouched
    <2>5. InboxOK' /\ RequestTypes'
      BY <1>0, <1>1, <2>1, <2>2 DEF InboxOK, RequestTypes
    <2>6. HelperOK'
      BY <1>0, <1>1, <2>1, <2>2, <2>3 DEF HelperOK, Over
    <2> QED
      BY <1>1, <2>4, <2>5, <2>6 DEF NoticeIndInv
  <1>4. CASE ServiceDies
    <2>1. /\ service' = "gone" /\ link' = link \ {"service"} /\ worker' = Close(worker)
          /\ handler' = [at |-> "end", done |-> TRUE]
      BY <1>4 DEF ServiceDies
    <2>2. handler' \in [at : Places, done : BOOLEAN] /\ handler'.at = "end" /\ handler'.done
      BY <2>1 DEF Places
    <2>3. DialogOK'
      BY <1>0, <2>1, <2>2, ClosingKeeps DEF Early
    <2>4. InboxOK' /\ RequestTypes'
      BY <1>0, <1>1, <2>1, <2>2 DEF InboxOK, RequestTypes
    <2>5. HelperOK'
      BY <1>0, <1>1, <2>1, <2>2 DEF HelperOK, Over
    <2> QED
      BY <1>1, <2>3, <2>4, <2>5 DEF NoticeIndInv
  <1> QED
    BY <1>2, <1>3, <1>4

LEMMA NextKeepsNotice ==
  ASSUME NoticeIndInv, [Next]_vars
  PROVE  NoticeIndInv'
  <1>0. /\ LifetimeOK /\ RequestTypes /\ InboxOK /\ DialogOK /\ HelperOK
    BY DEF NoticeIndInv
  <1>1. ASSUME LifetimeStep, UNCHANGED notice PROVE NoticeIndInv'
    <2>1. LifetimeOK' /\ (cancelled => cancelled')
      BY <1>0, <1>1, LifetimeKeeps
    <2>2. UNCHANGED <<request, helper, inbox, link, handler, worker, service, covered,
                      chosen>>
      BY <1>1 DEF notice
    <2>3. InboxOK' /\ HelperOK'
      BY <1>0, <2>1, <2>2, LineStays
    <2>4. DialogOK'
      BY <1>0, <2>2, Untouched
    <2>5. RequestTypes'
      BY <1>0, <2>2 DEF RequestTypes
    <2> QED
      BY <2>1, <2>3, <2>4, <2>5 DEF NoticeIndInv
  <1>2. CASE HelperStep
    <2>1. CASE LookUpParent
      BY <1>1, <2>1 DEF LookUpParent, LifetimeStep
    <2>2. CASE /\ ReadAccepted \/ ReadRefusal \/ ReadYes \/ PrintYes \/ ReadFails
               /\ UNCHANGED <<lifetime, request, handler, worker, service, covered,
                              chosen>>
      <3>1. RequestTypes' /\ InboxOK' /\ HelperOK'
        BY <2>2, HelperKeeps
      <3>2. LifetimeOK' /\ DialogOK'
        BY <1>0, <2>2, Untouched DEF LifetimeOK, lifetime, Alive
      <3> QED
        BY <3>1, <3>2 DEF NoticeIndInv
    <2> QED
      BY <1>2, <2>1, <2>2, DialKeeps, LineKeeps DEF HelperStep
  <1>3. CASE HandlerStep
    BY <1>3, EndKeeps, HandlerKeeps DEF HandlerStep
  <1>4. CASE WorkerStep \/ PressAllow \/ PressDeny \/ DialogDies
    <2>1. DialogOK'
      BY <1>0, <1>4, WorkerKeeps
    <2>2. /\ UNCHANGED <<lifetime, request, helper, inbox, link, handler, service,
                         covered, cancelled>>
          /\ chosen # "none" => chosen' = chosen
      BY <1>4 DEF WorkerStep, PressAllow, PressDeny, DialogDies, WorkerBecomes, First,
                  lifetime
    <2>3. InboxOK' /\ HelperOK'
      BY <1>0, <2>2, LineStays
    <2>4. RequestTypes' /\ LifetimeOK'
      BY <1>0, <2>2 DEF RequestTypes, LifetimeOK, lifetime, Alive
    <2> QED
      BY <2>1, <2>3, <2>4 DEF NoticeIndInv
  <1>5. CASE ServiceStops \/ CoverageChanges
    <2>1. /\ UNCHANGED <<lifetime, request, helper, inbox, link, handler, worker,
                         chosen, cancelled>>
          /\ service' \in {"up", "stopping", "gone"} /\ covered' \in BOOLEAN
          /\ service' = service \/ service' # "up"
      BY <1>0, <1>5 DEF ServiceStops, CoverageChanges, lifetime, RequestTypes
    <2>2. InboxOK' /\ HelperOK'
      BY <1>0, <2>1, LineStays
    <2>3. DialogOK'
      BY <1>0, <2>1, Untouched
    <2>4. RequestTypes' /\ LifetimeOK'
      BY <1>0, <2>1 DEF RequestTypes, LifetimeOK, lifetime, Alive
    <2> QED
      BY <2>2, <2>3, <2>4 DEF NoticeIndInv
  <1>6. CASE (WatchStep \/ ProcessTable \/ Signalled) /\ UNCHANGED notice
    BY <1>1, <1>6 DEF LifetimeStep
  <1>7. CASE UNCHANGED vars
    BY <1>1, <1>7 DEF vars, LifetimeStep
  <1> QED
    BY <1>2, <1>3, <1>4, <1>5, <1>6, <1>7, LineKeeps, EndKeeps DEF Next

LEMMA NoticeAlways == Spec => []NoticeIndInv
  <1>1. NoticeIndInv /\ [Next]_vars => NoticeIndInv'
    BY NextKeepsNotice
  <1> QED
    BY InitialNotice, <1>1, PTL DEF Spec

LEMMA NoticeTyped == NoticeIndInv => TypeOK
  <1> SUFFICES ASSUME NoticeIndInv PROVE TypeOK
    OBVIOUS
  <1>0. /\ LifetimeOK /\ RequestTypes /\ InboxOK /\ DialogOK
    BY DEF NoticeIndInv
  <1>1. Len(worker.sent) <= 3
    <2>1. worker.sent \in Seq(Frames) /\ worker.dismissed \in BOOLEAN
          /\ worker.sensitive \in BOOLEAN /\ Len(worker.sent) <= Owed(worker)
      BY <1>0, WorkerFields DEF DialogOK
    <2>2. Owed(worker) \in 0..3 /\ Len(worker.sent) \in Nat
      BY <2>1 DEF Owed
    <2> QED
      BY <2>1, <2>2
  <1>2. worker.process \in {"none", "up", "dead", "closed"} /\ Len(worker.actions) <= 2
    BY <1>0, WorkerFields DEF DialogOK
  <1>3. helper.at \in {"start", "read", "print", "exited"} /\ helper.code \in 0..2
    BY <1>0, HelperFields
  <1>4. Len(inbox) <= 2
    BY <1>0 DEF InboxOK
  <1>5. {cancelled, covered} \subseteq BOOLEAN
    BY <1>0 DEF LifetimeOK, RequestTypes
  <1> QED
    BY <1>0, <1>1, <1>2, <1>3, <1>4, <1>5 DEF TypeOK, LifetimeOK, RequestTypes

---------------------------------------------------------------------------
(* The theorems.                                                           *)

\* Helper, handler and dialog are where they may be, and a notice that ends
\* prints nothing and reports success only if ssh ended it (app.go, service.go).
THEOREM NoticesEndSilently == Spec => []NoticeInv
  <1>1. NoticeIndInv => NoticeStatus
    BY DEF NoticeIndInv, HelperOK, NoticeStatus, Yes, Silent
  <1> QED
    BY NoticeAlways, NoticeTyped, <1>1, PTL DEF NoticeInv

\* An accepted notice lasts until ssh ends it or the service goes, whatever
\* becomes of its dialog and of the monitor's coverage (service.go:136).
THEOREM NoticesLast == Spec => []NoticeLasts
  <1>1. NoticeIndInv => NoticeLasts
    BY DEF NoticeIndInv, HelperOK, NoticeLasts, Over
  <1> QED
    BY NoticeAlways, <1>1, PTL

\* "yes" is printed only for a confirmation that the user allowed first.
THEOREM YesWasAllowed == Spec => []YesMeansAllow
  <1>1. NoticeIndInv => YesMeansAllow
    BY DEF NoticeIndInv, HelperOK, YesMeansAllow, Yes
  <1> QED
    BY NoticeAlways, <1>1, PTL

\* WaitParent returns only after the process it watches has ended, however the
\* process table reuses the number between its calls (linux.go).
THEOREM ParentsAreOutlived == Spec => []NeverEarly
  <1>1. NoticeIndInv => NeverEarly
    BY DEF NoticeIndInv, LifetimeOK, NeverEarly
  <1> QED
    BY NoticeAlways, <1>1, PTL

===========================================================================
