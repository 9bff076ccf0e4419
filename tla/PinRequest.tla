---------------------------- MODULE PinRequest ----------------------------
(***************************************************************************)
(* Input requests from the askpass helper to the answer: Service.Handle    *)
(* of internal/service/service.go with the dialog it drives, the security  *)
(* keys it asks, the credential cache, and the helper (internal/app) that  *)
(* prints the answer and acknowledges it.                                  *)
(*                                                                         *)
(* An action of the handler ends where the code next touches something     *)
(* that others change: the cache, the bus, the hardware lock, the worker,  *)
(* the connection to the helper.  Its local variables are one record.      *)
(*                                                                         *)
(* Clients of protocol version 1 (begin and commit, ipc.go:316-338) write  *)
(* the same store without a dialog, a device or an acknowledgement.  They  *)
(* are in RequestServer and no events here: what is said of the store is   *)
(* said of a service that handles askpass requests and forgets.            *)
(***************************************************************************)
EXTENDS CacheStore, DialogWorker

CONSTANTS
    Request,     \* the input requests, each made once
    KeyOf,       \* per request its cache key
    CallerOf,    \* per request the process that made it
    Verified,    \* the requests whose answer a security key must accept
    Cacheable,   \* those that may use the cache
    Bus,         \* the device connections, in the order of enumeration
    AtStart,     \* those that are there from the start
    Anonymous,   \* those that cannot be identified
    NoConn,      \* no connection
    NoRequest,   \* nobody holds the hardware lock
    Failing,     \* the requests whose dialogs may crash or fail to start
    MaxNow,      \* bound: the clock stops here
    MaxChanges,  \* bound: the key files change this often
    MaxForgets,  \* bound: forget operations
    MaxPresses,  \* bound: per request the uses of a control
    MaxRefresh,  \* bound: per request the refreshes by the dialog's timer
    MayCancel    \* bound: the requests whose users may cancel, once each

Conn == {Bus[i] : i \in DOMAIN Bus}

ASSUME RequestsAssumption ==
    /\ IsFiniteSet(Request) /\ NoRequest \notin Request
    /\ KeyOf \in [Request -> Key] /\ CallerOf \in [Request -> Caller]
    /\ Verified \subseteq Request /\ Cacheable \subseteq Request

\* Only PIN prompts are verified, and only they have keys of the PIN kind.
ASSUME KindsAssumption ==
    \A q, r \in Request :
        KeyOf[q] = KeyOf[r] => (q \in Verified <=> r \in Verified)

\* The stamp of an identity: a version of the key file, and the connection of
\* the security key if there is one.
ASSUME StampAssumption ==
    /\ NoConn \notin Conn /\ Anonymous \subseteq Conn /\ AtStart \subseteq Conn
    /\ Stamp = (0..MaxChanges) \X (Conn \cup {NoConn})

\* What may be typed: acceptable secrets, and possibly nothing at all.
ASSUME ResponseAssumption == Response \subseteq Secret \cup {NoSecret}

ASSUME CountersAssumption ==
    /\ {MaxNow, MaxChanges, MaxForgets} \subseteq Nat
    /\ {MaxPresses, MaxRefresh} \subseteq [Request -> Nat]
    /\ Failing \subseteq Request /\ MayCancel \subseteq Request

VARIABLES
    store,    \* the credential cache
    lock,     \* the request that holds the hardware
    pref,     \* per key the device saved for preselection
    handler,  \* per request the state of Handle
    worker,   \* per request its dialog
    aware,    \* the requests whose context is cancelled
    answer,   \* per request the result frame, or Silence
    helper,   \* per request the state of the askpass helper
    now,      \* the clock
    version,  \* per key the version of its file
    plugged,  \* per connection "new", "in" or "out"
    used,     \* bounded: what users have done so far
    proof,    \* history: per request what a device has accepted last
    accepted, \* history: which device has accepted which PIN
    refused,  \* history: the cached generations a device has refused
    rejected  \* history: those of whose refusal a handler has learnt

serviceVars == <<store, lock, pref, handler, worker, aware, answer>>
worldVars == <<helper, now, version, plugged, used>>
historyVars == <<proof, accepted, refused, rejected>>
vars == <<serviceVars, worldVars, historyVars>>

Silence == [kind |-> "none"]
Status(code) == [kind |-> "status", code |-> code]
Answered(value) == [kind |-> "secret", value |-> value]

NoProof == [conn |-> NoConn, value |-> NoSecret, current |-> TRUE]

Fresh ==
    [pc       |-> "start",
     base     |-> 0,           \* version of the key file when resolved
     selected |-> NoConn,
     picked   |-> NoConn,      \* history: what the user pointed at
     found    |-> <<>>,        \* the devices last enumerated
     cand     |-> NoLookup("none"),
     value    |-> NoSecret,
     remember |-> FALSE,
     verdict  |-> "none",
     stored   |-> FALSE]

Init ==
    /\ store = NewStore
    /\ lock = NoRequest
    /\ pref = [k \in Key |-> NoConn]
    /\ handler = [r \in Request |-> Fresh]
    /\ worker = [r \in Request |-> NoWorker]
    /\ aware = {}
    /\ answer = [r \in Request |-> Silence]
    /\ helper = [r \in Request |-> "waiting"]
    /\ now = 0
    /\ version = [k \in Key |-> 0]
    /\ plugged = [c \in Conn |-> IF c \in AtStart THEN "in" ELSE "new"]
    /\ used = [forgets |-> 0, presses |-> [r \in Request |-> 0],
               refreshes |-> [r \in Request |-> 0]]
    /\ proof = [r \in Request |-> NoProof]
    /\ accepted = {}
    /\ refused = {}
    /\ rejected = {}
---------------------------------------------------------------------------
(* What the steps of a handler have in common.                             *)

At(r, pc) == handler[r].pc = pc

\* The next local state: h is handler[r] with some fields changed.
Becomes(r, h) == handler' = [handler EXCEPT ![r] = h]

Goto(r, pc) == Becomes(r, [handler[r] EXCEPT !.pc = pc])

Identified(r) ==
    [key   |-> KeyOf[r],
     stamp |-> <<handler[r].base,
                 IF r \in Verified THEN handler[r].selected ELSE NoConn>>]

HasCandidate(h) == h.cand.generation # 0

\* A response or a candidate is at hand: where the loop goes with it.
Examine(r, h) ==
    [h EXCEPT !.pc = IF r \notin Verified THEN "final"
                     ELSE IF HasCandidate(h) THEN "check" ELSE "enumerate"]

\* show: an error if the dialog has died or cannot be started.
Shows(r, stage) ==
    LET h == handler'[r]
        view == View(stage, IF stage = "choose" THEN h.found ELSE <<>>,
                     stage = "input" /\ h.cand.token # 0,
                     stage = "input" /\ r \in Verified)
    IN /\ CanShow(worker[r])
       /\ worker' = [worker EXCEPT ![r] = Show(@, view)]

ShowFails(r) ==
    \/ worker[r].process = "dead"
    \/ worker[r].process = "none" /\ r \in Failing

\* finish: the dialog is closed before the result is written.
Finish(r, code) ==
    /\ answer' = [answer EXCEPT ![r] = Status(code)]
    /\ worker' = [worker EXCEPT ![r] = Close(@)]
    /\ Goto(r, "end")

\* Show a view and wait for what the user does; without a dialog give up.
Present(r, h, stage) ==
    \/ /\ Becomes(r, [h EXCEPT !.pc = stage])
       /\ Shows(r, stage)
       /\ UNCHANGED answer
    \/ ShowFails(r) /\ Finish(r, 2)

\* The same where the code ignores that the dialog cannot be shown.
PresentError(r, h) ==
    \/ /\ Becomes(r, [h EXCEPT !.pc = "error"])
       /\ Shows(r, "error")
       /\ UNCHANGED answer
    \/ ShowFails(r) /\ Finish(r, 1)

\* action() has a frame for the handler.  It passes over "shown".
Heard(r) == worker[r].actions # <<>> /\ Head(worker[r].actions).kind # "shown"

Heeds(r) == Head(worker[r].actions)

Consume(r) == worker' = [worker EXCEPT ![r] = Take(@)]

\* The places on the bus whose devices can be opened.
Openable == {i \in DOMAIN Bus : plugged[Bus[i]] = "in"}

\* Any of these devices, in the order of the bus; none on an error.
Discovered ==
    LET Ascending(n) == {at \in [1..n -> Openable] :
                            \A i, j \in 1..n : i < j => at[i] < at[j]}
    IN UNION {{[i \in 1..n |-> Bus[at[i]]] : at \in Ascending(n)} :
                 n \in 0..Cardinality(Openable)}
---------------------------------------------------------------------------
(* Handle, from the accepted request to the cached candidate.              *)

Accept(r) ==
    /\ At(r, "start")
    /\ Becomes(r, [handler[r] EXCEPT
                     !.base = version[KeyOf[r]],
                     !.pc = IF r \in Verified THEN "lock" ELSE "begin"])
    /\ UNCHANGED <<store, lock, pref, worker, aware, answer, worldVars,
                   historyVars>>

\* Mistake: a request does not wait for the hardware.
LockWhenever(r) == At(r, "lock")

LockFree(r) == At(r, "lock") /\ lock = NoRequest

AcquireHardware(r) ==
    /\ LockFree(r)
    /\ lock' = r
    /\ Goto(r, "discover")
    /\ UNCHANGED <<store, pref, worker, aware, answer, worldVars, historyVars>>

\* selectDevice starts with the bare identity and without a response.
Discard(r) ==
    [handler[r] EXCEPT !.selected = NoConn, !.picked = NoConn,
                       !.value = NoSecret, !.remember = FALSE]

SelectDevice(r) ==
    /\ At(r, "discover")
    /\ \E found \in Discovered :
         LET h == [Discard(r) EXCEPT !.found = found]
         IN CASE found = <<>> -> Present(r, h, "wait")
              [] Len(found) = 1 ->
                   /\ Becomes(r, [h EXCEPT !.selected = found[1],
                                           !.pc = "selected"])
                   /\ UNCHANGED <<worker, answer>>
              [] OTHER -> Present(r, h, "choose")
    /\ UNCHANGED <<store, lock, pref, aware, worldVars, historyVars>>

\* Cancelled while no device is chosen yet.
CancelSelection(r) ==
    /\ At(r, "wait") \/ At(r, "choose")
    /\ Heard(r) /\ Heeds(r).kind = "cancel"
    /\ Finish(r, 1)
    /\ UNCHANGED <<store, lock, pref, aware, worldVars, historyVars>>

Selects(r) ==
    Heeds(r).kind = "select" /\ Heeds(r).selected \in DOMAIN handler[r].found

\* Any other action than a usable choice enumerates the devices again.
Choose(r) ==
    /\ At(r, "wait") \/ At(r, "choose")
    /\ Heard(r) /\ Heeds(r).kind # "cancel"
    /\ Consume(r)
    /\ IF At(r, "choose") /\ Selects(r)
       THEN LET i == Heeds(r).selected
            IN Becomes(r, [handler[r] EXCEPT !.selected = handler[r].found[i],
                                             !.picked = Heeds(r).devices[i],
                                             !.pc = "selected"])
       ELSE Goto(r, "discover")
    /\ UNCHANGED <<store, lock, pref, aware, answer, worldVars, historyVars>>

\* A connection without an identity cannot own a PIN.
RefuseAnonymous(r) ==
    /\ At(r, "selected") /\ handler[r].selected \in Anonymous
    /\ PresentError(r, handler[r])
    /\ UNCHANGED <<store, lock, pref, aware, worldVars, historyVars>>

\* Begin for the identity at hand; its candidate is the handler's value.
AskCache(r) ==
    /\ \/ At(r, "begin")
       \/ At(r, "selected") /\ handler[r].selected \notin Anonymous
    /\ \E s \in IF r \in Cacheable THEN Expire(store, now) ELSE {store} :
         LET b == IF r \in Cacheable
                  THEN Begin(s, now, Identified(r), CallerOf[r])
                  ELSE [store |-> s, lookup |-> NoLookup("none")]
         IN /\ store' = b.store
            /\ Becomes(r, [handler[r] EXCEPT !.cand = b.lookup,
                                             !.value = b.lookup.secret,
                                             !.pc = "top"])
    /\ UNCHANGED <<lock, pref, worker, aware, answer, worldVars, historyVars>>

---------------------------------------------------------------------------
(* The loop: a response or candidate, verified until accepted.             *)

Prompt(r) ==
    /\ At(r, "top") /\ r \notin aware
    /\ IF handler[r].value = NoSecret
       THEN Present(r, handler[r], "input")
       ELSE /\ Becomes(r, Examine(r, handler[r]))
            /\ UNCHANGED <<worker, answer>>
    /\ UNCHANGED <<store, lock, pref, aware, worldVars, historyVars>>

ChangeDevice(r) ==
    /\ At(r, "input") /\ r \in Verified
    /\ Heard(r) /\ Heeds(r).kind = "change"
    /\ Consume(r)
    /\ Goto(r, "discover")
    /\ UNCHANGED <<store, lock, pref, aware, answer, worldVars, historyVars>>

\* The dialog has validated the response already (ui.go:190).
Submit(r) ==
    /\ At(r, "input") /\ Heard(r) /\ Heeds(r).kind = "submit"
    /\ Consume(r)
    /\ Becomes(r, Examine(r, [handler[r] EXCEPT
                                 !.value = Heeds(r).value,
                                 !.remember = Heeds(r).remember]))
    /\ UNCHANGED <<store, lock, pref, aware, answer, worldVars, historyVars>>

\* Every other action ends the request: cancel, but whatever else comes too.
CancelInput(r) ==
    /\ At(r, "input") /\ Heard(r) /\ Heeds(r).kind # "submit"
    /\ ~(r \in Verified /\ Heeds(r).kind = "change")
    /\ Finish(r, 1)
    /\ UNCHANGED <<store, lock, pref, aware, worldVars, historyVars>>

\* Mistake: a candidate counts as current for ever.
CurrentOnce(r, s) == TRUE

StillCurrent(r, s) == IsCurrent(s, Identified(r), handler[r].cand.generation)

\* Is the candidate still in the cache: asked before a device sees it, and
\* again once the device has accepted it.
Recheck(r) ==
    /\ At(r, "check") \/ At(r, "confirm")
    /\ store' \in Expire(store, now)
    /\ LET h == handler[r]
       IN Becomes(r, IF StillCurrent(r, store')
                     THEN [h EXCEPT !.pc = IF h.pc = "check" THEN "enumerate"
                                           ELSE "final"]
                     ELSE [h EXCEPT !.value = NoSecret, !.verdict = "none",
                                    !.pc = "again"])
    /\ UNCHANGED <<lock, pref, worker, aware, answer, worldVars, historyVars>>

\* A new lease after the candidate or the response turned out to be useless.
\* What Begin may supply now is not used.
AskAgain(r) ==
    /\ At(r, "again")
    /\ \E s \in Expire(store, now) :
         LET b == Begin(s, now, Identified(r), CallerOf[r])
         IN /\ store' = b.store
            /\ Becomes(r, [handler[r] EXCEPT
                             !.cand = b.lookup,
                             !.pc = IF handler[r].verdict = "blocked" THEN "failed"
                                    ELSE "top"])
    /\ UNCHANGED <<lock, pref, worker, aware, answer, worldVars, historyVars>>

\* Mistake: a refused candidate stays in the cache.
KeepCandidate(r) == store

DropCandidate(r) ==
    IF HasCandidate(handler[r])
    THEN Reject(store, Identified(r), handler[r].cand.generation)
    ELSE store

\* Enumerate again right before a device is asked.
FindDevice(r) ==
    /\ At(r, "enumerate")
    /\ \E found \in Discovered :
         LET h == handler[r]
         IN IF h.selected \in {found[i] : i \in DOMAIN found}
            THEN /\ IF worker[r].process = "none"
                    THEN /\ Goto(r, "verify")
                         /\ UNCHANGED worker
                    ELSE \/ /\ Goto(r, "verify")
                            /\ Shows(r, "busy")
                         \/ /\ ShowFails(r)
                            /\ Goto(r, "end")
                            /\ UNCHANGED worker
                 /\ UNCHANGED <<store, answer>>
            ELSE /\ store' = DropCandidate(r)
                 /\ PresentError(r, [h EXCEPT !.value = NoSecret])
    /\ UNCHANGED <<lock, pref, aware, worldVars, historyVars>>

\* What Verify may say: nothing but "unavailable" once the connection or the
\* request is gone, and no device accepts an empty PIN.
Verdicts(r) ==
    IF plugged[handler[r].selected] # "in" \/ r \in aware
    THEN {"unavailable"}
    ELSE {"invalid", "blocked", "unavailable"}
            \cup (IF handler[r].value = NoSecret THEN {} ELSE {"accepted"})

\* Verify, at the instant when the device decides.
AskDevice(r) ==
    /\ At(r, "verify")
    /\ \E verdict \in Verdicts(r) :
         LET h == handler[r]
         IN /\ Becomes(r, [h EXCEPT !.verdict = verdict, !.pc = "verified"])
            /\ IF verdict = "accepted"
               THEN /\ proof' = [proof EXCEPT ![r] =
                           [conn |-> h.selected, value |-> h.value,
                            current |-> HasCandidate(h) =>
                               IsCurrent(store, Identified(r), h.cand.generation)]]
                    /\ accepted' = accepted \cup {<<h.selected, h.value>>}
               ELSE UNCHANGED <<proof, accepted>>
            /\ refused' = IF verdict \in {"invalid", "blocked"} /\ HasCandidate(h)
                          THEN refused \cup {<<KeyOf[r], h.cand.generation>>}
                          ELSE refused
    /\ UNCHANGED <<store, lock, pref, worker, aware, answer, worldVars, rejected>>

\* Verify returns after the user has cancelled, or after the helper has gone.
CancelledLate(r) ==
    /\ At(r, "verified") \/ (At(r, "final") /\ r \notin aware)
    /\ worker[r].cancelled
    /\ Finish(r, 1)
    /\ UNCHANGED <<store, lock, pref, aware, worldVars, historyVars>>

\* Mistake: what a device has refused is presented once more.
RetryRefused(r) == store' = store /\ Goto(r, "enumerate")

DiscardRefused(r) ==
    LET cleared == [handler[r] EXCEPT !.value = NoSecret]
    IN /\ store' = DropCandidate(r)
       /\ Becomes(r, [cleared EXCEPT !.pc =
                         IF r \in Cacheable THEN "again"
                         ELSE IF handler[r].verdict = "blocked" THEN "failed"
                         ELSE "top"])

\* Verify returns to a request that still wants to know.
JudgeVerdict(r) ==
    /\ At(r, "verified") /\ ~worker[r].cancelled /\ r \notin aware
    /\ LET h == handler[r]
           cleared == [h EXCEPT !.value = NoSecret]
       IN CASE h.verdict = "accepted" ->
                 /\ Goto(r, IF HasCandidate(h) THEN "confirm" ELSE "final")
                 /\ UNCHANGED <<store, rejected>>
            [] h.verdict \in {"invalid", "blocked"} ->
                 /\ DiscardRefused(r)
                 /\ rejected' = rejected \cup
                       (IF HasCandidate(h) THEN {<<KeyOf[r], h.cand.generation>>}
                        ELSE {})
            [] OTHER ->
                 /\ Becomes(r, [cleared EXCEPT !.pc = "failed"])
                 /\ UNCHANGED <<store, rejected>>
    /\ UNCHANGED <<lock, pref, worker, aware, answer, worldVars, proof, accepted,
                   refused>>

ReportFailure(r) ==
    /\ At(r, "failed")
    /\ Present(r, handler[r], "error")
    /\ UNCHANGED <<store, lock, pref, aware, worldVars, historyVars>>

\* The error view waits for anything at all, the death of the dialog included.
LeaveError(r) ==
    /\ At(r, "error")
    /\ Heard(r) \/ Disconnected(worker[r]) \/ r \in aware
    /\ Finish(r, 1)
    /\ UNCHANGED <<store, lock, pref, aware, worldVars, historyVars>>

---------------------------------------------------------------------------
(* The answer, its acknowledgment and what is stored only then.            *)

Conclude(r) ==
    /\ At(r, "final") /\ ~worker[r].cancelled /\ r \notin aware
    /\ Goto(r, "send")
    /\ UNCHANGED <<store, lock, pref, worker, aware, answer, worldVars,
                   historyVars>>

\* Closes the dialog and writes the result, unless the connection is closed.
SendAnswer(r) ==
    /\ At(r, "send")
    /\ worker' = [worker EXCEPT ![r] = Close(@)]
    /\ \/ /\ answer' = [answer EXCEPT ![r] = Answered(handler[r].value)]
          /\ Goto(r, "sent")
       \/ /\ helper[r] # "waiting"
          /\ Goto(r, "end")
          /\ UNCHANGED answer
    /\ UNCHANGED <<store, lock, pref, aware, worldVars, historyVars>>

\* Mistake: the answer counts as delivered as soon as it is sent.
TakenAsDelivered(r) == At(r, "sent")

Delivered(r) == At(r, "sent") /\ helper[r] = "acked"

\* The helper has printed the response: what becomes of the lease.
Acknowledged(r) ==
    /\ Delivered(r)
    /\ LET h == handler[r]
           keep == h.cand.token # 0 /\ h.remember /\ h.value # NoSecret
                      /\ version[KeyOf[r]] = h.base
           drop == h.cand.token # 0 /\ ~h.remember
       IN /\ store' = IF drop THEN Forget(store, {KeyOf[r]}) ELSE store
          /\ Goto(r, IF keep THEN "commit" ELSE "prefs")
    /\ UNCHANGED <<lock, pref, worker, aware, answer, worldVars, historyVars>>

CommitAnswer(r) ==
    /\ At(r, "commit")
    /\ \E s \in Expire(store, now) :
         LET h == handler[r]
             c == Commit(s, now, h.cand.token, Identified(r), CallerOf[r], h.value)
         IN /\ store' = c.store
            /\ Becomes(r, [h EXCEPT !.stored = c.stored, !.pc = "prefs"])
    /\ UNCHANGED <<lock, pref, worker, aware, answer, worldVars, historyVars>>

Saves(r) ==
    LET h == handler[r]
    IN /\ r \in Verified
       /\ \/ ~h.remember
          \/ h.cand.token # 0 /\ h.stored
          \/ h.cand.token = 0 /\ (h.cand.reason = "disabled" \/ r \notin Cacheable)

\* Only prompts with a fingerprint have a preference, only devices with a
\* serial number can be preferred, and a failed write is passed over.
SavePreference(r) ==
    /\ At(r, "prefs")
    /\ \/ /\ Saves(r) /\ KeyOf[r] \in AgentKey
          /\ pref' = [pref EXCEPT ![KeyOf[r]] = handler[r].selected]
       \/ UNCHANGED pref
    /\ Goto(r, "end")
    /\ UNCHANGED <<store, lock, worker, aware, answer, worldVars, historyVars>>

\* Nothing comes back within the deadline.
AckTimeout(r) ==
    /\ At(r, "sent")
    /\ Goto(r, "end")
    /\ UNCHANGED <<store, lock, pref, worker, aware, answer, worldVars,
                   historyVars>>

---------------------------------------------------------------------------
(* The request ends without a result, or after it.                         *)

\* Mistake: a request that waits for the hardware waits for nothing else.
WaitingUnlocked == {"wait", "choose", "top", "input", "verified", "final", "sent"}

\* Where the handler looks at its context or waits for it.
Waiting == {"lock", "wait", "choose", "top", "input", "verified", "final", "sent"}

Abandon(r) ==
    /\ handler[r].pc \in Waiting /\ r \in aware
    /\ At(r, "verified") => ~worker[r].cancelled
    /\ Goto(r, "end")
    /\ UNCHANGED <<store, lock, pref, worker, aware, answer, worldVars,
                   historyVars>>

LoseDialog(r) ==
    /\ handler[r].pc \in {"wait", "choose", "input"}
    /\ Disconnected(worker[r])
    /\ Goto(r, "end")
    /\ UNCHANGED <<store, lock, pref, worker, aware, answer, worldVars,
                   historyVars>>

\* The deferred calls of Handle: the hardware is given back, the dialog
\* killed, the connection closed.
Return(r) ==
    /\ At(r, "end")
    /\ lock' = IF lock = r THEN NoRequest ELSE lock
    /\ worker' = [worker EXCEPT ![r] = Close(@)]
    /\ aware' = aware \ {r}
    /\ Becomes(r, [Fresh EXCEPT !.pc = "over", !.base = handler[r].base,
                                !.remember = handler[r].remember])
    /\ UNCHANGED <<store, pref, answer, worldVars, historyVars>>

\* action() passes over a frame that only reports a shown view.
PassOver(r) ==
    /\ handler[r].pc \in {"wait", "choose", "input", "error"}
    /\ worker[r].actions # <<>> /\ ~Heard(r)
    /\ Consume(r)
    /\ UNCHANGED <<store, lock, pref, handler, aware, answer, worldVars,
                   historyVars>>

\* The goroutine that reads the dialog's frames.
ReadFrame(r) ==
    /\ worker[r].sent # <<>> /\ ~ReaderBlocked(worker[r])
    /\ worker' = [worker EXCEPT ![r] = Read(@)]
    /\ UNCHANGED <<store, lock, pref, handler, aware, answer, worldVars,
                   historyVars>>

\* The goroutine that waits for the acknowledgment finds the connection closed.
NoticeHangup(r) ==
    /\ helper[r] = "gone" /\ r \notin aware
    /\ handler[r].pc \notin {"start", "over"}
    /\ aware' = aware \cup {r}
    /\ UNCHANGED <<store, lock, pref, handler, worker, answer, worldVars,
                   historyVars>>

HandlerStep(r) ==
    \/ Accept(r) \/ AcquireHardware(r) \/ SelectDevice(r) \/ CancelSelection(r)
    \/ Choose(r) \/ RefuseAnonymous(r) \/ AskCache(r) \/ Prompt(r)
    \/ ChangeDevice(r) \/ Submit(r) \/ CancelInput(r) \/ Recheck(r)
    \/ AskAgain(r) \/ FindDevice(r) \/ AskDevice(r) \/ CancelledLate(r)
    \/ JudgeVerdict(r) \/ ReportFailure(r) \/ LeaveError(r) \/ Conclude(r)
    \/ SendAnswer(r) \/ Acknowledged(r) \/ CommitAnswer(r)
    \/ SavePreference(r) \/ AckTimeout(r) \/ Abandon(r) \/ LoseDialog(r)
    \/ Return(r) \/ PassOver(r)

---------------------------------------------------------------------------
(* The dialog's process and its user.                                      *)

Dialog(r, w) ==
    /\ worker' = [worker EXCEPT ![r] = w]
    /\ UNCHANGED <<store, lock, pref, handler, aware, answer, helper, now,
                   version, plugged, historyVars>>

RenderView(r) ==
    /\ worker[r].process = "up" /\ worker[r].views # <<>>
    /\ Dialog(r, Render(worker[r]))
    /\ UNCHANGED used

PressControl(r) ==
    /\ worker[r].process = "up" /\ worker[r].sensitive
    /\ used.presses[r] < MaxPresses[r]
    /\ \E frame \in Controls(worker[r].screen) : Dialog(r, Press(worker[r], frame))
    /\ used' = [used EXCEPT !.presses[r] = @ + 1]

DismissDialog(r) ==
    /\ worker[r].process = "up" /\ worker[r].screen # Blank
    /\ r \in MayCancel /\ ~worker[r].dismissed
    /\ Dialog(r, Dismiss(worker[r]))
    /\ UNCHANGED used

TimerRefreshes(r) ==
    /\ worker[r].process = "up" /\ worker[r].screen.stage = "wait"
    /\ used.refreshes[r] < MaxRefresh[r]
    /\ Dialog(r, AutoRefresh(worker[r]))
    /\ used' = [used EXCEPT !.refreshes[r] = @ + 1]

DialogDies(r) ==
    /\ r \in Failing /\ worker[r].process = "up"
    /\ \E w \in Crash(worker[r]) : Dialog(r, w)
    /\ UNCHANGED used

---------------------------------------------------------------------------
(* The askpass helper: internal/app.                                       *)

HelperBecomes(r, state) ==
    /\ helper' = [helper EXCEPT ![r] = state]
    /\ UNCHANGED <<serviceVars, now, version, plugged, used, historyVars>>

\* A status, or a connection closed without a result.
HelperExits(r) ==
    /\ helper[r] = "waiting"
    /\ \/ answer[r].kind = "status"
       \/ At(r, "over") /\ answer[r] = Silence
    /\ HelperBecomes(r, "exited")

HelperPrints(r) ==
    /\ helper[r] = "waiting" /\ answer[r].kind = "secret"
    /\ HelperBecomes(r, "printed")

HelperAcknowledges(r) ==
    /\ helper[r] = "printed"
    /\ HelperBecomes(r, "acked")

\* ssh or the user kills the helper, its parent dies, or stdout is closed.
HelperDies(r) ==
    /\ helper[r] \in {"waiting", "printed"} /\ ~At(r, "start")
    /\ HelperBecomes(r, "gone")

HelperStep(r) == HelperExits(r) \/ HelperPrints(r) \/ HelperAcknowledges(r)

---------------------------------------------------------------------------
(* The rest of the world.                                                  *)

FileChanges(k) ==
    /\ k \notin AgentKey /\ version[k] < MaxChanges
    /\ version' = [version EXCEPT ![k] = @ + 1]
    /\ UNCHANGED <<serviceVars, helper, now, plugged, used, historyVars>>

\* A device that is plugged in again is another connection.
DeviceMoves(c) ==
    /\ plugged[c] # "out"
    /\ plugged' = [plugged EXCEPT ![c] = IF @ = "new" THEN "in" ELSE "out"]
    /\ UNCHANGED <<serviceVars, helper, now, version, used, historyVars>>

\* One that finds nothing to forget changes nothing and does not count.
UserForgets(k) ==
    /\ used.forgets < MaxForgets
    /\ store' = Forget(store, {k})
    /\ store' # store
    /\ used' = [used EXCEPT !.forgets = @ + 1]
    /\ UNCHANGED <<lock, pref, handler, worker, aware, answer, helper, now,
                   version, plugged, historyVars>>

\* The callers of which the sweep may find that they are dead.
Departed ==
    {c \in Caller : \A r \in Request :
        CallerOf[r] = c => ~At(r, "start") /\ helper[r] \notin {"waiting", "printed"}}

SweepCache ==
    /\ \E s \in Expire(store, now), dead \in SUBSET Departed :
          store' = Sweep(s, {p \in SeenPairs(s) : p[1] \in dead},
                            {l \in s.tickets : l.caller \in dead})
    /\ UNCHANGED <<lock, pref, handler, worker, aware, answer, worldVars,
                   historyVars>>

Tick ==
    /\ now < MaxNow
    /\ now' = now + 1
    /\ UNCHANGED <<serviceVars, helper, version, plugged, used, historyVars>>

\* Every request has ended: nothing needs to happen any more.
Finished == (\A r \in Request : At(r, "over")) /\ UNCHANGED vars

Next ==
    \/ \E r \in Request :
          \/ HandlerStep(r) \/ ReadFrame(r) \/ NoticeHangup(r)
          \/ RenderView(r) \/ PressControl(r) \/ DismissDialog(r)
          \/ TimerRefreshes(r) \/ DialogDies(r)
          \/ HelperStep(r) \/ HelperDies(r)
    \/ \E k \in Key : FileChanges(k) \/ UserForgets(k)
    \/ \E c \in Conn : DeviceMoves(c)
    \/ SweepCache
    \/ Tick
    \/ Finished

Spec == Init /\ [][Next]_vars

\* The service and the helper run as long as they have something to do; users,
\* devices, files and clocks owe nothing.  Every wait of the handler is a
\* select or a call with a deadline.
FairSpec ==
    /\ Spec
    /\ \A r \in Request :
          /\ WF_vars(HandlerStep(r))
          /\ WF_vars(ReadFrame(r))
          /\ WF_vars(NoticeHangup(r))
          /\ WF_vars(HelperStep(r))

---------------------------------------------------------------------------
(* Properties.                                                             *)

\* Types of the state of the service and its surroundings.
TypeOK ==
    /\ store \in Store
    /\ lock \in Request \cup {NoRequest}
    /\ pref \in [Key -> Conn \cup {NoConn}]
    /\ DOMAIN handler = Request /\ DOMAIN worker = Request
    /\ \A r \in Request :
          /\ handler[r].base \in 0..MaxChanges
          /\ {handler[r].selected, handler[r].picked} \subseteq Conn \cup {NoConn}
          /\ handler[r].value \in Secret \cup {NoSecret}
    /\ aware \subseteq Request
    /\ helper \in [Request -> {"waiting", "printed", "acked", "exited", "gone"}]
    /\ now \in 0..MaxNow
    /\ version \in [Key -> 0..MaxChanges]
    /\ plugged \in [Conn -> {"new", "in", "out"}]
    /\ {refused, rejected} \subseteq SUBSET (Key \X Nat)

\* In verified mode ssh gets a PIN only if the selected device has accepted
\* this very value for this request, and a cached one only if it was still in
\* the cache when the device did (service.go:298, 348; DESIGN.md:89, 193).
OnlyVerifiedPinReturned ==
    \A r \in Verified :
        answer[r].kind = "secret" =>
            /\ proof[r].value = answer[r].value
            /\ proof[r].current
            /\ At(r, "sent") => proof[r].conn = handler[r].selected

\* A PIN cached by Handle belongs to the connection that accepted it, whatever
\* devices were swapped while it was typed, verified and stored (service.go:247,
\* 414).
CachedPinBoundToDevice ==
    \A k \in FilledKeys(store) :
        (\E r \in Verified : KeyOf[r] = k) =>
            <<store.entries[k].stamp[2], store.entries[k].secret>> \in accepted

\* From discovery to its return a verified request has the hardware for itself,
\* while it selects, prompts, verifies, answers and stores; and no request that
\* has returned keeps it (service.go:33, 164).
HardwareSerialized ==
    /\ \A r \in Verified :
          handler[r].pc \notin {"start", "lock", "end", "over"} => lock = r
    /\ \A r \in Request : At(r, "over") => lock # r

\* A cached PIN of whose refusal a handler has learnt is never presented again,
\* neither by its own request nor by one that waited meanwhile (service.go:360).
RejectedNeverRetried ==
    \A r \in Request :
        At(r, "verify") =>
            <<KeyOf[r], handler[r].cand.generation>> \notin rejected

\* "Required verification invalidates explicitly rejected PINs" (USAGE.md:29):
\* a cached PIN that a device has refused is never presented again, whether or
\* not the request still wanted to know.
RefusedNeverRetried ==
    \A r \in Request :
        At(r, "verify") =>
            <<KeyOf[r], handler[r].cand.generation>> \notin refused

\* Handle caches nothing that ssh has not received or that its user did not want
\* kept: a request for this version of the file printed and acknowledged the
\* very response before, with "Remember" ticked (service.go:396, 409-420).
CachedWasDelivered ==
    \A k \in FilledKeys(store) :
        \E r \in Cacheable :
            /\ KeyOf[r] = k /\ helper[r] = "acked"
            /\ answer[r] = Answered(store.entries[k].secret)
            /\ handler[r].remember
            /\ handler[r].base = store.entries[k].stamp[1]

\* A preference names a device that accepted a PIN which was delivered for
\* this key (service.go:406, 430; DESIGN.md:268).
PreferenceEarned ==
    \A k \in Key :
        pref[k] # NoConn =>
            \E r \in Verified :
                /\ KeyOf[r] = k /\ helper[r] = "acked"
                /\ proof[r].conn = pref[k]

\* What the service remembers of its requests: a PIN under the device that
\* accepted it, and devices for which a PIN was delivered.
ServiceInv == TypeOK /\ CachedPinBoundToDevice /\ PreferenceEarned

\* The handler throws away what a repeated Begin supplies and asks the user
\* instead.  Nothing is lost by that: the hardware lock lets nobody else store
\* a PIN meanwhile (service.go:301, 351, 364).  Only a request that was turned
\* away for a limit before may find something now.
NothingUsefulDiscarded ==
    [][\A r \in Request :
          /\ At(r, "again") /\ ~At(r, "again")'
          /\ helper[r] = "waiting" /\ handler[r].cand.reason # "capacity"
          => handler'[r].cand.reason # "hit"]_vars

OneIsCancel(r) ==
    answer[r] = Status(1) /\ helper[r] = "exited" => worker[r].dismissed

\* "Input cancellation/denial returns no bytes and status 1" (DESIGN.md:78):
\* a helper that lives to read status 1 has a user who cancelled.
StatusOneMeansCancel == \A r \in Request : OneIsCancel(r)

\* The timer of the wait view has sent nothing.
Unrefreshed(r) == used.refreshes[r] = 0

\* So it is where neither the timer has interfered nor the dialog may crash:
\* every frame is read by the view it was sent for (service.go:283).
OneUnlessDisturbed ==
    \A r \in Request \ Failing : Unrefreshed(r) => OneIsCancel(r)

\* The device a request goes on with is the one the user pointed at
\* (service.go:231), unless the timer has interfered.
SelectedAsConfirmed ==
    \A r \in Request :
        Unrefreshed(r) => handler[r].picked \in {NoConn, handler[r].selected}

\* "UI cancellation suppresses a late verification response" (DESIGN.md:118):
\* while a device verifies, a cancel never stays in the socket because the
\* reader is stuck with an earlier action; only the reader sets Cancelled().
\* Again unless the timer has interfered.
CancelHeard ==
    \A r \in Request :
        Unrefreshed(r) /\ At(r, "verify") =>
            ~ /\ ReaderBlocked(worker[r])
              /\ \E i \in DOMAIN worker[r].sent :
                    worker[r].sent[i].kind = "cancel"

\* "A worker crash ends its request" (DESIGN.md:36), at whatever point of the
\* verification it is noticed.
DialogLossEndsRequest ==
    \A r \in Request : worker[r].process = "dead" ~> At(r, "over")

\* Once its helper is gone a request ends, whatever it waits for, and does
\* not keep the hardware (service.go:166, 383).
HangupEndsRequest ==
    \A r \in Request :
        helper[r] = "gone" ~> (At(r, "over") /\ lock # r)
===========================================================================
