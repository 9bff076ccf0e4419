------------------------- MODULE PinRequestProofs -------------------------
(***************************************************************************)
(* Theorems about PinRequest for any number of requests, keys, callers and *)
(* devices.                                                                *)
(***************************************************************************)
EXTENDS PinRequest, CacheStoreProofs, SequenceTheorems

\* The places at which a request may not have the hardware lock, and those at
\* which a verified one need not.
Without == {"start", "lock", "over"}
Outside == Without \cup {"end"}

\* HardwareSerialized made inductive: the converse says that nobody holds the
\* lock who could not give it back.
HardwareInv ==
    /\ DOMAIN handler = Request
    /\ \A r \in Request : "pc" \in DOMAIN handler[r]
    /\ \A r \in Verified : handler[r].pc \notin Outside => lock = r
    /\ \A r \in Request : lock = r => handler[r].pc \notin Without

---------------------------------------------------------------------------

LEMMA HardwareInitial == Init => HardwareInv
  <1> SUFFICES ASSUME Init PROVE HardwareInv
    OBVIOUS
  <1>1. DOMAIN handler = Request /\ \A r \in Request : handler[r] = Fresh
    BY DEF Init
  <1>2. "pc" \in DOMAIN Fresh /\ Fresh.pc = "start"
    BY DEF Fresh
  <1>3. \A r \in Request : lock # r
    BY RequestsAssumption DEF Init
  <1> QED
    BY <1>1, <1>2, <1>3, RequestsAssumption DEF HardwareInv, Outside, Without

\* A step that touches neither the handlers nor the lock.
LEMMA Elsewhere ==
  ASSUME HardwareInv, handler' = handler, lock' = lock
  PROVE  HardwareInv'
  BY DEF HardwareInv

\* A step of a request that keeps the lock if it has it, and that either had to
\* have it or does not get to where it must.
LEMMA Proceeds ==
  ASSUME HardwareInv, NEW r \in Request, NEW h,
         Becomes(r, h), "pc" \in DOMAIN h,
         lock' = lock, h.pc \notin Without,
         r \in Verified => handler[r].pc \notin Outside \/ h.pc = "end"
  PROVE  HardwareInv'
  <1>1. DOMAIN handler' = Request
    BY DEF HardwareInv, Becomes
  <1>2. \A q \in Request : handler'[q] = IF q = r THEN h ELSE handler[q]
    BY DEF HardwareInv, Becomes
  <1>3. \A q \in Request : "pc" \in DOMAIN handler'[q]
    BY <1>2 DEF HardwareInv
  <1>4. \A q \in Verified : handler'[q].pc \notin Outside => lock' = q
    <2> SUFFICES ASSUME NEW q \in Verified, handler'[q].pc \notin Outside
                 PROVE  lock = q
      OBVIOUS
    <2>1. q \in Request
      BY RequestsAssumption
    <2>2. CASE q = r
      BY <1>2, <2>1, <2>2 DEF HardwareInv, Outside
    <2>3. CASE q # r
      BY <1>2, <2>1, <2>3 DEF HardwareInv
    <2> QED
      BY <2>2, <2>3
  <1>5. \A q \in Request : lock' = q => handler'[q].pc \notin Without
    BY <1>2 DEF HardwareInv
  <1> QED
    BY <1>1, <1>3, <1>4, <1>5 DEF HardwareInv

\* The same for the common case that only the place changes.
LEMMA Moves ==
  ASSUME HardwareInv, NEW r \in Request, NEW pc,
         Goto(r, pc), lock' = lock, pc \notin Without,
         r \in Verified => handler[r].pc \notin Outside \/ pc = "end"
  PROVE  HardwareInv'
  <1> DEFINE h == [handler[r] EXCEPT !.pc = pc]
  <1>1. "pc" \in DOMAIN h /\ h.pc = pc
    BY DEF HardwareInv
  <1>2. Becomes(r, h)
    BY DEF Goto
  <1> HIDE DEF h
  <1> QED
    BY <1>1, <1>2, Proceeds

LEMMA Ends ==
  ASSUME HardwareInv, NEW r \in Request, NEW code,
         Finish(r, code), lock' = lock
  PROVE  HardwareInv'
  BY Moves DEF Finish, Without

LEMMA Presents ==
  ASSUME HardwareInv, NEW r \in Request, NEW h, NEW stage \in {"wait", "choose", "input", "error"},
         Present(r, h, stage), "pc" \in DOMAIN h,
         lock' = lock, handler[r].pc \notin Outside
  PROVE  HardwareInv'
  <1>1. CASE Finish(r, 2)
    BY <1>1, Ends
  <1>2. CASE Becomes(r, [h EXCEPT !.pc = stage])
    <2> DEFINE g == [h EXCEPT !.pc = stage]
    <2>1. "pc" \in DOMAIN g /\ g.pc = stage
      OBVIOUS
    <2>2. Becomes(r, g)
      BY <1>2
    <2> HIDE DEF g
    <2> QED
      BY <2>1, <2>2, Proceeds DEF Without
  <1> QED
    BY <1>1, <1>2 DEF Present

LEMMA PresentsError ==
  ASSUME HardwareInv, NEW r \in Request, NEW h,
         PresentError(r, h), "pc" \in DOMAIN h,
         lock' = lock, handler[r].pc \notin Outside
  PROVE  HardwareInv'
  <1>1. CASE Finish(r, 1)
    BY <1>1, Ends
  <1>2. CASE Becomes(r, [h EXCEPT !.pc = "error"])
    <2> DEFINE g == [h EXCEPT !.pc = "error"]
    <2>1. "pc" \in DOMAIN g /\ g.pc = "error"
      OBVIOUS
    <2>2. Becomes(r, g)
      BY <1>2
    <2> HIDE DEF g
    <2> QED
      BY <2>1, <2>2, Proceeds DEF Without
  <1> QED
    BY <1>1, <1>2 DEF PresentError

---------------------------------------------------------------------------
(* One lemma per part of Handle.                                           *)

LEMMA LockSteps ==
  ASSUME HardwareInv, NEW r \in Request
  PROVE  /\ Accept(r) => HardwareInv'
         /\ AcquireHardware(r) => HardwareInv'
         /\ Return(r) => HardwareInv'
  <1>1. ASSUME Accept(r) PROVE HardwareInv'
    <2> DEFINE h == [handler[r] EXCEPT !.base = version[KeyOf[r]],
                        !.pc = IF r \in Verified THEN "lock" ELSE "begin"]
    <2>1. "pc" \in DOMAIN h /\ h.pc = IF r \in Verified THEN "lock" ELSE "begin"
      BY DEF HardwareInv
    <2>2. handler' = [handler EXCEPT ![r] = h] /\ lock' = lock
      BY <1>1 DEF Accept, Becomes
    <2>3. lock # r
      BY <1>1 DEF Accept, At, HardwareInv, Without
    <2> HIDE DEF h
    <2>4. \A q \in Request : handler'[q] = IF q = r THEN h ELSE handler[q]
      BY <2>2 DEF HardwareInv
    <2> QED
      BY <2>1, <2>2, <2>3, <2>4, RequestsAssumption
      DEF HardwareInv, Outside, Without
  <1>2. ASSUME AcquireHardware(r) PROVE HardwareInv'
    <2> DEFINE h == [handler[r] EXCEPT !.pc = "discover"]
    <2>1. "pc" \in DOMAIN h /\ h.pc = "discover"
      BY DEF HardwareInv
    <2>2. handler' = [handler EXCEPT ![r] = h] /\ lock' = r /\ lock = NoRequest
      BY <1>2 DEF AcquireHardware, LockFree, Goto, Becomes
    <2>3. \A q \in Verified : handler[q].pc \in Outside
      BY <2>2, RequestsAssumption DEF HardwareInv
    <2> HIDE DEF h
    <2>4. \A q \in Request : handler'[q] = IF q = r THEN h ELSE handler[q]
      BY <2>2 DEF HardwareInv
    <2> QED
      BY <2>1, <2>2, <2>3, <2>4, RequestsAssumption
      DEF HardwareInv, Outside, Without
  <1>3. ASSUME Return(r) PROVE HardwareInv'
    <2> DEFINE h == [Fresh EXCEPT !.pc = "over", !.base = handler[r].base,
                                  !.remember = handler[r].remember]
    <2>1. "pc" \in DOMAIN h /\ h.pc = "over"
      BY DEF Fresh
    <2>2. /\ handler' = [handler EXCEPT ![r] = h]
          /\ lock' = IF lock = r THEN NoRequest ELSE lock
      BY <1>3 DEF Return, Becomes
    <2> HIDE DEF h
    <2>3. \A q \in Request : handler'[q] = IF q = r THEN h ELSE handler[q]
      BY <2>2 DEF HardwareInv
    <2>4. lock' # r
      BY <2>2, RequestsAssumption
    <2>5. \A q \in Verified : handler'[q].pc \notin Outside => lock' = q
      BY <2>1, <2>2, <2>3, RequestsAssumption DEF HardwareInv, Outside, Without
    <2>6. \A q \in Request : lock' = q => handler'[q].pc \notin Without
      BY <2>2, <2>3, <2>4, RequestsAssumption DEF HardwareInv
    <2> QED
      BY <2>1, <2>2, <2>3, <2>5, <2>6 DEF HardwareInv
  <1> QED
    BY <1>1, <1>2, <1>3

LEMMA SelectionSteps ==
  ASSUME HardwareInv, NEW r \in Request
  PROVE  /\ SelectDevice(r) => HardwareInv'
         /\ CancelSelection(r) => HardwareInv'
         /\ Choose(r) => HardwareInv'
         /\ RefuseAnonymous(r) => HardwareInv'
         /\ AskCache(r) => HardwareInv'
  <1>1. ASSUME SelectDevice(r) PROVE HardwareInv'
    <2> DEFINE H(found) == [Discard(r) EXCEPT !.found = found]
               G(found) == [H(found) EXCEPT !.selected = found[1],
                                            !.pc = "selected"]
    <2>1. \A found : /\ "pc" \in DOMAIN H(found)
                     /\ "pc" \in DOMAIN G(found) /\ G(found).pc = "selected"
      BY DEF HardwareInv, Discard
    <2>2. lock' = lock /\ handler[r].pc \notin Outside
      BY <1>1 DEF SelectDevice, At, Outside, Without
    <2>3. \E found : \/ Present(r, H(found), "wait")
                     \/ Becomes(r, G(found))
                     \/ Present(r, H(found), "choose")
      BY <1>1 DEF SelectDevice
    <2>4. PICK found : \/ Present(r, H(found), "wait")
                       \/ Becomes(r, G(found))
                       \/ Present(r, H(found), "choose")
      BY <2>3
    <2> HIDE DEF H, G
    <2>5. CASE Becomes(r, G(found))
      BY <2>1, <2>2, <2>5, Proceeds DEF Without
    <2>6. CASE Present(r, H(found), "wait")
      BY <2>1, <2>2, <2>6, Presents
    <2>7. CASE Present(r, H(found), "choose")
      BY <2>1, <2>2, <2>7, Presents
    <2> QED
      BY <2>4, <2>5, <2>6, <2>7
  <1>2. ASSUME CancelSelection(r) PROVE HardwareInv'
    BY <1>2, Ends DEF CancelSelection
  <1>3. ASSUME Choose(r) PROVE HardwareInv'
    <2> DEFINE i == Heeds(r).selected
               h == [handler[r] EXCEPT !.selected = handler[r].found[i],
                                       !.picked = Heeds(r).devices[i],
                                       !.pc = "selected"]
    <2>1. "pc" \in DOMAIN h /\ h.pc = "selected"
      BY DEF HardwareInv
    <2>2. lock' = lock /\ handler[r].pc \notin Outside
      BY <1>3 DEF Choose, At, Outside, Without
    <2>3. Becomes(r, h) \/ Goto(r, "discover")
      BY <1>3 DEF Choose
    <2> HIDE DEF h
    <2> QED
      BY <2>1, <2>2, <2>3, Proceeds, Moves DEF Without
  <1>4. ASSUME RefuseAnonymous(r) PROVE HardwareInv'
    <2>1. "pc" \in DOMAIN handler[r]
      BY DEF HardwareInv
    <2>2. PresentError(r, handler[r]) /\ lock' = lock /\ handler[r].pc \notin Outside
      BY <1>4 DEF RefuseAnonymous, At, Outside, Without
    <2> QED
      BY <2>1, <2>2, PresentsError
  <1>5. ASSUME AskCache(r) PROVE HardwareInv'
    <2> DEFINE H(l) == [handler[r] EXCEPT !.cand = l, !.value = l.secret, !.pc = "top"]
    <2>1. \A l : "pc" \in DOMAIN H(l) /\ H(l).pc = "top"
      BY DEF HardwareInv
    <2>2. lock' = lock /\ handler[r].pc \notin Outside
      BY <1>5 DEF AskCache, At, Outside, Without
    <2>3. \E l : Becomes(r, H(l))
      BY <1>5 DEF AskCache
    <2> HIDE DEF H
    <2> QED
      BY <2>1, <2>2, <2>3, Proceeds DEF Without
  <1> QED
    BY <1>1, <1>2, <1>3, <1>4, <1>5

LEMMA LoopSteps ==
  ASSUME HardwareInv, NEW r \in Request
  PROVE  /\ Prompt(r) => HardwareInv'
         /\ ChangeDevice(r) => HardwareInv'
         /\ Submit(r) => HardwareInv'
         /\ CancelInput(r) => HardwareInv'
         /\ Recheck(r) => HardwareInv'
         /\ AskAgain(r) => HardwareInv'
  <1> DEFINE places == {"final", "check", "enumerate"}
  <1>0. ASSUME NEW h, "pc" \in DOMAIN h
        PROVE  "pc" \in DOMAIN Examine(r, h) /\ Examine(r, h).pc \in places
    BY <1>0 DEF Examine
  <1>1. ASSUME Prompt(r) PROVE HardwareInv'
    <2>1. "pc" \in DOMAIN handler[r] /\ lock' = lock /\ handler[r].pc \notin Outside
      BY <1>1 DEF HardwareInv, Prompt, At, Outside, Without
    <2>2. \/ Present(r, handler[r], "input")
          \/ Becomes(r, Examine(r, handler[r]))
      BY <1>1 DEF Prompt
    <2>3. CASE Becomes(r, Examine(r, handler[r]))
      BY <1>0, <2>1, <2>3, Proceeds DEF Without
    <2> QED
      BY <2>1, <2>2, <2>3, Presents
  <1>2. ASSUME ChangeDevice(r) PROVE HardwareInv'
    BY <1>2, Moves DEF ChangeDevice, At, Outside, Without
  <1>3. ASSUME Submit(r) PROVE HardwareInv'
    <2> DEFINE h == [handler[r] EXCEPT !.value = Heeds(r).value,
                                       !.remember = Heeds(r).remember]
    <2>1. "pc" \in DOMAIN h
      BY DEF HardwareInv
    <2>2. Becomes(r, Examine(r, h)) /\ lock' = lock /\ handler[r].pc \notin Outside
      BY <1>3 DEF Submit, At, Outside, Without
    <2> HIDE DEF h
    <2> QED
      BY <1>0, <2>1, <2>2, Proceeds DEF Without
  <1>4. ASSUME CancelInput(r) PROVE HardwareInv'
    BY <1>4, Ends DEF CancelInput
  <1>5. ASSUME Recheck(r) PROVE HardwareInv'
    <2> DEFINE g == [handler[r] EXCEPT !.pc = IF handler[r].pc = "check"
                                              THEN "enumerate" ELSE "final"]
               h == [handler[r] EXCEPT !.value = NoSecret, !.verdict = "none",
                                       !.pc = "again"]
    <2>1. /\ "pc" \in DOMAIN g /\ g.pc \in {"enumerate", "final"}
          /\ "pc" \in DOMAIN h /\ h.pc = "again"
      BY DEF HardwareInv
    <2>2. Becomes(r, g) \/ Becomes(r, h)
      BY <1>5 DEF Recheck
    <2>3. lock' = lock /\ handler[r].pc \notin Outside
      BY <1>5 DEF Recheck, At, Outside, Without
    <2> HIDE DEF g, h
    <2> QED
      BY <2>1, <2>2, <2>3, Proceeds DEF Without
  <1>6. ASSUME AskAgain(r) PROVE HardwareInv'
    <2> DEFINE H(l) == [handler[r] EXCEPT !.cand = l,
                          !.pc = IF handler[r].verdict = "blocked" THEN "failed"
                                 ELSE "top"]
    <2>1. \A l : "pc" \in DOMAIN H(l) /\ H(l).pc \in {"failed", "top"}
      BY DEF HardwareInv
    <2>2. \E l : Becomes(r, H(l))
      BY <1>6 DEF AskAgain
    <2>3. lock' = lock /\ handler[r].pc \notin Outside
      BY <1>6 DEF AskAgain, At, Outside, Without
    <2> HIDE DEF H
    <2> QED
      BY <2>1, <2>2, <2>3, Proceeds DEF Without
  <1> QED
    BY <1>1, <1>2, <1>3, <1>4, <1>5, <1>6

LEMMA DeviceSteps ==
  ASSUME HardwareInv, NEW r \in Request
  PROVE  /\ FindDevice(r) => HardwareInv'
         /\ AskDevice(r) => HardwareInv'
         /\ CancelledLate(r) => HardwareInv'
         /\ JudgeVerdict(r) => HardwareInv'
         /\ ReportFailure(r) => HardwareInv'
         /\ LeaveError(r) => HardwareInv'
  <1>0. "pc" \in DOMAIN handler[r]
    BY DEF HardwareInv
  <1>1. ASSUME FindDevice(r) PROVE HardwareInv'
    <2> DEFINE h == [handler[r] EXCEPT !.value = NoSecret]
    <2>1. "pc" \in DOMAIN h
      BY <1>0
    <2>2. lock' = lock /\ handler[r].pc \notin Outside
      BY <1>1 DEF FindDevice, At, Outside, Without
    <2>3. Goto(r, "verify") \/ Goto(r, "end") \/ PresentError(r, h)
      BY <1>1 DEF FindDevice
    <2> HIDE DEF h
    <2> QED
      BY <2>1, <2>2, <2>3, Moves, PresentsError DEF Without
  <1>2. ASSUME AskDevice(r) PROVE HardwareInv'
    <2> DEFINE H(v) == [handler[r] EXCEPT !.verdict = v, !.pc = "verified"]
    <2>1. \A v : "pc" \in DOMAIN H(v) /\ H(v).pc = "verified"
      BY <1>0
    <2>2. lock' = lock /\ handler[r].pc \notin Outside
      BY <1>2 DEF AskDevice, At, Outside, Without
    <2>3. \E v : Becomes(r, H(v))
      BY <1>2 DEF AskDevice
    <2> HIDE DEF H
    <2> QED
      BY <2>1, <2>2, <2>3, Proceeds DEF Without
  <1>3. ASSUME CancelledLate(r) PROVE HardwareInv'
    BY <1>3, Ends DEF CancelledLate
  <1>4. ASSUME JudgeVerdict(r) PROVE HardwareInv'
    <2> DEFINE H(p) == [[handler[r] EXCEPT !.value = NoSecret] EXCEPT !.pc = p]
               places == {"confirm", "final", "again", "failed", "top"}
    <2>1. \A p : "pc" \in DOMAIN H(p) /\ H(p).pc = p
      BY <1>0
    <2>2. lock' = lock /\ handler[r].pc \notin Outside
      BY <1>4 DEF JudgeVerdict, DiscardRefused, At, Outside, Without
    <2>3. \E p \in places : Goto(r, p) \/ Becomes(r, H(p))
      BY <1>4 DEF JudgeVerdict, DiscardRefused
    <2>4. PICK p \in places : Goto(r, p) \/ Becomes(r, H(p))
      BY <2>3
    <2>5. p \notin Without
      BY DEF Without
    <2> HIDE DEF H
    <2> QED
      BY <2>1, <2>2, <2>4, <2>5, Moves, Proceeds
  <1>5. ASSUME ReportFailure(r) PROVE HardwareInv'
    <2>1. Present(r, handler[r], "error") /\ lock' = lock /\ handler[r].pc \notin Outside
      BY <1>5 DEF ReportFailure, At, Outside, Without
    <2> QED
      BY <1>0, <2>1, Presents
  <1>6. ASSUME LeaveError(r) PROVE HardwareInv'
    BY <1>6, Ends DEF LeaveError
  <1> QED
    BY <1>1, <1>2, <1>3, <1>4, <1>5, <1>6

LEMMA AnswerSteps ==
  ASSUME HardwareInv, NEW r \in Request
  PROVE  /\ Conclude(r) => HardwareInv'
         /\ SendAnswer(r) => HardwareInv'
         /\ Acknowledged(r) => HardwareInv'
         /\ CommitAnswer(r) => HardwareInv'
         /\ SavePreference(r) => HardwareInv'
         /\ AckTimeout(r) => HardwareInv'
         /\ Abandon(r) => HardwareInv'
         /\ LoseDialog(r) => HardwareInv'
  <1>1. ASSUME Conclude(r) PROVE HardwareInv'
    BY <1>1, Moves DEF Conclude, At, Outside, Without
  <1>2. ASSUME SendAnswer(r) PROVE HardwareInv'
    BY <1>2, Moves DEF SendAnswer, At, Outside, Without
  <1>3. ASSUME Acknowledged(r) PROVE HardwareInv'
    <2>1. Goto(r, "commit") \/ Goto(r, "prefs")
      BY <1>3 DEF Acknowledged
    <2>2. lock' = lock /\ handler[r].pc \notin Outside
      BY <1>3 DEF Acknowledged, Delivered, At, Outside, Without
    <2> QED
      BY <2>1, <2>2, Moves DEF Without
  <1>4. ASSUME CommitAnswer(r) PROVE HardwareInv'
    <2> DEFINE H(b) == [handler[r] EXCEPT !.stored = b, !.pc = "prefs"]
    <2>1. \A b : "pc" \in DOMAIN H(b) /\ H(b).pc = "prefs"
      BY DEF HardwareInv
    <2>2. \E b : Becomes(r, H(b))
      BY <1>4 DEF CommitAnswer
    <2>3. lock' = lock /\ handler[r].pc \notin Outside
      BY <1>4 DEF CommitAnswer, At, Outside, Without
    <2> HIDE DEF H
    <2> QED
      BY <2>1, <2>2, <2>3, Proceeds DEF Without
  <1>5. ASSUME SavePreference(r) PROVE HardwareInv'
    BY <1>5, Moves DEF SavePreference, Without
  <1>6. ASSUME AckTimeout(r) PROVE HardwareInv'
    BY <1>6, Moves DEF AckTimeout, Without
  <1>7. ASSUME Abandon(r) PROVE HardwareInv'
    BY <1>7, Moves DEF Abandon, Without
  <1>8. ASSUME LoseDialog(r) PROVE HardwareInv'
    BY <1>8, Moves DEF LoseDialog, Without
  <1> QED
    BY <1>1, <1>2, <1>3, <1>4, <1>5, <1>6, <1>7, <1>8

---------------------------------------------------------------------------

LEMMA HandlerKeepsHardware ==
  ASSUME HardwareInv, NEW r \in Request, HandlerStep(r)
  PROVE  HardwareInv'
  <1>1. CASE PassOver(r)
    BY <1>1, Elsewhere DEF PassOver
  <1> QED
    BY <1>1, LockSteps, SelectionSteps, LoopSteps, DeviceSteps, AnswerSteps
    DEF HandlerStep

LEMMA NextKeepsHardware ==
  ASSUME HardwareInv, [Next]_vars
  PROVE  HardwareInv'
  <1>1. ASSUME NEW r \in Request, HandlerStep(r) PROVE HardwareInv'
    BY <1>1, HandlerKeepsHardware
  <1>2. ASSUME NEW r \in Request, ReadFrame(r) \/ NoticeHangup(r) PROVE HardwareInv'
    BY <1>2, Elsewhere DEF ReadFrame, NoticeHangup
  <1>3. ASSUME NEW r \in Request,
               \/ RenderView(r) \/ PressControl(r) \/ DismissDialog(r)
               \/ TimerRefreshes(r) \/ DialogDies(r)
        PROVE  HardwareInv'
    BY <1>3, Elsewhere
    DEF RenderView, PressControl, DismissDialog, TimerRefreshes, DialogDies, Dialog
  <1>4. ASSUME NEW r \in Request, HelperStep(r) \/ HelperDies(r) PROVE HardwareInv'
    BY <1>4, Elsewhere
    DEF HelperStep, HelperDies, HelperExits, HelperPrints, HelperAcknowledges,
        HelperBecomes, serviceVars
  <1>5. ASSUME \/ \E k \in Key : FileChanges(k) \/ UserForgets(k)
               \/ \E c \in Conn : DeviceMoves(c)
               \/ SweepCache
               \/ Tick
               \/ Finished
               \/ UNCHANGED vars
        PROVE  HardwareInv'
    BY <1>5, Elsewhere
    DEF FileChanges, UserForgets, DeviceMoves, SweepCache, Tick, Finished,
        vars, serviceVars
  <1> QED
    BY <1>1, <1>2, <1>3, <1>4, <1>5 DEF Next

\* Whatever requests queue for the hardware and however they end: a verified
\* request is alone with it from discovery on, and none that has returned keeps it.
THEOREM HardwareStaysSerialized == Spec => []HardwareSerialized
  <1>1. Init => HardwareInv
    BY HardwareInitial
  <1>2. HardwareInv /\ [Next]_vars => HardwareInv'
    BY NextKeepsHardware
  <1>3. HardwareInv => HardwareSerialized
    BY DEF HardwareInv, HardwareSerialized, At, Outside, Without
  <1> QED
    BY <1>1, <1>2, <1>3, PTL DEF Spec

\* Two verified requests are never between discovery and their return at once.
COROLLARY OneRequestAtTheDevices ==
  Spec => [](\A q, r \in Verified :
                /\ handler[q].pc \notin Outside
                /\ handler[r].pc \notin Outside
                => q = r)
  <1> DEFINE Alone == \A q, r \in Verified :
                /\ handler[q].pc \notin Outside
                /\ handler[r].pc \notin Outside
                => q = r
  <1>1. HardwareSerialized => Alone
    BY RequestsAssumption DEF HardwareSerialized, Outside, Without
  <1> QED
    BY <1>1, HardwareStaysSerialized, PTL
---------------------------------------------------------------------------
(* Types.  TypeOK says only what is of interest of handlers and workers;   *)
(* that it stays true rests on all of their fields, on the frames between  *)
(* dialog and service, and on the well-formed store.                       *)

Place == {"start", "lock", "begin", "discover", "wait", "choose", "selected",
          "top", "input", "check", "enumerate", "verify", "verified", "confirm",
          "again", "final", "failed", "error", "send", "sent", "commit", "prefs",
          "end", "over"}

Handler ==
    [pc       : Place,
     base     : 0..MaxChanges,
     selected : Conn \cup {NoConn},
     picked   : Conn \cup {NoConn},
     found    : Seq(Conn),
     cand     : Lookup,
     value    : Secret \cup {NoSecret},
     remember : BOOLEAN,
     verdict  : {"none", "accepted", "invalid", "blocked", "unavailable"},
     stored   : BOOLEAN]

ShownView ==
    [stage         : {"blank", "wait", "choose", "input", "busy", "error"},
     devices       : Seq(Conn),
     offerRemember : BOOLEAN,
     offerChange   : BOOLEAN]

Input == [kind : {"submit"}, value : Response, remember : BOOLEAN]

\* A frame that selects a device selects one that was on the screen.
Choice ==
    {f \in [kind     : {"shown", "cancel", "refresh", "change", "select"},
            selected : Nat,
            remember : BOOLEAN,
            devices  : Seq(Conn)] :
        f.kind = "select" => f.selected \in DOMAIN f.devices}

Worker ==
    [process   : {"none", "up", "dead", "closed"},
     views     : Seq(ShownView),
     screen    : ShownView,
     sensitive : BOOLEAN,
     sent      : Seq(Input \cup Choice),
     actions   : Seq(Input \cup Choice),
     cancelled : BOOLEAN,
     dismissed : BOOLEAN]

HandlersOK == handler \in [Request -> Handler]

WorkersOK == worker \in [Request -> Worker]

OthersOK ==
    /\ lock \in Request \cup {NoRequest}
    /\ pref \in [Key -> Conn \cup {NoConn}]
    /\ aware \subseteq Request
    /\ DOMAIN answer = Request /\ DOMAIN proof = Request
    /\ helper \in [Request -> {"waiting", "printed", "acked", "exited", "gone"}]
    /\ now \in 0..MaxNow
    /\ version \in [Key -> 0..MaxChanges]
    /\ plugged \in [Conn -> {"new", "in", "out"}]
    /\ refused \subseteq Key \X Nat /\ rejected \subseteq Key \X Nat

TypeInv == StoreOK(store) /\ HandlersOK /\ WorkersOK /\ OthersOK

---------------------------------------------------------------------------
(* Workers.                                                                *)

LEMMA WorkerFields ==
    ASSUME NEW w \in Worker
    PROVE  /\ w.process \in {"none", "up", "dead", "closed"}
           /\ w.views \in Seq(ShownView)
           /\ w.screen \in ShownView
           /\ w.sensitive \in BOOLEAN
           /\ w.sent \in Seq(Input \cup Choice)
           /\ w.actions \in Seq(Input \cup Choice)
           /\ w.cancelled \in BOOLEAN
           /\ w.dismissed \in BOOLEAN
  BY DEF Worker

LEMMA BlankShown == Blank \in ShownView
  BY DEF Blank, View, ShownView

LEMMA PlainFrames ==
    ASSUME NEW kind \in {"shown", "cancel", "refresh", "change"}
    PROVE  Frame(kind) \in Choice
  <1>1. <<>> \in Seq(Conn)
    OBVIOUS
  <1> QED
    BY <1>1 DEF Frame, Choice

LEMMA NoWorkerType == NoWorker \in Worker
  <1>1. <<>> \in Seq(ShownView) /\ <<>> \in Seq(Input \cup Choice)
    OBVIOUS
  <1> QED
    BY <1>1, BlankShown DEF NoWorker, Worker

LEMMA CloseType ==
    ASSUME NEW w \in Worker
    PROVE  Close(w) \in Worker
  BY NoWorkerType DEF Close, Worker

LEMMA ShowType ==
    ASSUME NEW w \in Worker, NEW view \in ShownView
    PROVE  Show(w, view) \in Worker
  <1>1. <<view>> \in Seq(ShownView) /\ Append(w.views, view) \in Seq(ShownView)
    BY WorkerFields
  <1> QED
    BY <1>1, NoWorkerType DEF Show, Worker

LEMMA TakeType ==
    ASSUME NEW w \in Worker, w.actions # <<>>
    PROVE  /\ Take(w) \in Worker
           /\ Head(w.actions) \in Input \cup Choice
  <1>1. w.actions \in Seq(Input \cup Choice)
    BY WorkerFields
  <1>2. Tail(w.actions) \in Seq(Input \cup Choice) /\ Head(w.actions) \in Input \cup Choice
    BY <1>1
  <1> QED
    BY <1>2 DEF Take, Worker

LEMMA ReadType ==
    ASSUME NEW w \in Worker, w.sent # <<>>
    PROVE  Read(w) \in Worker
  <1> DEFINE S == Input \cup Choice
             cancelled == w.cancelled \/ Head(w.sent).kind = "cancel"
  <1>1. w.sent \in Seq(S) /\ w.actions \in Seq(S)
    BY WorkerFields
  <1>2. Tail(w.sent) \in Seq(S) /\ Head(w.sent) \in S
    BY <1>1
  <1>3. Append(w.actions, Head(w.sent)) \in Seq(S)
    BY <1>1, <1>2
  <1>4. cancelled \in BOOLEAN
    OBVIOUS
  <1>5. Read(w) = [w EXCEPT !.sent = Tail(w.sent),
                            !.actions = Append(w.actions, Head(w.sent)),
                            !.cancelled = cancelled]
    BY DEF Read
  <1> HIDE DEF cancelled
  <1> QED
    BY <1>2, <1>3, <1>4, <1>5 DEF Worker

LEMMA RenderType ==
    ASSUME NEW w \in Worker, w.views # <<>>
    PROVE  Render(w) \in Worker
  <1>1. /\ w.views \in Seq(ShownView)
        /\ w.sent \in Seq(Input \cup Choice)
    BY WorkerFields
  <1>2. Tail(w.views) \in Seq(ShownView) /\ Head(w.views) \in ShownView
    BY <1>1
  <1>3. Append(w.sent, Frame("shown")) \in Seq(Input \cup Choice)
    BY <1>1, PlainFrames
  <1> QED
    BY <1>2, <1>3 DEF Render, Worker

\* What a control may send is a frame.
LEMMA ControlsType ==
    ASSUME NEW view \in ShownView, NEW f \in Controls(view)
    PROVE  f \in Input \cup Choice
  <1> DEFINE Selections == {[kind |-> "select", selected |-> i, remember |-> FALSE,
                             devices |-> view.devices] :
                               i \in DOMAIN view.devices}
             Submissions == {[kind |-> "submit", value |-> v, remember |-> m] :
                                v \in IF view.stage = "input" THEN Response ELSE {},
                                m \in {FALSE, view.offerRemember}}
  <1>1. CASE f \in {Frame("refresh"), Frame("change")}
    BY <1>1, PlainFrames
  <1>2. ASSUME f \in Selections PROVE f \in Choice
    <2>1. PICK i \in DOMAIN view.devices :
              f = [kind |-> "select", selected |-> i, remember |-> FALSE,
                   devices |-> view.devices]
      BY <1>2
    <2>2. view.devices \in Seq(Conn) /\ i \in Nat
      BY DEF ShownView
    <2> QED
      BY <2>1, <2>2 DEF Choice
  <1>3. ASSUME f \in Submissions PROVE f \in Input
    <2>1. PICK v \in Response, m \in {FALSE, view.offerRemember} :
              f = [kind |-> "submit", value |-> v, remember |-> m]
      BY <1>3
    <2>2. m \in BOOLEAN
      BY DEF ShownView
    <2> QED
      BY <2>1, <2>2 DEF Input
  <1>4. \/ f \in {Frame("refresh"), Frame("change")}
        \/ f \in Selections
        \/ f \in Submissions
    <2>1. f \in (IF view.stage \in {"wait", "choose"} THEN {Frame("refresh")} ELSE {})
                \cup Selections \cup Submissions
                \cup (IF view.offerChange THEN {Frame("change")} ELSE {})
      BY DEF Controls
    <2> HIDE DEF Selections, Submissions
    <2> QED
      BY <2>1
  <1> QED
    BY <1>1, <1>2, <1>3, <1>4

LEMMA PressType ==
    ASSUME NEW w \in Worker, NEW f \in Controls(w.screen)
    PROVE  Press(w, f) \in Worker
  <1>1. f \in Input \cup Choice
    BY WorkerFields, ControlsType
  <1>2. Append(w.sent, f) \in Seq(Input \cup Choice)
    BY <1>1, WorkerFields
  <1> QED
    BY <1>2 DEF Press, Worker

LEMMA DismissType ==
    ASSUME NEW w \in Worker
    PROVE  Dismiss(w) \in Worker
  <1>1. Append(w.sent, Frame("cancel")) \in Seq(Input \cup Choice)
    BY WorkerFields, PlainFrames
  <1> QED
    BY <1>1 DEF Dismiss, Worker

LEMMA AutoRefreshType ==
    ASSUME NEW w \in Worker
    PROVE  AutoRefresh(w) \in Worker
  <1>1. Append(w.sent, Frame("refresh")) \in Seq(Input \cup Choice)
    BY WorkerFields, PlainFrames
  <1> QED
    BY <1>1 DEF AutoRefresh, Worker

LEMMA CrashType ==
    ASSUME NEW w \in Worker, NEW v \in Crash(w)
    PROVE  v \in Worker
  <1>1. w.actions \in Seq(Input \cup Choice)
    BY WorkerFields
  <1>2. PICK n \in 0..Len(w.actions) :
            v = [w EXCEPT !.process = "dead", !.views = <<>>, !.sent = <<>>,
                          !.actions = SubSeq(w.actions, 1, n)]
    BY DEF Crash
  <1>3. SubSeq(w.actions, 1, n) \in Seq(Input \cup Choice)
    BY <1>1
  <1>4. <<>> \in Seq(ShownView) /\ <<>> \in Seq(Input \cup Choice)
    OBVIOUS
  <1> QED
    BY <1>2, <1>3, <1>4 DEF Worker

---------------------------------------------------------------------------
(* Every step keeps the types of the workers.                              *)

LEMMA WorkerBecomes ==
    ASSUME WorkersOK, NEW r \in Request, NEW w \in Worker,
           worker' = [worker EXCEPT ![r] = w]
    PROVE  WorkersOK'
  BY DEF WorkersOK

LEMMA FinishType ==
    ASSUME WorkersOK, NEW r \in Request, NEW code, Finish(r, code)
    PROVE  WorkersOK'
  <1>1. worker[r] \in Worker
    BY DEF WorkersOK
  <1>2. Close(worker[r]) \in Worker
    BY <1>1, CloseType
  <1> QED
    BY <1>2, WorkerBecomes DEF Finish

LEMMA ConsumeType ==
    ASSUME WorkersOK, NEW r \in Request, Consume(r), worker[r].actions # <<>>
    PROVE  WorkersOK'
  <1>1. Take(worker[r]) \in Worker
    BY TakeType DEF WorkersOK
  <1> QED
    BY <1>1, WorkerBecomes DEF Consume

\* The view is composed of what the handler has found.
LEMMA ShowsType ==
    ASSUME WorkersOK, NEW r \in Request,
           NEW stage \in {"wait", "choose", "input", "error", "busy"},
           handler'[r].found \in Seq(Conn), Shows(r, stage)
    PROVE  WorkersOK'
  <1> DEFINE h == handler'[r]
             remember == stage = "input" /\ h.cand.token # 0
             change == stage = "input" /\ r \in Verified
             devices == IF stage = "choose" THEN h.found ELSE <<>>
             view == View(stage, devices, remember, change)
  <1>1. remember \in BOOLEAN /\ change \in BOOLEAN
    OBVIOUS
  <1>2. devices \in Seq(Conn)
    OBVIOUS
  <1>3. worker' = [worker EXCEPT ![r] = Show(worker[r], view)]
    BY DEF Shows
  <1> HIDE DEF remember, change, devices
  <1>4. view \in ShownView
    BY <1>1, <1>2 DEF View, ShownView
  <1> HIDE DEF view
  <1>5. Show(worker[r], view) \in Worker
    BY <1>4, ShowType DEF WorkersOK
  <1> QED
    BY <1>3, <1>5, WorkerBecomes

---------------------------------------------------------------------------
(* Every step keeps the types of the handlers.                             *)

LEMMA HandlerFields ==
    ASSUME NEW h \in Handler
    PROVE  /\ h.pc \in Place
           /\ h.base \in 0..MaxChanges
           /\ h.selected \in Conn \cup {NoConn}
           /\ h.picked \in Conn \cup {NoConn}
           /\ h.found \in Seq(Conn)
           /\ h.cand \in Lookup
           /\ h.value \in Secret \cup {NoSecret}
           /\ h.remember \in BOOLEAN
           /\ h.stored \in BOOLEAN
  BY DEF Handler

LEMMA NoLookupType ==
    ASSUME NEW reason \in {"none", "disabled"}
    PROVE  /\ NoLookup(reason) \in Lookup
           /\ NoLookup(reason).generation = 0
           /\ NoLookup(reason).token = 0
           /\ NoLookup(reason).secret = NoSecret
  BY DEF NoLookup, Lookup

LEMMA FreshType == Fresh \in Handler
  <1>1. <<>> \in Seq(Conn) /\ 0 \in 0..MaxChanges
    BY CountersAssumption
  <1> QED
    BY <1>1, NoLookupType DEF Fresh, Handler, Place

LEMMA HandlerBecomes ==
    ASSUME HandlersOK, NEW r \in Request, NEW h \in Handler, Becomes(r, h)
    PROVE  HandlersOK'
  BY DEF HandlersOK, Becomes

LEMMA HandlerGoes ==
    ASSUME HandlersOK, NEW r \in Request, NEW pc \in Place, Goto(r, pc)
    PROVE  HandlersOK'
  <1> DEFINE h == [handler[r] EXCEPT !.pc = pc]
  <1>1. h \in Handler
    BY DEF HandlersOK, Handler
  <1>2. Becomes(r, h)
    BY DEF Goto
  <1> HIDE DEF h
  <1> QED
    BY <1>1, <1>2, HandlerBecomes

LEMMA HandlerFinishes ==
    ASSUME HandlersOK, NEW r \in Request, NEW code, Finish(r, code)
    PROVE  HandlersOK'
  BY HandlerGoes DEF Finish, Place

LEMMA HandlerPresents ==
    ASSUME HandlersOK, NEW r \in Request, NEW h \in Handler,
           NEW stage \in {"wait", "choose", "input", "error"},
           Present(r, h, stage)
    PROVE  HandlersOK'
  <1>1. CASE Finish(r, 2)
    BY <1>1, HandlerFinishes
  <1>2. CASE Becomes(r, [h EXCEPT !.pc = stage])
    <2>1. [h EXCEPT !.pc = stage] \in Handler
      BY DEF Handler, Place
    <2> QED
      BY <1>2, <2>1, HandlerBecomes
  <1> QED
    BY <1>1, <1>2 DEF Present

LEMMA HandlerPresentsError ==
    ASSUME HandlersOK, NEW r \in Request, NEW h \in Handler,
           PresentError(r, h)
    PROVE  HandlersOK'
  <1>1. CASE Finish(r, 1)
    BY <1>1, HandlerFinishes
  <1>2. CASE Becomes(r, [h EXCEPT !.pc = "error"])
    <2>1. [h EXCEPT !.pc = "error"] \in Handler
      BY DEF Handler, Place
    <2> QED
      BY <1>2, <2>1, HandlerBecomes
  <1> QED
    BY <1>1, <1>2 DEF PresentError

LEMMA DiscoveredType ==
    ASSUME NEW found \in Discovered
    PROVE  found \in Seq(Conn)
  <1>1. PICK n \in 0..Cardinality(Openable) :
            \E at \in [1..n -> Openable] : found = [i \in 1..n |-> Bus[at[i]]]
    BY DEF Discovered
  <1>2. PICK at \in [1..n -> Openable] : found = [i \in 1..n |-> Bus[at[i]]]
    BY <1>1
  <1>3. n \in Nat
    OBVIOUS
  <1>4. \A i \in 1..n : Bus[at[i]] \in Conn
    BY <1>2 DEF Openable, Conn
  <1> QED
    BY <1>2, <1>3, <1>4

LEMMA IdentifiedType ==
    ASSUME HandlersOK, NEW r \in Request
    PROVE  /\ Identified(r) \in Identity
           /\ Identified(r).key = KeyOf[r]
           /\ CallerOf[r] \in Caller
  <1> DEFINE c == IF r \in Verified THEN handler[r].selected ELSE NoConn
  <1>1. handler[r].base \in 0..MaxChanges /\ c \in Conn \cup {NoConn}
    BY HandlerFields DEF HandlersOK
  <1>2. KeyOf[r] \in Key /\ CallerOf[r] \in Caller
    BY RequestsAssumption
  <1>3. Identified(r) = [key |-> KeyOf[r], stamp |-> <<handler[r].base, c>>]
    BY DEF Identified
  <1> HIDE DEF c
  <1>4. <<handler[r].base, c>> \in Stamp
    BY <1>1, StampAssumption
  <1> QED
    BY <1>2, <1>3, <1>4 DEF Identity

\* The frame a handler heeds is a frame; what it selects was on the screen.
LEMMA HeedsType ==
    ASSUME WorkersOK, NEW r \in Request, Heard(r)
    PROVE  Heeds(r) \in Input \cup Choice
  BY TakeType DEF WorkersOK, Heard, Heeds

\* A handler that goes on with another version of the file, another verdict.
LEMMA HandlerMoves ==
    ASSUME NEW h \in Handler, NEW p \in Place
    PROVE  /\ \A b \in 0..MaxChanges : [h EXCEPT !.base = b, !.pc = p] \in Handler
           /\ \A v \in {"accepted", "invalid", "blocked", "unavailable"} :
                 [h EXCEPT !.verdict = v, !.pc = p] \in Handler
  <1>1. ASSUME NEW b \in 0..MaxChanges
        PROVE  [h EXCEPT !.base = b, !.pc = p] \in Handler
    BY DEF Handler
  <1>2. ASSUME NEW v \in {"accepted", "invalid", "blocked", "unavailable"}
        PROVE  [h EXCEPT !.verdict = v, !.pc = p] \in Handler
    BY DEF Handler
  <1> QED
    BY <1>1, <1>2

\* What a lease or a candidate is begun with.
LEMMA StoreExpires ==
    ASSUME TypeInv, NEW s \in Expire(store, now)
    PROVE  StoreOK(s) /\ Ages(store, s) /\ s \in Store /\ store \in Store /\ now \in Nat
  <1>1. now \in Nat /\ StoreOK(store)
    BY CountersAssumption DEF TypeInv, OthersOK
  <1> QED
    BY <1>1, ExpireOK, ExpireAges DEF StoreOK

LEMMA BeginType ==
    ASSUME TypeInv, NEW r \in Request, NEW s \in Expire(store, now)
    PROVE  Begin(s, now, Identified(r), CallerOf[r]).lookup \in Lookup
  <1>1. StoreOK(s) /\ now \in Nat
    BY StoreExpires
  <1>2. Identified(r) \in Identity /\ CallerOf[r] \in Caller
    BY IdentifiedType DEF TypeInv
  <1> QED
    BY <1>1, <1>2, BeginAges

LEMMA EarlyHandlers ==
  ASSUME TypeInv, NEW r \in Request
  PROVE  /\ Accept(r) => HandlersOK'
         /\ AcquireHardware(r) => HandlersOK'
         /\ SelectDevice(r) => HandlersOK'
         /\ CancelSelection(r) => HandlersOK'
         /\ Choose(r) => HandlersOK'
         /\ RefuseAnonymous(r) => HandlersOK'
         /\ AskCache(r) => HandlersOK'
  <1> DEFINE g == handler[r]
  <1>0. HandlersOK /\ WorkersOK /\ g \in Handler
    BY DEF TypeInv, HandlersOK
  <1>1. ASSUME Accept(r) PROVE HandlersOK'
    <2> DEFINE pc == IF r \in Verified THEN "lock" ELSE "begin"
               h == [g EXCEPT !.base = version[KeyOf[r]], !.pc = pc]
    <2>1. version[KeyOf[r]] \in 0..MaxChanges /\ pc \in Place
      BY RequestsAssumption DEF TypeInv, OthersOK, Place
    <2>2. Becomes(r, h)
      BY <1>1 DEF Accept
    <2> HIDE DEF pc
    <2>3. h \in Handler
      BY <1>0, <2>1, HandlerMoves
    <2> HIDE DEF h
    <2> QED
      BY <1>0, <2>2, <2>3, HandlerBecomes
  <1>2. ASSUME AcquireHardware(r) PROVE HandlersOK'
    BY <1>0, <1>2, HandlerGoes DEF AcquireHardware, Place
  <1>3. ASSUME SelectDevice(r) PROVE HandlersOK'
    <2> DEFINE H(found) == [Discard(r) EXCEPT !.found = found]
               G(found) == [H(found) EXCEPT !.selected = found[1],
                                            !.pc = "selected"]
    <2>1. \E found \in Discovered :
             \/ Present(r, H(found), "wait")
             \/ Becomes(r, G(found)) /\ Len(found) = 1
             \/ Present(r, H(found), "choose")
      BY <1>3 DEF SelectDevice
    <2>2. PICK found \in Discovered :
             \/ Present(r, H(found), "wait")
             \/ Becomes(r, G(found)) /\ Len(found) = 1
             \/ Present(r, H(found), "choose")
      BY <2>1
    <2>3. found \in Seq(Conn)
      BY DiscoveredType
    <2>4. H(found) \in Handler
      <3>1. Discard(r) \in Handler
        BY <1>0 DEF Discard, Handler
      <3> QED
        BY <2>3, <3>1 DEF Handler
    <2> HIDE DEF H
    <2>5. Len(found) = 1 => G(found) \in Handler
      <3>1. Len(found) = 1 => found[1] \in Conn
        BY <2>3
      <3> QED
        BY <2>4, <3>1 DEF Handler, Place
    <2> HIDE DEF G
    <2> QED
      BY <1>0, <2>2, <2>4, <2>5, HandlerBecomes, HandlerPresents
  <1>4. ASSUME CancelSelection(r) PROVE HandlersOK'
    BY <1>0, <1>4, HandlerFinishes DEF CancelSelection
  <1>5. ASSUME Choose(r) PROVE HandlersOK'
    <2> DEFINE i == Heeds(r).selected
               h == [g EXCEPT !.selected = g.found[i],
                              !.picked = Heeds(r).devices[i],
                              !.pc = "selected"]
    <2>1. CASE Goto(r, "discover")
      BY <1>0, <2>1, HandlerGoes DEF Place
    <2>2. CASE Selects(r) /\ Becomes(r, h)
      <3>1. Heeds(r) \in Input \cup Choice /\ Heeds(r).kind = "select"
        BY <1>0, <1>5, <2>2, HeedsType DEF Choose, Selects
      <3>2. Heeds(r) \notin Input
        BY <3>1 DEF Input
      <3>3. Heeds(r).devices \in Seq(Conn) /\ i \in DOMAIN Heeds(r).devices
        BY <3>1, <3>2 DEF Choice
      <3>4. i \in DOMAIN g.found /\ g.found \in Seq(Conn)
        BY <1>0, <2>2, HandlerFields DEF Selects
      <3>5. g.found[i] \in Conn /\ Heeds(r).devices[i] \in Conn
        BY <3>3, <3>4
      <3>6. h \in Handler
        BY <1>0, <3>5 DEF Handler, Place
      <3> HIDE DEF h
      <3> QED
        BY <1>0, <2>2, <3>6, HandlerBecomes
    <2> QED
      BY <1>5, <2>1, <2>2 DEF Choose
  <1>6. ASSUME RefuseAnonymous(r) PROVE HandlersOK'
    BY <1>0, <1>6, HandlerPresentsError DEF RefuseAnonymous
  <1>7. ASSUME AskCache(r) PROVE HandlersOK'
    <2> DEFINE H(l) == [g EXCEPT !.cand = l, !.value = l.secret, !.pc = "top"]
    <2>1. \A l \in Lookup : H(l) \in Handler
      <3>1. "top" \in Place /\ \A l \in Lookup : l.secret \in Secret \cup {NoSecret}
        BY DEF Place, Lookup
      <3> QED
        BY <1>0, <3>1 DEF Handler
    <2>2. \E l \in Lookup : Becomes(r, H(l))
      <3>1. CASE r \in Cacheable
        <4>1. PICK s \in Expire(store, now) :
                 Becomes(r, H(Begin(s, now, Identified(r), CallerOf[r]).lookup))
          BY <1>7, <3>1 DEF AskCache
        <4> QED
          BY <4>1, BeginType
      <3>2. CASE r \notin Cacheable
        <4>1. Becomes(r, H(NoLookup("none")))
          BY <1>7, <3>2 DEF AskCache
        <4> QED
          BY <4>1, NoLookupType
      <3> QED
        BY <3>1, <3>2
    <2> HIDE DEF H
    <2> QED
      BY <1>0, <2>1, <2>2, HandlerBecomes
  <1> QED
    BY <1>1, <1>2, <1>3, <1>4, <1>5, <1>6, <1>7

LEMMA ExamineType ==
    ASSUME NEW r \in Request, NEW h \in Handler
    PROVE  Examine(r, h) \in Handler
  BY DEF Examine, Handler, Place

LEMMA LoopHandlers ==
  ASSUME TypeInv, NEW r \in Request
  PROVE  /\ Prompt(r) => HandlersOK'
         /\ ChangeDevice(r) => HandlersOK'
         /\ Submit(r) => HandlersOK'
         /\ CancelInput(r) => HandlersOK'
         /\ Recheck(r) => HandlersOK'
         /\ AskAgain(r) => HandlersOK'
  <1> DEFINE g == handler[r]
  <1>0. HandlersOK /\ WorkersOK /\ g \in Handler
    BY DEF TypeInv, HandlersOK
  <1>1. ASSUME Prompt(r) PROVE HandlersOK'
    BY <1>0, <1>1, ExamineType, HandlerBecomes, HandlerPresents DEF Prompt
  <1>2. ASSUME ChangeDevice(r) PROVE HandlersOK'
    BY <1>0, <1>2, HandlerGoes DEF ChangeDevice, Place
  <1>3. ASSUME Submit(r) PROVE HandlersOK'
    <2> DEFINE h == [g EXCEPT !.value = Heeds(r).value,
                              !.remember = Heeds(r).remember]
    <2>1. Heeds(r) \in Input \cup Choice /\ Heeds(r).kind = "submit"
      BY <1>0, <1>3, HeedsType DEF Submit
    <2>2. Heeds(r) \in Input
      BY <2>1 DEF Choice
    <2>3. Heeds(r).value \in Secret \cup {NoSecret} /\ Heeds(r).remember \in BOOLEAN
      BY <2>2, ResponseAssumption DEF Input
    <2>4. h \in Handler
      BY <1>0, <2>3 DEF Handler
    <2>5. Becomes(r, Examine(r, h))
      BY <1>3 DEF Submit
    <2> HIDE DEF h
    <2> QED
      BY <1>0, <2>4, <2>5, ExamineType, HandlerBecomes
  <1>4. ASSUME CancelInput(r) PROVE HandlersOK'
    BY <1>0, <1>4, HandlerFinishes DEF CancelInput
  <1>5. ASSUME Recheck(r) PROVE HandlersOK'
    <2> DEFINE pc == IF g.pc = "check" THEN "enumerate" ELSE "final"
               h == [g EXCEPT !.pc = pc]
               k == [g EXCEPT !.value = NoSecret, !.verdict = "none", !.pc = "again"]
    <2>1. h \in Handler /\ k \in Handler
      <3>1. pc \in Place
        BY DEF Place
      <3> HIDE DEF pc
      <3>2. h \in Handler
        BY <1>0, <3>1 DEF Handler
      <3>3. k \in Handler
        BY <1>0 DEF Handler, Place
      <3> QED
        BY <3>2, <3>3
    <2>2. Becomes(r, h) \/ Becomes(r, k)
      BY <1>5 DEF Recheck
    <2> HIDE DEF h, k
    <2> QED
      BY <1>0, <2>1, <2>2, HandlerBecomes
  <1>6. ASSUME AskAgain(r) PROVE HandlersOK'
    <2> DEFINE pc == IF g.verdict = "blocked" THEN "failed" ELSE "top"
               H(l) == [g EXCEPT !.cand = l, !.pc = pc]
    <2>1. \A l \in Lookup : H(l) \in Handler
      <3>1. pc \in Place
        BY DEF Place
      <3> HIDE DEF pc
      <3> QED
        BY <1>0, <3>1 DEF Handler
    <2>2. PICK s \in Expire(store, now) :
             Becomes(r, H(Begin(s, now, Identified(r), CallerOf[r]).lookup))
      BY <1>6 DEF AskAgain
    <2> HIDE DEF H
    <2> QED
      BY <1>0, <2>1, <2>2, BeginType, HandlerBecomes
  <1> QED
    BY <1>1, <1>2, <1>3, <1>4, <1>5, <1>6

LEMMA DeviceHandlers ==
  ASSUME TypeInv, NEW r \in Request
  PROVE  /\ FindDevice(r) => HandlersOK'
         /\ AskDevice(r) => HandlersOK'
         /\ CancelledLate(r) => HandlersOK'
         /\ JudgeVerdict(r) => HandlersOK'
         /\ ReportFailure(r) => HandlersOK'
         /\ LeaveError(r) => HandlersOK'
  <1> DEFINE g == handler[r]
             cleared == [g EXCEPT !.value = NoSecret]
  <1>0. HandlersOK /\ WorkersOK /\ g \in Handler
    BY DEF TypeInv, HandlersOK
  <1>00. cleared \in Handler
    BY <1>0 DEF Handler
  <1>1. ASSUME FindDevice(r) PROVE HandlersOK'
    <2>1. Goto(r, "verify") \/ Goto(r, "end") \/ PresentError(r, cleared)
      BY <1>1 DEF FindDevice
    <2>2. "verify" \in Place /\ "end" \in Place
      BY DEF Place
    <2>3. Goto(r, "verify") \/ Goto(r, "end") => HandlersOK'
      BY <1>0, <2>2, HandlerGoes
    <2> HIDE DEF cleared
    <2> QED
      BY <1>0, <1>00, <2>1, <2>3, HandlerPresentsError
  <1>2. ASSUME AskDevice(r) PROVE HandlersOK'
    <2> DEFINE H(v) == [g EXCEPT !.verdict = v, !.pc = "verified"]
    <2>1. \A v \in {"accepted", "invalid", "blocked", "unavailable"} : H(v) \in Handler
      <3>1. "verified" \in Place
        BY DEF Place
      <3> QED
        BY <1>0, <3>1, HandlerMoves
    <2>2. \E v \in Verdicts(r) : Becomes(r, H(v))
      BY <1>2 DEF AskDevice
    <2>3. Verdicts(r) \subseteq {"accepted", "invalid", "blocked", "unavailable"}
      BY DEF Verdicts
    <2> HIDE DEF H
    <2> QED
      BY <1>0, <2>1, <2>2, <2>3, HandlerBecomes
  <1>3. ASSUME CancelledLate(r) PROVE HandlersOK'
    BY <1>0, <1>3, HandlerFinishes DEF CancelledLate
  <1>4. ASSUME JudgeVerdict(r) PROVE HandlersOK'
    <2> DEFINE H(p) == [cleared EXCEPT !.pc = p]
               places == {"confirm", "final", "again", "failed", "top"}
    <2>1. \E p \in places : Goto(r, p) \/ Becomes(r, H(p))
      BY <1>4 DEF JudgeVerdict, DiscardRefused
    <2> HIDE DEF cleared
    <2>2. \A p \in places : H(p) \in Handler
      BY <1>00 DEF Handler, Place
    <2> HIDE DEF H
    <2>3. places \subseteq Place
      BY DEF Place
    <2> HIDE DEF places
    <2> QED
      BY <1>0, <2>1, <2>2, <2>3, HandlerGoes, HandlerBecomes
  <1>5. ASSUME ReportFailure(r) PROVE HandlersOK'
    BY <1>0, <1>5, HandlerPresents DEF ReportFailure
  <1>6. ASSUME LeaveError(r) PROVE HandlersOK'
    BY <1>0, <1>6, HandlerFinishes DEF LeaveError
  <1> QED
    BY <1>1, <1>2, <1>3, <1>4, <1>5, <1>6

LEMMA LateHandlers ==
  ASSUME TypeInv, NEW r \in Request
  PROVE  /\ Conclude(r) => HandlersOK'
         /\ SendAnswer(r) => HandlersOK'
         /\ Acknowledged(r) => HandlersOK'
         /\ CommitAnswer(r) => HandlersOK'
         /\ SavePreference(r) => HandlersOK'
         /\ AckTimeout(r) => HandlersOK'
         /\ Abandon(r) => HandlersOK'
         /\ LoseDialog(r) => HandlersOK'
         /\ Return(r) => HandlersOK'
  <1> DEFINE g == handler[r]
  <1>0. HandlersOK /\ g \in Handler
    BY DEF TypeInv, HandlersOK
  <1>1. ASSUME \/ Conclude(r) \/ SendAnswer(r) \/ SavePreference(r) \/ AckTimeout(r)
               \/ Abandon(r) \/ LoseDialog(r) \/ Acknowledged(r)
        PROVE  HandlersOK'
    <2>1. \E pc \in {"send", "sent", "end", "commit", "prefs"} : Goto(r, pc)
      BY <1>1 DEF Conclude, SendAnswer, SavePreference, AckTimeout, Abandon,
                  LoseDialog, Acknowledged
    <2> QED
      BY <1>0, <2>1, HandlerGoes DEF Place
  <1>2. ASSUME CommitAnswer(r) PROVE HandlersOK'
    <2> DEFINE c(s) == Commit(s, now, g.cand.token, Identified(r), CallerOf[r], g.value)
               H(b) == [g EXCEPT !.stored = b, !.pc = "prefs"]
    <2>1. PICK s \in Expire(store, now) : Becomes(r, H(c(s).stored))
      BY <1>2 DEF CommitAnswer
    <2>2. c(s).stored \in BOOLEAN
      <3>1. StoreOK(s) /\ now \in Nat
        BY StoreExpires
      <3>2. Identified(r) \in Identity /\ CallerOf[r] \in Caller
        BY <1>0, IdentifiedType
      <3>3. g.value \in Secret \cup {NoSecret}
        BY <1>0, HandlerFields
      <3> QED
        BY <3>1, <3>2, <3>3, CommitFills
    <2>3. \A b \in BOOLEAN : H(b) \in Handler
      BY <1>0 DEF Handler, Place
    <2> HIDE DEF c, H
    <2> QED
      BY <1>0, <2>1, <2>2, <2>3, HandlerBecomes
  <1>3. ASSUME Return(r) PROVE HandlersOK'
    <2> DEFINE h == [Fresh EXCEPT !.pc = "over", !.base = g.base,
                                  !.remember = g.remember]
    <2>1. g.base \in 0..MaxChanges /\ g.remember \in BOOLEAN
      BY <1>0, HandlerFields
    <2>2. h \in Handler
      BY <2>1, FreshType DEF Handler, Place
    <2>3. Becomes(r, h)
      BY <1>3 DEF Return
    <2> HIDE DEF h
    <2> QED
      BY <1>0, <2>2, <2>3, HandlerBecomes
  <1> QED
    BY <1>1, <1>2, <1>3

LEMMA HandlersKept ==
  ASSUME TypeInv, [Next]_vars
  PROVE  HandlersOK'
  <1>1. ASSUME handler' = handler PROVE HandlersOK'
    BY <1>1 DEF TypeInv, HandlersOK
  <1>2. ASSUME NEW r \in Request, HandlerStep(r) PROVE HandlersOK'
    <2>1. CASE PassOver(r)
      BY <1>1, <2>1 DEF PassOver
    <2> QED
      BY <1>2, <2>1, EarlyHandlers, LoopHandlers, DeviceHandlers, LateHandlers
      DEF HandlerStep
  <1>3. ASSUME NEW r \in Request,
               \/ ReadFrame(r) \/ NoticeHangup(r)
               \/ RenderView(r) \/ PressControl(r) \/ DismissDialog(r)
               \/ TimerRefreshes(r) \/ DialogDies(r)
        PROVE  HandlersOK'
    BY <1>1, <1>3
    DEF ReadFrame, NoticeHangup, RenderView, PressControl, DismissDialog,
        TimerRefreshes, DialogDies, Dialog
  <1>4. ASSUME NEW r \in Request, HelperStep(r) \/ HelperDies(r)
        PROVE  HandlersOK'
    BY <1>1, <1>4
    DEF HelperStep, HelperDies, HelperExits, HelperPrints, HelperAcknowledges,
        HelperBecomes, serviceVars
  <1>5. ASSUME \/ \E k \in Key : FileChanges(k) \/ UserForgets(k)
               \/ \E c \in Conn : DeviceMoves(c)
               \/ SweepCache
               \/ Tick
               \/ Finished
               \/ UNCHANGED vars
        PROVE  HandlersOK'
    BY <1>1, <1>5
    DEF FileChanges, UserForgets, DeviceMoves, SweepCache, Tick, Finished,
        vars, serviceVars
  <1> QED
    BY <1>2, <1>3, <1>4, <1>5 DEF Next

---------------------------------------------------------------------------
(* Every step keeps the types of the dialogs.                              *)

LEMMA WorkerPresents ==
    ASSUME WorkersOK, NEW r \in Request, HandlersOK',
           NEW h, NEW stage \in {"wait", "choose", "input", "error"},
           Present(r, h, stage)
    PROVE  WorkersOK'
  <1>1. CASE Finish(r, 2)
    BY <1>1, FinishType
  <1>2. CASE Shows(r, stage)
    <2>1. handler'[r].found \in Seq(Conn)
      BY HandlerFields DEF HandlersOK
    <2> QED
      BY <1>2, <2>1, ShowsType
  <1> QED
    BY <1>1, <1>2 DEF Present

LEMMA WorkerPresentsError ==
    ASSUME WorkersOK, NEW r \in Request, HandlersOK', NEW h, PresentError(r, h)
    PROVE  WorkersOK'
  <1>1. CASE Finish(r, 1)
    BY <1>1, FinishType
  <1>2. CASE Shows(r, "error")
    <2>1. handler'[r].found \in Seq(Conn)
      BY HandlerFields DEF HandlersOK
    <2> QED
      BY <1>2, <2>1, ShowsType
  <1> QED
    BY <1>1, <1>2 DEF PresentError

LEMMA HandlerKeepsWorkers ==
  ASSUME WorkersOK, NEW r \in Request, HandlersOK', HandlerStep(r)
  PROVE  WorkersOK'
  <1>1. CASE worker' = worker
    BY <1>1 DEF WorkersOK
  <1>2. CASE \E code : Finish(r, code)
    BY <1>2, FinishType
  <1>3. CASE Consume(r) /\ worker[r].actions # <<>>
    BY <1>3, ConsumeType
  <1>4. CASE \E h : PresentError(r, h)
    BY <1>4, WorkerPresentsError
  <1>5. CASE \E h : \E stage \in {"wait", "choose", "input", "error"} :
                Present(r, h, stage)
    BY <1>5, WorkerPresents
  <1>6. CASE Shows(r, "busy")
    <2>1. handler'[r].found \in Seq(Conn)
      BY HandlerFields DEF HandlersOK
    <2> QED
      BY <1>6, <2>1, ShowsType
  <1>7. CASE worker' = [worker EXCEPT ![r] = Close(worker[r])]
    <2>1. Close(worker[r]) \in Worker
      BY CloseType DEF WorkersOK
    <2> QED
      BY <1>7, <2>1, WorkerBecomes
  <1>8. ASSUME \/ Accept(r) \/ AcquireHardware(r) \/ AskCache(r) \/ Recheck(r)
               \/ AskAgain(r) \/ AskDevice(r) \/ JudgeVerdict(r) \/ Conclude(r)
               \/ Acknowledged(r) \/ CommitAnswer(r) \/ SavePreference(r)
               \/ AckTimeout(r) \/ Abandon(r) \/ LoseDialog(r)
        PROVE  worker' = worker
    BY <1>8
    DEF Accept, AcquireHardware, AskCache, Recheck, AskAgain, AskDevice,
        JudgeVerdict, DiscardRefused, Conclude, Acknowledged, CommitAnswer,
        SavePreference,
        AckTimeout, Abandon, LoseDialog
  <1>9. ASSUME CancelSelection(r) \/ CancelInput(r) \/ CancelledLate(r) \/ LeaveError(r)
        PROVE  \E code : Finish(r, code)
    BY <1>9 DEF CancelSelection, CancelInput, CancelledLate, LeaveError
  <1>10. ASSUME Choose(r) \/ ChangeDevice(r) \/ Submit(r) \/ PassOver(r)
         PROVE  Consume(r) /\ worker[r].actions # <<>>
    BY <1>10 DEF Choose, ChangeDevice, Submit, PassOver, Heard
  <1>11. ASSUME SelectDevice(r) \/ Prompt(r) \/ ReportFailure(r)
         PROVE  \/ worker' = worker
                \/ \E h : \E stage \in {"wait", "choose", "input", "error"} :
                      Present(r, h, stage)
    BY <1>11 DEF SelectDevice, Prompt, ReportFailure
  <1>12. ASSUME RefuseAnonymous(r) \/ FindDevice(r)
         PROVE  worker' = worker \/ Shows(r, "busy") \/ \E h : PresentError(r, h)
    BY <1>12 DEF RefuseAnonymous, FindDevice
  <1>13. ASSUME SendAnswer(r) \/ Return(r)
         PROVE  worker' = [worker EXCEPT ![r] = Close(worker[r])]
    BY <1>13 DEF SendAnswer, Return
  <1> QED
    BY <1>1, <1>2, <1>3, <1>4, <1>5, <1>6, <1>7, <1>8, <1>9, <1>10, <1>11,
       <1>12, <1>13 DEF HandlerStep

LEMMA WorkersKept ==
  ASSUME TypeInv, HandlersOK', [Next]_vars
  PROVE  WorkersOK'
  <1>0. WorkersOK
    BY DEF TypeInv
  <1>1. ASSUME worker' = worker PROVE WorkersOK'
    BY <1>0, <1>1 DEF WorkersOK
  <1>2. ASSUME NEW r \in Request, HandlerStep(r) PROVE WorkersOK'
    BY <1>0, <1>2, HandlerKeepsWorkers
  <1>3. ASSUME NEW r \in Request, ReadFrame(r) PROVE WorkersOK'
    <2>1. Read(worker[r]) \in Worker
      BY <1>0, <1>3, ReadType DEF ReadFrame, WorkersOK
    <2> QED
      BY <1>0, <1>3, <2>1, WorkerBecomes DEF ReadFrame
  <1>4. ASSUME NEW r \in Request,
               \/ RenderView(r) \/ PressControl(r) \/ DismissDialog(r)
               \/ TimerRefreshes(r) \/ DialogDies(r)
        PROVE  WorkersOK'
    <2>1. worker[r] \in Worker
      BY <1>0 DEF WorkersOK
    <2>2. ASSUME NEW w \in Worker, Dialog(r, w) PROVE WorkersOK'
      BY <1>0, <2>2, WorkerBecomes DEF Dialog
    <2>3. CASE RenderView(r)
      BY <2>1, <2>2, <2>3, RenderType DEF RenderView
    <2>4. CASE PressControl(r)
      BY <2>1, <2>2, <2>4, PressType DEF PressControl
    <2>5. CASE DismissDialog(r)
      BY <2>1, <2>2, <2>5, DismissType DEF DismissDialog
    <2>6. CASE TimerRefreshes(r)
      BY <2>1, <2>2, <2>6, AutoRefreshType DEF TimerRefreshes
    <2>7. CASE DialogDies(r)
      BY <2>1, <2>2, <2>7, CrashType DEF DialogDies
    <2> QED
      BY <1>4, <2>3, <2>4, <2>5, <2>6, <2>7
  <1>5. ASSUME NEW r \in Request, NoticeHangup(r) \/ HelperStep(r) \/ HelperDies(r)
        PROVE  WorkersOK'
    BY <1>1, <1>5
    DEF NoticeHangup, HelperStep, HelperDies, HelperExits, HelperPrints,
        HelperAcknowledges, HelperBecomes, serviceVars
  <1>6. ASSUME \/ \E k \in Key : FileChanges(k) \/ UserForgets(k)
               \/ \E c \in Conn : DeviceMoves(c)
               \/ SweepCache
               \/ Tick
               \/ Finished
               \/ UNCHANGED vars
        PROVE  WorkersOK'
    BY <1>1, <1>6
    DEF FileChanges, UserForgets, DeviceMoves, SweepCache, Tick, Finished,
        vars, serviceVars
  <1> QED
    BY <1>2, <1>3, <1>4, <1>5, <1>6 DEF Next

---------------------------------------------------------------------------
(* Every step keeps the store well-formed.  It lets entries age, or it is  *)
(* the commit of a response that was printed.                              *)

Commits(r) ==
    /\ At(r, "commit")
    /\ handler'[r].pc = "prefs"
    /\ Filled(store, store', Identified(r), handler[r].value)

StoreStep ==
    /\ StoreOK(store')
    /\ Ages(store, store') \/ \E r \in Request : Commits(r)

LEMMA StoreSame ==
  ASSUME TypeInv, store' = store
  PROVE  StoreStep
  <1>1. StoreOK(store) /\ store \in Store
    BY DEF TypeInv, StoreOK
  <1> QED
    BY <1>1, AgesReflexive DEF StoreStep

LEMMA DropCandidateAges ==
  ASSUME TypeInv, NEW r \in Request
  PROVE  StoreOK(DropCandidate(r)) /\ Ages(store, DropCandidate(r))
  <1>1. StoreOK(store) /\ store \in Store /\ Identified(r) \in Identity
    BY IdentifiedType DEF TypeInv, StoreOK
  <1> QED
    BY <1>1, AgesReflexive, RejectOK, RejectAges DEF DropCandidate

LEMMA LookupSteps ==
  ASSUME TypeInv, NEW r \in Request
  PROVE  /\ AskCache(r) => StoreStep
         /\ Recheck(r) => StoreStep
         /\ AskAgain(r) => StoreStep
  <1>1. ASSUME NEW s \in Expire(store, now),
               store' = Begin(s, now, Identified(r), CallerOf[r]).store
        PROVE  StoreStep
    <2>1. /\ StoreOK(s) /\ Ages(store, s) /\ s \in Store /\ store \in Store
          /\ now \in Nat
      BY StoreExpires
    <2>2. Identified(r) \in Identity /\ CallerOf[r] \in Caller
      BY IdentifiedType DEF TypeInv
    <2>3. StoreOK(store') /\ Ages(s, store')
      BY <1>1, <2>1, <2>2, BeginOK, BeginAges
    <2>4. store' \in Store
      BY <2>3 DEF StoreOK
    <2>5. Ages(store, store')
      BY <2>1, <2>3, <2>4, AgesTransitive
    <2> QED
      BY <2>3, <2>5 DEF StoreStep
  <1>2. ASSUME AskCache(r) PROVE StoreStep
    <2>1. CASE r \in Cacheable
      BY <1>1, <1>2, <2>1 DEF AskCache
    <2>2. CASE r \notin Cacheable
      BY <1>2, <2>2, StoreSame DEF AskCache
    <2> QED
      BY <2>1, <2>2
  <1>3. ASSUME Recheck(r) PROVE StoreStep
    <2>1. store' \in Expire(store, now)
      BY <1>3 DEF Recheck
    <2> QED
      BY <2>1, StoreExpires DEF StoreStep
  <1>4. ASSUME AskAgain(r) PROVE StoreStep
    BY <1>1, <1>4 DEF AskAgain
  <1> QED
    BY <1>2, <1>3, <1>4

LEMMA StoringSteps ==
  ASSUME TypeInv, NEW r \in Request
  PROVE  /\ FindDevice(r) => StoreStep
         /\ JudgeVerdict(r) => StoreStep
         /\ Acknowledged(r) => StoreStep
         /\ CommitAnswer(r) => StoreStep
  <1>1. ASSUME FindDevice(r) \/ JudgeVerdict(r) PROVE StoreStep
    <2>1. store' = store \/ store' = DropCandidate(r)
      BY <1>1 DEF FindDevice, JudgeVerdict, DiscardRefused
    <2> QED
      BY <2>1, StoreSame, DropCandidateAges DEF StoreStep
  <1>2. ASSUME Acknowledged(r) PROVE StoreStep
    <2>1. store' = store \/ store' = Forget(store, {KeyOf[r]})
      BY <1>2 DEF Acknowledged
    <2>2. StoreOK(store) /\ store \in Store /\ {KeyOf[r]} \in SUBSET Key
      BY RequestsAssumption DEF TypeInv, StoreOK
    <2> QED
      BY <2>1, <2>2, StoreSame, ForgetOK, ForgetAges DEF StoreStep
  <1>3. ASSUME CommitAnswer(r) PROVE StoreStep
    <2> DEFINE h == handler[r]
               C(s) == Commit(s, now, h.cand.token, Identified(r), CallerOf[r], h.value)
    <2>1. PICK s \in Expire(store, now) :
             /\ store' = C(s).store
             /\ Becomes(r, [h EXCEPT !.stored = C(s).stored, !.pc = "prefs"])
      BY <1>3 DEF CommitAnswer
    <2>2. /\ StoreOK(s) /\ Ages(store, s) /\ s \in Store /\ store \in Store
          /\ now \in Nat
      BY StoreExpires
    <2>3. /\ Identified(r) \in Identity /\ CallerOf[r] \in Caller
          /\ h.value \in Secret \cup {NoSecret}
      BY IdentifiedType, HandlerFields DEF TypeInv, HandlersOK
    <2>4. handler'[r].pc = "prefs" /\ At(r, "commit")
      BY <1>3, <2>1 DEF TypeInv, HandlersOK, Becomes, CommitAnswer, Handler
    <2>5. /\ StoreOK(store')
          /\ \/ Ages(s, store')
             \/ Filled(s, store', Identified(r), h.value)
      BY <2>1, <2>2, <2>3, CommitOK, CommitFills
    <2>6. store' \in Store
      BY <2>5 DEF StoreOK
    <2>7. \/ Ages(store, store')
          \/ Filled(store, store', Identified(r), h.value)
      BY <2>2, <2>5, <2>6, AgesTransitive, AgesThenFilled
    <2> QED
      BY <2>4, <2>5, <2>7 DEF StoreStep, Commits
  <1> QED
    BY <1>1, <1>2, <1>3

LEMMA StoreSteps ==
  ASSUME TypeInv, [Next]_vars
  PROVE  StoreStep
  <1>1. ASSUME NEW r \in Request, HandlerStep(r) PROVE StoreStep
    <2>1. CASE \/ Accept(r) \/ AcquireHardware(r) \/ SelectDevice(r)
               \/ CancelSelection(r) \/ Choose(r) \/ RefuseAnonymous(r)
               \/ Prompt(r) \/ ChangeDevice(r) \/ Submit(r) \/ CancelInput(r)
               \/ AskDevice(r) \/ CancelledLate(r) \/ ReportFailure(r)
               \/ LeaveError(r) \/ Conclude(r) \/ SendAnswer(r)
               \/ SavePreference(r) \/ AckTimeout(r) \/ Abandon(r)
               \/ LoseDialog(r) \/ Return(r) \/ PassOver(r)
      <3>1. store' = store
        BY <2>1
        DEF Accept, AcquireHardware, SelectDevice, CancelSelection, Choose,
            RefuseAnonymous, Prompt, ChangeDevice, Submit, CancelInput, AskDevice,
            CancelledLate, ReportFailure, LeaveError, Conclude, SendAnswer,
            SavePreference, AckTimeout, Abandon, LoseDialog, Return, PassOver
      <3> QED
        BY <3>1, StoreSame
    <2> QED
      BY <1>1, <2>1, LookupSteps, StoringSteps DEF HandlerStep
  <1>2. ASSUME NEW r \in Request,
               \/ ReadFrame(r) \/ NoticeHangup(r)
               \/ RenderView(r) \/ PressControl(r) \/ DismissDialog(r)
               \/ TimerRefreshes(r) \/ DialogDies(r)
               \/ HelperStep(r) \/ HelperDies(r)
        PROVE  StoreStep
    BY <1>2, StoreSame
    DEF ReadFrame, NoticeHangup, RenderView, PressControl, DismissDialog,
        TimerRefreshes, DialogDies, Dialog, HelperStep, HelperDies, HelperExits,
        HelperPrints, HelperAcknowledges, HelperBecomes, serviceVars
  <1>3. ASSUME NEW k \in Key, UserForgets(k) PROVE StoreStep
    <2>1. store' = Forget(store, {k})
      BY <1>3 DEF UserForgets
    <2>2. StoreOK(store) /\ store \in Store /\ {k} \in SUBSET Key
      BY DEF TypeInv, StoreOK
    <2> QED
      BY <2>1, <2>2, ForgetOK, ForgetAges DEF StoreStep
  <1>4. ASSUME SweepCache PROVE StoreStep
    <2>1. PICK s \in Expire(store, now), dead \in SUBSET Departed :
             store' = Sweep(s, {p \in SeenPairs(s) : p[1] \in dead},
                               {l \in s.tickets : l.caller \in dead})
      BY <1>4 DEF SweepCache
    <2>2. StoreOK(s) /\ Ages(store, s) /\ s \in Store /\ store \in Store
      BY StoreExpires
    <2> DEFINE P == {p \in SeenPairs(s) : p[1] \in dead}
               T == {l \in s.tickets : l.caller \in dead}
    <2>3. \A p \in P : \A l \in s.tickets : l.caller = p[1] => l \in T
      OBVIOUS
    <2>4. store' = Sweep(s, P, T)
      BY <2>1
    <2> HIDE DEF P, T
    <2>5. StoreOK(store') /\ Ages(s, store')
      BY <2>2, <2>3, <2>4, SweepOK, SweepAges
    <2>6. store' \in Store
      BY <2>5 DEF StoreOK
    <2> QED
      BY <2>2, <2>5, <2>6, AgesTransitive DEF StoreStep
  <1>5. ASSUME \/ \E k \in Key : FileChanges(k)
               \/ \E c \in Conn : DeviceMoves(c)
               \/ Tick
               \/ Finished
               \/ UNCHANGED vars
        PROVE  StoreStep
    BY <1>5, StoreSame
    DEF FileChanges, DeviceMoves, Tick, Finished, vars, serviceVars
  <1> QED
    BY <1>1, <1>2, <1>3, <1>4, <1>5 DEF Next

---------------------------------------------------------------------------
(* Every step keeps the rest of the types.                                 *)

LEMMA Undisturbed ==
  ASSUME OthersOK,
         UNCHANGED <<lock, pref, aware, answer, helper, now, version, plugged,
                     historyVars>>
  PROVE  OthersOK'
  BY DEF OthersOK, historyVars

LEMMA AnswerType ==
  ASSUME OthersOK, NEW r \in Request, NEW code, Finish(r, code)
  PROVE  DOMAIN answer' = Request
  BY DEF OthersOK, Finish

LEMMA HandlerKeepsOthers ==
  ASSUME TypeInv, NEW r \in Request, HandlerStep(r)
  PROVE  OthersOK'
  <1>0. OthersOK /\ HandlersOK
    BY DEF TypeInv
  <1>1. ASSUME UNCHANGED <<lock, pref, aware, worldVars, historyVars>>,
               DOMAIN answer' = Request
        PROVE  OthersOK'
    BY <1>0, <1>1 DEF OthersOK, worldVars, historyVars
  <1>2. ASSUME UNCHANGED <<lock, pref, aware, answer, worldVars, historyVars>>
        PROVE  OthersOK'
    BY <1>0, <1>1, <1>2 DEF OthersOK
  <1>3. CASE \/ Accept(r) \/ Choose(r) \/ AskCache(r) \/ ChangeDevice(r)
             \/ Submit(r) \/ Recheck(r) \/ AskAgain(r) \/ Conclude(r)
             \/ Acknowledged(r) \/ CommitAnswer(r) \/ AckTimeout(r)
             \/ Abandon(r) \/ LoseDialog(r) \/ PassOver(r)
    BY <1>2, <1>3
    DEF Accept, Choose, AskCache, ChangeDevice, Submit, Recheck, AskAgain,
        Conclude, Acknowledged, CommitAnswer, AckTimeout, Abandon, LoseDialog,
        PassOver
  <1>4. ASSUME answer' = answer \/ \E code : Finish(r, code)
        PROVE  DOMAIN answer' = Request
    BY <1>0, <1>4, AnswerType DEF OthersOK
  <1>5. CASE \/ SelectDevice(r) \/ CancelSelection(r) \/ RefuseAnonymous(r)
             \/ Prompt(r) \/ CancelInput(r) \/ FindDevice(r) \/ CancelledLate(r)
             \/ ReportFailure(r) \/ LeaveError(r)
    <2>1. UNCHANGED <<lock, pref, aware, worldVars, historyVars>>
      BY <1>5
      DEF SelectDevice, CancelSelection, RefuseAnonymous, Prompt, CancelInput,
          FindDevice, CancelledLate, ReportFailure, LeaveError
    <2>2. ASSUME \/ \E h, stage : Present(r, h, stage)
                 \/ \E h : PresentError(r, h)
          PROVE  answer' = answer \/ \E code : Finish(r, code)
      BY <2>2 DEF Present, PresentError
    <2>3. answer' = answer \/ \E code : Finish(r, code)
      BY <1>5, <2>2
      DEF SelectDevice, CancelSelection, RefuseAnonymous, Prompt, CancelInput,
          FindDevice, CancelledLate, ReportFailure, LeaveError
    <2> QED
      BY <1>1, <1>4, <2>1, <2>3
  <1>6. CASE SendAnswer(r)
    <2>1. DOMAIN answer' = Request
      BY <1>0, <1>6 DEF SendAnswer, OthersOK
    <2> QED
      BY <1>1, <1>6, <2>1 DEF SendAnswer
  <1>7. CASE AcquireHardware(r)
    BY <1>0, <1>7 DEF AcquireHardware, OthersOK, worldVars, historyVars
  <1>8. CASE Return(r)
    BY <1>0, <1>8 DEF Return, OthersOK, worldVars, historyVars
  <1>9. CASE SavePreference(r)
    <2>1. handler[r].selected \in Conn \cup {NoConn} /\ KeyOf[r] \in Key
      BY <1>0, HandlerFields, RequestsAssumption DEF HandlersOK
    <2>2. pref' \in [Key -> Conn \cup {NoConn}]
      BY <1>0, <1>9, <2>1 DEF SavePreference, OthersOK
    <2> QED
      BY <1>0, <1>9, <2>2 DEF SavePreference, OthersOK, worldVars, historyVars
  <1>10. handler[r].cand.generation \in Nat /\ KeyOf[r] \in Key
    BY <1>0, HandlerFields, RequestsAssumption DEF HandlersOK, Lookup
  <1>11. CASE AskDevice(r)
    <2>1. DOMAIN proof' = Request
      BY <1>0, <1>11 DEF AskDevice, OthersOK
    <2>2. refused' \subseteq Key \X Nat
      BY <1>0, <1>10, <1>11 DEF AskDevice, OthersOK
    <2> QED
      BY <1>0, <1>11, <2>1, <2>2 DEF AskDevice, OthersOK, worldVars
  <1>12. CASE JudgeVerdict(r)
    <2>1. \/ rejected' = rejected
          \/ rejected' = rejected \cup
                (IF HasCandidate(handler[r])
                 THEN {<<KeyOf[r], handler[r].cand.generation>>} ELSE {})
      BY <1>12 DEF JudgeVerdict, DiscardRefused
    <2>2. rejected' \subseteq Key \X Nat
      BY <1>0, <1>10, <2>1 DEF OthersOK
    <2> QED
      BY <1>0, <1>12, <2>2 DEF JudgeVerdict, DiscardRefused, OthersOK, worldVars
  <1> QED
    BY <1>3, <1>5, <1>6, <1>7, <1>8, <1>9, <1>11, <1>12 DEF HandlerStep

LEMMA OthersKept ==
  ASSUME TypeInv, [Next]_vars
  PROVE  OthersOK'
  <1>0. OthersOK
    BY DEF TypeInv
  <1>1. ASSUME NEW r \in Request, HandlerStep(r) PROVE OthersOK'
    BY <1>1, HandlerKeepsOthers
  <1>2. ASSUME NEW r \in Request,
               \/ ReadFrame(r)
               \/ RenderView(r) \/ PressControl(r) \/ DismissDialog(r)
               \/ TimerRefreshes(r) \/ DialogDies(r)
        PROVE  OthersOK'
    BY <1>0, <1>2, Undisturbed
    DEF ReadFrame, RenderView, PressControl, DismissDialog, TimerRefreshes,
        DialogDies, Dialog, worldVars
  <1>3. ASSUME NEW r \in Request, NoticeHangup(r) PROVE OthersOK'
    BY <1>0, <1>3 DEF NoticeHangup, OthersOK, worldVars, historyVars
  <1>4. ASSUME NEW r \in Request, HelperStep(r) \/ HelperDies(r)
        PROVE  OthersOK'
    <2>1. PICK state \in {"printed", "acked", "exited", "gone"} :
             HelperBecomes(r, state)
      BY <1>4 DEF HelperStep, HelperDies, HelperExits, HelperPrints,
                  HelperAcknowledges
    <2> QED
      BY <1>0, <2>1 DEF HelperBecomes, OthersOK, serviceVars, historyVars
  <1>5. ASSUME NEW k \in Key, FileChanges(k) PROVE OthersOK'
    <2>1. version' \in [Key -> 0..MaxChanges]
      BY <1>0, <1>5, CountersAssumption DEF FileChanges, OthersOK
    <2> QED
      BY <1>0, <1>5, <2>1 DEF FileChanges, OthersOK, serviceVars, historyVars
  <1>6. ASSUME NEW c \in Conn, DeviceMoves(c) PROVE OthersOK'
    <2>1. plugged' \in [Conn -> {"new", "in", "out"}]
      BY <1>0, <1>6 DEF DeviceMoves, OthersOK
    <2> QED
      BY <1>0, <1>6, <2>1 DEF DeviceMoves, OthersOK, serviceVars, historyVars
  <1>7. ASSUME Tick PROVE OthersOK'
    <2>1. now' \in 0..MaxNow
      BY <1>0, <1>7, CountersAssumption DEF Tick, OthersOK
    <2> QED
      BY <1>0, <1>7, <2>1 DEF Tick, OthersOK, serviceVars, historyVars
  <1>8. ASSUME \/ \E k \in Key : UserForgets(k)
               \/ SweepCache
               \/ Finished
               \/ UNCHANGED vars
        PROVE  OthersOK'
    BY <1>0, <1>8, Undisturbed
    DEF UserForgets, SweepCache, Finished, vars, serviceVars, worldVars
  <1> QED
    BY <1>1, <1>2, <1>3, <1>4, <1>5, <1>6, <1>7, <1>8 DEF Next

LEMMA TypesInitial == Init => TypeInv
  <1> SUFFICES ASSUME Init PROVE TypeInv
    OBVIOUS
  <1>1. StoreOK(store)
    BY NewStoreOK DEF Init
  <1>2. HandlersOK
    BY FreshType DEF Init, HandlersOK
  <1>3. WorkersOK
    BY NoWorkerType DEF Init, WorkersOK
  <1>4. OthersOK
    BY RequestsAssumption, StampAssumption, CountersAssumption DEF Init, OthersOK
  <1> QED
    BY <1>1, <1>2, <1>3, <1>4 DEF TypeInv

LEMMA NextKeepsTypes ==
  ASSUME TypeInv, [Next]_vars
  PROVE  TypeInv'
  BY StoreSteps, HandlersKept, WorkersKept, OthersKept DEF TypeInv, StoreStep

LEMMA TypesSuffice == TypeInv => TypeOK
  <1> SUFFICES ASSUME TypeInv PROVE TypeOK
    OBVIOUS
  <1>1. store \in Store
    BY DEF TypeInv, StoreOK
  <1>2. DOMAIN handler = Request /\ DOMAIN worker = Request
    BY DEF TypeInv, HandlersOK, WorkersOK
  <1>3. \A r \in Request :
          /\ handler[r].base \in 0..MaxChanges
          /\ {handler[r].selected, handler[r].picked} \subseteq Conn \cup {NoConn}
          /\ handler[r].value \in Secret \cup {NoSecret}
    BY HandlerFields DEF TypeInv, HandlersOK
  <1> QED
    BY <1>1, <1>2, <1>3 DEF TypeInv, OthersOK, TypeOK

---------------------------------------------------------------------------
(* What a step of one request leaves alone.                                *)

Others(r) ==
    /\ \A q \in Request \ {r} : /\ handler'[q] = handler[q]
                                /\ answer'[q] = answer[q]
                                /\ proof'[q] = proof[q]
    /\ UNCHANGED helper
    /\ accepted \subseteq accepted'

LEMMA OthersWait ==
  ASSUME TypeInv, NEW r \in Request, HandlerStep(r)
  PROVE  Others(r)
  <1>0. /\ DOMAIN handler = Request /\ DOMAIN answer = Request
        /\ DOMAIN proof = Request
    BY DEF TypeInv, HandlersOK, OthersOK
  <1>1. ASSUME NEW h, Becomes(r, h)
        PROVE  \A q \in Request \ {r} : handler'[q] = handler[q]
    BY <1>0, <1>1 DEF Becomes
  <1>2. ASSUME NEW pc, Goto(r, pc)
        PROVE  \A q \in Request \ {r} : handler'[q] = handler[q]
    BY <1>1, <1>2 DEF Goto
  <1>3. ASSUME NEW code, Finish(r, code)
        PROVE  \A q \in Request \ {r} : /\ handler'[q] = handler[q]
                                        /\ answer'[q] = answer[q]
    BY <1>0, <1>2, <1>3 DEF Finish
  <1>4. ASSUME \/ \E h, stage : Present(r, h, stage)
               \/ \E h : PresentError(r, h)
        PROVE  \A q \in Request \ {r} : /\ handler'[q] = handler[q]
                                        /\ answer'[q] = answer[q]
    BY <1>1, <1>3, <1>4 DEF Present, PresentError
  <1>5. CASE \/ Accept(r) \/ AcquireHardware(r) \/ Choose(r) \/ AskCache(r)
             \/ ChangeDevice(r) \/ Submit(r) \/ Recheck(r) \/ AskAgain(r)
             \/ Conclude(r) \/ Acknowledged(r) \/ CommitAnswer(r)
             \/ SavePreference(r) \/ AckTimeout(r) \/ Abandon(r)
             \/ LoseDialog(r) \/ Return(r) \/ JudgeVerdict(r)
    <2>1. (\E h : Becomes(r, h)) \/ (\E pc : Goto(r, pc))
      BY <1>5
      DEF Accept, AcquireHardware, Choose, AskCache, ChangeDevice, Submit,
          Recheck, AskAgain, Conclude, Acknowledged, CommitAnswer,
          SavePreference, AckTimeout, Abandon, LoseDialog, Return,
          JudgeVerdict, DiscardRefused
    <2>2. UNCHANGED <<answer, proof, helper, accepted>>
      BY <1>5
      DEF Accept, AcquireHardware, Choose, AskCache, ChangeDevice, Submit,
          Recheck, AskAgain, Conclude, Acknowledged, CommitAnswer,
          SavePreference, AckTimeout, Abandon, LoseDialog, Return,
          JudgeVerdict, DiscardRefused,
          worldVars, historyVars
    <2> QED
      BY <1>1, <1>2, <2>1, <2>2 DEF Others
  <1>6. CASE \/ SelectDevice(r) \/ CancelSelection(r) \/ RefuseAnonymous(r)
             \/ Prompt(r) \/ CancelInput(r) \/ FindDevice(r) \/ CancelledLate(r)
             \/ ReportFailure(r) \/ LeaveError(r)
    <2>1. \/ (\E h : Becomes(r, h)) /\ UNCHANGED answer
          \/ (\E pc : Goto(r, pc)) /\ UNCHANGED answer
          \/ \E code : Finish(r, code)
          \/ \E h, stage : Present(r, h, stage)
          \/ \E h : PresentError(r, h)
      BY <1>6
      DEF SelectDevice, CancelSelection, RefuseAnonymous, Prompt, CancelInput,
          FindDevice, CancelledLate, ReportFailure, LeaveError
    <2>2. UNCHANGED <<proof, helper, accepted>>
      BY <1>6
      DEF SelectDevice, CancelSelection, RefuseAnonymous, Prompt, CancelInput,
          FindDevice, CancelledLate, ReportFailure, LeaveError, worldVars,
          historyVars
    <2>3. \A q \in Request \ {r} : /\ handler'[q] = handler[q]
                                   /\ answer'[q] = answer[q]
      BY <1>1, <1>2, <1>3, <1>4, <2>1
    <2> QED
      BY <2>2, <2>3 DEF Others
  <1>7. CASE PassOver(r)
    BY <1>7 DEF PassOver, Others, worldVars, historyVars
  <1>8. CASE SendAnswer(r)
    <2>1. \A q \in Request \ {r} : handler'[q] = handler[q]
      BY <1>2, <1>8 DEF SendAnswer
    <2>2. \A q \in Request \ {r} : answer'[q] = answer[q]
      BY <1>0, <1>8 DEF SendAnswer
    <2> QED
      BY <1>8, <2>1, <2>2 DEF SendAnswer, Others, worldVars, historyVars
  <1>9. CASE AskDevice(r)
    <2>1. \A q \in Request \ {r} : handler'[q] = handler[q]
      BY <1>1, <1>9 DEF AskDevice
    <2>2. \A q \in Request \ {r} : proof'[q] = proof[q]
      BY <1>0, <1>9 DEF AskDevice
    <2>3. accepted \subseteq accepted' /\ UNCHANGED <<helper, answer>>
      BY <1>9 DEF AskDevice, worldVars
    <2> QED
      BY <2>1, <2>2, <2>3 DEF Others
  <1> QED
    BY <1>5, <1>6, <1>7, <1>8, <1>9 DEF HandlerStep

---------------------------------------------------------------------------
(* What is true of one request at each of its places.                      *)

Late == {"sent", "commit", "prefs"}

Done == Late \cup {"end", "over"}

\* Where a verified request may present the candidate it was given.
Loop == {"top", "input", "check", "enumerate", "verify", "verified"}

ForVerified == {"check", "enumerate", "verify", "verified", "confirm"}

\* Past the judgment of an accepted response.
Proven == {"confirm", "final", "send"} \cup Late

Judged(h) == h.pc = "verified" /\ h.verdict = "accepted"

\* How far the request, its answer, its helper and its lease have come.
ProgressOK(r) ==
    LET h == handler[r]
    IN /\ h.pc \notin Done => answer[r] = Silence
       /\ h.pc \in Late => answer[r] = Answered(h.value)
       /\ helper[r] \in {"printed", "acked"} => answer[r].kind = "secret"
       /\ h.pc \in {"commit", "prefs"} => helper[r] = "acked"
       /\ h.pc = "commit" => h.remember /\ h.cand.token # 0
       /\ r \notin Cacheable => h.cand.token = 0 /\ ~HasCandidate(h)
       /\ h.pc \in {"check", "confirm"} => HasCandidate(h)
       /\ h.pc = "again" => r \in Cacheable
       /\ h.pc \in ForVerified => r \in Verified
       /\ h.cand.generation <= store.seq

\* What the device has said of the response on its way to the helper; and that
\* a candidate which was not current then does not get past "confirm".
ProofOK(r) ==
    LET h == handler[r]
    IN /\ h.pc \in Proven \/ Judged(h) =>
             /\ proof[r].conn = h.selected /\ proof[r].value = h.value
             /\ <<h.selected, h.value>> \in accepted
       /\ h.pc \in Proven \ {"confirm"} => proof[r].current
       /\ (h.pc = "confirm" \/ Judged(h)) /\ ~proof[r].current =>
             /\ HasCandidate(h)
             /\ ~IsCurrent(store, Identified(r), h.cand.generation)
       /\ answer[r].kind = "secret" =>
             proof[r].value = answer[r].value /\ proof[r].current

\* A candidate was not refused before, and if its number is still in the cache
\* it is there for this request's identity.
CandidateOK(r) ==
    LET h == handler[r]
        k == KeyOf[r]
    IN h.pc \in Loop /\ HasCandidate(h) =>
          /\ <<k, h.cand.generation>> \notin rejected
          /\ k \in HeldKeys(store) /\ store.entries[k].generation = h.cand.generation
                => store.entries[k].stamp = Identified(r).stamp

RequestOK(r) ==
    /\ ProgressOK(r)
    /\ r \in Verified => ProofOK(r) /\ CandidateOK(r)

\* No entry of a rejected number is left.
RejectedGone ==
    /\ \A k \in HeldKeys(store) : <<k, store.entries[k].generation>> \notin rejected
    /\ \A p \in rejected : p[2] # 0 /\ p[2] <= store.seq

\* The invariant of the requests.
RequestsInv ==
    /\ TypeInv
    /\ HardwareInv
    /\ \A r \in Request : RequestOK(r)
    /\ RejectedGone

LEMMA RequestsInitial == Init => RequestsInv
  <1> SUFFICES ASSUME Init PROVE RequestsInv
    OBVIOUS
  <1>1. TypeInv /\ HardwareInv
    BY TypesInitial, HardwareInitial
  <1>2. /\ NoLookup("none").generation = 0 /\ NoLookup("none").token = 0
        /\ store.seq = 0 /\ HeldKeys(store) = {} /\ rejected = {}
    BY DEF Init, NewStore, HeldKeys, NoLookup
  <1>3. ASSUME NEW r \in Request PROVE RequestOK(r)
    <2>1. /\ handler[r].pc = "start"
          /\ handler[r].cand.generation = 0 /\ handler[r].cand.token = 0
      BY <1>2 DEF Init, Fresh
    <2>2. answer[r] = Silence /\ answer[r].kind = "none" /\ helper[r] = "waiting"
      BY DEF Init, Silence
    <2>3. ProgressOK(r)
      BY <1>2, <2>1, <2>2 DEF ProgressOK, Done, Late, ForVerified, HasCandidate
    <2>4. ProofOK(r)
      BY <2>1, <2>2 DEF ProofOK, Proven, Late, Judged
    <2>5. CandidateOK(r)
      BY <2>1 DEF CandidateOK, HasCandidate
    <2> QED
      BY <2>3, <2>4, <2>5 DEF RequestOK
  <1> QED
    BY <1>1, <1>2, <1>3 DEF RequestsInv, RejectedGone

---------------------------------------------------------------------------
(* What the store does under the requests.                                 *)

\* Lapsed candidates do not come back.
LEMMA StaysLapsed ==
  ASSUME TypeInv, StoreStep, NEW id, NEW g \in Nat, g <= store.seq,
         IsCurrent(store', id, g)
  PROVE  IsCurrent(store, id, g)
  <1>1. store \in Store /\ store' \in Store
    BY DEF TypeInv, StoreOK, StoreStep
  <1>2. /\ id.key \in HeldKeys(store') /\ id.key \in FilledKeys(store')
        /\ store'.entries[id.key].generation = g
        /\ store'.entries[id.key].stamp = id.stamp
    BY DEF IsCurrent, Holds
  <1>3. id.key \in HeldKeys(store) /\ store'.entries[id.key] = store.entries[id.key]
    BY <1>1, <1>2, OldNumbers DEF StoreStep, Commits
  <1> QED
    BY <1>2, <1>3 DEF IsCurrent, Holds, FilledKeys

\* Rejected numbers do not come back.
LEMMA RejectedStaysGone ==
  ASSUME TypeInv, StoreStep, RejectedGone
  PROVE  /\ \A k \in HeldKeys(store') :
               <<k, store'.entries[k].generation>> \notin rejected
         /\ \A p \in rejected : p[2] # 0 /\ p[2] <= store'.seq
         /\ rejected' = rejected => RejectedGone'
  <1>1. store \in Store /\ store' \in Store
    BY DEF TypeInv, StoreOK, StoreStep
  <1>2. /\ store.seq \in Nat /\ store'.seq \in Nat /\ store.seq <= store'.seq
        /\ \A p \in rejected : p[2] \in Nat
    BY <1>1, StoreTypes DEF StoreStep, Ages, Commits, Filled, TypeInv, OthersOK
  <1>3. \A p \in rejected : p[2] # 0 /\ p[2] <= store'.seq
    BY <1>2 DEF RejectedGone
  <1>4. ASSUME NEW k \in HeldKeys(store'),
               <<k, store'.entries[k].generation>> \in rejected
        PROVE  FALSE
    <2> DEFINE p == <<k, store'.entries[k].generation>>
    <2>1. p[2] <= store.seq
      BY <1>4 DEF RejectedGone
    <2>2. store'.entries[k].generation <= store.seq
      BY <2>1
    <2>3. k \in HeldKeys(store) /\ store'.entries[k] = store.entries[k]
      BY <1>1, <2>2, OldNumbers DEF StoreStep, Commits
    <2> QED
      BY <1>4, <2>3 DEF RejectedGone
  <1> QED
    BY <1>3, <1>4 DEF RejectedGone

\* A request that does nothing.
LEMMA RequestWaits ==
  ASSUME TypeInv, StoreStep, NEW q \in Request, RequestOK(q),
         handler'[q] = handler[q], answer'[q] = answer[q], proof'[q] = proof[q],
         helper'[q] = helper[q],
         accepted \subseteq accepted',
         rejected' = rejected \/ ~(q \in Verified /\ handler[q].pc \in Loop)
  PROVE  RequestOK(q)'
  <1> DEFINE h == handler[q]
             k == KeyOf[q]
             g == h.cand.generation
  <1>1. store \in Store /\ store' \in Store /\ g \in Nat
    BY HandlerFields DEF TypeInv, StoreOK, StoreStep, HandlersOK, Lookup
  <1>2. /\ store.seq \in Nat /\ store'.seq \in Nat /\ store.seq <= store'.seq
    BY <1>1, StoreTypes DEF StoreStep, Ages, Commits, Filled
  <1>3. g <= store.seq /\ g <= store'.seq
    BY <1>1, <1>2 DEF RequestOK, ProgressOK
  <1>4. Identified(q)' = Identified(q)
    BY DEF Identified
  <1>5. ProgressOK(q)'
    BY <1>3 DEF RequestOK, ProgressOK
  <1>6. ASSUME q \in Verified PROVE ProofOK(q)'
    <2>1. IsCurrent(store', Identified(q), g) => IsCurrent(store, Identified(q), g)
      BY <1>1, <1>3, StaysLapsed
    <2> QED
      BY <1>4, <1>6, <2>1 DEF RequestOK, ProofOK
  <1>7. ASSUME q \in Verified PROVE CandidateOK(q)'
    <2> SUFFICES ASSUME h.pc \in Loop, HasCandidate(h)
                 PROVE  /\ <<k, g>> \notin rejected
                        /\ k \in HeldKeys(store') /\ store'.entries[k].generation = g
                              => store'.entries[k].stamp = Identified(q).stamp
      BY <1>4, <1>7 DEF CandidateOK
    <2>1. CandidateOK(q)
      BY <1>7 DEF RequestOK
    <2>2. <<k, g>> \notin rejected
      BY <2>1 DEF CandidateOK
    <2>3. ASSUME k \in HeldKeys(store'), store'.entries[k].generation = g
          PROVE  store'.entries[k].stamp = Identified(q).stamp
      <3>1. k \in HeldKeys(store) /\ store'.entries[k] = store.entries[k]
        BY <1>1, <1>3, <2>3, OldNumbers DEF StoreStep, Commits
      <3> QED
        BY <2>1, <2>3, <3>1 DEF CandidateOK
    <2> QED
      BY <2>2, <2>3
  <1> QED
    BY <1>5, <1>6, <1>7 DEF RequestOK

---------------------------------------------------------------------------
(* A step of a request that neither learns anything of its candidate nor   *)
(* comes near the end of its way.                                          *)

Calm == {"lock", "begin", "discover", "wait", "choose", "selected", "top",
         "input", "check", "enumerate", "verify", "final", "failed", "error",
         "end"}

Quiet(r) ==
    LET h == handler[r]
        g == handler'[r]
    IN /\ h.pc \notin Done /\ g.pc \in Calm /\ g.cand = h.cand
       /\ UNCHANGED <<helper, proof, accepted, rejected>>
       /\ answer'[r] = answer[r] \/ (g.pc = "end" /\ answer'[r].kind # "secret")
       /\ g.pc = "final" => r \notin Verified
       /\ g.pc = "check" => HasCandidate(h)
       /\ g.pc \in ForVerified => r \in Verified
       /\ g.pc \in Loop =>
             h.pc \in Loop /\ g.selected = h.selected /\ g.base = h.base

\* A candidate that was good stays good while its request keeps to it.
LEMMA CandidateStays ==
  ASSUME TypeInv, StoreStep, NEW r \in Request, ProgressOK(r), CandidateOK(r),
         handler[r].pc \in Loop, rejected' = rejected,
         handler'[r].cand = handler[r].cand,
         handler'[r].selected = handler[r].selected,
         handler'[r].base = handler[r].base
  PROVE  CandidateOK(r)'
  <1> DEFINE k == KeyOf[r]
             g == handler[r].cand.generation
  <1>1. store \in Store /\ store' \in Store
    BY DEF TypeInv, StoreOK, StoreStep
  <1>2. g <= store.seq /\ Identified(r)' = Identified(r)
    BY DEF ProgressOK, Identified
  <1> SUFFICES ASSUME HasCandidate(handler[r])
               PROVE  /\ <<k, g>> \notin rejected
                      /\ k \in HeldKeys(store') /\ store'.entries[k].generation = g
                            => store'.entries[k].stamp = Identified(r).stamp
    BY <1>2 DEF CandidateOK, HasCandidate
  <1>3. <<k, g>> \notin rejected
    BY DEF CandidateOK
  <1>4. ASSUME k \in HeldKeys(store'), store'.entries[k].generation = g
        PROVE  store'.entries[k].stamp = Identified(r).stamp
    <2>1. k \in HeldKeys(store) /\ store'.entries[k] = store.entries[k]
      BY <1>1, <1>2, <1>4, OldNumbers DEF StoreStep, Commits
    <2> QED
      BY <1>4, <2>1 DEF CandidateOK
  <1> QED
    BY <1>3, <1>4

\* The numbers of the cache only grow.
LEMMA SeqGrows ==
  ASSUME TypeInv, StoreStep
  PROVE  store.seq \in Nat /\ store'.seq \in Nat /\ store.seq <= store'.seq
  <1>1. store \in Store /\ store' \in Store
    BY DEF TypeInv, StoreOK, StoreStep
  <1> QED
    BY <1>1, StoreTypes DEF StoreStep, Ages, Commits, Filled

LEMMA GenerationType ==
  ASSUME TypeInv, NEW r \in Request
  PROVE  handler[r].cand.generation \in Nat
  BY HandlerFields DEF TypeInv, HandlersOK, Lookup

LEMMA QuietRequest ==
  ASSUME TypeInv, StoreStep, NEW r \in Request, RequestOK(r), Quiet(r)
  PROVE  RequestOK(r)'
  <1> DEFINE h == handler[r]
             g == handler'[r]
  <1>1. /\ h.pc \notin Done /\ g.pc \in Calm /\ g.cand = h.cand
        /\ helper'[r] = helper[r] /\ rejected' = rejected
        /\ answer[r] = Silence /\ ProgressOK(r)
    BY DEF Quiet, RequestOK, ProgressOK
  <1>2. answer[r].kind # "secret" /\ answer'[r].kind # "secret"
    BY <1>1 DEF Quiet, Silence
  <1>3. g.pc \notin Late /\ g.pc \notin {"again", "confirm", "verified", "over", "send"}
    BY <1>1 DEF Calm, Late
  <1>4. ProgressOK(r)'
    <2>1. g.pc \notin Done => answer'[r] = Silence
      BY <1>1 DEF Quiet, Done
    <2>2. h.cand.generation <= store'.seq
      BY <1>1, SeqGrows, GenerationType DEF ProgressOK
    <2> QED
      BY <1>1, <1>2, <1>3, <2>1, <2>2 DEF Quiet, ProgressOK, HasCandidate, Late
  <1>5. ASSUME r \in Verified PROVE ProofOK(r)'
    <2>1. g.pc \notin Proven /\ ~Judged(g)
      BY <1>3, <1>5 DEF Quiet, Proven, Judged
    <2> QED
      BY <1>2, <1>3, <2>1 DEF ProofOK
  <1>6. ASSUME r \in Verified PROVE CandidateOK(r)'
    <2>1. CASE g.pc \in Loop
      BY <1>1, <1>6, <2>1, CandidateStays DEF Quiet, RequestOK
    <2>2. CASE g.pc \notin Loop
      BY <2>2 DEF CandidateOK
    <2> QED
      BY <2>1, <2>2
  <1> QED
    BY <1>4, <1>5, <1>6 DEF RequestOK

LEMMA HandlerNow ==
  ASSUME HandlersOK, NEW r \in Request, NEW h, Becomes(r, h)
  PROVE  handler'[r] = h
  BY DEF HandlersOK, Becomes

\* A step that only moves on.
LEMMA GoesNow ==
  ASSUME HandlersOK, NEW r \in Request, NEW pc, Goto(r, pc)
  PROVE  /\ handler'[r] = [handler[r] EXCEPT !.pc = pc]
         /\ handler'[r].pc = pc
         /\ handler'[r].cand = handler[r].cand
         /\ handler'[r].selected = handler[r].selected
         /\ handler'[r].base = handler[r].base
         /\ handler'[r].value = handler[r].value
         /\ handler'[r].remember = handler[r].remember
         /\ handler'[r].verdict = handler[r].verdict
  <1>1. handler'[r] = [handler[r] EXCEPT !.pc = pc]
    BY DEF HandlersOK, Goto, Becomes
  <1>2. handler[r] \in Handler
    BY DEF HandlersOK
  <1> QED
    BY <1>1, <1>2 DEF Handler

LEMMA QuietFinish ==
  ASSUME TypeInv, NEW r \in Request, NEW code, Finish(r, code),
         handler[r].pc \notin Done,
         UNCHANGED <<helper, proof, accepted, rejected>>
  PROVE  Quiet(r)
  <1>1. /\ handler'[r].pc = "end" /\ handler'[r].cand = handler[r].cand
    BY GoesNow DEF Finish, TypeInv
  <1>2. answer'[r].kind = "status"
    BY DEF Finish, Status, TypeInv, OthersOK
  <1> QED
    BY <1>1, <1>2 DEF Quiet, Calm, ForVerified, Loop

LEMMA QuietGoes ==
  ASSUME TypeInv, NEW r \in Request,
         NEW pc \in {"discover", "verify", "end"}, Goto(r, pc),
         handler[r].pc \notin Done,
         pc = "verify" => r \in Verified /\ handler[r].pc \in Loop,
         UNCHANGED <<answer, helper, proof, accepted, rejected>>
  PROVE  Quiet(r)
  <1>1. /\ handler'[r].pc = pc /\ handler'[r].cand = handler[r].cand
        /\ handler'[r].selected = handler[r].selected
        /\ handler'[r].base = handler[r].base
    BY GoesNow DEF TypeInv
  <1> QED
    BY <1>1 DEF Quiet, Calm, ForVerified, Loop

LEMMA QuietPresent ==
  ASSUME TypeInv, NEW r \in Request, NEW h \in Handler,
         NEW stage \in {"wait", "choose", "input", "error"},
         \/ Present(r, h, stage)
         \/ PresentError(r, h) /\ stage = "error",
         handler[r].pc \notin Done, h.cand = handler[r].cand,
         stage = "input" => handler[r].pc \in Loop /\ h = handler[r],
         UNCHANGED <<helper, proof, accepted, rejected>>
  PROVE  Quiet(r)
  <1>1. CASE \E code : Finish(r, code)
    BY <1>1, QuietFinish
  <1>2. CASE Becomes(r, [h EXCEPT !.pc = stage]) /\ answer' = answer
    <2>1. handler'[r] = [h EXCEPT !.pc = stage]
      BY <1>2, HandlerNow DEF TypeInv
    <2>2. /\ handler'[r].pc = stage /\ handler'[r].cand = handler[r].cand
          /\ handler'[r].selected = h.selected /\ handler'[r].base = h.base
      BY <2>1 DEF Handler
    <2> QED
      BY <1>2, <2>2 DEF Quiet, Calm, ForVerified, Loop
  <1> QED
    BY <1>1, <1>2 DEF Present, PresentError

\* Where a request goes with a response or a candidate.
LEMMA QuietExamine ==
  ASSUME TypeInv, NEW r \in Request, NEW h \in Handler,
         Becomes(r, Examine(r, h)),
         handler[r].pc \in Loop, h.cand = handler[r].cand,
         h.selected = handler[r].selected, h.base = handler[r].base,
         UNCHANGED <<answer, helper, proof, accepted, rejected>>
  PROVE  Quiet(r)
  <1> DEFINE pc == IF r \notin Verified THEN "final"
                   ELSE IF HasCandidate(h) THEN "check" ELSE "enumerate"
  <1>1. handler'[r] = [h EXCEPT !.pc = pc]
    BY HandlerNow DEF TypeInv, Examine
  <1>2. /\ pc \in {"final", "check", "enumerate"}
        /\ pc = "final" => r \notin Verified
        /\ pc # "final" => r \in Verified
        /\ pc = "check" => HasCandidate(h)
    OBVIOUS
  <1> HIDE DEF pc
  <1>3. /\ handler'[r].pc = pc /\ handler'[r].cand = h.cand
        /\ handler'[r].selected = h.selected /\ handler'[r].base = h.base
    BY <1>1 DEF Handler
  <1>4. HasCandidate(h) => HasCandidate(handler[r])
    BY DEF HasCandidate
  <1>5. handler[r].pc \notin Done
    BY DEF Loop, Done, Late
  <1> QED
    BY <1>2, <1>3, <1>4, <1>5 DEF Quiet, Calm, ForVerified

LEMMA QuietSelection ==
  ASSUME TypeInv, NEW r \in Request
  PROVE  /\ Accept(r) => Quiet(r)
         /\ AcquireHardware(r) => Quiet(r)
         /\ SelectDevice(r) => Quiet(r)
         /\ CancelSelection(r) => Quiet(r)
         /\ Choose(r) => Quiet(r)
         /\ RefuseAnonymous(r) => Quiet(r)
  <1> DEFINE h == handler[r]
  <1>0. HandlersOK /\ h \in Handler
    BY DEF TypeInv, HandlersOK
  <1>1. ASSUME Accept(r) PROVE Quiet(r)
    <2> DEFINE pc == IF r \in Verified THEN "lock" ELSE "begin"
               g == [h EXCEPT !.base = version[KeyOf[r]], !.pc = pc]
    <2>1. handler'[r] = g
      BY <1>0, <1>1, HandlerNow DEF Accept
    <2>2. pc \in {"lock", "begin"}
      OBVIOUS
    <2> HIDE DEF pc
    <2>3. g.pc = pc /\ g.cand = h.cand
      BY <1>0 DEF Handler
    <2>4. h.pc \notin Done /\ UNCHANGED <<answer, helper, proof, accepted, rejected>>
      BY <1>1 DEF Accept, At, Done, Late, worldVars, historyVars
    <2> HIDE DEF g
    <2> QED
      BY <2>1, <2>2, <2>3, <2>4 DEF Quiet, Calm, ForVerified, Loop
  <1>2. ASSUME AcquireHardware(r) PROVE Quiet(r)
    BY <1>2, QuietGoes
    DEF AcquireHardware, LockFree, At, Done, Late, worldVars, historyVars
  <1>3. ASSUME SelectDevice(r) PROVE Quiet(r)
    <2>1. PICK found \in Discovered :
             LET s == [Discard(r) EXCEPT !.found = found]
             IN CASE found = <<>> -> Present(r, s, "wait")
                  [] Len(found) = 1 ->
                       /\ Becomes(r, [s EXCEPT !.selected = found[1],
                                               !.pc = "selected"])
                       /\ UNCHANGED <<worker, answer>>
                  [] OTHER -> Present(r, s, "choose")
      BY <1>3 DEF SelectDevice
    <2> DEFINE s == [Discard(r) EXCEPT !.found = found]
               g == [s EXCEPT !.selected = found[1], !.pc = "selected"]
    <2>2. s \in Handler /\ s.cand = h.cand
      BY <1>0, DiscoveredType DEF Discard, Handler
    <2>3. g.pc = "selected" /\ g.cand = s.cand
      BY <2>2 DEF Handler
    <2>4. h.pc \notin Done /\ UNCHANGED <<helper, proof, accepted, rejected>>
      BY <1>3 DEF SelectDevice, At, Done, Late, worldVars, historyVars
    <2>5. \/ Present(r, s, "wait")
          \/ Becomes(r, g) /\ UNCHANGED answer
          \/ Present(r, s, "choose")
      BY <2>1
    <2> HIDE DEF s, g
    <2>6. CASE Becomes(r, g) /\ UNCHANGED answer
      <3>1. handler'[r] = g
        BY <1>0, <2>6, HandlerNow
      <3> QED
        BY <2>2, <2>3, <2>4, <2>6, <3>1 DEF Quiet, Calm, ForVerified, Loop
    <2> QED
      BY <2>2, <2>4, <2>5, <2>6, QuietPresent
  <1>4. ASSUME CancelSelection(r) PROVE Quiet(r)
    BY <1>4, QuietFinish
    DEF CancelSelection, At, Done, Late, worldVars, historyVars
  <1>5. ASSUME Choose(r) PROVE Quiet(r)
    <2> DEFINE i == Heeds(r).selected
               g == [h EXCEPT !.selected = h.found[i],
                              !.picked = Heeds(r).devices[i],
                              !.pc = "selected"]
    <2>1. /\ h.pc \notin Done
          /\ UNCHANGED <<answer, helper, proof, accepted, rejected>>
      BY <1>5 DEF Choose, At, Done, Late, worldVars, historyVars
    <2>2. Becomes(r, g) \/ Goto(r, "discover")
      BY <1>5 DEF Choose
    <2>3. g.pc = "selected" /\ g.cand = h.cand
      BY <1>0 DEF Handler
    <2> HIDE DEF g
    <2>4. CASE Becomes(r, g)
      <3>1. handler'[r] = g
        BY <1>0, <2>4, HandlerNow
      <3> QED
        BY <2>1, <2>3, <3>1 DEF Quiet, Calm, ForVerified, Loop
    <2> QED
      BY <2>1, <2>2, <2>4, QuietGoes
  <1>6. ASSUME RefuseAnonymous(r) PROVE Quiet(r)
    BY <1>0, <1>6, QuietPresent
    DEF RefuseAnonymous, At, Done, Late, worldVars, historyVars
  <1> QED
    BY <1>1, <1>2, <1>3, <1>4, <1>5, <1>6

LEMMA QuietLoop ==
  ASSUME TypeInv, NEW r \in Request, ProgressOK(r)
  PROVE  /\ Prompt(r) => Quiet(r)
         /\ ChangeDevice(r) => Quiet(r)
         /\ Submit(r) => Quiet(r)
         /\ CancelInput(r) => Quiet(r)
         /\ FindDevice(r) => Quiet(r)
         /\ CancelledLate(r) => Quiet(r)
         /\ ReportFailure(r) => Quiet(r)
         /\ LeaveError(r) => Quiet(r)
  <1> DEFINE h == handler[r]
  <1>0. HandlersOK /\ h \in Handler /\ WorkersOK
    BY DEF TypeInv, HandlersOK
  <1>1. ASSUME Prompt(r) PROVE Quiet(r)
    <2>1. /\ h.pc \in Loop /\ h.pc \notin Done
          /\ UNCHANGED <<helper, proof, accepted, rejected>>
      BY <1>1 DEF Prompt, At, Loop, Done, Late, worldVars, historyVars
    <2>2. \/ Present(r, h, "input")
          \/ Becomes(r, Examine(r, h)) /\ UNCHANGED answer
      BY <1>1 DEF Prompt
    <2> QED
      BY <1>0, <2>1, <2>2, QuietPresent, QuietExamine
  <1>2. ASSUME ChangeDevice(r) PROVE Quiet(r)
    BY <1>2, QuietGoes DEF ChangeDevice, At, Done, Late, worldVars, historyVars
  <1>3. ASSUME Submit(r) PROVE Quiet(r)
    <2> DEFINE g == [h EXCEPT !.value = Heeds(r).value,
                              !.remember = Heeds(r).remember]
    <2>1. /\ h.pc \in Loop
          /\ UNCHANGED <<answer, helper, proof, accepted, rejected>>
      BY <1>3 DEF Submit, At, Loop, worldVars, historyVars
    <2>2. Heeds(r) \in Input \cup Choice /\ Heeds(r).kind = "submit"
      BY <1>0, <1>3, HeedsType DEF Submit
    <2>3. Heeds(r) \in Input
      BY <2>2 DEF Choice
    <2>4. Heeds(r).value \in Secret \cup {NoSecret} /\ Heeds(r).remember \in BOOLEAN
      BY <2>3, ResponseAssumption DEF Input
    <2>5. /\ g \in Handler /\ g.cand = h.cand
          /\ g.selected = h.selected /\ g.base = h.base
      BY <1>0, <2>4 DEF Handler
    <2>6. Becomes(r, Examine(r, g))
      BY <1>3 DEF Submit
    <2> HIDE DEF g
    <2> QED
      BY <2>1, <2>5, <2>6, QuietExamine
  <1>4. ASSUME CancelInput(r) PROVE Quiet(r)
    BY <1>4, QuietFinish DEF CancelInput, At, Done, Late, worldVars, historyVars
  <1>5. ASSUME FindDevice(r) PROVE Quiet(r)
    <2> DEFINE g == [h EXCEPT !.value = NoSecret]
    <2>1. /\ h.pc \in Loop /\ h.pc \notin Done /\ r \in Verified
          /\ UNCHANGED <<helper, proof, accepted, rejected>>
      BY <1>5
      DEF FindDevice, At, Loop, Done, Late, ProgressOK, ForVerified, worldVars,
          historyVars
    <2>2. \/ Goto(r, "verify") /\ UNCHANGED answer
          \/ Goto(r, "end") /\ UNCHANGED answer
          \/ PresentError(r, g)
      BY <1>5 DEF FindDevice
    <2>3. g \in Handler /\ g.cand = h.cand
      BY <1>0 DEF Handler
    <2> HIDE DEF g
    <2> QED
      BY <2>1, <2>2, <2>3, QuietGoes, QuietPresent
  <1>6. ASSUME CancelledLate(r) PROVE Quiet(r)
    BY <1>6, QuietFinish
    DEF CancelledLate, At, Done, Late, worldVars, historyVars
  <1>7. ASSUME ReportFailure(r) PROVE Quiet(r)
    BY <1>0, <1>7, QuietPresent
    DEF ReportFailure, At, Done, Late, worldVars, historyVars
  <1>8. ASSUME LeaveError(r) PROVE Quiet(r)
    BY <1>8, QuietFinish
    DEF LeaveError, At, Done, Late, worldVars, historyVars
  <1> QED
    BY <1>1, <1>2, <1>3, <1>4, <1>5, <1>6, <1>7, <1>8

---------------------------------------------------------------------------
(* The other steps of a request.                                           *)

\* What Begin supplies is in the cache, hence was not refused.
LEMMA FreshCandidate ==
  ASSUME TypeInv, StoreStep, RejectedGone, rejected' = rejected,
         NEW r \in Request, NEW s \in Expire(store, now),
         store' = Begin(s, now, Identified(r), CallerOf[r]).store,
         handler'[r].cand = Begin(s, now, Identified(r), CallerOf[r]).lookup,
         handler'[r].selected = handler[r].selected,
         handler'[r].base = handler[r].base
  PROVE  CandidateOK(r)' /\ handler'[r].cand.generation <= store'.seq
  <1> DEFINE b == Begin(s, now, Identified(r), CallerOf[r])
             g == handler'[r].cand.generation
             k == KeyOf[r]
  <1>1. StoreOK(s) /\ now \in Nat
    BY StoreExpires
  <1>2. /\ Identified(r) \in Identity /\ Identified(r).key = k
        /\ CallerOf[r] \in Caller
    BY IdentifiedType DEF TypeInv
  <1>3. g # 0 => Holds(store', Identified(r), g)
    BY <1>1, <1>2, BeginAges
  <1>4. g <= store'.seq
    BY <1>1, <1>2, BeginAges
  <1>5. Identified(r)' = Identified(r)
    BY DEF Identified
  <1>6. RejectedGone'
    BY RejectedStaysGone
  <1>7. ASSUME g # 0
        PROVE  /\ <<k, g>> \notin rejected
               /\ store'.entries[k].stamp = Identified(r).stamp
    BY <1>2, <1>3, <1>6, <1>7 DEF Holds, RejectedGone
  <1>8. CandidateOK(r)'
    BY <1>5, <1>7 DEF CandidateOK, HasCandidate
  <1> QED
    BY <1>4, <1>8

LEMMA AskedCache ==
  ASSUME TypeInv, StoreStep, RejectedGone, NEW r \in Request, RequestOK(r),
         AskCache(r)
  PROVE  RequestOK(r)'
  <1> DEFINE h == handler[r]
             g == handler'[r]
  <1>1. PICK l : /\ Becomes(r, [h EXCEPT !.cand = l, !.value = l.secret,
                                         !.pc = "top"])
                 /\ r \in Cacheable =>
                       \E s \in Expire(store, now) :
                          LET b == Begin(s, now, Identified(r), CallerOf[r])
                          IN store' = b.store /\ l = b.lookup
                 /\ r \notin Cacheable => l = NoLookup("none")
    BY DEF AskCache
  <1>2. h \in Handler /\ HandlersOK
    BY DEF TypeInv, HandlersOK
  <1>3. g = [h EXCEPT !.cand = l, !.value = l.secret, !.pc = "top"]
    BY <1>1, <1>2, HandlerNow
  <1>4. /\ g.pc = "top" /\ g.cand = l
        /\ g.selected = h.selected /\ g.base = h.base
    BY <1>2, <1>3 DEF Handler
  <1>5. /\ h.pc \notin Done /\ rejected' = rejected
        /\ answer' = answer /\ helper' = helper
    BY DEF AskCache, At, Done, Late, worldVars, historyVars
  <1>6. answer[r] = Silence /\ answer[r].kind = "none" /\ ProgressOK(r)
    BY <1>5 DEF RequestOK, ProgressOK, Silence
  <1>7. r \notin Cacheable => l.token = 0 /\ l.generation = 0
    BY <1>1, NoLookupType
  <1>8. CandidateOK(r)' /\ l.generation <= store'.seq
    <2>1. CASE r \in Cacheable
      BY <1>1, <1>4, <1>5, <2>1, FreshCandidate
    <2>2. CASE r \notin Cacheable
      BY <1>4, <1>7, <2>2, SeqGrows DEF CandidateOK, HasCandidate
    <2> QED
      BY <2>1, <2>2
  <1>9. ProgressOK(r)'
    BY <1>4, <1>5, <1>6, <1>7, <1>8
    DEF ProgressOK, Done, Late, ForVerified, HasCandidate
  <1>10. ProofOK(r)'
    BY <1>4, <1>5, <1>6 DEF ProofOK, Proven, Late, Judged
  <1> QED
    BY <1>8, <1>9, <1>10 DEF RequestOK

LEMMA AskedAgain ==
  ASSUME TypeInv, StoreStep, RejectedGone, NEW r \in Request, RequestOK(r),
         AskAgain(r)
  PROVE  RequestOK(r)'
  <1> DEFINE h == handler[r]
             g == handler'[r]
             pc == IF h.verdict = "blocked" THEN "failed" ELSE "top"
  <1>1. PICK s \in Expire(store, now) :
          LET b == Begin(s, now, Identified(r), CallerOf[r])
          IN /\ store' = b.store
             /\ Becomes(r, [h EXCEPT !.cand = b.lookup, !.pc = pc])
    BY DEF AskAgain
  <1> DEFINE l == Begin(s, now, Identified(r), CallerOf[r]).lookup
  <1>2. h \in Handler /\ HandlersOK
    BY DEF TypeInv, HandlersOK
  <1>3. g = [h EXCEPT !.cand = l, !.pc = pc]
    BY <1>1, <1>2, HandlerNow
  <1>4. pc \in {"failed", "top"}
    OBVIOUS
  <1> HIDE DEF pc
  <1>5. /\ g.pc = pc /\ g.cand = l
        /\ g.selected = h.selected /\ g.base = h.base
    BY <1>2, <1>3 DEF Handler
  <1>6. /\ h.pc = "again" /\ h.pc \notin Done /\ rejected' = rejected
        /\ answer' = answer /\ helper' = helper
    BY DEF AskAgain, At, Done, Late, worldVars, historyVars
  <1>7. /\ answer[r] = Silence /\ answer[r].kind = "none" /\ ProgressOK(r)
        /\ r \in Cacheable
    BY <1>6 DEF RequestOK, ProgressOK, Silence
  <1>8. CandidateOK(r)' /\ g.cand.generation <= store'.seq
    BY <1>1, <1>5, <1>6, FreshCandidate
  <1>9. ProgressOK(r)'
    BY <1>4, <1>5, <1>6, <1>7, <1>8
    DEF ProgressOK, Done, Late, ForVerified, HasCandidate
  <1>10. ProofOK(r)'
    BY <1>4, <1>5, <1>6, <1>7 DEF ProofOK, Proven, Late, Judged
  <1> QED
    BY <1>8, <1>9, <1>10 DEF RequestOK

LEMMA Rechecked ==
  ASSUME TypeInv, StoreStep, NEW r \in Request, RequestOK(r), Recheck(r)
  PROVE  RequestOK(r)'
  <1> DEFINE h == handler[r]
             g == handler'[r]
             next == IF h.pc = "check" THEN "enumerate" ELSE "final"
  <1>1. /\ h.pc \in {"check", "confirm"} /\ h.pc \notin Done
        /\ UNCHANGED <<answer, helper, proof, accepted, rejected>>
    BY DEF Recheck, At, Done, Late, worldVars, historyVars
  <1>2. h \in Handler /\ HandlersOK
    BY DEF TypeInv, HandlersOK
  <1>3. /\ answer[r] = Silence /\ answer[r].kind = "none" /\ ProgressOK(r)
        /\ HasCandidate(h) /\ r \in Verified /\ r \in Cacheable
    BY <1>1 DEF RequestOK, ProgressOK, Silence, ForVerified
  <1>4. ProofOK(r) /\ CandidateOK(r)
    BY <1>3 DEF RequestOK
  <1>5. h.cand.generation <= store'.seq
    BY <1>3, SeqGrows, GenerationType DEF ProgressOK
  <1>6. CASE ~StillCurrent(r, store')
    <2>1. g = [h EXCEPT !.value = NoSecret, !.verdict = "none", !.pc = "again"]
      BY <1>2, <1>6, HandlerNow DEF Recheck
    <2>2. g.pc = "again" /\ g.cand = h.cand
      BY <1>2, <2>1 DEF Handler
    <2>3. ProgressOK(r)'
      BY <1>1, <1>3, <1>5, <2>2 DEF ProgressOK, Done, Late, ForVerified
    <2>4. ProofOK(r)' /\ CandidateOK(r)'
      BY <1>1, <1>3, <2>2 DEF ProofOK, CandidateOK, Proven, Late, Judged, Loop
    <2> QED
      BY <2>3, <2>4 DEF RequestOK
  <1>7. CASE StillCurrent(r, store')
    <2>1. g = [h EXCEPT !.pc = next]
      BY <1>2, <1>7, HandlerNow DEF Recheck
    <2>2. /\ next \in {"enumerate", "final"}
          /\ next = "enumerate" <=> h.pc = "check"
      OBVIOUS
    <2> HIDE DEF next
    <2>3. /\ g.pc = next /\ g.cand = h.cand /\ g.value = h.value
          /\ g.selected = h.selected /\ g.base = h.base
      BY <1>2, <2>1 DEF Handler
    <2>4. ProgressOK(r)'
      BY <1>1, <1>3, <1>5, <2>2, <2>3
      DEF ProgressOK, Done, Late, ForVerified, HasCandidate
    <2>5. CASE h.pc = "check"
      <3>1. CandidateOK(r)'
        BY <1>1, <1>3, <1>4, <2>3, <2>5, CandidateStays DEF Loop
      <3>2. ProofOK(r)'
        BY <1>1, <1>3, <2>2, <2>3, <2>5 DEF ProofOK, Proven, Late, Judged
      <3> QED
        BY <2>4, <3>1, <3>2 DEF RequestOK
    <2>6. CASE h.pc = "confirm"
      <3>1. g.pc = "final"
        BY <2>2, <2>3, <2>6
      <3>2. IsCurrent(store, Identified(r), h.cand.generation)
        BY <1>3, <1>7, StaysLapsed, GenerationType DEF StillCurrent, ProgressOK
      <3>3. proof[r].current
        BY <1>4, <2>6, <3>2 DEF ProofOK
      <3>4. ProofOK(r)'
        BY <1>1, <1>3, <1>4, <2>3, <2>6, <3>1, <3>3
        DEF ProofOK, Proven, Judged
      <3>5. CandidateOK(r)'
        BY <3>1 DEF CandidateOK, Loop
      <3> QED
        BY <2>4, <3>4, <3>5 DEF RequestOK
    <2> QED
      BY <1>1, <2>5, <2>6
  <1> QED
    BY <1>6, <1>7

LEMMA AskedDevice ==
  ASSUME TypeInv, StoreStep, NEW r \in Request, RequestOK(r), AskDevice(r)
  PROVE  RequestOK(r)'
  <1> DEFINE h == handler[r]
             g == handler'[r]
  <1>1. PICK verdict :
          /\ Becomes(r, [h EXCEPT !.verdict = verdict, !.pc = "verified"])
          /\ IF verdict = "accepted"
             THEN /\ proof' = [proof EXCEPT ![r] =
                         [conn |-> h.selected, value |-> h.value,
                          current |-> HasCandidate(h) =>
                             IsCurrent(store, Identified(r), h.cand.generation)]]
                  /\ accepted' = accepted \cup {<<h.selected, h.value>>}
             ELSE UNCHANGED <<proof, accepted>>
    BY DEF AskDevice
  <1>2. h \in Handler /\ HandlersOK /\ DOMAIN proof = Request
    BY DEF TypeInv, HandlersOK, OthersOK
  <1>3. g = [h EXCEPT !.verdict = verdict, !.pc = "verified"]
    BY <1>1, <1>2, HandlerNow
  <1>4. /\ g.pc = "verified" /\ g.verdict = verdict /\ g.cand = h.cand
        /\ g.selected = h.selected /\ g.base = h.base /\ g.value = h.value
    BY <1>2, <1>3 DEF Handler
  <1>5. /\ h.pc = "verify" /\ h.pc \notin Done
        /\ UNCHANGED <<store, answer, helper, rejected>>
    BY DEF AskDevice, At, Done, Late, worldVars
  <1>6. /\ answer[r] = Silence /\ answer[r].kind = "none" /\ ProgressOK(r)
        /\ r \in Verified
    BY <1>5 DEF RequestOK, ProgressOK, Silence, ForVerified
  <1>7. ProgressOK(r)'
    BY <1>4, <1>5, <1>6
    DEF ProgressOK, Done, Late, ForVerified, HasCandidate
  <1>8. CandidateOK(r)'
    BY <1>4, <1>5, <1>6, CandidateStays DEF RequestOK, Loop
  <1>9. CASE verdict # "accepted"
    <2>1. ProofOK(r)'
      BY <1>4, <1>5, <1>6, <1>9 DEF ProofOK, Proven, Late, Judged
    <2> QED
      BY <1>7, <1>8, <2>1 DEF RequestOK
  <1>10. CASE verdict = "accepted"
    <2> DEFINE current == HasCandidate(h) =>
                             IsCurrent(store, Identified(r), h.cand.generation)
    <2>1. proof'[r] = [conn |-> h.selected, value |-> h.value, current |-> current]
      BY <1>1, <1>2, <1>10
    <2>2. proof'[r].conn = h.selected /\ proof'[r].value = h.value
      BY <2>1
    <2>3. proof'[r].current = current
      BY <2>1
    <2>4. ~proof'[r].current =>
             /\ HasCandidate(h)
             /\ ~IsCurrent(store, Identified(r), h.cand.generation)
      BY <2>3
    <2>5. Identified(r)' = Identified(r) /\ HasCandidate(g) = HasCandidate(h)
      BY <1>4 DEF Identified, HasCandidate
    <2>6. <<h.selected, h.value>> \in accepted'
      BY <1>1, <1>10
    <2>7. g.pc \notin Proven
      BY <1>4 DEF Proven, Late
    <2>8. ProofOK(r)'
      BY <1>4, <1>5, <1>6, <2>2, <2>4, <2>5, <2>6, <2>7 DEF ProofOK
    <2> QED
      BY <1>7, <1>8, <2>8 DEF RequestOK
  <1> QED
    BY <1>9, <1>10

\* A refused candidate is gone from the cache, and nobody else has it.
LEMMA VerdictJudged ==
  ASSUME TypeInv, StoreStep, RejectedGone, NEW r \in Request, RequestOK(r),
         JudgeVerdict(r)
  PROVE  RequestOK(r)' /\ RejectedGone'
  <1> DEFINE h == handler[r]
             g == handler'[r]
             k == KeyOf[r]
             n == h.cand.generation
  <1>1. h \in Handler /\ HandlersOK
    BY DEF TypeInv, HandlersOK
  <1>2. /\ h.pc = "verified" /\ h.pc \notin Done
        /\ UNCHANGED <<answer, helper, proof, accepted>>
    BY DEF JudgeVerdict, DiscardRefused, At, Done, Late, worldVars
  <1>3. /\ answer[r] = Silence /\ answer[r].kind = "none" /\ ProgressOK(r)
        /\ r \in Verified
    BY <1>2 DEF RequestOK, ProgressOK, Silence, ForVerified
  <1>4. ProofOK(r) /\ CandidateOK(r)
    BY <1>3 DEF RequestOK
  <1>5. n <= store'.seq /\ n <= store.seq /\ n \in Nat
    BY <1>3, SeqGrows, GenerationType DEF ProgressOK
  <1>6. CASE h.verdict = "accepted"
    <2> DEFINE pc == IF HasCandidate(h) THEN "confirm" ELSE "final"
    <2>1. Goto(r, pc) /\ UNCHANGED <<store, rejected>>
      BY <1>6 DEF JudgeVerdict, DiscardRefused
    <2>2. /\ pc \in {"confirm", "final"}
          /\ pc = "confirm" => HasCandidate(h)
          /\ pc = "final" => ~HasCandidate(h)
      OBVIOUS
    <2> HIDE DEF pc
    <2>3. /\ g.pc = pc /\ g.cand = h.cand /\ g.value = h.value
          /\ g.selected = h.selected /\ g.base = h.base
      BY <1>1, <2>1, GoesNow
    <2>4. ProgressOK(r)'
      BY <1>2, <1>3, <1>5, <2>2, <2>3
      DEF ProgressOK, Done, Late, ForVerified, HasCandidate
    <2>5. CandidateOK(r)'
      BY <2>2, <2>3 DEF CandidateOK, Loop
    <2>6. Identified(r)' = Identified(r) /\ HasCandidate(g) = HasCandidate(h)
      BY <2>3 DEF Identified, HasCandidate
    <2>7. Judged(h)
      BY <1>2, <1>6 DEF Judged
    <2>8. ProofOK(r)'
      BY <1>2, <1>3, <1>4, <2>1, <2>2, <2>3, <2>6, <2>7 DEF ProofOK, Judged
    <2>9. RejectedGone'
      BY <2>1, RejectedStaysGone
    <2> QED
      BY <2>4, <2>5, <2>8, <2>9 DEF RequestOK
  <1>7. CASE h.verdict \in {"invalid", "blocked"}
    <2> DEFINE pc == IF r \in Cacheable THEN "again"
                     ELSE IF h.verdict = "blocked" THEN "failed"
                     ELSE "top"
    <2>1. /\ store' = DropCandidate(r)
          /\ rejected' = rejected \cup
                (IF HasCandidate(h) THEN {<<k, n>>} ELSE {})
          /\ Becomes(r, [[h EXCEPT !.value = NoSecret] EXCEPT !.pc = pc])
      BY <1>7 DEF JudgeVerdict, DiscardRefused
    <2>2. /\ pc \in {"again", "failed", "top"}
          /\ pc = "again" => r \in Cacheable
          /\ pc = "top" => r \notin Cacheable
      OBVIOUS
    <2> HIDE DEF pc
    <2>3. g = [[h EXCEPT !.value = NoSecret] EXCEPT !.pc = pc]
      BY <1>1, <2>1, HandlerNow
    <2>4. g.pc = pc /\ g.cand = h.cand
      BY <1>1, <2>3 DEF Handler
    <2>5. ProgressOK(r)'
      BY <1>2, <1>3, <1>5, <2>2, <2>4
      DEF ProgressOK, Done, Late, ForVerified, HasCandidate
    <2>6. CandidateOK(r)'
      BY <1>3, <2>2, <2>4 DEF CandidateOK, Loop, HasCandidate, ProgressOK
    <2>7. ProofOK(r)'
      BY <1>2, <1>3, <2>2, <2>4 DEF ProofOK, Proven, Late, Judged
    <2>8. ASSUME HasCandidate(h), k \in HeldKeys(store'),
                 store'.entries[k].generation = n
          PROVE  FALSE
      <3>1. store \in Store /\ store' \in Store /\ StoreOK(store)
        BY DEF TypeInv, StoreOK, StoreStep
      <3>2. k \in HeldKeys(store) /\ store'.entries[k] = store.entries[k]
        BY <1>5, <2>8, <3>1, OldNumbers DEF StoreStep, Commits
      <3>3. store'.entries[k].stamp = Identified(r).stamp
        BY <1>2, <1>4, <2>8, <3>2 DEF CandidateOK, Loop
      <3>4. Identified(r) \in Identity /\ Identified(r).key = k
        BY IdentifiedType DEF TypeInv
      <3>5. Holds(store', Identified(r), n)
        BY <2>8, <3>3, <3>4 DEF Holds
      <3>6. store' = Reject(store, Identified(r), n)
        BY <2>1, <2>8 DEF DropCandidate
      <3> QED
        BY <3>1, <3>4, <3>5, <3>6, RejectAges
    <2>9. RejectedGone'
      <3>1. /\ \A j \in HeldKeys(store') :
                  <<j, store'.entries[j].generation>> \notin rejected
            /\ \A p \in rejected : p[2] # 0 /\ p[2] <= store'.seq
        BY RejectedStaysGone
      <3>2. \A p \in rejected' : p \in rejected \/ (HasCandidate(h) /\ p = <<k, n>>)
        BY <2>1
      <3>3. \A p \in rejected' : p[2] # 0 /\ p[2] <= store'.seq
        BY <1>5, <3>1, <3>2 DEF HasCandidate
      <3>4. ASSUME NEW j \in HeldKeys(store'),
                   <<j, store'.entries[j].generation>> \in rejected'
            PROVE  FALSE
        <4>1. HasCandidate(h) /\ j = k /\ store'.entries[j].generation = n
          BY <3>1, <3>2, <3>4
        <4> QED
          BY <2>8, <3>4, <4>1
      <3> QED
        BY <3>3, <3>4 DEF RejectedGone
    <2> QED
      BY <2>5, <2>6, <2>7, <2>9 DEF RequestOK
  <1>8. CASE h.verdict \notin {"accepted", "invalid", "blocked"}
    <2>1. /\ Becomes(r, [[h EXCEPT !.value = NoSecret] EXCEPT !.pc = "failed"])
          /\ UNCHANGED <<store, rejected>>
      BY <1>8 DEF JudgeVerdict, DiscardRefused
    <2>2. g = [[h EXCEPT !.value = NoSecret] EXCEPT !.pc = "failed"]
      BY <1>1, <2>1, HandlerNow
    <2>3. g.pc = "failed" /\ g.cand = h.cand
      BY <1>1, <2>2 DEF Handler
    <2>4. ProgressOK(r)'
      BY <1>2, <1>3, <1>5, <2>3
      DEF ProgressOK, Done, Late, ForVerified, HasCandidate
    <2>5. CandidateOK(r)' /\ ProofOK(r)'
      BY <1>2, <1>3, <2>3 DEF CandidateOK, Loop, ProofOK, Proven, Late, Judged
    <2>6. RejectedGone'
      BY <2>1, RejectedStaysGone
    <2> QED
      BY <2>4, <2>5, <2>6 DEF RequestOK
  <1> QED
    BY <1>6, <1>7, <1>8

\* A step that ends the request, with what was answered.
LEMMA EndsRequest ==
  ASSUME TypeInv, StoreStep, NEW r \in Request, RequestOK(r), Goto(r, "end"),
         UNCHANGED <<answer, helper, proof, accepted, rejected>>
  PROVE  RequestOK(r)'
  <1>1. handler'[r].pc = "end" /\ handler'[r].cand = handler[r].cand
    BY GoesNow DEF TypeInv
  <1>2. ProgressOK(r)
    BY DEF RequestOK
  <1>3. handler[r].cand.generation <= store'.seq
    BY <1>2, SeqGrows, GenerationType DEF ProgressOK
  <1>4. ProgressOK(r)'
    BY <1>1, <1>2, <1>3 DEF ProgressOK, Done, Late, ForVerified, HasCandidate
  <1>5. ASSUME r \in Verified PROVE ProofOK(r)' /\ CandidateOK(r)'
    BY <1>1, <1>5
    DEF RequestOK, ProofOK, CandidateOK, Proven, Late, Judged, Loop
  <1> QED
    BY <1>4, <1>5 DEF RequestOK

LEMMA LateRequest ==
  ASSUME TypeInv, StoreStep, NEW r \in Request, RequestOK(r)
  PROVE  /\ Conclude(r) => RequestOK(r)'
         /\ SendAnswer(r) => RequestOK(r)'
         /\ Acknowledged(r) => RequestOK(r)'
         /\ CommitAnswer(r) => RequestOK(r)'
         /\ Return(r) => RequestOK(r)'
  <1> DEFINE h == handler[r]
             g == handler'[r]
  <1>0. HandlersOK /\ h \in Handler /\ ProgressOK(r)
    BY DEF TypeInv, HandlersOK, RequestOK
  <1>1. h.cand.generation <= store'.seq
    BY <1>0, SeqGrows, GenerationType DEF ProgressOK
  <1>2. ASSUME Conclude(r) PROVE RequestOK(r)'
    <2>1. /\ Goto(r, "send") /\ h.pc = "final"
          /\ UNCHANGED <<answer, helper, proof, accepted>>
      BY <1>2 DEF Conclude, At, worldVars, historyVars
    <2>2. /\ g.pc = "send" /\ g.cand = h.cand /\ g.value = h.value
          /\ g.selected = h.selected
      BY <1>0, <2>1, GoesNow
    <2>3. ProgressOK(r)'
      BY <1>0, <1>1, <2>1, <2>2
      DEF ProgressOK, Done, Late, ForVerified, HasCandidate
    <2>4. ASSUME r \in Verified PROVE ProofOK(r)' /\ CandidateOK(r)'
      BY <2>1, <2>2, <2>4
      DEF RequestOK, ProofOK, CandidateOK, Proven, Judged, Loop
    <2> QED
      BY <2>3, <2>4 DEF RequestOK
  <1>3. ASSUME SendAnswer(r) PROVE RequestOK(r)'
    <2>1. /\ h.pc = "send"
          /\ UNCHANGED <<helper, proof, accepted, rejected>>
      BY <1>3 DEF SendAnswer, At, worldVars, historyVars
    <2>2. CASE Goto(r, "end") /\ UNCHANGED answer
      BY <2>1, <2>2, EndsRequest
    <2>3. CASE /\ answer' = [answer EXCEPT ![r] = Answered(h.value)]
               /\ Goto(r, "sent")
      <3>1. /\ g.pc = "sent" /\ g.cand = h.cand /\ g.value = h.value
            /\ g.selected = h.selected
        BY <1>0, <2>3, GoesNow
      <3>2. /\ answer'[r] = Answered(h.value)
            /\ Answered(h.value).kind = "secret" /\ Answered(h.value).value = h.value
        BY <2>3 DEF TypeInv, OthersOK, Answered
      <3>3. ProgressOK(r)'
        BY <1>0, <1>1, <2>1, <3>1, <3>2
        DEF ProgressOK, Done, Late, ForVerified, HasCandidate
      <3>4. ASSUME r \in Verified PROVE ProofOK(r)' /\ CandidateOK(r)'
        BY <2>1, <3>1, <3>2, <3>4
        DEF RequestOK, ProofOK, CandidateOK, Proven, Late, Judged, Loop
      <3> QED
        BY <3>3, <3>4 DEF RequestOK
    <2> QED
      BY <1>3, <2>2, <2>3 DEF SendAnswer
  <1>4. ASSUME Acknowledged(r) PROVE RequestOK(r)'
    <2> DEFINE keep == h.cand.token # 0 /\ h.remember /\ h.value # NoSecret
                          /\ version[KeyOf[r]] = h.base
               pc == IF keep THEN "commit" ELSE "prefs"
    <2>1. /\ h.pc = "sent" /\ helper[r] = "acked" /\ Goto(r, pc)
          /\ UNCHANGED <<answer, helper, proof, accepted>>
      BY <1>4 DEF Acknowledged, Delivered, At, worldVars, historyVars
    <2>2. /\ pc \in {"commit", "prefs"}
          /\ pc = "commit" => h.cand.token # 0 /\ h.remember
      OBVIOUS
    <2> HIDE DEF pc
    <2>3. /\ g.pc = pc /\ g.cand = h.cand /\ g.value = h.value
          /\ g.selected = h.selected /\ g.remember = h.remember
      BY <1>0, <2>1, GoesNow
    <2>4. ProgressOK(r)'
      BY <1>0, <1>1, <2>1, <2>2, <2>3
      DEF ProgressOK, Done, Late, ForVerified, HasCandidate
    <2>5. ASSUME r \in Verified PROVE ProofOK(r)' /\ CandidateOK(r)'
      BY <2>1, <2>2, <2>3, <2>5
      DEF RequestOK, ProofOK, CandidateOK, Proven, Late, Judged, Loop
    <2> QED
      BY <2>4, <2>5 DEF RequestOK
  <1>5. ASSUME CommitAnswer(r) PROVE RequestOK(r)'
    <2>1. PICK b : Becomes(r, [h EXCEPT !.stored = b, !.pc = "prefs"])
      BY <1>5 DEF CommitAnswer
    <2>2. h.pc = "commit" /\ UNCHANGED <<answer, helper, proof, accepted>>
      BY <1>5 DEF CommitAnswer, At, worldVars, historyVars
    <2>3. g = [h EXCEPT !.stored = b, !.pc = "prefs"]
      BY <1>0, <2>1, HandlerNow
    <2>4. /\ g.pc = "prefs" /\ g.cand = h.cand /\ g.value = h.value
          /\ g.selected = h.selected
      BY <1>0, <2>3 DEF Handler
    <2>5. ProgressOK(r)'
      BY <1>0, <1>1, <2>2, <2>4
      DEF ProgressOK, Done, Late, ForVerified, HasCandidate
    <2>6. ASSUME r \in Verified PROVE ProofOK(r)' /\ CandidateOK(r)'
      BY <2>2, <2>4, <2>6
      DEF RequestOK, ProofOK, CandidateOK, Proven, Late, Judged, Loop
    <2> QED
      BY <2>5, <2>6 DEF RequestOK
  <1>6. ASSUME Return(r) PROVE RequestOK(r)'
    <2> DEFINE o == [Fresh EXCEPT !.pc = "over", !.base = h.base,
                                  !.remember = h.remember]
    <2>1. /\ g = o /\ h.pc = "end"
          /\ UNCHANGED <<answer, helper, proof, accepted>>
      BY <1>0, <1>6, HandlerNow DEF Return, At, worldVars, historyVars
    <2>2. o.pc = "over" /\ o.cand = NoLookup("none")
      BY DEF Fresh
    <2> HIDE DEF o
    <2>3. g.pc = "over" /\ g.cand.token = 0 /\ g.cand.generation = 0
      BY <2>1, <2>2, NoLookupType
    <2>4. ProgressOK(r)'
      BY <1>0, <2>1, <2>3, SeqGrows
      DEF ProgressOK, Done, Late, ForVerified, HasCandidate
    <2>5. ASSUME r \in Verified PROVE ProofOK(r)' /\ CandidateOK(r)'
      BY <2>1, <2>3, <2>5
      DEF RequestOK, ProofOK, CandidateOK, Proven, Late, Judged, Loop
    <2> QED
      BY <2>4, <2>5 DEF RequestOK
  <1> QED
    BY <1>2, <1>3, <1>4, <1>5, <1>6

---------------------------------------------------------------------------
(* Every step keeps the invariant of the requests.                         *)

LEMMA OwnStep ==
  ASSUME TypeInv, StoreStep, RejectedGone, NEW r \in Request, RequestOK(r),
         HandlerStep(r)
  PROVE  RequestOK(r)'
  <1>0. ProgressOK(r)
    BY DEF RequestOK
  <1>1. CASE \/ Accept(r) \/ AcquireHardware(r) \/ SelectDevice(r)
             \/ CancelSelection(r) \/ Choose(r) \/ RefuseAnonymous(r)
    BY <1>1, QuietSelection, QuietRequest
  <1>2. CASE \/ Prompt(r) \/ ChangeDevice(r) \/ Submit(r) \/ CancelInput(r)
             \/ FindDevice(r) \/ CancelledLate(r) \/ ReportFailure(r)
             \/ LeaveError(r)
    BY <1>0, <1>2, QuietLoop, QuietRequest
  <1>3. CASE \/ AskCache(r) \/ AskAgain(r) \/ Recheck(r) \/ AskDevice(r)
             \/ JudgeVerdict(r)
    BY <1>3, AskedCache, AskedAgain, Rechecked, AskedDevice, VerdictJudged
  <1>4. CASE \/ Conclude(r) \/ SendAnswer(r) \/ Acknowledged(r)
             \/ CommitAnswer(r) \/ Return(r)
    BY <1>4, LateRequest
  <1>5. CASE SavePreference(r) \/ AckTimeout(r) \/ Abandon(r) \/ LoseDialog(r)
    BY <1>5, EndsRequest
    DEF SavePreference, AckTimeout, Abandon, LoseDialog, worldVars, historyVars
  <1>6. CASE PassOver(r)
    BY <1>6, RequestWaits DEF PassOver, worldVars, historyVars
  <1> QED
    BY <1>1, <1>2, <1>3, <1>4, <1>5, <1>6 DEF HandlerStep

\* Only the verdict on a request makes a number rejected.
LEMMA OnlyVerdictsReject ==
  ASSUME NEW r \in Request, HandlerStep(r), ~JudgeVerdict(r)
  PROVE  rejected' = rejected
  BY DEF HandlerStep, Accept, AcquireHardware, SelectDevice, CancelSelection,
         Choose, RefuseAnonymous, AskCache, Prompt, ChangeDevice, Submit,
         CancelInput, Recheck, AskAgain, FindDevice, AskDevice, CancelledLate,
         ReportFailure, LeaveError, Conclude, SendAnswer, Acknowledged,
         CommitAnswer, SavePreference, AckTimeout, Abandon, LoseDialog, Return,
         PassOver, historyVars

\* While a verified request is judged no other one presents a candidate.
LEMMA OtherStep ==
  ASSUME TypeInv, StoreStep, HardwareInv, NEW r \in Request, NEW q \in Request,
         q # r, RequestOK(r), RequestOK(q), HandlerStep(r)
  PROVE  RequestOK(q)'
  <1>1. Others(r)
    BY OthersWait
  <1>2. /\ handler'[q] = handler[q] /\ answer'[q] = answer[q]
        /\ proof'[q] = proof[q] /\ helper'[q] = helper[q]
        /\ accepted \subseteq accepted'
    BY <1>1 DEF Others
  <1>3. rejected' = rejected \/ ~(q \in Verified /\ handler[q].pc \in Loop)
    <2>1. CASE JudgeVerdict(r)
      <3>1. handler[r].pc = "verified" /\ r \in Verified
        BY <2>1
        DEF JudgeVerdict, DiscardRefused, At, RequestOK, ProgressOK, ForVerified
      <3>2. lock = r
        BY <3>1 DEF HardwareInv, Outside, Without
      <3>3. q \in Verified /\ handler[q].pc \in Loop => lock = q
        BY DEF HardwareInv, Outside, Without, Loop
      <3> QED
        BY <3>2, <3>3
    <2>2. CASE ~JudgeVerdict(r)
      BY <2>2, OnlyVerdictsReject
    <2> QED
      BY <2>1, <2>2
  <1> QED
    BY <1>2, <1>3, RequestWaits

LEMMA HelperMoves ==
  ASSUME TypeInv, StoreStep, NEW r \in Request, RequestOK(r),
         HelperStep(r) \/ HelperDies(r)
  PROVE  RequestOK(r)'
  <1>1. PICK state \in {"printed", "acked", "exited", "gone"} :
           /\ HelperBecomes(r, state)
           /\ state \in {"printed", "acked"} => answer[r].kind = "secret"
           /\ state # "acked" => helper[r] # "acked"
    BY DEF HelperStep, HelperDies, HelperExits, HelperPrints, HelperAcknowledges,
           RequestOK, ProgressOK
  <1>2. /\ helper'[r] = state
        /\ UNCHANGED <<store, handler, answer, proof, accepted, rejected>>
    BY <1>1 DEF HelperBecomes, TypeInv, OthersOK, serviceVars, historyVars
  <1>3. ProgressOK(r)'
    BY <1>1, <1>2 DEF RequestOK, ProgressOK
  <1>4. Identified(r)' = Identified(r)
    BY <1>2 DEF Identified
  <1>5. r \in Verified => ProofOK(r)' /\ CandidateOK(r)'
    BY <1>2, <1>4 DEF RequestOK, ProofOK, CandidateOK
  <1> QED
    BY <1>3, <1>5 DEF RequestOK

LEMMA NextKeepsRequests ==
  ASSUME RequestsInv, [Next]_vars
  PROVE  RequestsInv'
  <1>0. TypeInv /\ StoreStep /\ HardwareInv /\ RejectedGone
    BY StoreSteps DEF RequestsInv
  <1>1. TypeInv' /\ HardwareInv'
    BY <1>0, NextKeepsTypes, NextKeepsHardware
  <1> DEFINE Goal == RejectedGone' /\ \A q \in Request : RequestOK(q)'
  <1>2. ASSUME UNCHANGED <<handler, answer, helper, proof, accepted, rejected>>
        PROVE  Goal
    BY <1>0, <1>2, RequestWaits, RejectedStaysGone DEF RequestsInv
  <1>3. ASSUME NEW r \in Request, HandlerStep(r) PROVE Goal
    <2>1. RequestOK(r)
      BY DEF RequestsInv
    <2>2. RequestOK(r)'
      BY <1>0, <1>3, <2>1, OwnStep
    <2>3. \A q \in Request \ {r} : RequestOK(q)'
      BY <1>0, <1>3, <2>1, OtherStep DEF RequestsInv
    <2>4. RejectedGone'
      <3>1. CASE JudgeVerdict(r)
        BY <1>0, <2>1, <3>1, VerdictJudged
      <3>2. CASE ~JudgeVerdict(r)
        BY <1>0, <1>3, <3>2, OnlyVerdictsReject, RejectedStaysGone
      <3> QED
        BY <3>1, <3>2
    <2> QED
      BY <2>2, <2>3, <2>4
  <1>4. ASSUME NEW r \in Request, HelperStep(r) \/ HelperDies(r) PROVE Goal
    <2>1. PICK state : HelperBecomes(r, state)
      BY <1>4 DEF HelperStep, HelperDies, HelperExits, HelperPrints,
                  HelperAcknowledges
    <2>2. /\ \A q \in Request \ {r} : helper'[q] = helper[q]
          /\ UNCHANGED <<handler, answer, proof, accepted, rejected>>
      BY <1>0, <2>1
      DEF HelperBecomes, TypeInv, OthersOK, serviceVars, historyVars
    <2>3. RequestOK(r)'
      BY <1>0, <1>4, HelperMoves DEF RequestsInv
    <2>4. \A q \in Request \ {r} : RequestOK(q)'
      BY <1>0, <2>2, RequestWaits DEF RequestsInv
    <2>5. RejectedGone'
      BY <1>0, <2>2, RejectedStaysGone
    <2> QED
      BY <2>3, <2>4, <2>5
  <1>5. ASSUME \/ \E r \in Request :
                     \/ ReadFrame(r) \/ NoticeHangup(r)
                     \/ RenderView(r) \/ PressControl(r) \/ DismissDialog(r)
                     \/ TimerRefreshes(r) \/ DialogDies(r)
               \/ \E k \in Key : FileChanges(k) \/ UserForgets(k)
               \/ \E c \in Conn : DeviceMoves(c)
               \/ SweepCache
               \/ Tick
               \/ Finished
               \/ UNCHANGED vars
        PROVE  UNCHANGED <<handler, answer, helper, proof, accepted, rejected>>
    BY <1>5
    DEF ReadFrame, NoticeHangup, RenderView, PressControl, DismissDialog,
        TimerRefreshes, DialogDies, Dialog, FileChanges, UserForgets,
        DeviceMoves, SweepCache, Tick, Finished, vars, serviceVars, worldVars,
        historyVars
  <1>6. Goal
    BY <1>2, <1>3, <1>4, <1>5 DEF Next
  <1> QED
    BY <1>1, <1>6 DEF RequestsInv

LEMMA RequestsAlways == Spec => []RequestsInv
  <1>1. Init => RequestsInv
    BY RequestsInitial
  <1>2. RequestsInv /\ [Next]_vars => RequestsInv'
    BY NextKeepsRequests
  <1> QED
    BY <1>1, <1>2, PTL DEF Spec

\* Whatever the users, the devices, the dialogs and the other requests do: a
\* PIN that ssh receives was accepted by the device for this request, as this
\* value, while the cache still held it (service.go:298, 348).
THEOREM OnlyVerifiedPinsReturned == Spec => []OnlyVerifiedPinReturned
  <1>1. RequestsInv => OnlyVerifiedPinReturned
    <2> SUFFICES ASSUME RequestsInv, NEW r \in Verified, answer[r].kind = "secret"
                 PROVE  /\ proof[r].value = answer[r].value
                        /\ proof[r].current
                        /\ At(r, "sent") => proof[r].conn = handler[r].selected
      BY DEF OnlyVerifiedPinReturned
    <2>1. ProofOK(r)
      BY RequestsAssumption DEF RequestsInv, RequestOK
    <2>2. At(r, "sent") => handler[r].pc \in Proven
      BY DEF At, Proven, Late
    <2> QED
      BY <2>1, <2>2 DEF ProofOK
  <1> QED
    BY <1>1, RequestsAlways, PTL

\* A cached PIN of whose refusal a handler has learnt is never presented again,
\* by whichever request, however the requests interleave (service.go:360).
THEOREM RejectedPinsNeverRetried == Spec => []RejectedNeverRetried
  <1>1. RequestsInv => RejectedNeverRetried
    <2> SUFFICES ASSUME RequestsInv, NEW r \in Request, At(r, "verify"),
                        <<KeyOf[r], handler[r].cand.generation>> \in rejected
                 PROVE  FALSE
      BY DEF RejectedNeverRetried
    <2>1. RequestOK(r) /\ RejectedGone
      BY DEF RequestsInv
    <2>2. handler[r].pc \in Loop /\ handler[r].pc \in ForVerified
      BY DEF At, Loop, ForVerified
    <2>3. CandidateOK(r)
      BY <2>1, <2>2 DEF RequestOK, ProgressOK
    <2> DEFINE p == <<KeyOf[r], handler[r].cand.generation>>
    <2>4. p[2] # 0
      BY <2>1 DEF RejectedGone
    <2>5. HasCandidate(handler[r])
      BY <2>4 DEF HasCandidate
    <2> QED
      BY <2>2, <2>3, <2>5 DEF CandidateOK
  <1> QED
    BY <1>1, RequestsAlways, PTL

---------------------------------------------------------------------------
(* What is left of a request that was answered, and what it leaves behind. *)

\* An acknowledged request has been answered, and nothing changes any more of
\* what it answered, to whom, and what its user wanted.
LEMMA Settled ==
  ASSUME RequestsInv, [Next]_vars, NEW r \in Request, helper[r] = "acked"
  PROVE  /\ helper'[r] = "acked"
         /\ answer'[r] = answer[r] /\ proof'[r] = proof[r]
         /\ handler'[r].base = handler[r].base
         /\ handler'[r].remember = handler[r].remember
  <1> DEFINE h == handler[r]
             Goal == /\ helper'[r] = "acked"
                     /\ answer'[r] = answer[r] /\ proof'[r] = proof[r]
                     /\ handler'[r].base = h.base
                     /\ handler'[r].remember = h.remember
  <1>0. TypeInv /\ ProgressOK(r) /\ HandlersOK /\ h \in Handler
    BY DEF RequestsInv, RequestOK, TypeInv, HandlersOK
  <1>1. answer[r].kind = "secret" /\ Silence.kind = "none"
    BY <1>0 DEF ProgressOK, Silence
  <1>2. h.pc \in Done
    BY <1>0, <1>1 DEF ProgressOK
  <1>3. ASSUME HandlerStep(r) PROVE Goal
    <2>1. \/ Acknowledged(r) \/ CommitAnswer(r) \/ SavePreference(r)
          \/ AckTimeout(r) \/ Abandon(r) \/ Return(r)
      BY <1>2, <1>3
      DEF HandlerStep, Done, Late, At, Accept, AcquireHardware, LockFree,
          SelectDevice, CancelSelection, Choose, RefuseAnonymous, AskCache,
          Prompt, ChangeDevice, Submit, CancelInput, Recheck, AskAgain,
          FindDevice, AskDevice, CancelledLate, JudgeVerdict, DiscardRefused,
          ReportFailure,
          LeaveError, Conclude, SendAnswer, LoseDialog, PassOver
    <2>2. UNCHANGED <<answer, helper, proof>>
      BY <2>1
      DEF Acknowledged, CommitAnswer, SavePreference, AckTimeout, Abandon,
          Return, worldVars, historyVars
    <2>3. CASE CommitAnswer(r)
      <3>1. PICK b : Becomes(r, [h EXCEPT !.stored = b, !.pc = "prefs"])
        BY <2>3 DEF CommitAnswer
      <3>2. handler'[r] = [h EXCEPT !.stored = b, !.pc = "prefs"]
        BY <1>0, <3>1, HandlerNow
      <3>3. handler'[r].base = h.base /\ handler'[r].remember = h.remember
        BY <1>0, <3>2 DEF Handler
      <3> QED
        BY <2>2, <3>3
    <2>4. CASE Return(r)
      <3> DEFINE o == [Fresh EXCEPT !.pc = "over", !.base = h.base,
                                    !.remember = h.remember]
      <3>1. handler'[r] = o
        BY <1>0, <2>4, HandlerNow DEF Return
      <3>2. o.base = h.base /\ o.remember = h.remember
        BY DEF Fresh
      <3> QED
        BY <2>2, <3>1, <3>2
    <2>5. CASE \E pc : Goto(r, pc)
      BY <1>0, <2>2, <2>5, GoesNow
    <2> QED
      BY <2>1, <2>3, <2>4, <2>5
      DEF Acknowledged, SavePreference, AckTimeout, Abandon
  <1>4. ASSUME NEW q \in Request, q # r, HandlerStep(q) PROVE Goal
    BY <1>0, <1>4, OthersWait DEF Others
  <1>5. ASSUME NEW q \in Request, HelperStep(q) \/ HelperDies(q) PROVE Goal
    <2>1. q # r \/ ~(HelperStep(q) \/ HelperDies(q))
      BY DEF HelperStep, HelperDies, HelperExits, HelperPrints, HelperAcknowledges
    <2>2. PICK state : HelperBecomes(q, state)
      BY <1>5 DEF HelperStep, HelperDies, HelperExits, HelperPrints,
                  HelperAcknowledges
    <2> QED
      BY <1>0, <1>5, <2>1, <2>2
      DEF HelperBecomes, TypeInv, OthersOK, serviceVars, historyVars
  <1>6. CASE \/ \E q \in Request :
                   \/ ReadFrame(q) \/ NoticeHangup(q)
                   \/ RenderView(q) \/ PressControl(q) \/ DismissDialog(q)
                   \/ TimerRefreshes(q) \/ DialogDies(q)
             \/ \E k \in Key : FileChanges(k) \/ UserForgets(k)
             \/ \E c \in Conn : DeviceMoves(c)
             \/ SweepCache
             \/ Tick
             \/ Finished
             \/ UNCHANGED vars
    <2>1. UNCHANGED <<handler, answer, helper, proof>>
      BY <1>6
      DEF ReadFrame, NoticeHangup, RenderView, PressControl, DismissDialog,
          TimerRefreshes, DialogDies, Dialog, FileChanges, UserForgets,
          DeviceMoves, SweepCache, Tick, Finished, vars, serviceVars, worldVars,
          historyVars
    <2> QED
      BY <2>1
  <1> QED
    BY <1>3, <1>4, <1>5, <1>6 DEF Next

\* A filled entry was there before, or a request has just stored it.
LEMMA FilledBefore ==
  ASSUME TypeInv, StoreStep, NEW k \in FilledKeys(store')
  PROVE  \/ k \in FilledKeys(store) /\ store'.entries[k] = store.entries[k]
         \/ \E r \in Request :
               /\ handler[r].pc = "commit" /\ KeyOf[r] = k
               /\ store'.entries[k].stamp = Identified(r).stamp
               /\ store'.entries[k].secret = handler[r].value
  <1>1. k \in HeldKeys(store') /\ store'.entries[k].secret # NoSecret
    BY DEF FilledKeys
  <1>2. CASE Ages(store, store')
    BY <1>1, <1>2 DEF Ages, FilledKeys
  <1>3. ASSUME NEW r \in Request, Commits(r)
        PROVE  \/ k \in FilledKeys(store) /\ store'.entries[k] = store.entries[k]
               \/ /\ handler[r].pc = "commit" /\ KeyOf[r] = k
                  /\ store'.entries[k].stamp = Identified(r).stamp
                  /\ store'.entries[k].secret = handler[r].value
    <2>1. Identified(r).key = KeyOf[r]
      BY IdentifiedType DEF TypeInv
    <2>2. CASE k = KeyOf[r]
      BY <1>3, <2>1, <2>2 DEF Commits, Filled, At
    <2>3. CASE k # KeyOf[r]
      <3>1. \/ k \in HeldKeys(store) /\ store'.entries[k] = store.entries[k]
            \/ store'.entries[k].secret = NoSecret
        BY <1>1, <1>3, <2>1, <2>3 DEF Commits, Filled
      <3> QED
        BY <1>1, <3>1 DEF FilledKeys
    <2> QED
      BY <2>2, <2>3
  <1> QED
    BY <1>2, <1>3 DEF StoreStep

LEMMA DeliveredStays ==
  ASSUME RequestsInv, CachedWasDelivered, [Next]_vars
  PROVE  CachedWasDelivered'
  <1>0. TypeInv /\ StoreStep
    BY StoreSteps DEF RequestsInv
  <1> DEFINE Earned(k, q) ==
               /\ KeyOf[q] = k /\ helper'[q] = "acked"
               /\ answer'[q] = Answered(store'.entries[k].secret)
               /\ handler'[q].remember
               /\ handler'[q].base = store'.entries[k].stamp[1]
  <1> SUFFICES ASSUME NEW k \in FilledKeys(store')
               PROVE  \E q \in Cacheable : Earned(k, q)
    BY DEF CachedWasDelivered
  <1>1. CASE k \in FilledKeys(store) /\ store'.entries[k] = store.entries[k]
    <2>1. PICK q \in Cacheable :
             /\ KeyOf[q] = k /\ helper[q] = "acked"
             /\ answer[q] = Answered(store.entries[k].secret)
             /\ handler[q].remember
             /\ handler[q].base = store.entries[k].stamp[1]
      BY <1>1 DEF CachedWasDelivered
    <2>2. q \in Request
      BY RequestsAssumption
    <2>3. /\ helper'[q] = "acked" /\ answer'[q] = answer[q]
          /\ handler'[q].base = handler[q].base
          /\ handler'[q].remember = handler[q].remember
      BY <2>1, <2>2, Settled
    <2>4. Earned(k, q)
      BY <1>1, <2>1, <2>3
    <2> QED
      BY <2>4
  <1>2. ASSUME NEW q \in Request,
               handler[q].pc = "commit", KeyOf[q] = k,
               store'.entries[k].stamp = Identified(q).stamp,
               store'.entries[k].secret = handler[q].value
        PROVE  q \in Cacheable /\ Earned(k, q)
    <2>1. ProgressOK(q)
      BY DEF RequestsInv, RequestOK
    <2>2. /\ helper[q] = "acked" /\ answer[q] = Answered(handler[q].value)
          /\ handler[q].remember /\ q \in Cacheable
      BY <1>2, <2>1 DEF ProgressOK, Late
    <2>3. /\ helper'[q] = "acked" /\ answer'[q] = answer[q]
          /\ handler'[q].base = handler[q].base
          /\ handler'[q].remember = handler[q].remember
      BY <2>2, Settled
    <2>4. Identified(q).stamp[1] = handler[q].base
      BY DEF Identified
    <2> QED
      BY <1>2, <2>2, <2>3, <2>4
  <1> HIDE DEF Earned
  <1> QED
    BY <1>0, <1>1, <1>2, FilledBefore

\* Nothing that a device has accepted is ever taken back.
LEMMA AcceptedGrows ==
  ASSUME TypeInv, [Next]_vars
  PROVE  accepted \subseteq accepted'
  <1>1. ASSUME NEW r \in Request, HandlerStep(r)
        PROVE  accepted \subseteq accepted'
    BY <1>1, OthersWait DEF Others
  <1>2. ASSUME \/ \E r \in Request :
                     \/ ReadFrame(r) \/ NoticeHangup(r)
                     \/ RenderView(r) \/ PressControl(r) \/ DismissDialog(r)
                     \/ TimerRefreshes(r) \/ DialogDies(r)
                     \/ HelperStep(r) \/ HelperDies(r)
               \/ \E k \in Key : FileChanges(k) \/ UserForgets(k)
               \/ \E c \in Conn : DeviceMoves(c)
               \/ SweepCache
               \/ Tick
               \/ Finished
               \/ UNCHANGED vars
        PROVE  accepted' = accepted
    BY <1>2
    DEF ReadFrame, NoticeHangup, RenderView, PressControl, DismissDialog,
        TimerRefreshes, DialogDies, Dialog, HelperStep, HelperDies, HelperExits,
        HelperPrints, HelperAcknowledges, HelperBecomes, FileChanges,
        UserForgets, DeviceMoves, SweepCache, Tick, Finished, vars, serviceVars,
        worldVars, historyVars
  <1> QED
    BY <1>1, <1>2 DEF Next

LEMMA BoundStays ==
  ASSUME RequestsInv, CachedPinBoundToDevice, [Next]_vars
  PROVE  CachedPinBoundToDevice'
  <1>0. TypeInv /\ StoreStep /\ accepted \subseteq accepted'
    BY StoreSteps, AcceptedGrows DEF RequestsInv
  <1> SUFFICES ASSUME NEW k \in FilledKeys(store'),
                      NEW v \in Verified, KeyOf[v] = k
               PROVE  <<store'.entries[k].stamp[2], store'.entries[k].secret>>
                         \in accepted'
    BY DEF CachedPinBoundToDevice
  <1>1. CASE k \in FilledKeys(store) /\ store'.entries[k] = store.entries[k]
    BY <1>0, <1>1 DEF CachedPinBoundToDevice
  <1>2. ASSUME NEW q \in Request,
               handler[q].pc = "commit", KeyOf[q] = k,
               store'.entries[k].stamp = Identified(q).stamp,
               store'.entries[k].secret = handler[q].value
        PROVE  <<store'.entries[k].stamp[2], store'.entries[k].secret>>
                  \in accepted'
    <2>1. q \in Verified
      BY <1>2, KindsAssumption, RequestsAssumption
    <2>2. ProofOK(q) /\ handler[q].pc \in Proven
      BY <1>2, <2>1 DEF RequestsInv, RequestOK, Proven, Late
    <2>3. Identified(q).stamp[2] = handler[q].selected
      BY <2>1 DEF Identified
    <2> QED
      BY <1>0, <1>2, <2>2, <2>3 DEF ProofOK
  <1> QED
    BY <1>0, <1>1, <1>2, FilledBefore

\* A preference is written by a request that was acknowledged.
LEMMA EarnedStays ==
  ASSUME RequestsInv, PreferenceEarned, [Next]_vars
  PROVE  PreferenceEarned'
  <1>0. TypeInv
    BY DEF RequestsInv
  <1> DEFINE Earned(k) == \E q \in Verified :
                             /\ KeyOf[q] = k /\ helper'[q] = "acked"
                             /\ proof'[q].conn = pref'[k]
  <1>1. ASSUME NEW k \in Key, pref'[k] # NoConn, pref'[k] = pref[k]
        PROVE  Earned(k)
    <2>1. PICK q \in Verified : /\ KeyOf[q] = k /\ helper[q] = "acked"
                                /\ proof[q].conn = pref[k]
      BY <1>1 DEF PreferenceEarned
    <2>2. helper'[q] = "acked" /\ proof'[q] = proof[q]
      BY <2>1, Settled, RequestsAssumption
    <2> QED
      BY <1>1, <2>1, <2>2
  <1>2. ASSUME NEW r \in Request, SavePreference(r),
               NEW k \in Key, pref'[k] # NoConn, pref'[k] # pref[k]
        PROVE  Earned(k)
    <2>1. /\ k = KeyOf[r] /\ r \in Verified
          /\ pref'[k] = handler[r].selected
      BY <1>0, <1>2 DEF SavePreference, Saves, TypeInv, OthersOK
    <2>2. handler[r].pc = "prefs"
      BY <1>2 DEF SavePreference, At
    <2>3. helper[r] = "acked" /\ proof[r].conn = handler[r].selected
      BY <2>1, <2>2
      DEF RequestsInv, RequestOK, ProgressOK, ProofOK, Proven, Late
    <2>4. helper'[r] = "acked" /\ proof'[r] = proof[r]
      BY <2>3, Settled
    <2> QED
      BY <2>1, <2>3, <2>4
  <1>3. ASSUME NEW r \in Request, HandlerStep(r), ~SavePreference(r)
        PROVE  pref' = pref
    BY <1>3
    DEF HandlerStep, Accept, AcquireHardware, SelectDevice, CancelSelection,
        Choose, RefuseAnonymous, AskCache, Prompt, ChangeDevice, Submit,
        CancelInput, Recheck, AskAgain, FindDevice, AskDevice, CancelledLate,
        JudgeVerdict, DiscardRefused, ReportFailure, LeaveError, Conclude,
        SendAnswer,
        Acknowledged, CommitAnswer, AckTimeout, Abandon, LoseDialog, Return,
        PassOver
  <1>4. ASSUME \/ \E r \in Request :
                     \/ ReadFrame(r) \/ NoticeHangup(r)
                     \/ RenderView(r) \/ PressControl(r) \/ DismissDialog(r)
                     \/ TimerRefreshes(r) \/ DialogDies(r)
                     \/ HelperStep(r) \/ HelperDies(r)
               \/ \E k \in Key : FileChanges(k) \/ UserForgets(k)
               \/ \E c \in Conn : DeviceMoves(c)
               \/ SweepCache
               \/ Tick
               \/ Finished
               \/ UNCHANGED vars
        PROVE  pref' = pref
    BY <1>4
    DEF ReadFrame, NoticeHangup, RenderView, PressControl, DismissDialog,
        TimerRefreshes, DialogDies, Dialog, HelperStep, HelperDies, HelperExits,
        HelperPrints, HelperAcknowledges, HelperBecomes, FileChanges,
        UserForgets, DeviceMoves, SweepCache, Tick, Finished, vars, serviceVars,
        worldVars
  <1>5. (\E r \in Request : SavePreference(r)) \/ pref' = pref
    BY <1>3, <1>4 DEF Next
  <1>6. \A k \in Key : pref'[k] # NoConn => Earned(k)
    BY <1>1, <1>2, <1>5
  <1> QED
    BY <1>6 DEF PreferenceEarned

\* Whatever Handle caches was printed and acknowledged first, for this version
\* of the key file and with "Remember" ticked: nothing that a helper did not live
\* to deliver is stored, in any interleaving of requests, forgets, expiries and
\* changes of the file (service.go:396, 409-420).  Commits of protocol version 1
\* (ipc.go:334) are not among the events.
THEOREM OnlyDeliveredIsCached == Spec => []CachedWasDelivered
  <1>1. Init => CachedWasDelivered
    BY DEF Init, NewStore, HeldKeys, FilledKeys, CachedWasDelivered
  <1>2. RequestsInv /\ CachedWasDelivered /\ [Next]_vars => CachedWasDelivered'
    BY DeliveredStays
  <1> QED
    BY <1>1, <1>2, RequestsAlways, PTL DEF Spec

\* What the service remembers of its requests has its types, a PIN they cached
\* belongs to the device that accepted it, and a preferred device accepted a
\* PIN that was delivered for this key (service.go:247, 406, 414, 430).
THEOREM ServiceRemembersRightly == Spec => []ServiceInv
  <1>1. Init => CachedPinBoundToDevice /\ PreferenceEarned
    BY DEF Init, NewStore, HeldKeys, FilledKeys, CachedPinBoundToDevice,
           PreferenceEarned
  <1>2. /\ RequestsInv /\ CachedPinBoundToDevice /\ PreferenceEarned
        /\ [Next]_vars
        => CachedPinBoundToDevice' /\ PreferenceEarned'
    BY BoundStays, EarnedStays
  <1>3. RequestsInv => TypeOK
    BY TypesSuffice DEF RequestsInv
  <1> QED
    BY <1>1, <1>2, <1>3, RequestsAlways, PTL DEF Spec, ServiceInv

---------------------------------------------------------------------------
(* What the handler throws away.  It keeps what Begin says of a lookup and *)
(* the hardware lock: while it has both, nobody stores a PIN for its key.  *)

\* What the reasons of Begin mean.
LEMMA BeginReasons ==
  ASSUME NEW s, StoreOK(s), NEW t \in Nat, NEW id \in Identity, NEW c \in Caller
  PROVE  LET b == Begin(s, t, id, c)
         IN /\ b.lookup.reason \in {"disabled", "capacity", "hit", "miss"}
            /\ b.lookup.reason = "disabled" => TTL = 0
            /\ b.lookup.reason = "hit" =>
                  /\ TTL # 0 /\ ~Retrying(s, id, c)
                  /\ id.key \in FilledKeys(s)
                  /\ b.lookup.generation # 0
            /\ b.lookup.reason = "miss" /\ id.key \in AgentKey =>
                  id.key \notin FilledKeys(b.store)
  <1> SUFFICES ASSUME NEW b, b = Begin(s, t, id, c)
               PROVE  /\ b.lookup.reason \in {"disabled", "capacity", "hit", "miss"}
                      /\ b.lookup.reason = "disabled" => TTL = 0
                      /\ b.lookup.reason = "hit" =>
                            /\ TTL # 0 /\ ~Retrying(s, id, c)
                            /\ id.key \in FilledKeys(s)
                            /\ b.lookup.generation # 0
                      /\ b.lookup.reason = "miss" /\ id.key \in AgentKey =>
                            id.key \notin FilledKeys(b.store)
    OBVIOUS
  <1>1. CASE TTL = 0
    BY <1>1 DEF Begin, NoLookup
  <1>2. CASE TTL # 0 /\ NoRoom(s, id, c)
    BY <1>2 DEF Begin, NoLookup
  <1>3. CASE TTL # 0 /\ ~NoRoom(s, id, c)
    <2> DEFINE o == Opened(s, id)
               r == Retracted(Opened(s, id), id, c)
               e == r.entries[id.key]
    <2>1. /\ StoreOK(o) /\ Ages(s, o)
          /\ id.key \in HeldKeys(o) /\ o.entries[id.key].stamp = id.stamp
          /\ o.seen = s.seen
      BY <1>3, OpenedOK, OpenedAges
    <2> HIDE DEF o
    <2>2. StoreOK(r) /\ Ages(o, r) /\ id.key \in HeldKeys(r)
      BY <2>1, RetractedOK, RetractedAges DEF o
    <2>3. \/ /\ ~Retrying(s, id, c) /\ e.secret # NoSecret
             /\ b.store = Remember(r, id, c, e.generation)
             /\ b.lookup = [reason |-> "hit", generation |-> e.generation,
                            secret |-> e.secret, token |-> 0]
          \/ /\ Retrying(s, id, c) \/ e.secret = NoSecret
             /\ b.store = Issue(Remember(r, id, c, 0), id, c, t)
             /\ b.lookup = [reason |-> "miss", generation |-> 0,
                            secret |-> NoSecret, token |-> r.seq + 1]
      BY <1>3 DEF Begin
    <2> HIDE DEF r
    <2>4. /\ r \in Store /\ o \in Store /\ s \in Store
          /\ e.generation \in Nat /\ e.generation # 0
      BY <2>1, <2>2, StoreTypes, HeldTypes DEF StoreOK, NumbersUsedOnce
    <2>5. Ages(s, r)
      BY <2>1, <2>2, <2>4, AgesTransitive
    <2>6. e.secret # NoSecret => id.key \in FilledKeys(s)
      BY <2>2, <2>5 DEF Ages, FilledKeys
    <2>7. CASE b.lookup.reason = "hit"
      BY <1>3, <2>3, <2>4, <2>6, <2>7
    <2>8. CASE b.lookup.reason # "hit"
      <3>1. /\ Retrying(s, id, c) \/ e.secret = NoSecret
            /\ b.store = Issue(Remember(r, id, c, 0), id, c, t)
            /\ b.lookup.reason = "miss"
        BY <2>3, <2>8
      <3>2. /\ Remember(r, id, c, 0) \in Store
            /\ Remember(r, id, c, 0).entries = r.entries
        BY <2>4, RememberKeeps
      <3>3. b.store.entries = r.entries
        BY <3>1, <3>2 DEF Issue, Store
      <3>4. id.key \in AgentKey => e.secret = NoSecret
        BY <3>1 DEF Retrying
      <3> QED
        BY <3>1, <3>3, <3>4 DEF FilledKeys
    <2> QED
      BY <2>7, <2>8
  <1> QED
    BY <1>1, <1>2, <1>3


\* Sweep alone drops the record of a caller, and only of one that has gone.
LEMMA SeenStays ==
  ASSUME TypeInv, [Next]_vars, NEW p \in SeenPairs(store), p[1] \notin Departed
  PROVE  p \in SeenPairs(store')
  <1>0. StoreOK(store) /\ store \in Store
    BY DEF TypeInv, StoreOK
  <1>1. ASSUME store'.seen = store.seen PROVE p \in SeenPairs(store')
    BY <1>1 DEF SeenPairs
  <1>2. ASSUME NEW s \in Expire(store, now)
        PROVE  p \in SeenPairs(s) /\ s \in Store /\ StoreOK(s) /\ now \in Nat
    <2>1. StoreOK(s) /\ s \in Store /\ now \in Nat
      BY StoreExpires
    <2>2. s.seen = store.seen
      BY <1>0, <2>1, ExpireFields DEF ExpiredBy
    <2> QED
      BY <2>1, <2>2 DEF SeenPairs
  <1>3. ASSUME NEW r \in Request, HandlerStep(r) PROVE p \in SeenPairs(store')
    <2>0. Identified(r) \in Identity /\ CallerOf[r] \in Caller
      BY IdentifiedType DEF TypeInv
    <2>1. CASE store' = store
      BY <1>1, <2>1
    <2>2. CASE \/ Accept(r) \/ AcquireHardware(r) \/ SelectDevice(r)
               \/ CancelSelection(r) \/ Choose(r) \/ RefuseAnonymous(r)
               \/ Prompt(r) \/ ChangeDevice(r) \/ Submit(r) \/ CancelInput(r)
               \/ AskDevice(r) \/ CancelledLate(r) \/ ReportFailure(r)
               \/ LeaveError(r) \/ Conclude(r) \/ SendAnswer(r)
               \/ SavePreference(r) \/ AckTimeout(r) \/ Abandon(r)
               \/ LoseDialog(r) \/ Return(r) \/ PassOver(r)
      <3>1. store' = store
        BY <2>2
        DEF Accept, AcquireHardware, SelectDevice, CancelSelection, Choose,
            RefuseAnonymous, Prompt, ChangeDevice, Submit, CancelInput, AskDevice,
            CancelledLate, ReportFailure, LeaveError, Conclude, SendAnswer,
            SavePreference, AckTimeout, Abandon, LoseDialog, Return, PassOver
      <3> QED
        BY <2>1, <3>1
    <2>3. CASE \E s \in Expire(store, now) :
                 store' = Begin(s, now, Identified(r), CallerOf[r]).store
      BY <1>2, <2>0, <2>3, SeenAfterBegin
    <2>4. CASE store' \in Expire(store, now)
      BY <1>2, <2>4
    <2>5. CASE store' = DropCandidate(r)
      <3>1. Renew(store, Identified(r).key, Identified(r).stamp).seen = store.seen
        BY <1>0, <2>0, RenewFields DEF Identity
      <3>2. store'.seen = store.seen
        BY <2>5, <3>1 DEF DropCandidate, Reject
      <3> QED
        BY <1>1, <3>2
    <2>6. CASE store' = Forget(store, {KeyOf[r]})
      <3>1. {KeyOf[r]} \in SUBSET Key
        BY RequestsAssumption
      <3>2. store'.seen = store.seen
        BY <1>0, <2>6, <3>1, ForgetFields
      <3> QED
        BY <1>1, <3>2
    <2>7. CASE CommitAnswer(r)
      <3>1. PICK s \in Expire(store, now) :
               store' = Commit(s, now, handler[r].cand.token, Identified(r),
                               CallerOf[r], handler[r].value).store
        BY <2>7 DEF CommitAnswer
      <3>2. handler[r].value \in Secret \cup {NoSecret}
        BY HandlerFields DEF TypeInv, HandlersOK
      <3> QED
        BY <1>2, <2>0, <3>1, <3>2, SeenAfterCommit
    <2>8. CASE AskCache(r) \/ AskAgain(r)
      <3>1. \/ \E s \in Expire(store, now) :
                 store' = Begin(s, now, Identified(r), CallerOf[r]).store
            \/ store' = store
        BY <2>8 DEF AskCache, AskAgain
      <3> QED
        BY <2>1, <2>3, <3>1
    <2>9. CASE Recheck(r)
      BY <2>4, <2>9 DEF Recheck
    <2>10. CASE FindDevice(r) \/ JudgeVerdict(r)
      BY <2>1, <2>5, <2>10 DEF FindDevice, JudgeVerdict, DiscardRefused
    <2>11. CASE Acknowledged(r)
      BY <2>1, <2>6, <2>11 DEF Acknowledged
    <2> QED
      BY <1>3, <2>2, <2>7, <2>8, <2>9, <2>10, <2>11 DEF HandlerStep
  <1>4. CASE \/ \E r \in Request :
                   \/ ReadFrame(r) \/ NoticeHangup(r)
                   \/ RenderView(r) \/ PressControl(r) \/ DismissDialog(r)
                   \/ TimerRefreshes(r) \/ DialogDies(r)
                   \/ HelperStep(r) \/ HelperDies(r)
             \/ \E k \in Key : FileChanges(k)
             \/ \E c \in Conn : DeviceMoves(c)
             \/ Tick
             \/ Finished
             \/ UNCHANGED vars
    <2>1. store' = store
      BY <1>4
      DEF ReadFrame, NoticeHangup, RenderView, PressControl, DismissDialog,
          TimerRefreshes, DialogDies, Dialog, HelperStep, HelperDies, HelperExits,
          HelperPrints, HelperAcknowledges, HelperBecomes, FileChanges,
          DeviceMoves, Tick, Finished, vars, serviceVars
    <2> QED
      BY <1>1, <2>1
  <1>5. ASSUME NEW k \in Key, UserForgets(k) PROVE p \in SeenPairs(store')
    <2>1. store' = Forget(store, {k}) /\ {k} \in SUBSET Key
      BY <1>5 DEF UserForgets
    <2>2. store'.seen = store.seen
      BY <1>0, <2>1, ForgetFields
    <2> QED
      BY <1>1, <2>2
  <1>6. CASE SweepCache
    <2>1. PICK s \in Expire(store, now), dead \in SUBSET Departed :
             store' = Sweep(s, {q \in SeenPairs(s) : q[1] \in dead},
                               {l \in s.tickets : l.caller \in dead})
      BY <1>6 DEF SweepCache
    <2>2. p \notin {q \in SeenPairs(s) : q[1] \in dead}
      OBVIOUS
    <2> QED
      BY <1>2, <2>1, <2>2, SeenAfterSweep
  <1> QED
    BY <1>3, <1>4, <1>5, <1>6 DEF Next

\* Where a request looks something up, tries it, and looks it up again.
InHand == Loop \cup {"confirm", "again"}

\* What Begin has said of the key still holds: after a hit the entry that is
\* left is the one that was handed out, and it is gone before the handler asks
\* again; after a miss of an agent's key there is none; after one of a file's
\* key the cache knows the caller for one that must not get an entry again.
LookupOK(r) ==
    LET h == handler[r]
        k == KeyOf[r]
    IN h.pc \in InHand =>
          /\ h.cand.reason \in {"disabled", "capacity", "hit", "miss"}
          /\ h.cand.reason = "disabled" => TTL = 0
          /\ h.cand.reason = "hit" =>
                /\ HasCandidate(h)
                /\ k \in FilledKeys(store) =>
                      /\ h.pc # "again"
                      /\ Holds(store, Identified(r), h.cand.generation)
          /\ h.cand.reason = "miss" /\ k \in AgentKey => k \notin FilledKeys(store)
          /\ h.cand.reason = "miss" /\ k \notin AgentKey /\ helper[r] = "waiting" =>
                <<CallerOf[r], k>> \in SeenPairs(store)

LookupsInv ==
    /\ RequestsInv
    /\ \A r \in Request : At(r, "again") => r \in Verified
    /\ \A r \in Verified \cap Cacheable : LookupOK(r)

\* The lock: while a verified request has a lookup in hand, no other request
\* stores a response for its key.
LEMMA NobodyStores ==
  ASSUME RequestsInv, [Next]_vars, NEW r \in Verified,
         handler[r].pc \in InHand \cup {"selected"},
         KeyOf[r] \in FilledKeys(store')
  PROVE  /\ KeyOf[r] \in FilledKeys(store)
         /\ store'.entries[KeyOf[r]] = store.entries[KeyOf[r]]
  <1>0. TypeInv /\ StoreStep /\ HardwareInv /\ r \in Request
    BY StoreSteps, RequestsAssumption DEF RequestsInv
  <1>1. lock = r
    BY <1>0 DEF HardwareInv, Outside, Without, InHand, Loop
  <1>2. ASSUME NEW q \in Request, handler[q].pc = "commit", KeyOf[q] = KeyOf[r]
        PROVE  FALSE
    <2>1. q \in Verified
      BY <1>0, <1>2, KindsAssumption
    <2>2. lock = q
      BY <1>0, <1>2, <2>1 DEF HardwareInv, Outside, Without
    <2> QED
      BY <1>1, <1>2, <2>2 DEF InHand, Loop
  <1> QED
    BY <1>0, <1>2, FilledBefore

\* A helper never begins to wait.
LEMMA HelperWaits ==
  ASSUME TypeInv, [Next]_vars, NEW r \in Request, helper'[r] = "waiting"
  PROVE  helper[r] = "waiting"
  <1>1. ASSUME NEW q \in Request, HandlerStep(q) PROVE helper' = helper
    BY <1>1, OthersWait DEF Others
  <1>2. ASSUME NEW q \in Request, HelperStep(q) \/ HelperDies(q)
        PROVE  helper[r] = "waiting"
    <2>1. PICK state \in {"printed", "acked", "exited", "gone"} :
             helper' = [helper EXCEPT ![q] = state]
      BY <1>2 DEF HelperStep, HelperDies, HelperExits, HelperPrints,
                  HelperAcknowledges, HelperBecomes
    <2> QED
      BY <2>1 DEF TypeInv, OthersOK
  <1>3. CASE \/ \E q \in Request :
                   \/ ReadFrame(q) \/ NoticeHangup(q)
                   \/ RenderView(q) \/ PressControl(q) \/ DismissDialog(q)
                   \/ TimerRefreshes(q) \/ DialogDies(q)
             \/ \E k \in Key : FileChanges(k) \/ UserForgets(k)
             \/ \E c \in Conn : DeviceMoves(c)
             \/ SweepCache
             \/ Tick
             \/ Finished
             \/ UNCHANGED vars
    BY <1>3
    DEF ReadFrame, NoticeHangup, RenderView, PressControl, DismissDialog,
        TimerRefreshes, DialogDies, Dialog, FileChanges, UserForgets,
        DeviceMoves, SweepCache, Tick, Finished, vars, worldVars
  <1> QED
    BY <1>1, <1>2, <1>3 DEF Next

\* A request that keeps its lookup, wherever it goes with it.
LEMMA LookupWaits ==
  ASSUME RequestsInv, [Next]_vars, NEW r \in Verified \cap Cacheable, LookupOK(r),
         handler'[r].pc \in InHand => handler[r].pc \in InHand,
         handler'[r].pc = "again" => handler[r].pc = "again",
         handler'[r].cand = handler[r].cand,
         handler'[r].selected = handler[r].selected,
         handler'[r].base = handler[r].base
  PROVE  LookupOK(r)'
  <1> DEFINE h == handler[r]
             k == KeyOf[r]
  <1> SUFFICES ASSUME handler'[r].pc \in InHand PROVE LookupOK(r)'
    BY DEF LookupOK
  <1>0. TypeInv /\ r \in Request /\ h.pc \in InHand
    BY RequestsAssumption DEF RequestsInv
  <1>1. Identified(r)' = Identified(r) /\ Identified(r).key = k
    BY <1>0, IdentifiedType DEF Identified, TypeInv
  <1>2. k \in FilledKeys(store') =>
           k \in FilledKeys(store) /\ store'.entries[k] = store.entries[k]
    BY <1>0, NobodyStores
  <1>3. Holds(store, Identified(r), h.cand.generation) /\ k \in FilledKeys(store') =>
           Holds(store', Identified(r), h.cand.generation)
    BY <1>1, <1>2 DEF Holds, FilledKeys
  <1>4. ASSUME helper'[r] = "waiting", <<CallerOf[r], k>> \in SeenPairs(store)
        PROVE  <<CallerOf[r], k>> \in SeenPairs(store')
    <2>1. CallerOf[r] \notin Departed
      BY <1>0, <1>4, HelperWaits DEF Departed
    <2> QED
      BY <1>0, <1>4, <2>1, SeenStays
  <1>5. helper'[r] = "waiting" => helper[r] = "waiting"
    BY <1>0, HelperWaits
  <1> QED
    BY <1>0, <1>1, <1>2, <1>3, <1>4, <1>5 DEF LookupOK, HasCandidate

\* A request that asks the cache.
LEMMA LookupBegun ==
  ASSUME RequestsInv, [Next]_vars, NEW r \in Verified \cap Cacheable,
         NEW s \in Expire(store, now),
         store' = Begin(s, now, Identified(r), CallerOf[r]).store,
         handler'[r].cand = Begin(s, now, Identified(r), CallerOf[r]).lookup,
         handler'[r].selected = handler[r].selected,
         handler'[r].base = handler[r].base,
         handler'[r].pc # "again"
  PROVE  LookupOK(r)'
  <1> DEFINE b == Begin(s, now, Identified(r), CallerOf[r])
             k == KeyOf[r]
  <1>0. TypeInv /\ r \in Request
    BY RequestsAssumption DEF RequestsInv
  <1>1. StoreOK(s) /\ now \in Nat
    BY <1>0, StoreExpires
  <1>2. /\ Identified(r) \in Identity /\ Identified(r).key = k
        /\ CallerOf[r] \in Caller /\ Identified(r)' = Identified(r)
    BY <1>0, IdentifiedType DEF TypeInv, Identified
  <1>3. /\ b.lookup.reason \in {"disabled", "capacity", "hit", "miss"}
        /\ b.lookup.reason = "disabled" => TTL = 0
        /\ b.lookup.reason = "hit" => b.lookup.generation # 0
        /\ b.lookup.reason = "miss" /\ k \in AgentKey => k \notin FilledKeys(b.store)
    BY <1>1, <1>2, BeginReasons
  <1>4. b.lookup.generation # 0 =>
           Holds(b.store, Identified(r), b.lookup.generation)
    BY <1>1, <1>2, BeginAges
  <1>5. b.lookup.reason = "miss" /\ k \notin AgentKey =>
           <<CallerOf[r], k>> \in SeenPairs(b.store)
    BY <1>1, <1>2, SeenAfterBegin
  <1> HIDE DEF b
  <1>6. store' = b.store /\ handler'[r].cand = b.lookup
    BY DEF b
  <1> QED
    BY <1>2, <1>3, <1>4, <1>5, <1>6 DEF LookupOK, HasCandidate

LEMMA LookupRechecked ==
  ASSUME RequestsInv, [Next]_vars, NEW r \in Verified \cap Cacheable, LookupOK(r),
         Recheck(r)
  PROVE  LookupOK(r)'
  <1> DEFINE h == handler[r]
             k == KeyOf[r]
             pc == IF h.pc = "check" THEN "enumerate" ELSE "final"
  <1>0. /\ TypeInv /\ HandlersOK /\ h \in Handler /\ r \in Request
        /\ h.pc \in InHand /\ helper' = helper
    BY RequestsAssumption
    DEF RequestsInv, TypeInv, HandlersOK, Recheck, At, InHand, Loop, worldVars
  <1>1. CASE StillCurrent(r, store')
    <2>1. Goto(r, pc)
      BY <1>1 DEF Recheck, Goto
    <2>2. pc \in {"enumerate", "final"}
      OBVIOUS
    <2> HIDE DEF pc
    <2> QED
      BY <1>0, <2>1, <2>2, GoesNow, LookupWaits
  <1>2. CASE ~StillCurrent(r, store')
    <2> DEFINE g == [h EXCEPT !.value = NoSecret, !.verdict = "none", !.pc = "again"]
    <2>1. handler'[r] = g
      BY <1>0, <1>2, HandlerNow DEF Recheck
    <2>2. /\ g.pc = "again" /\ g.cand = h.cand
          /\ g.selected = h.selected /\ g.base = h.base
      BY <1>0 DEF Handler
    <2> HIDE DEF g
    <2>3. Identified(r)' = Identified(r) /\ Identified(r).key = k
      BY <1>0, <2>1, <2>2, IdentifiedType DEF Identified, TypeInv
    <2>4. k \in FilledKeys(store') =>
             k \in FilledKeys(store) /\ store'.entries[k] = store.entries[k]
      BY <1>0, NobodyStores
    <2>5. h.cand.reason = "hit" => k \notin FilledKeys(store')
      BY <1>0, <1>2, <2>3, <2>4
      DEF LookupOK, StillCurrent, IsCurrent, Holds, FilledKeys
    <2>6. k \notin AgentKey /\ helper[r] = "waiting"
             /\ <<CallerOf[r], k>> \in SeenPairs(store)
          => <<CallerOf[r], k>> \in SeenPairs(store')
      <3>1. helper[r] = "waiting" => CallerOf[r] \notin Departed
        BY <1>0 DEF Departed
      <3> QED
        BY <1>0, <3>1, SeenStays
    <2> QED
      BY <1>0, <2>1, <2>2, <2>4, <2>5, <2>6 DEF LookupOK, HasCandidate
  <1> QED
    BY <1>1, <1>2

LEMMA LookupJudged ==
  ASSUME RequestsInv, [Next]_vars, NEW r \in Verified \cap Cacheable, LookupOK(r),
         JudgeVerdict(r)
  PROVE  LookupOK(r)'
  <1> DEFINE h == handler[r]
             k == KeyOf[r]
  <1>0. /\ TypeInv /\ HandlersOK /\ h \in Handler /\ r \in Request
        /\ h.pc \in InHand /\ helper' = helper /\ r \in Cacheable
    BY RequestsAssumption
    DEF RequestsInv, TypeInv, HandlersOK, JudgeVerdict, DiscardRefused, At,
        InHand, Loop, worldVars
  <1>1. CASE h.verdict \in {"invalid", "blocked"}
    <2> DEFINE g == [[h EXCEPT !.value = NoSecret] EXCEPT !.pc = "again"]
    <2>1. Becomes(r, g) /\ store' = DropCandidate(r)
      BY <1>0, <1>1 DEF JudgeVerdict, DiscardRefused
    <2>2. handler'[r] = g
      BY <1>0, <2>1, HandlerNow
    <2>3. /\ g.pc = "again" /\ g.cand = h.cand
          /\ g.selected = h.selected /\ g.base = h.base
      BY <1>0 DEF Handler
    <2> HIDE DEF g
    <2>4. /\ Identified(r)' = Identified(r) /\ Identified(r).key = k
          /\ Identified(r) \in Identity /\ StoreOK(store)
      BY <1>0, <2>2, <2>3, IdentifiedType DEF Identified, TypeInv
    <2>5. k \in FilledKeys(store') =>
             k \in FilledKeys(store) /\ store'.entries[k] = store.entries[k]
      BY <1>0, NobodyStores
    <2>6. HasCandidate(h) => ~Holds(store', Identified(r), h.cand.generation)
      BY <2>1, <2>4, RejectAges DEF DropCandidate
    <2>7. h.cand.reason = "hit" => k \notin FilledKeys(store')
      BY <1>0, <2>4, <2>5, <2>6 DEF LookupOK, Holds, FilledKeys
    <2>8. k \notin AgentKey /\ helper[r] = "waiting"
             /\ <<CallerOf[r], k>> \in SeenPairs(store)
          => <<CallerOf[r], k>> \in SeenPairs(store')
      <3>1. helper[r] = "waiting" => CallerOf[r] \notin Departed
        BY <1>0 DEF Departed
      <3> QED
        BY <1>0, <3>1, SeenStays
    <2> QED
      BY <1>0, <2>2, <2>3, <2>5, <2>7, <2>8 DEF LookupOK, HasCandidate
  <1>2. CASE h.verdict \notin {"invalid", "blocked"}
    <2>1. \/ \E pc \in {"confirm", "final"} : Goto(r, pc)
          \/ Becomes(r, [[h EXCEPT !.value = NoSecret] EXCEPT !.pc = "failed"])
      BY <1>2 DEF JudgeVerdict, DiscardRefused
    <2>2. CASE \E pc \in {"confirm", "final"} : Goto(r, pc)
      BY <1>0, <2>2, GoesNow, LookupWaits
    <2>3. CASE Becomes(r, [[h EXCEPT !.value = NoSecret] EXCEPT !.pc = "failed"])
      <3>1. handler'[r] = [[h EXCEPT !.value = NoSecret] EXCEPT !.pc = "failed"]
        BY <1>0, <2>3, HandlerNow
      <3>2. handler'[r].pc = "failed"
        BY <1>0, <3>1 DEF Handler
      <3> QED
        BY <3>2 DEF LookupOK, InHand, Loop
    <2> QED
      BY <2>1, <2>2, <2>3
  <1> QED
    BY <1>1, <1>2

\* Where the steps go that do more than move on.
LEMMA Arrives ==
  ASSUME HandlersOK, NEW r \in Request
  PROVE  /\ AskCache(r) => handler'[r].pc = "top"
         /\ AskDevice(r) => handler'[r].pc = "verified"
         /\ CommitAnswer(r) => handler'[r].pc = "prefs"
         /\ Return(r) => handler'[r].pc = "over"
         /\ \/ Conclude(r) \/ SendAnswer(r) \/ Acknowledged(r)
            \/ SavePreference(r) \/ AckTimeout(r) \/ Abandon(r) \/ LoseDialog(r)
            => handler'[r].pc \in {"send", "sent", "commit", "prefs", "end"}
  <1> DEFINE h == handler[r]
  <1>0. h \in Handler
    BY DEF HandlersOK
  <1>1. ASSUME AskCache(r) PROVE handler'[r].pc = "top"
    <2>1. PICK l : Becomes(r, [h EXCEPT !.cand = l, !.value = l.secret,
                                        !.pc = "top"])
      BY <1>1 DEF AskCache
    <2>2. handler'[r] = [h EXCEPT !.cand = l, !.value = l.secret, !.pc = "top"]
      BY <2>1, HandlerNow
    <2> QED
      BY <1>0, <2>2 DEF Handler
  <1>2. ASSUME AskDevice(r) PROVE handler'[r].pc = "verified"
    <2>1. PICK v : Becomes(r, [h EXCEPT !.verdict = v, !.pc = "verified"])
      BY <1>2 DEF AskDevice
    <2>2. handler'[r] = [h EXCEPT !.verdict = v, !.pc = "verified"]
      BY <2>1, HandlerNow
    <2> QED
      BY <1>0, <2>2 DEF Handler
  <1>3. ASSUME CommitAnswer(r) PROVE handler'[r].pc = "prefs"
    <2>1. PICK b : Becomes(r, [h EXCEPT !.stored = b, !.pc = "prefs"])
      BY <1>3 DEF CommitAnswer
    <2>2. handler'[r] = [h EXCEPT !.stored = b, !.pc = "prefs"]
      BY <2>1, HandlerNow
    <2> QED
      BY <1>0, <2>2 DEF Handler
  <1>4. ASSUME Return(r) PROVE handler'[r].pc = "over"
    <2>1. handler'[r] = [Fresh EXCEPT !.pc = "over", !.base = h.base,
                                      !.remember = h.remember]
      BY <1>4, HandlerNow DEF Return
    <2> QED
      BY <2>1 DEF Fresh
  <1>5. ASSUME \/ Conclude(r) \/ SendAnswer(r) \/ Acknowledged(r)
               \/ SavePreference(r) \/ AckTimeout(r) \/ Abandon(r) \/ LoseDialog(r)
        PROVE  handler'[r].pc \in {"send", "sent", "commit", "prefs", "end"}
    <2>1. \E pc \in {"send", "sent", "commit", "prefs", "end"} : Goto(r, pc)
      BY <1>5
      DEF Conclude, SendAnswer, Acknowledged, SavePreference, AckTimeout, Abandon,
          LoseDialog
    <2> QED
      BY <2>1, GoesNow
  <1> QED
    BY <1>1, <1>2, <1>3, <1>4, <1>5

\* One step of the request itself.
LEMMA LookupStep ==
  ASSUME RequestsInv, [Next]_vars, NEW r \in Verified \cap Cacheable, LookupOK(r),
         HandlerStep(r)
  PROVE  LookupOK(r)'
  <1> DEFINE h == handler[r]
             g == handler'[r]
  <1>0. /\ TypeInv /\ HandlersOK /\ h \in Handler /\ r \in Request
        /\ ProgressOK(r)
    BY RequestsAssumption DEF RequestsInv, TypeInv, HandlersOK, RequestOK
  <1>1. ASSUME g.pc \notin InHand PROVE LookupOK(r)'
    BY <1>1 DEF LookupOK
  <1>2. CASE \/ Accept(r) \/ AcquireHardware(r) \/ SelectDevice(r)
             \/ CancelSelection(r) \/ Choose(r) \/ RefuseAnonymous(r)
             \/ Prompt(r) \/ ChangeDevice(r) \/ Submit(r) \/ CancelInput(r)
             \/ FindDevice(r) \/ CancelledLate(r) \/ ReportFailure(r)
             \/ LeaveError(r)
    <2>1. Quiet(r)
      BY <1>0, <1>2, QuietSelection, QuietLoop
    <2>2. CASE g.pc \in InHand
      <3>1. g.pc \in Loop /\ h.pc \in Loop
        BY <2>1, <2>2 DEF Quiet, InHand, Calm
      <3> QED
        BY <1>0, <2>1, <3>1, LookupWaits DEF Quiet, InHand, Loop
    <2> QED
      BY <1>1, <2>2
  <1>3. CASE AskCache(r)
    <2>1. PICK s \in Expire(store, now) :
             LET b == Begin(s, now, Identified(r), CallerOf[r])
             IN /\ store' = b.store
                /\ Becomes(r, [h EXCEPT !.cand = b.lookup,
                                        !.value = b.lookup.secret,
                                        !.pc = "top"])
      BY <1>3 DEF AskCache
    <2> DEFINE l == Begin(s, now, Identified(r), CallerOf[r]).lookup
               u == [h EXCEPT !.cand = l, !.value = l.secret, !.pc = "top"]
    <2>2. g = u
      BY <1>0, <2>1, HandlerNow
    <2>3. u.pc = "top" /\ u.cand = l /\ u.selected = h.selected /\ u.base = h.base
      BY <1>0 DEF Handler
    <2> QED
      BY <2>1, <2>2, <2>3, LookupBegun
  <1>4. CASE AskAgain(r)
    <2> DEFINE pc == IF h.verdict = "blocked" THEN "failed" ELSE "top"
    <2>1. PICK s \in Expire(store, now) :
             LET b == Begin(s, now, Identified(r), CallerOf[r])
             IN /\ store' = b.store
                /\ Becomes(r, [h EXCEPT !.cand = b.lookup, !.pc = pc])
      BY <1>4 DEF AskAgain
    <2> DEFINE l == Begin(s, now, Identified(r), CallerOf[r]).lookup
               u == [h EXCEPT !.cand = l, !.pc = pc]
    <2>2. g = u
      BY <1>0, <2>1, HandlerNow
    <2>3. pc \in {"failed", "top"}
      OBVIOUS
    <2> HIDE DEF pc
    <2>4. u.pc = pc /\ u.cand = l /\ u.selected = h.selected /\ u.base = h.base
      BY <1>0 DEF Handler
    <2> QED
      BY <2>1, <2>2, <2>3, <2>4, LookupBegun
  <1>5. CASE AskDevice(r)
    <2>1. PICK verdict : Becomes(r, [h EXCEPT !.verdict = verdict, !.pc = "verified"])
      BY <1>5 DEF AskDevice
    <2>2. g = [h EXCEPT !.verdict = verdict, !.pc = "verified"]
      BY <1>0, <2>1, HandlerNow
    <2>3. /\ g.pc = "verified" /\ g.cand = h.cand
          /\ g.selected = h.selected /\ g.base = h.base
      BY <1>0, <2>2 DEF Handler
    <2>4. h.pc \in InHand
      BY <1>5 DEF AskDevice, At, InHand, Loop
    <2> QED
      BY <2>3, <2>4, LookupWaits
  <1>6. CASE \/ Conclude(r) \/ SendAnswer(r) \/ Acknowledged(r)
             \/ SavePreference(r) \/ AckTimeout(r) \/ Abandon(r) \/ LoseDialog(r)
             \/ CommitAnswer(r) \/ Return(r)
    BY <1>0, <1>1, <1>6, Arrives DEF InHand, Loop
  <1>7. CASE PassOver(r)
    BY <1>7, LookupWaits DEF PassOver
  <1> QED
    BY <1>2, <1>3, <1>4, <1>5, <1>6, <1>7, LookupRechecked, LookupJudged
    DEF HandlerStep

\* Only a verified request looks something up again.
LEMMA AgainVerified ==
  ASSUME RequestsInv, NEW r \in Request, HandlerStep(r), handler'[r].pc = "again",
         At(r, "again") => r \in Verified
  PROVE  r \in Verified
  <1> DEFINE h == handler[r]
             g == handler'[r]
  <1>0. TypeInv /\ HandlersOK /\ h \in Handler /\ ProgressOK(r)
    BY DEF RequestsInv, TypeInv, HandlersOK, RequestOK
  <1>1. CASE Recheck(r) \/ JudgeVerdict(r) \/ PassOver(r)
    BY <1>0, <1>1 DEF Recheck, JudgeVerdict, DiscardRefused, PassOver, At,
       ProgressOK, ForVerified
  <1>2. CASE \/ Accept(r) \/ AcquireHardware(r) \/ SelectDevice(r)
             \/ CancelSelection(r) \/ Choose(r) \/ RefuseAnonymous(r)
             \/ Prompt(r) \/ ChangeDevice(r) \/ Submit(r) \/ CancelInput(r)
             \/ FindDevice(r) \/ CancelledLate(r) \/ ReportFailure(r)
             \/ LeaveError(r)
    BY <1>0, <1>2, QuietSelection, QuietLoop DEF Quiet, Calm
  <1>3. CASE \/ Conclude(r) \/ SendAnswer(r) \/ Acknowledged(r)
             \/ SavePreference(r) \/ AckTimeout(r) \/ Abandon(r) \/ LoseDialog(r)
             \/ AskCache(r) \/ AskDevice(r) \/ CommitAnswer(r) \/ Return(r)
    BY <1>0, <1>3, Arrives
  <1>4. CASE AskAgain(r)
    BY <1>4 DEF AskAgain
  <1> QED
    BY <1>1, <1>2, <1>3, <1>4 DEF HandlerStep

LEMMA NextKeepsLookups ==
  ASSUME LookupsInv, [Next]_vars
  PROVE  LookupsInv'
  <1>0. RequestsInv /\ RequestsInv' /\ TypeInv /\ Verified \subseteq Request
    BY NextKeepsRequests, RequestsAssumption DEF LookupsInv, RequestsInv
  <1> DEFINE Goal(q) ==
               /\ At(q, "again")' => q \in Verified
               /\ q \in Verified \cap Cacheable => LookupOK(q)'
  <1>1. ASSUME NEW q \in Request, handler'[q] = handler[q] PROVE Goal(q)
    BY <1>0, <1>1, LookupWaits DEF LookupsInv, At
  <1>2. ASSUME NEW r \in Request, HandlerStep(r), NEW q \in Request PROVE Goal(q)
    <2>1. CASE q = r
      <3>1. At(r, "again") => r \in Verified
        BY DEF LookupsInv
      <3>2. At(r, "again")' => r \in Verified
        BY <1>0, <1>2, <3>1, AgainVerified DEF At
      <3>3. r \in Verified \cap Cacheable => LookupOK(r)'
        BY <1>0, <1>2, LookupStep DEF LookupsInv
      <3> QED
        BY <2>1, <3>2, <3>3
    <2>2. CASE q # r
      BY <1>0, <1>1, <1>2, <2>2, OthersWait DEF Others
    <2> QED
      BY <2>1, <2>2
  <1>3. ASSUME \/ \E r \in Request :
                     \/ ReadFrame(r) \/ NoticeHangup(r)
                     \/ RenderView(r) \/ PressControl(r) \/ DismissDialog(r)
                     \/ TimerRefreshes(r) \/ DialogDies(r)
                     \/ HelperStep(r) \/ HelperDies(r)
               \/ \E k \in Key : FileChanges(k) \/ UserForgets(k)
               \/ \E c \in Conn : DeviceMoves(c)
               \/ SweepCache
               \/ Tick
               \/ Finished
               \/ UNCHANGED vars
        PROVE  handler' = handler
    BY <1>3
    DEF ReadFrame, NoticeHangup, RenderView, PressControl, DismissDialog,
        TimerRefreshes, DialogDies, Dialog, HelperStep, HelperDies, HelperExits,
        HelperPrints, HelperAcknowledges, HelperBecomes, FileChanges,
        UserForgets, DeviceMoves, SweepCache, Tick, Finished, vars, serviceVars
  <1> HIDE DEF Goal
  <1>4. \A q \in Request : Goal(q)
    BY <1>1, <1>2, <1>3 DEF Next
  <1> QED
    BY <1>0, <1>4 DEF LookupsInv, Goal

\* What a repeated Begin supplies to a request that was not turned away.
LEMMA NothingToDiscard ==
  ASSUME LookupsInv, [Next]_vars, NEW r \in Request,
         At(r, "again"), ~At(r, "again")', helper[r] = "waiting",
         handler[r].cand.reason # "capacity"
  PROVE  handler'[r].cand.reason # "hit"
  <1> DEFINE h == handler[r]
             k == KeyOf[r]
  <1>0. /\ RequestsInv /\ TypeInv /\ HandlersOK /\ h \in Handler
        /\ StoreOK(store) /\ store \in Store
    BY DEF LookupsInv, RequestsInv, TypeInv, HandlersOK, StoreOK
  <1>1. r \in Verified \cap Cacheable /\ LookupOK(r)
    BY <1>0 DEF LookupsInv, RequestsInv, RequestOK, ProgressOK, At
  <1>2. h.pc = "again" /\ h.pc \in InHand
    BY DEF At, InHand
  <1>3. CASE AskAgain(r)
    <2> DEFINE pc == IF h.verdict = "blocked" THEN "failed" ELSE "top"
    <2>1. PICK s \in Expire(store, now) :
             LET b == Begin(s, now, Identified(r), CallerOf[r])
             IN /\ store' = b.store
                /\ Becomes(r, [h EXCEPT !.cand = b.lookup, !.pc = pc])
      BY <1>3 DEF AskAgain
    <2> DEFINE l == Begin(s, now, Identified(r), CallerOf[r]).lookup
    <2>2. handler'[r] = [h EXCEPT !.cand = l, !.pc = pc]
      BY <1>0, <2>1, HandlerNow
    <2> HIDE DEF pc
    <2>3. handler'[r].cand = l
      BY <1>0, <2>2 DEF Handler
    <2>4. /\ StoreOK(s) /\ Ages(store, s) /\ s \in Store /\ now \in Nat
          /\ Identified(r) \in Identity /\ Identified(r).key = k
          /\ CallerOf[r] \in Caller
      BY <1>0, StoreExpires, IdentifiedType
    <2> SUFFICES ASSUME l.reason = "hit" PROVE FALSE
      BY <2>3
    <2>5. TTL # 0 /\ ~Retrying(s, Identified(r), CallerOf[r]) /\ k \in FilledKeys(s)
      BY <2>4, BeginReasons
    <2>6. k \in FilledKeys(store)
      BY <2>4, <2>5 DEF Ages, FilledKeys
    <2>7. h.cand.reason = "miss" /\ k \notin AgentKey
      BY <1>1, <1>2, <2>5, <2>6 DEF LookupOK
    <2>8. <<CallerOf[r], k>> \in SeenPairs(store)
      BY <1>1, <1>2, <2>7 DEF LookupOK
    <2>9. s.seen = store.seen
      BY <1>0, <2>4, ExpireFields DEF ExpiredBy
    <2> QED
      BY <2>4, <2>5, <2>7, <2>8, <2>9 DEF Retrying, SeenPairs
  <1>4. CASE handler'[r] = handler[r]
    BY <1>4 DEF At
  <1>5. ASSUME HandlerStep(r) PROVE AskAgain(r) \/ handler'[r] = handler[r]
    BY <1>2, <1>5
    DEF HandlerStep, At, Accept, AcquireHardware, LockFree, SelectDevice,
        CancelSelection, Choose, RefuseAnonymous, AskCache, Prompt, ChangeDevice,
        Submit, CancelInput, Recheck, FindDevice, AskDevice, CancelledLate,
        JudgeVerdict, DiscardRefused, ReportFailure, LeaveError, Conclude,
        SendAnswer,
        Acknowledged, Delivered, CommitAnswer, SavePreference, AckTimeout,
        Abandon, Waiting, LoseDialog, Return, PassOver
  <1>6. ASSUME NEW q \in Request, q # r, HandlerStep(q)
        PROVE  handler'[r] = handler[r]
    BY <1>0, <1>6, OthersWait DEF Others
  <1>7. ASSUME \/ \E q \in Request :
                     \/ ReadFrame(q) \/ NoticeHangup(q)
                     \/ RenderView(q) \/ PressControl(q) \/ DismissDialog(q)
                     \/ TimerRefreshes(q) \/ DialogDies(q)
                     \/ HelperStep(q) \/ HelperDies(q)
               \/ \E j \in Key : FileChanges(j) \/ UserForgets(j)
               \/ \E c \in Conn : DeviceMoves(c)
               \/ SweepCache
               \/ Tick
               \/ Finished
               \/ UNCHANGED vars
        PROVE  handler' = handler
    BY <1>7
    DEF ReadFrame, NoticeHangup, RenderView, PressControl, DismissDialog,
        TimerRefreshes, DialogDies, Dialog, HelperStep, HelperDies, HelperExits,
        HelperPrints, HelperAcknowledges, HelperBecomes, FileChanges,
        UserForgets, DeviceMoves, SweepCache, Tick, Finished, vars, serviceVars
  <1> QED
    BY <1>3, <1>4, <1>5, <1>6, <1>7 DEF Next

\* The handler asks the user although a repeated Begin may supply something:
\* that never happens while the helper waits, unless a limit of the cache had
\* turned the request away before (service.go:301, 351, 364).
THEOREM NoHitIsDiscarded == Spec => NothingUsefulDiscarded
  <1>1. Init => LookupsInv
    <2> SUFFICES ASSUME Init PROVE LookupsInv
      OBVIOUS
    <2>1. RequestsInv
      BY RequestsInitial
    <2>2. \A r \in Request : handler[r].pc = "start"
      BY DEF Init, Fresh
    <2> QED
      BY <2>1, <2>2, RequestsAssumption DEF LookupsInv, LookupOK, At, InHand, Loop
  <1>2. LookupsInv /\ [Next]_vars => LookupsInv'
    BY NextKeepsLookups
  <1> DEFINE Step == \A r \in Request :
                        /\ At(r, "again") /\ ~At(r, "again")'
                        /\ helper[r] = "waiting" /\ handler[r].cand.reason # "capacity"
                        => handler'[r].cand.reason # "hit"
  <1>3. LookupsInv /\ [Next]_vars => [Step]_vars
    BY NothingToDiscard
  <1>4. Spec => [][Step]_vars
    BY <1>1, <1>2, <1>3, PTL DEF Spec
  <1> QED
    BY <1>4 DEF NothingUsefulDiscarded

---------------------------------------------------------------------------
(* Whose frame is it?  A frame does not say which view it answers.  Where  *)
(* the timer of the wait view has sent nothing, each view that asks has    *)
(* one frame to come, and the handler moves on only when it reads it.      *)

Awaiting == {"wait", "choose", "input"}

Asks(view) == view.stage \in Awaiting

\* What is neither a report of a shown view nor a cancel.
Used(frame) == frame.kind \notin {"shown", "cancel"}

Unused(p) == \A i \in 1..Len(p) : ~Used(p[i])

\* What a view can send besides cancel is decided by its stage.
Plain(view) ==
    /\ view.stage # "choose" => view.devices = <<>>
    /\ view.stage # "input" => ~view.offerChange

\* The view, or the frame, is the one that a handler h waits for.
Fits(h, verified, view) ==
    /\ h.pc \in Awaiting /\ view.stage = h.pc
    /\ view.stage = "choose" => view.devices = h.found
    /\ view.offerChange => verified

Answers(h, verified, frame) ==
    \/ frame.kind = "refresh" /\ h.pc \in {"wait", "choose"}
    \/ frame.kind = "select" /\ h.pc = "choose" /\ frame.devices = h.found
    \/ frame.kind = "submit" /\ h.pc = "input"
    \/ frame.kind = "change" /\ h.pc = "input" /\ verified

\* One of the frames is used; it answers, and at most n are behind it.
Tells(h, verified, p, n) ==
    \E i \in 1..Len(p) :
        /\ Used(p[i]) /\ \A j \in 1..Len(p) : j # i => ~Used(p[j])
        /\ Answers(h, verified, p[i])
        /\ Len(p) - i <= n

\* What is on its way to the handler, first what is in the channel already.
Pipe(w) == w.actions \o w.sent

\* A user cancels once.
Cancels(w) == IF w.dismissed THEN 1 ELSE 0

\* The frames that are under way, and those that views will report.
Load(w) == Len(w.views) + Len(Pipe(w))

Offers(w) == w.sensitive /\ Asks(w.screen)

\* No view asks, and no frame answers.
Idle(w) ==
    /\ \A i \in 1..Len(w.views) : ~Asks(w.views[i])
    /\ ~Offers(w) /\ Unused(Pipe(w))

\* A view that asks is on its way; it is the last one.
Announced(h, verified, w) ==
    /\ w.views # <<>> /\ Fits(h, verified, w.views[Len(w.views)])
    /\ \A i \in 1..Len(w.views) : i # Len(w.views) => ~Asks(w.views[i])
    /\ ~Offers(w) /\ Unused(Pipe(w))

\* It is on the screen.
Asking(h, verified, w) ==
    /\ w.views = <<>> /\ w.sensitive /\ Fits(h, verified, w.screen)
    /\ Unused(Pipe(w))

\* Its frame was sent, or read; only a cancel can be behind it.
Replied(h, verified, w) ==
    /\ w.views = <<>> /\ ~Offers(w) /\ Tells(h, verified, Pipe(w), Cancels(w))

Turn(h, verified, w) ==
    \/ Idle(w) \/ Announced(h, verified, w) \/ Asking(h, verified, w)
    \/ Replied(h, verified, w)

FramesOK(w) ==
    /\ Plain(w.screen) /\ \A i \in 1..Len(w.views) : Plain(w.views[i])
    /\ w.cancelled => w.dismissed
    /\ \A i \in 1..Len(Pipe(w)) : Pipe(w)[i].kind = "cancel" => w.dismissed
    /\ w.process = "none" => ~w.dismissed

\* Where nothing but a cancel is under way.
Drained == {"start", "lock", "begin", "discover", "selected", "check", "enumerate"}

Light(h) == h.pc \in Drained \/ (h.pc = "top" /\ h.value # NoSecret)

LoadOK(h, w) ==
    /\ Light(h) => Load(w) <= Cancels(w)
    /\ h.pc = "verify" => Load(w) <= 1 + Cancels(w)
    /\ h.pc = "again" => h.value = NoSecret

TurnOK(h, verified, w) == h.pc # "end" => Turn(h, verified, w) /\ LoadOK(h, w)

DialogOK(r) ==
    /\ FramesOK(worker[r])
    /\ worker[r].process = "dead" => r \in Failing
    /\ r \in aware => helper[r] = "gone"
    /\ Unrefreshed(r) => TurnOK(handler[r], r \in Verified, worker[r])
    /\ r \notin Failing /\ Unrefreshed(r) /\ answer[r] = Status(1) =>
          worker[r].dismissed \/ helper[r] = "gone"
    /\ Unrefreshed(r) => handler[r].picked \in {NoConn, handler[r].selected}

UsedOK ==
    used \in [forgets : Nat, presses : [Request -> Nat], refreshes : [Request -> Nat]]

DialogsInv == TypeInv /\ UsedOK /\ \A r \in Request : DialogOK(r)

(* Facts about sequences. *)

LEMMA JoinSent ==
    ASSUME NEW S, NEW a \in Seq(S), NEW s \in Seq(S), NEW f \in S
    PROVE  a \o Append(s, f) = Append(a \o s, f)
  <1>1. <<f>> \in Seq(S)
    OBVIOUS
  <1>2. a \o s \in Seq(S)
    BY ConcatProperties
  <1>3. Append(s, f) = s \o <<f>> /\ Append(a \o s, f) = (a \o s) \o <<f>>
    BY <1>2, AppendIsConcat
  <1>4. \A u \in Seq(S) : (a \o s) \o u = a \o (s \o u)
    BY ConcatAssociative
  <1> QED
    BY <1>1, <1>3, <1>4

LEMMA JoinRead ==
    ASSUME NEW S, NEW a \in Seq(S), NEW s \in Seq(S), s # <<>>
    PROVE  Append(a, Head(s)) \o Tail(s) = a \o s
  <1> DEFINE f == Head(s)
             t == Tail(s)
  <1>1. f \in S /\ t \in Seq(S) /\ Len(s) \in Nat /\ Len(s) >= 1 /\ f = s[1]
    OBVIOUS
  <1>2. <<f>> \in Seq(S)
    BY <1>1
  <1>3. s = <<f>> \o t
    <2>1. s = SubSeq(s, 1, Len(s)) /\ t = SubSeq(s, 2, Len(s))
      BY SubSeqFull, TailIsSubSeq, Zenon
    <2>2. 1 \in 1..Len(s) /\ Len(s) \in 1..Len(s) /\ 1 + 1 = 2
      BY <1>1
    <2>3. SubSeq(s, 1, Len(s)) = <<s[1]>> \o SubSeq(s, 1 + 1, Len(s))
      BY <2>2, SubSeqRecursiveFirst, Zenon
    <2> QED
      BY <1>1, <2>1, <2>2, <2>3, Zenon
  <1> HIDE DEF f, t
  <1>4. Append(a, f) = a \o <<f>>
    BY <1>1, AppendIsConcat
  <1>5. \A u, v \in Seq(S) : (a \o u) \o v = a \o (u \o v)
    BY ConcatAssociative
  <1>6. Append(a, f) \o t = a \o s
    BY <1>1, <1>2, <1>3, <1>4, <1>5
  <1> QED
    BY <1>6 DEF f, t

LEMMA JoinTaken ==
    ASSUME NEW S, NEW a \in Seq(S), NEW s \in Seq(S), a # <<>>
    PROVE  /\ a \o s # <<>> /\ (a \o s)[1] = Head(a)
           /\ Tail(a) \o s = Tail(a \o s)
  <1> DEFINE p == a \o s
             t == Tail(a)
             n == Len(a)
             m == Len(s)
  <1>1. n \in Nat /\ n # 0 /\ m \in Nat /\ Head(a) = a[1]
    OBVIOUS
  <1>2. t \in Seq(S) /\ Len(t) = n - 1 /\ \A i \in 1..(n - 1) : t[i] = a[i + 1]
    OBVIOUS
  <1>3. /\ p \in Seq(S) /\ Len(p) = n + m
        /\ \A i \in 1..(n + m) : p[i] = IF i <= n THEN a[i] ELSE s[i - n]
    BY ConcatProperties
  <1>4. /\ t \o s \in Seq(S) /\ Len(t \o s) = Len(t) + m
        /\ \A i \in 1..(Len(t) + m) : (t \o s)[i] = IF i <= Len(t) THEN t[i] ELSE s[i - Len(t)]
    BY <1>2, ConcatProperties
  <1> HIDE DEF p, t, n, m
  <1>5. p # <<>> /\ p[1] = Head(a)
    BY <1>1, <1>3
  <1>6. /\ Tail(p) \in Seq(S) /\ Len(Tail(p)) = Len(p) - 1
        /\ \A i \in 1..(Len(p) - 1) : Tail(p)[i] = p[i + 1]
    BY <1>3, <1>5
  <1> DEFINE q == t \o s
             v == Tail(p)
  <1>7. q \in Seq(S) /\ v \in Seq(S) /\ Len(q) = Len(v) /\ Len(q) = (n - 1) + m
    BY <1>1, <1>2, <1>3, <1>4, <1>6
  <1>8. ASSUME NEW i \in 1..((n - 1) + m) PROVE q[i] = v[i]
    <2>1. i \in Nat /\ i + 1 \in 1..(n + m) /\ (i + 1) - n = i - (n - 1)
      BY <1>1
    <2>2. v[i] = IF i + 1 <= n THEN a[i + 1] ELSE s[(i + 1) - n]
      BY <1>1, <1>3, <1>6, <2>1
    <2>3. q[i] = IF i <= n - 1 THEN t[i] ELSE s[i - (n - 1)]
      BY <1>1, <1>2, <1>4
    <2> HIDE DEF q, v
    <2>4. CASE i <= n - 1
      BY <1>1, <1>2, <2>1, <2>2, <2>3, <2>4
    <2>5. CASE ~(i <= n - 1)
      BY <1>1, <2>1, <2>2, <2>3, <2>5
    <2> QED
      BY <2>4, <2>5
  <1> HIDE DEF q, v
  <1>9. q = v
    BY <1>7, <1>8, SeqEqual
  <1> QED
    BY <1>5, <1>9 DEF p, q, v, t
LEMMA TellsSent ==
    ASSUME NEW S, NEW p \in Seq(S), NEW f \in S, NEW h, NEW v, NEW n \in Nat
    PROVE  /\ Unused(p) /\ ~Used(f) => Unused(Append(p, f))
           /\ Unused(p) /\ Used(f) /\ Answers(h, v, f) => Tells(h, v, Append(p, f), n)
           /\ Tells(h, v, p, n) /\ ~Used(f) => Tells(h, v, Append(p, f), n + 1)
  <1> DEFINE q == Append(p, f)
  <1>1. /\ Len(p) \in Nat /\ Len(q) = Len(p) + 1
        /\ \A i \in 1..Len(p) : q[i] = p[i]
        /\ q[Len(p) + 1] = f
    BY AppendProperties
  <1> HIDE DEF q
  <1>2. ASSUME Unused(p), ~Used(f) PROVE Unused(q)
    BY <1>1, <1>2 DEF Unused
  <1>3. ASSUME Unused(p), Used(f), Answers(h, v, f) PROVE Tells(h, v, q, n)
    <2>1. Len(p) + 1 \in 1..Len(q) /\ Len(q) - (Len(p) + 1) <= n
      BY <1>1
    <2>2. \A j \in 1..Len(q) : j # Len(p) + 1 => ~Used(q[j])
      BY <1>1, <1>3 DEF Unused
    <2> QED
      BY <1>1, <1>3, <2>1, <2>2 DEF Tells
  <1>4. ASSUME Tells(h, v, p, n), ~Used(f) PROVE Tells(h, v, q, n + 1)
    <2>1. PICK i \in 1..Len(p) :
             /\ Used(p[i]) /\ \A j \in 1..Len(p) : j # i => ~Used(p[j])
             /\ Answers(h, v, p[i]) /\ Len(p) - i <= n
      BY <1>4 DEF Tells
    <2>2. i \in 1..Len(q) /\ q[i] = p[i] /\ Len(q) - i <= n + 1
      BY <1>1, <2>1
    <2>3. \A j \in 1..Len(q) : j # i => ~Used(q[j])
      BY <1>1, <1>4, <2>1
    <2> QED
      BY <2>1, <2>2, <2>3 DEF Tells
  <1> QED
    BY <1>2, <1>3, <1>4 DEF q

LEMMA TellsTaken ==
    ASSUME NEW S, NEW p \in Seq(S), p # <<>>, NEW h, NEW v, NEW n \in Nat
    PROVE  /\ Unused(p) => ~Used(p[1]) /\ Unused(Tail(p))
           /\ Tells(h, v, p, n) /\ ~Used(p[1]) => Tells(h, v, Tail(p), n)
           /\ Tells(h, v, p, n) /\ Used(p[1]) =>
                 Answers(h, v, p[1]) /\ Unused(Tail(p)) /\ Len(Tail(p)) <= n
  <1> DEFINE q == Tail(p)
  <1>1. /\ Len(p) \in Nat /\ Len(p) # 0 /\ Len(q) = Len(p) - 1
        /\ \A i \in 1..(Len(p) - 1) : q[i] = p[i + 1]
    BY HeadTailProperties
  <1> HIDE DEF q
  <1>2. ASSUME Unused(p) PROVE ~Used(p[1]) /\ Unused(q)
    BY <1>1, <1>2 DEF Unused
  <1>3. ASSUME Tells(h, v, p, n)
        PROVE  /\ ~Used(p[1]) => Tells(h, v, q, n)
               /\ Used(p[1]) => Answers(h, v, p[1]) /\ Unused(q) /\ Len(q) <= n
    <2>1. PICK i \in 1..Len(p) :
             /\ Used(p[i]) /\ \A j \in 1..Len(p) : j # i => ~Used(p[j])
             /\ Answers(h, v, p[i]) /\ Len(p) - i <= n
      BY <1>3 DEF Tells
    <2>2. ASSUME ~Used(p[1]) PROVE Tells(h, v, q, n)
      <3>1. i - 1 \in 1..Len(q) /\ q[i - 1] = p[i] /\ Len(q) - (i - 1) <= n
        BY <1>1, <2>1, <2>2
      <3>2. \A j \in 1..Len(q) : j # i - 1 => ~Used(q[j])
        BY <1>1, <2>1
      <3> QED
        BY <2>1, <3>1, <3>2 DEF Tells
    <2>3. ASSUME Used(p[1]) PROVE Answers(h, v, p[1]) /\ Unused(q) /\ Len(q) <= n
      <3>1. i = 1
        BY <1>1, <2>1, <2>3
      <3>2. \A j \in 1..Len(q) : ~Used(q[j])
        BY <1>1, <2>1, <3>1
      <3> QED
        BY <1>1, <2>1, <3>1, <3>2 DEF Unused
    <2> QED
      BY <2>2, <2>3
  <1> QED
    BY <1>2, <1>3 DEF q

LEMMA TellsCut ==
    ASSUME NEW p, NEW q, Len(p) \in Nat, Len(q) \in Nat, Len(q) <= Len(p),
           \A i \in 1..Len(q) : q[i] = p[i],
           NEW h, NEW v, NEW n \in Nat
    PROVE  /\ Unused(p) => Unused(q)
           /\ Tells(h, v, p, n) => Unused(q) \/ Tells(h, v, q, n)
  <1>1. ASSUME Unused(p) PROVE Unused(q)
    BY <1>1 DEF Unused
  <1>2. ASSUME Tells(h, v, p, n) PROVE Unused(q) \/ Tells(h, v, q, n)
    <2>1. PICK i \in 1..Len(p) :
             /\ Used(p[i]) /\ \A j \in 1..Len(p) : j # i => ~Used(p[j])
             /\ Answers(h, v, p[i]) /\ Len(p) - i <= n
      BY <1>2 DEF Tells
    <2>2. CASE i <= Len(q)
      <3>1. i \in 1..Len(q) /\ q[i] = p[i] /\ Len(q) - i <= n
        BY <2>1, <2>2
      <3>2. \A j \in 1..Len(q) : j # i => ~Used(q[j])
        BY <2>1
      <3> QED
        BY <2>1, <3>1, <3>2 DEF Tells
    <2>3. CASE ~(i <= Len(q))
      BY <2>1, <2>3 DEF Unused
    <2> QED
      BY <2>2, <2>3
  <1> QED
    BY <1>1, <1>2

---------------------------------------------------------------------------
(* What the operations of a dialog do to whose turn it is.                 *)

LEMMA PipeType ==
    ASSUME NEW w \in Worker
    PROVE  /\ Pipe(w) \in Seq(Input \cup Choice) /\ Len(Pipe(w)) \in Nat
           /\ Len(w.views) \in Nat /\ Load(w) \in Nat /\ Cancels(w) \in {0, 1}
           /\ Len(Pipe(w)) = Len(w.actions) + Len(w.sent)
           /\ \A i \in 1..Len(w.sent) :
                 \E j \in 1..Len(Pipe(w)) : Pipe(w)[j] = w.sent[i]
  <1> DEFINE S == Input \cup Choice
             a == w.actions
             s == w.sent
             p == Pipe(w)
  <1>1. a \in Seq(S) /\ s \in Seq(S) /\ w.views \in Seq(ShownView)
    BY WorkerFields
  <1>2. p = a \o s
    BY DEF Pipe
  <1> HIDE DEF a, s, p
  <1>3. /\ p \in Seq(S) /\ Len(p) = Len(a) + Len(s)
        /\ \A i \in 1..(Len(a) + Len(s)) :
              p[i] = IF i <= Len(a) THEN a[i] ELSE s[i - Len(a)]
    BY <1>1, <1>2, ConcatProperties
  <1>4. Len(p) \in Nat /\ Len(a) \in Nat /\ Len(s) \in Nat /\ Len(w.views) \in Nat
    BY <1>1, <1>3
  <1>5. ASSUME NEW i \in 1..Len(s) PROVE \E j \in 1..Len(p) : p[j] = s[i]
    <2>1. /\ Len(a) + i \in 1..(Len(a) + Len(s)) /\ ~(Len(a) + i <= Len(a))
          /\ (Len(a) + i) - Len(a) = i
      BY <1>4
    <2>2. p[Len(a) + i] = s[i]
      BY <1>3, <2>1
    <2> QED
      BY <1>3, <2>1, <2>2
  <1>6. Load(w) \in Nat /\ Cancels(w) \in {0, 1}
    BY <1>4 DEF Load, Cancels, p
  <1> QED
    BY <1>3, <1>4, <1>5, <1>6 DEF a, s, p

\* One more frame on its way.
LEMMA PipeSent ==
    ASSUME NEW w \in Worker, NEW u, NEW f \in Input \cup Choice,
           u.actions = w.actions, u.sent = Append(w.sent, f)
    PROVE  /\ Pipe(u) = Append(Pipe(w), f)
           /\ Len(Pipe(u)) = Len(Pipe(w)) + 1
           /\ \A i \in 1..Len(Pipe(u)) : Pipe(u)[i] = f \/
                 (i \in 1..Len(Pipe(w)) /\ Pipe(u)[i] = Pipe(w)[i])
  <1>1. /\ w.actions \in Seq(Input \cup Choice) /\ w.sent \in Seq(Input \cup Choice)
        /\ Pipe(w) \in Seq(Input \cup Choice) /\ Len(Pipe(w)) \in Nat
    BY WorkerFields, PipeType
  <1>2. Pipe(u) = Append(Pipe(w), f)
    <2> DEFINE S == Input \cup Choice
               a == w.actions
               s == w.sent
    <2>1. a \in Seq(S) /\ s \in Seq(S) /\ f \in S
      BY <1>1
    <2> HIDE DEF S, a, s
    <2>2. a \o Append(s, f) = Append(a \o s, f)
      BY <2>1, JoinSent
    <2> QED
      BY <2>2, Zenon DEF Pipe, a, s
  <1> DEFINE p == Pipe(w)
             q == Pipe(u)
  <1>3. p \in Seq(Input \cup Choice) /\ Len(p) \in Nat /\ q = Append(p, f)
    BY <1>1, <1>2
  <1> HIDE DEF p, q
  <1>4. /\ Len(q) = Len(p) + 1 /\ q[Len(p) + 1] = f
        /\ \A i \in 1..Len(p) : q[i] = p[i]
    BY <1>3, AppendProperties
  <1>5. ASSUME NEW i \in 1..Len(q) PROVE q[i] = f \/ (i \in 1..Len(p) /\ q[i] = p[i])
    <2>1. i = Len(p) + 1 \/ i \in 1..Len(p)
      BY <1>3, <1>4
    <2> QED
      BY <1>4, <2>1
  <1> QED
    BY <1>2, <1>4, <1>5 DEF p, q

\* Outside the views that ask, nothing is under way that answers.
LEMMA NobodysTurn ==
    ASSUME NEW h, NEW v, NEW w, Turn(h, v, w), h.pc \notin Awaiting
    PROVE  Idle(w)
  BY DEF Turn, Announced, Asking, Replied, Fits, Tells, Answers, Awaiting

LEMMA TurnRead ==
    ASSUME NEW w \in Worker, w.sent # <<>>, NEW h, NEW v
    PROVE  /\ FramesOK(w) => FramesOK(Read(w))
           /\ Turn(h, v, w) => Turn(h, v, Read(w))
           /\ Load(Read(w)) = Load(w) /\ Cancels(Read(w)) = Cancels(w)
  <1> DEFINE u == Read(w)
  <1>1. /\ u.views = w.views /\ u.screen = w.screen /\ u.sensitive = w.sensitive
        /\ u.dismissed = w.dismissed /\ u.process = w.process
        /\ u.cancelled = (w.cancelled \/ Head(w.sent).kind = "cancel")
        /\ u.actions = Append(w.actions, Head(w.sent)) /\ u.sent = Tail(w.sent)
    BY DEF Read, Worker
  <1> HIDE DEF u
  <1>2. w.actions \in Seq(Input \cup Choice) /\ w.sent \in Seq(Input \cup Choice)
    BY WorkerFields
  <1>3. Pipe(u) = Pipe(w)
    BY <1>1, <1>2, JoinRead DEF Pipe
  <1>4. \E j \in 1..Len(Pipe(w)) : Pipe(w)[j] = Head(w.sent)
    <2>1. 1 \in 1..Len(w.sent) /\ Head(w.sent) = w.sent[1]
      BY <1>2
    <2> QED
      BY <2>1, PipeType
  <1>5. FramesOK(w) => FramesOK(u)
    BY <1>1, <1>3, <1>4 DEF FramesOK
  <1>6. Load(u) = Load(w) /\ Cancels(u) = Cancels(w)
    BY <1>1, <1>3 DEF Load, Cancels
  <1>7. Turn(h, v, w) => Turn(h, v, u)
    BY <1>1, <1>3, <1>6 DEF Turn, Idle, Announced, Asking, Replied, Offers
  <1> QED
    BY <1>5, <1>6, <1>7 DEF u

LEMMA TurnRendered ==
    ASSUME NEW w \in Worker, w.views # <<>>, NEW h, NEW v
    PROVE  /\ FramesOK(w) => FramesOK(Render(w))
           /\ Turn(h, v, w) => Turn(h, v, Render(w))
           /\ Load(Render(w)) = Load(w) /\ Cancels(Render(w)) = Cancels(w)
  <1> DEFINE u == Render(w)
             f == Frame("shown")
  <1>1. /\ u.views = Tail(w.views) /\ u.screen = Head(w.views) /\ u.sensitive
        /\ u.dismissed = w.dismissed /\ u.process = w.process
        /\ u.cancelled = w.cancelled
        /\ u.actions = w.actions /\ u.sent = Append(w.sent, f)
    BY DEF Render, Worker
  <1>2. f \in Input \cup Choice /\ ~Used(f) /\ f.kind # "cancel"
    BY PlainFrames DEF Used, Frame
  <1> HIDE DEF u, f
  <1>3. /\ w.views \in Seq(ShownView) /\ Len(w.views) \in Nat /\ Len(w.views) # 0
        /\ u.screen = w.views[1]
        /\ u.views \in Seq(ShownView) /\ Len(u.views) = Len(w.views) - 1
        /\ \A i \in 1..(Len(w.views) - 1) : u.views[i] = w.views[i + 1]
    BY <1>1, WorkerFields, HeadTailProperties
  <1>4. /\ Pipe(u) = Append(Pipe(w), f) /\ Len(Pipe(u)) = Len(Pipe(w)) + 1
        /\ \A i \in 1..Len(Pipe(u)) : Pipe(u)[i] = f \/
              (i \in 1..Len(Pipe(w)) /\ Pipe(u)[i] = Pipe(w)[i])
    BY <1>1, <1>2, PipeSent
  <1>5. FramesOK(w) => FramesOK(u)
    BY <1>1, <1>2, <1>3, <1>4 DEF FramesOK
  <1>6. Load(u) = Load(w) /\ Cancels(u) = Cancels(w)
    <2>1. /\ Len(u.views) = Len(w.views) - 1 /\ Len(Pipe(u)) = Len(Pipe(w)) + 1
          /\ Len(w.views) \in Nat /\ Len(Pipe(w)) \in Nat
      BY <1>3, <1>4, PipeType
    <2>2. \A x, y \in Nat : (x - 1) + (y + 1) = x + y
      OBVIOUS
    <2>3. Load(u) = Load(w)
      BY <2>1, <2>2, Zenon DEF Load
    <2> QED
      BY <1>1, <2>3 DEF Cancels
  <1>7. Unused(Pipe(w)) => Unused(Pipe(u))
    BY <1>2, <1>4 DEF Unused
  <1>8. ASSUME Idle(w) PROVE Idle(u)
    BY <1>1, <1>3, <1>7, <1>8 DEF Idle, Offers
  <1>9. ASSUME Announced(h, v, w), Len(w.views) = 1 PROVE Asking(h, v, u)
    <2>1. u.views = <<>> /\ u.screen = w.views[Len(w.views)]
      BY <1>3, <1>9
    <2>2. Fits(h, v, u.screen)
      BY <1>9, <2>1, Zenon DEF Announced
    <2> QED
      BY <1>1, <1>7, <1>9, <2>1, <2>2 DEF Announced, Asking
  <1>10. ASSUME Announced(h, v, w), Len(w.views) # 1 PROVE Announced(h, v, u)
    <2>1. u.views # <<>> /\ u.views[Len(u.views)] = w.views[Len(w.views)]
      <3> DEFINE n == Len(w.views)
      <3>1. n \in Nat /\ n # 0 /\ n # 1 /\ Len(u.views) = n - 1
        BY <1>3, <1>10
      <3> HIDE DEF n
      <3>2. n - 1 \in 1..(n - 1) /\ (n - 1) + 1 = n /\ n - 1 # 0
        BY <3>1
      <3>3. u.views[n - 1] = w.views[(n - 1) + 1]
        BY <1>3, <3>2 DEF n
      <3>4. u.views # <<>>
        BY <3>1, <3>2
      <3> QED
        BY <3>1, <3>2, <3>3, <3>4, Zenon DEF n
    <2>2. \A i \in 1..Len(u.views) : i # Len(u.views) => ~Asks(u.views[i])
      BY <1>3, <1>10 DEF Announced
    <2>3. ~Offers(u)
      <3>1. 1 \in 1..Len(w.views) /\ 1 # Len(w.views)
        BY <1>3, <1>10
      <3>2. ~Asks(w.views[1])
        BY <1>10, <3>1, Zenon DEF Announced
      <3> QED
        BY <1>3, <3>2, Zenon DEF Offers
    <2> QED
      BY <1>7, <1>10, <2>1, <2>2, <2>3 DEF Announced
  <1>11. Turn(h, v, w) => Turn(h, v, u)
    BY <1>8, <1>9, <1>10 DEF Turn, Asking, Replied
  <1> QED
    BY <1>5, <1>6, <1>11 DEF u

\* A control of a view that asks replies to the view; other views have none.
LEMMA ControlsAnswer ==
    ASSUME NEW w \in Worker, FramesOK(w), NEW f \in Controls(w.screen), NEW h, NEW v
    PROVE  /\ Asks(w.screen) /\ Used(f)
           /\ Fits(h, v, w.screen) => Answers(h, v, f)
  <1> DEFINE view == w.screen
             Selections == {[kind |-> "select", selected |-> i, remember |-> FALSE,
                             devices |-> view.devices] :
                               i \in DOMAIN view.devices}
             Submissions == {[kind |-> "submit", value |-> x, remember |-> m] :
                                x \in IF view.stage = "input" THEN Response ELSE {},
                                m \in {FALSE, view.offerRemember}}
  <1>0. Plain(view)
    BY DEF FramesOK
  <1>1. CASE f = Frame("refresh") /\ view.stage \in {"wait", "choose"}
    BY <1>1 DEF Asks, Awaiting, Used, Frame, Fits, Answers
  <1>2. CASE f = Frame("change") /\ view.offerChange
    BY <1>0, <1>2 DEF Plain, Asks, Awaiting, Used, Frame, Fits, Answers
  <1>3. CASE f \in Selections
    <2>1. PICK i \in DOMAIN view.devices :
              f = [kind |-> "select", selected |-> i, remember |-> FALSE,
                   devices |-> view.devices]
      BY <1>3
    <2>2. f.kind = "select" /\ f.devices = view.devices
      BY <2>1
    <2>3. view.stage = "choose"
      BY <1>0, <2>1 DEF Plain
    <2> QED
      BY <2>2, <2>3 DEF Asks, Awaiting, Used, Fits, Answers
  <1>4. CASE f \in Submissions
    <2>1. view.stage = "input" /\ f.kind = "submit"
      BY <1>4
    <2> QED
      BY <2>1 DEF Asks, Awaiting, Used, Fits, Answers
  <1>5. \/ f = Frame("refresh") /\ view.stage \in {"wait", "choose"}
        \/ f = Frame("change") /\ view.offerChange
        \/ f \in Selections
        \/ f \in Submissions
    <2>1. f \in (IF view.stage \in {"wait", "choose"} THEN {Frame("refresh")} ELSE {})
                \cup Selections \cup Submissions
                \cup (IF view.offerChange THEN {Frame("change")} ELSE {})
      BY DEF Controls
    <2> HIDE DEF Selections, Submissions
    <2> QED
      BY <2>1
  <1> HIDE DEF Selections, Submissions
  <1> QED
    BY <1>1, <1>2, <1>3, <1>4, <1>5

LEMMA TurnPressed ==
    ASSUME NEW w \in Worker, FramesOK(w), w.sensitive, NEW f \in Controls(w.screen),
           NEW h, NEW v
    PROVE  /\ FramesOK(Press(w, f))
           /\ Turn(h, v, w) => Turn(h, v, Press(w, f)) /\ h.pc \in Awaiting
           /\ Cancels(Press(w, f)) = Cancels(w)
  <1> DEFINE u == Press(w, f)
  <1>1. /\ u.views = w.views /\ u.screen = w.screen /\ ~u.sensitive
        /\ u.dismissed = w.dismissed /\ u.process = w.process
        /\ u.cancelled = w.cancelled
        /\ u.actions = w.actions /\ u.sent = Append(w.sent, f)
    BY DEF Press, Worker
  <1> HIDE DEF u
  <1>2. /\ f \in Input \cup Choice /\ Asks(w.screen) /\ Used(f)
        /\ Fits(h, v, w.screen) => Answers(h, v, f)
    BY WorkerFields, ControlsType, ControlsAnswer
  <1>3. /\ Pipe(u) = Append(Pipe(w), f)
        /\ \A i \in 1..Len(Pipe(u)) : Pipe(u)[i] = f \/
              (i \in 1..Len(Pipe(w)) /\ Pipe(u)[i] = Pipe(w)[i])
    BY <1>1, <1>2, PipeSent
  <1>4. FramesOK(u)
    BY <1>1, <1>2, <1>3 DEF FramesOK, Used
  <1>5. Cancels(u) = Cancels(w) /\ Cancels(u) \in Nat
    BY <1>1 DEF Cancels
  <1>6. ASSUME Turn(h, v, w) PROVE Turn(h, v, u) /\ h.pc \in Awaiting
    <2>1. Asking(h, v, w)
      BY <1>2, <1>6 DEF Turn, Idle, Announced, Replied, Offers
    <2>2. Unused(Pipe(w)) /\ Used(f) /\ Answers(h, v, f)
      BY <1>2, <2>1 DEF Asking
    <2>3. Tells(h, v, Pipe(u), Cancels(u))
      <3>1. Pipe(w) \in Seq(Input \cup Choice) /\ f \in Input \cup Choice
        BY <1>2, PipeType
      <3>2. Tells(h, v, Append(Pipe(w), f), Cancels(u))
        BY <1>5, <2>2, <3>1, TellsSent, Zenon
      <3> QED
        BY <1>3, <3>2, Zenon
    <2> QED
      BY <1>1, <2>1, <2>3 DEF Turn, Asking, Replied, Offers, Fits
  <1> QED
    BY <1>4, <1>5, <1>6 DEF u

LEMMA TurnDismissed ==
    ASSUME NEW w \in Worker, ~w.dismissed, w.process = "up", NEW h, NEW v
    PROVE  /\ FramesOK(w) => FramesOK(Dismiss(w))
           /\ Turn(h, v, w) => Turn(h, v, Dismiss(w))
           /\ Load(Dismiss(w)) = Load(w) + 1
           /\ Cancels(w) = 0 /\ Cancels(Dismiss(w)) = 1
           /\ Dismiss(w).dismissed
  <1> DEFINE u == Dismiss(w)
             f == Frame("cancel")
  <1>1. /\ u.views = w.views /\ u.screen = w.screen /\ ~u.sensitive
        /\ u.dismissed /\ u.process = "up"
        /\ u.actions = w.actions /\ u.sent = Append(w.sent, f)
    BY DEF Dismiss, Worker
  <1>2. f \in Input \cup Choice /\ ~Used(f)
    BY PlainFrames DEF Used, Frame
  <1> HIDE DEF u, f
  <1>3. Pipe(u) = Append(Pipe(w), f) /\ Len(Pipe(u)) = Len(Pipe(w)) + 1
    BY <1>1, <1>2, PipeSent
  <1>4. FramesOK(w) => FramesOK(u)
    BY <1>1 DEF FramesOK
  <1>5. Cancels(w) = 0 /\ Cancels(u) = 1
    BY <1>1 DEF Cancels
  <1>6. Load(u) = Load(w) + 1
    <2>1. /\ Len(u.views) = Len(w.views) /\ Len(Pipe(u)) = Len(Pipe(w)) + 1
          /\ Len(w.views) \in Nat /\ Len(Pipe(w)) \in Nat
      BY <1>1, <1>3, PipeType
    <2>2. \A x, y \in Nat : x + (y + 1) = (x + y) + 1
      OBVIOUS
    <2> QED
      BY <2>1, <2>2, Zenon DEF Load
  <1>7. /\ Unused(Pipe(w)) => Unused(Pipe(u))
        /\ Tells(h, v, Pipe(w), 0) => Tells(h, v, Pipe(u), 1)
    <2> DEFINE p == Pipe(w)
    <2>3. p \in Seq(Input \cup Choice) /\ Pipe(u) = Append(p, f)
      BY <1>3, PipeType
    <2> HIDE DEF p
    <2>1. Tells(h, v, p, 0) => Tells(h, v, Append(p, f), 1)
      BY <1>2, <2>3, TellsSent
    <2>2. Unused(p) => Unused(Append(p, f))
      BY <1>2, <2>3, TellsSent
    <2> QED
      BY <2>1, <2>2, <2>3 DEF p
  <1>8. Turn(h, v, w) => Turn(h, v, u)
    BY <1>1, <1>5, <1>7 DEF Turn, Idle, Announced, Asking, Replied, Offers
  <1> QED
    BY <1>1, <1>4, <1>5, <1>6, <1>8 DEF u

LEMMA TurnCrashed ==
    ASSUME NEW w \in Worker, w.process = "up", NEW u \in Crash(w), NEW h, NEW v
    PROVE  /\ FramesOK(w) => FramesOK(u)
           /\ Turn(h, v, w) => Turn(h, v, u)
           /\ Load(u) <= Load(w) /\ Cancels(u) = Cancels(w)
           /\ u.process = "dead"
  <1>1. PICK n \in 0..Len(w.actions) :
            u = [w EXCEPT !.process = "dead", !.views = <<>>, !.sent = <<>>,
                          !.actions = SubSeq(w.actions, 1, n)]
    BY Zenon DEF Crash
  <1>2. /\ u \in Worker /\ u.sent = <<>> /\ u.actions = SubSeq(w.actions, 1, n)
        /\ u.views = <<>> /\ u.process = "dead" /\ u.dismissed = w.dismissed
        /\ u.screen = w.screen /\ u.sensitive = w.sensitive
        /\ u.cancelled = w.cancelled
    BY <1>1, CrashType DEF Worker
  <1> DEFINE S == Input \cup Choice
             a == w.actions
             s == w.sent
             p == Pipe(w)
             q == Pipe(u)
  <1>3. a \in Seq(S) /\ s \in Seq(S) /\ p = a \o s /\ q = SubSeq(a, 1, n) \o <<>>
    BY <1>2, WorkerFields DEF Pipe
  <1> HIDE DEF a, s, p, q
  <1>4. /\ SubSeq(a, 1, n) \in Seq(S) /\ Len(SubSeq(a, 1, n)) = n
        /\ \A i \in 1..n : SubSeq(a, 1, n)[i] = a[i]
    <2>1. Len(a) \in Nat /\ n \in 0..Len(a) /\ \A i \in 1..n : a[i] \in S
      BY <1>3 DEF a
    <2> QED
      BY <2>1, SubSeqProperties
  <1>5. q = SubSeq(a, 1, n)
    BY <1>3, <1>4, ConcatEmptySeq
  <1>6. /\ Len(p) = Len(a) + Len(s) /\ Len(a) \in Nat /\ Len(s) \in Nat
        /\ n \in 0..Len(a)
        /\ \A i \in 1..(Len(a) + Len(s)) :
              p[i] = IF i <= Len(a) THEN a[i] ELSE s[i - Len(a)]
    <2>1. n \in 0..Len(a)
      BY DEF a
    <2> QED
      BY <1>3, <2>1, ConcatProperties
  <1>7. /\ Len(q) \in Nat /\ Len(p) \in Nat /\ Len(q) <= Len(p)
        /\ \A i \in 1..Len(q) : q[i] = p[i] /\ i \in 1..Len(p)
    BY <1>4, <1>5, <1>6
  <1>8. FramesOK(w) => FramesOK(u)
    BY <1>2, <1>7 DEF FramesOK, p, q
  <1>9. Cancels(u) = Cancels(w) /\ Cancels(w) \in Nat
    BY <1>2 DEF Cancels
  <1>10. Load(u) <= Load(w)
    BY <1>2, <1>7, PipeType DEF Load, p, q
  <1>11. Turn(h, v, w) => Turn(h, v, u)
    <2>1. /\ Unused(p) => Unused(q)
          /\ Tells(h, v, p, Cancels(w)) => Unused(q) \/ Tells(h, v, q, Cancels(w))
      BY <1>7, <1>9, TellsCut
    <2> QED
      BY <1>2, <1>9, <2>1
      DEF Turn, Idle, Announced, Asking, Replied, Offers, p, q
  <1> QED
    BY <1>2, <1>8, <1>9, <1>10, <1>11

---------------------------------------------------------------------------
\* A dialog that has nothing to ask is given a view.
LEMMA TurnShown ==
    ASSUME NEW w \in Worker, CanShow(w), FramesOK(w),
           NEW view \in ShownView, Plain(view), NEW h, NEW v
    PROVE  /\ FramesOK(Show(w, view))
           /\ Idle(w) /\ ~Asks(view) => Idle(Show(w, view))
           /\ Idle(w) /\ Fits(h, v, view) => Announced(h, v, Show(w, view))
           /\ Load(Show(w, view)) <= Load(w) + 1
           /\ Show(w, view).dismissed = w.dismissed
           /\ Show(w, view).process = "up"
  <1> DEFINE u == Show(w, view)
             n == Len(w.views)
  <1>1. /\ w.views \in Seq(ShownView) /\ n \in Nat /\ Len(Pipe(w)) \in Nat
    BY PipeType, WorkerFields
  <1>0. Load(w) = n + Len(Pipe(w))
    BY DEF Load
  <1>2. CASE w.process = "none"
    <2>1. /\ u.process = "up" /\ u.views = <<view>> /\ u.screen = Blank
          /\ ~u.sensitive /\ ~u.cancelled /\ u.dismissed = FALSE
          /\ u.sent = <<>> /\ u.actions = <<>>
      BY <1>2 DEF Show, NoWorker
    <2>2. w.dismissed = FALSE
      BY <1>2, WorkerFields DEF FramesOK
    <2> HIDE DEF u
    <2>3. Len(Pipe(u)) = 0
      BY <2>1 DEF Pipe
    <2>4. Len(u.views) = 1 /\ u.views # <<>> /\ u.views[1] = view
      BY <2>1
    <2>5. Plain(u.screen)
      BY <2>1 DEF Plain, Blank, View
    <2>6. FramesOK(u)
      BY <2>1, <2>3, <2>4, <2>5 DEF FramesOK
    <2>7. Unused(Pipe(u)) /\ ~Offers(u)
      BY <2>1, <2>3 DEF Unused, Offers
    <2>8. Load(u) <= Load(w) + 1
      BY <1>0, <1>1, <2>3, <2>4 DEF Load
    <2>9. ~Asks(view) => Idle(u)
      BY <2>4, <2>7 DEF Idle
    <2>10. Fits(h, v, view) => Announced(h, v, u)
      BY <2>4, <2>7 DEF Announced
    <2> QED
      BY <2>1, <2>2, <2>6, <2>8, <2>9, <2>10 DEF u
  <1>3. CASE w.process # "none"
    <2>1. /\ u.process = "up" /\ u.views = Append(w.views, view)
          /\ u.screen = w.screen /\ u.sensitive = w.sensitive
          /\ u.cancelled = w.cancelled /\ u.dismissed = w.dismissed
          /\ Pipe(u) = Pipe(w)
      BY <1>3 DEF Show, CanShow, Worker, Pipe
    <2> HIDE DEF u
    <2>2. /\ Len(u.views) = n + 1 /\ u.views # <<>> /\ u.views[n + 1] = view
          /\ \A i \in 1..n : u.views[i] = w.views[i]
      BY <1>1, <2>1, AppendProperties
    <2> HIDE DEF n
    <2>3. \A i \in 1..(n + 1) : i = n + 1 \/ i \in 1..n
      BY <1>1
    <2>4. FramesOK(u)
      BY <2>1, <2>2, <2>3 DEF FramesOK, n
    <2>5. Load(u) <= Load(w) + 1
      BY <1>0, <1>1, <2>1, <2>2 DEF Load
    <2>6. Idle(w) /\ ~Asks(view) => Idle(u)
      BY <2>1, <2>2, <2>3 DEF Idle, Offers, n
    <2>7. Idle(w) /\ Fits(h, v, view) => Announced(h, v, u)
      BY <2>1, <2>2, <2>3 DEF Idle, Announced, Offers, n
    <2> QED
      BY <2>1, <2>4, <2>5, <2>6, <2>7 DEF u
  <1> QED
    BY <1>2, <1>3

\* A handler reads a frame.
LEMMA TurnTaken ==
    ASSUME NEW w \in Worker, w.actions # <<>>, FramesOK(w), NEW h, NEW v
    PROVE  /\ FramesOK(Take(w))
           /\ Head(w.actions).kind = "cancel" => w.dismissed
           /\ Idle(w) => ~Used(Head(w.actions))
           /\ Turn(h, v, w) /\ ~Used(Head(w.actions)) => Turn(h, v, Take(w))
           /\ Turn(h, v, w) /\ Used(Head(w.actions)) =>
                 /\ Answers(h, v, Head(w.actions))
                 /\ Idle(Take(w)) /\ Load(Take(w)) <= Cancels(Take(w))
           /\ Take(w).dismissed = w.dismissed
           /\ Take(w).process = w.process
  <1> DEFINE u == Take(w)
             p == Pipe(w)
             S == Input \cup Choice
  <1>1. /\ u.views = w.views /\ u.screen = w.screen /\ u.sensitive = w.sensitive
        /\ u.dismissed = w.dismissed /\ u.process = w.process
        /\ u.cancelled = w.cancelled
        /\ u.actions = Tail(w.actions) /\ u.sent = w.sent
    BY DEF Take, Worker
  <1>2. w.actions \in Seq(S) /\ w.sent \in Seq(S) /\ p \in Seq(S) /\ Len(p) \in Nat
    BY WorkerFields, PipeType
  <1>3. /\ p # <<>> /\ p[1] = Head(w.actions) /\ Pipe(u) = Tail(p)
    <2> HIDE DEF S
    <2>1. w.actions \in Seq(S) /\ w.sent \in Seq(S) /\ w.actions # <<>>
      BY <1>2
    <2>2. /\ w.actions \o w.sent # <<>>
          /\ (w.actions \o w.sent)[1] = Head(w.actions)
          /\ Tail(w.actions) \o w.sent = Tail(w.actions \o w.sent)
      BY <2>1, JoinTaken
    <2> QED
      BY <1>1, <2>2, Zenon DEF Pipe
  <1> HIDE DEF u, p, S
  <1>4. /\ Len(p) # 0 /\ Len(Tail(p)) = Len(p) - 1
        /\ \A i \in 1..(Len(p) - 1) : Tail(p)[i] = p[i + 1]
    BY <1>2, <1>3, HeadTailProperties
  <1>5. Cancels(u) = Cancels(w) /\ Cancels(w) \in Nat
    BY <1>1 DEF Cancels
  <1>6. /\ Unused(p) => ~Used(p[1]) /\ Unused(Tail(p))
        /\ Tells(h, v, p, Cancels(w)) /\ ~Used(p[1]) => Tells(h, v, Tail(p), Cancels(w))
        /\ Tells(h, v, p, Cancels(w)) /\ Used(p[1]) =>
              Answers(h, v, p[1]) /\ Unused(Tail(p)) /\ Len(Tail(p)) <= Cancels(w)
    BY <1>2, <1>3, <1>5, TellsTaken
  <1>7. FramesOK(u)
    <2>1. \A i \in 1..Len(Pipe(u)) : Pipe(u)[i].kind = "cancel" => u.dismissed
      BY <1>1, <1>2, <1>3, <1>4 DEF FramesOK, p
    <2> QED
      BY <1>1, <2>1 DEF FramesOK
  <1>8. p[1].kind = "cancel" => w.dismissed
    BY <1>2, <1>4 DEF FramesOK, p
  <1>9. Idle(w) => ~Used(p[1])
    BY <1>6 DEF Idle, p
  <1>10. ASSUME Turn(h, v, w), ~Used(p[1]) PROVE Turn(h, v, u)
    BY <1>1, <1>3, <1>5, <1>6, <1>10
    DEF Turn, Idle, Announced, Asking, Replied, Offers, p
  <1>11. ASSUME Turn(h, v, w), Used(p[1])
         PROVE  Answers(h, v, p[1]) /\ Idle(u) /\ Load(u) <= Cancels(u)
    <2>1. Replied(h, v, w)
      BY <1>6, <1>11 DEF Turn, Idle, Announced, Asking, p
    <2>2. /\ Answers(h, v, p[1]) /\ Unused(Pipe(u)) /\ Len(Pipe(u)) <= Cancels(u)
          /\ u.views = <<>> /\ ~Offers(u)
      BY <1>1, <1>3, <1>5, <1>6, <1>11, <2>1 DEF Replied, Offers, p
    <2>3. Len(u.views) = 0 /\ Len(Pipe(u)) \in Nat
      BY <1>2, <1>3, <1>4, <2>2
    <2>4. Idle(u)
      BY <2>2, <2>3 DEF Idle
    <2>5. Load(u) <= Cancels(u)
      BY <2>2, <2>3 DEF Load
    <2> QED
      BY <2>2, <2>4, <2>5
  <1> QED
    BY <1>1, <1>3, <1>7, <1>8, <1>9, <1>10, <1>11 DEF u

\* Nothing of a dialog that was closed is read.
LEMMA TurnClosed ==
    ASSUME NEW w \in Worker, FramesOK(w)
    PROVE  /\ FramesOK(Close(w)) /\ Idle(Close(w))
           /\ Close(w).dismissed = w.dismissed
           /\ Close(w).process # "dead"
  <1> DEFINE u == Close(w)
  <1>1. /\ u.process \in {"none", "closed"}
        /\ u.process = "none" => w.process = "none"
        /\ u.views = <<>> /\ u.screen = Blank
        /\ ~u.sensitive /\ ~u.cancelled /\ u.dismissed = w.dismissed
        /\ u.sent = <<>> /\ u.actions = <<>>
    BY DEF Close, NoWorker
  <1> HIDE DEF u
  <1>2. Len(Pipe(u)) = 0 /\ Len(u.views) = 0
    BY <1>1 DEF Pipe
  <1>3. Plain(u.screen)
    BY <1>1 DEF Plain, Blank, View
  <1>4. FramesOK(u)
    BY <1>1, <1>2, <1>3 DEF FramesOK
  <1>5. Idle(u)
    BY <1>1, <1>2 DEF Idle, Unused, Offers
  <1> QED
    BY <1>1, <1>4, <1>5 DEF u

LEMMA FramesRefreshed ==
    ASSUME NEW w \in Worker, FramesOK(w)
    PROVE  /\ FramesOK(AutoRefresh(w))
           /\ AutoRefresh(w).dismissed = w.dismissed
           /\ AutoRefresh(w).process = w.process
  <1> DEFINE u == AutoRefresh(w)
             f == Frame("refresh")
  <1>1. /\ u.views = w.views /\ u.screen = w.screen
        /\ u.dismissed = w.dismissed /\ u.process = w.process
        /\ u.cancelled = w.cancelled
        /\ u.actions = w.actions /\ u.sent = Append(w.sent, f)
    BY DEF AutoRefresh, Worker
  <1>2. f \in Input \cup Choice /\ f.kind # "cancel"
    BY PlainFrames DEF Frame
  <1> HIDE DEF u, f
  <1>3. \A i \in 1..Len(Pipe(u)) : Pipe(u)[i] = f \/
              (i \in 1..Len(Pipe(w)) /\ Pipe(u)[i] = Pipe(w)[i])
    BY <1>1, <1>2, PipeSent
  <1>4. FramesOK(u)
    BY <1>1, <1>2, <1>3 DEF FramesOK
  <1> QED
    BY <1>1, <1>4 DEF u

---------------------------------------------------------------------------
(* What a step of a handler may do to its dialog.                          *)

Picked(h) == h.picked \in {NoConn, h.selected}

\* What a step of the handler leaves alone outside of it.
Inward(r) == UNCHANGED <<used, helper>> /\ aware' \subseteq aware

\* If it reads status 1, then its helper has an excuse.
Unanswered(r) ==
    r \notin Failing /\ Unrefreshed(r) =>
       worker[r].dismissed \/ helper[r] = "gone"

LEMMA DialogCarried ==
  ASSUME NEW r \in Request, DialogOK(r), Inward(r),
         FramesOK(worker'[r]),
         worker'[r].process = "dead" => worker[r].process = "dead",
         worker'[r].dismissed = worker[r].dismissed,
         Unrefreshed(r) => TurnOK(handler'[r], r \in Verified, worker'[r]),
         Unrefreshed(r) => Picked(handler'[r]),
         \/ answer'[r] = answer[r]
         \/ answer'[r] # Status(1)
         \/ Unanswered(r)
  PROVE  DialogOK(r)'
  BY DEF DialogOK, Inward, Unrefreshed, Unanswered, Picked

\* The handler goes on, with the dialog as it is.
Onward(h, g) ==
    /\ Picked(g)
    /\ \/ g.pc = "end"
       \/ /\ h.pc \notin Awaiting \cup {"end"}
          /\ Light(g) => Light(h)
          /\ g.pc = "verify" => Light(h)
          /\ g.pc = "again" => g.value = NoSecret

LEMMA DialogStays ==
  ASSUME TypeInv, NEW r \in Request, DialogOK(r), Inward(r),
         worker' = worker, answer' = answer,
         Unrefreshed(r) => Onward(handler[r], handler'[r])
  PROVE  DialogOK(r)'
  <1> DEFINE h == handler[r]
             g == handler'[r]
             w == worker[r]
             v == r \in Verified
  <1>1. w \in Worker /\ Load(w) \in Nat /\ Cancels(w) \in {0, 1}
    BY PipeType DEF TypeInv, WorkersOK
  <1>2. ASSUME Unrefreshed(r) PROVE TurnOK(g, v, w) /\ Picked(g)
    <2>1. Onward(h, g) /\ TurnOK(h, v, w)
      BY <1>2 DEF DialogOK
    <2> HIDE DEF h, g, w, v
    <2>2. CASE g.pc = "end"
      BY <2>1, <2>2 DEF TurnOK, Onward
    <2>3. CASE g.pc # "end"
      <3>1. /\ h.pc \notin Awaiting \cup {"end"} /\ Picked(g)
            /\ Light(g) => Light(h)
            /\ g.pc = "verify" => Light(h)
            /\ g.pc = "again" => g.value = NoSecret
        BY <2>1, <2>3 DEF Onward
      <3>2. Turn(h, v, w) /\ LoadOK(h, w)
        BY <2>1, <3>1 DEF TurnOK
      <3>3. Idle(w)
        BY <3>1, <3>2, NobodysTurn
      <3>4. LoadOK(g, w)
        BY <1>1, <3>1, <3>2 DEF LoadOK
      <3> QED
        BY <3>1, <3>3, <3>4 DEF TurnOK, Turn
    <2> QED
      BY <2>2, <2>3
  <1>3. FramesOK(w) /\ worker'[r] = w /\ answer'[r] = answer[r]
    BY DEF DialogOK
  <1> QED
    BY <1>2, <1>3, DialogCarried

\* It ends with a status.
LEMMA DialogFinishes ==
  ASSUME TypeInv, NEW r \in Request, DialogOK(r), Inward(r),
         NEW code \in Nat, Finish(r, code),
         code # 1 \/ Unanswered(r)
  PROVE  DialogOK(r)'
  <1>1. worker[r] \in Worker /\ handler[r] \in Handler
    BY DEF TypeInv, WorkersOK, HandlersOK
  <1>2. worker'[r] = Close(worker[r])
    BY DEF Finish, TypeInv, WorkersOK
  <1>3. answer'[r] = Status(code)
    BY DEF Finish, TypeInv, OthersOK
  <1>4. Goto(r, "end")
    BY DEF Finish
  <1>5. /\ handler'[r].pc = "end" /\ handler'[r].selected = handler[r].selected
        /\ handler'[r].picked = handler[r].picked
    <2>1. handler'[r] = [handler[r] EXCEPT !.pc = "end"]
      BY <1>4, GoesNow DEF TypeInv
    <2> QED
      BY <1>1, <2>1 DEF Handler
  <1>6. code # 1 => answer'[r] # Status(1)
    BY <1>3 DEF Status
  <1>7. /\ FramesOK(worker'[r]) /\ worker'[r].process # "dead"
        /\ worker'[r].dismissed = worker[r].dismissed
    BY <1>1, <1>2, TurnClosed DEF DialogOK
  <1>8. TurnOK(handler'[r], r \in Verified, worker'[r])
    BY <1>5 DEF TurnOK
  <1>9. Unrefreshed(r) => Picked(handler'[r])
    BY <1>5 DEF DialogOK, Picked
  <1> QED
    BY <1>6, <1>7, <1>8, <1>9, DialogCarried

\* It takes a frame that is neither a cancel nor a report.
LEMMA DialogHeeds ==
  ASSUME TypeInv, NEW r \in Request, DialogOK(r), Inward(r),
         Heard(r), Heeds(r).kind # "cancel", Consume(r), answer' = answer,
         handler[r].pc # "end", handler'[r].pc # "again",
         Unrefreshed(r) => Picked(handler'[r])
  PROVE  DialogOK(r)'
  <1> DEFINE h == handler[r]
             g == handler'[r]
             w == worker[r]
             u == worker'[r]
             v == r \in Verified
  <1>1. w \in Worker /\ w.actions # <<>> /\ Used(Head(w.actions))
    BY DEF TypeInv, WorkersOK, Heard, Heeds, Used
  <1>2. u = Take(w) /\ FramesOK(w)
    BY DEF Consume, TypeInv, WorkersOK, DialogOK
  <1>3. FramesOK(u) /\ u.dismissed = w.dismissed /\ u.process = w.process
    BY <1>1, <1>2, TurnTaken
  <1>4. ASSUME Unrefreshed(r) PROVE TurnOK(g, v, u)
    <2>1. Turn(h, v, w)
      BY <1>4 DEF DialogOK, TurnOK
    <2> HIDE DEF h, g, w, u, v
    <2>2. Idle(u) /\ Load(u) <= Cancels(u)
      BY <1>1, <1>2, <2>1, TurnTaken
    <2>3. Cancels(u) \in Nat /\ g.pc # "again"
      BY DEF Cancels, g
    <2>4. Load(u) <= 1 + Cancels(u)
      <3>1. Load(u) \in Nat
        <4>1. u \in Worker
          BY <1>1, <1>2, TakeType
        <4> QED
          BY <4>1, PipeType
      <3> QED
        BY <2>2, <2>3, <3>1
    <2> QED
      BY <2>2, <2>3, <2>4 DEF TurnOK, Turn, LoadOK
  <1> QED
    BY <1>3, <1>4, DialogCarried

\* It shows a view; the busy view while a device is asked.
LEMMA DialogShows ==
  ASSUME TypeInv, NEW r \in Request, DialogOK(r), Inward(r),
         NEW g \in Handler, handler'[r] = g, answer' = answer,
         NEW stage \in {"wait", "choose", "input", "error", "busy"},
         Shows(r, stage),
         g.pc = IF stage = "busy" THEN "verify" ELSE stage,
         handler[r].pc \notin Awaiting \cup {"end"},
         stage = "busy" => Light(handler[r]),
         Unrefreshed(r) => Picked(g)
  PROVE  DialogOK(r)'
  <1> DEFINE h == handler[r]
             w == worker[r]
             u == worker'[r]
             v == r \in Verified
             remember == stage = "input" /\ g.cand.token # 0
             change == stage = "input" /\ r \in Verified
             devices == IF stage = "choose" THEN g.found ELSE <<>>
             view == View(stage, devices, remember, change)
  <1>1. w \in Worker /\ FramesOK(w) /\ CanShow(w)
    BY DEF TypeInv, WorkersOK, DialogOK, Shows
  <1>2. u = Show(w, view)
    BY DEF Shows, TypeInv, WorkersOK
  <1>3. view \in ShownView
    <2>1. remember \in BOOLEAN /\ change \in BOOLEAN /\ devices \in Seq(Conn)
      BY HandlerFields
    <2> HIDE DEF remember, change, devices
    <2> QED
      BY <2>1 DEF View, ShownView
  <1>4. /\ view.stage = stage /\ view.devices = devices
        /\ view.offerChange = change
    BY DEF View
  <1> HIDE DEF view, u, w
  <1>5. Plain(view)
    BY <1>4 DEF Plain
  <1>6. stage \in Awaiting => Fits(g, v, view)
    BY <1>4 DEF Fits, Awaiting
  <1>7. stage \notin Awaiting => ~Asks(view)
    BY <1>4 DEF Asks
  <1>8. /\ FramesOK(u) /\ u.dismissed = w.dismissed /\ u.process = "up"
        /\ Load(u) <= Load(w) + 1
    BY <1>1, <1>2, <1>3, <1>5, TurnShown
  <1>9. ASSUME Unrefreshed(r) PROVE TurnOK(g, v, u)
    <2>1. Turn(h, v, w) /\ LoadOK(h, w)
      BY <1>9 DEF DialogOK, TurnOK, w
    <2>2. Idle(w)
      BY <2>1, NobodysTurn
    <2>3. Turn(g, v, u)
      BY <1>1, <1>2, <1>3, <1>5, <1>6, <1>7, <2>2, TurnShown DEF Turn
    <2>4. ~Light(g) /\ g.pc # "again"
      BY DEF Light, Drained
    <2>5. g.pc = "verify" => Load(u) <= 1 + Cancels(u)
      <3> SUFFICES ASSUME g.pc = "verify" PROVE Load(u) <= 1 + Cancels(u)
        OBVIOUS
      <3>1. stage = "busy"
        OBVIOUS
      <3>2. Load(w) <= Cancels(w) /\ Cancels(u) = Cancels(w)
        BY <1>8, <2>1, <3>1 DEF LoadOK, Cancels
      <3>3. Load(w) \in Nat /\ Cancels(w) \in {0, 1}
        BY <1>1, PipeType
      <3>4. Load(u) \in Nat
        <4>1. u \in Worker
          BY <1>1, <1>2, <1>3, ShowType
        <4> QED
          BY <4>1, PipeType
      <3> QED
        BY <1>8, <3>2, <3>3, <3>4
    <2> QED
      BY <2>3, <2>4, <2>5 DEF TurnOK, LoadOK
  <1> QED
    BY <1>8, <1>9, DialogCarried DEF u, w

\* A dialog that cannot be shown is one that may fail.
LEMMA ShowFailure ==
  ASSUME NEW r \in Request, DialogOK(r), ShowFails(r)
  PROVE  Unanswered(r)
  BY DEF DialogOK, ShowFails, Unanswered

LEMMA DialogPresents ==
  ASSUME TypeInv, NEW r \in Request, DialogOK(r), Inward(r),
         NEW h \in Handler, NEW stage \in {"wait", "choose", "input", "error"},
         \/ Present(r, h, stage)
         \/ PresentError(r, h) /\ stage = "error",
         handler[r].pc \notin Awaiting \cup {"end"},
         Unrefreshed(r) => Picked(h)
  PROVE  DialogOK(r)'
  <1>1. CASE Finish(r, 2)
    BY <1>1, DialogFinishes
  <1>2. CASE ShowFails(r) /\ Finish(r, 1)
    BY <1>2, ShowFailure, DialogFinishes
  <1>3. CASE /\ Becomes(r, [h EXCEPT !.pc = stage]) /\ Shows(r, stage)
             /\ UNCHANGED answer
    <2> DEFINE g == [h EXCEPT !.pc = stage]
    <2>1. handler'[r] = g
      BY <1>3, HandlerNow DEF TypeInv
    <2>2. g \in Handler /\ g.pc = stage /\ g.picked = h.picked /\ g.selected = h.selected
      BY DEF Handler, Place
    <2> HIDE DEF g
    <2>3. Unrefreshed(r) => Picked(g)
      BY <2>2 DEF Picked
    <2> QED
      BY <1>3, <2>1, <2>2, <2>3, DialogShows
  <1> QED
    BY <1>1, <1>2, <1>3 DEF Present, PresentError

---------------------------------------------------------------------------
(* Each step of a handler keeps what is true of its dialog.                *)

LEMMA HandlerInward ==
  ASSUME NEW r \in Request, HandlerStep(r)
  PROVE  Inward(r)
  <1>0. ASSUME UNCHANGED <<aware, worldVars>> PROVE Inward(r)
    BY <1>0 DEF worldVars, Inward
  <1>1. CASE \/ Accept(r) \/ AcquireHardware(r) \/ SelectDevice(r)
             \/ CancelSelection(r) \/ Choose(r) \/ RefuseAnonymous(r) \/ AskCache(r)
    <2>1. UNCHANGED <<aware, worldVars>>
      BY <1>1, Zenon DEF Accept, AcquireHardware, SelectDevice, CancelSelection,
          Choose, RefuseAnonymous, AskCache
    <2> QED
      BY <1>0, <2>1
  <1>2. CASE \/ Prompt(r) \/ ChangeDevice(r) \/ Submit(r) \/ CancelInput(r)
             \/ Recheck(r) \/ AskAgain(r) \/ FindDevice(r)
    <2>1. UNCHANGED <<aware, worldVars>>
      BY <1>2, Zenon DEF Prompt, ChangeDevice, Submit, CancelInput, Recheck,
          AskAgain, FindDevice
    <2> QED
      BY <1>0, <2>1
  <1>3. CASE \/ AskDevice(r) \/ CancelledLate(r) \/ JudgeVerdict(r)
             \/ ReportFailure(r) \/ LeaveError(r) \/ Conclude(r) \/ SendAnswer(r)
    <2>1. UNCHANGED <<aware, worldVars>>
      BY <1>3, Zenon DEF AskDevice, CancelledLate, JudgeVerdict, ReportFailure,
          LeaveError, Conclude, SendAnswer
    <2> QED
      BY <1>0, <2>1
  <1>4. CASE \/ Acknowledged(r) \/ CommitAnswer(r) \/ SavePreference(r)
             \/ AckTimeout(r) \/ Abandon(r) \/ LoseDialog(r) \/ PassOver(r)
    <2>1. UNCHANGED <<aware, worldVars>>
      BY <1>4, Zenon DEF Acknowledged, CommitAnswer, SavePreference, AckTimeout,
          Abandon, LoseDialog, PassOver
    <2> QED
      BY <1>0, <2>1
  <1>5. CASE Return(r)
    BY <1>5 DEF Return, worldVars, Inward
  <1> QED
    BY <1>1, <1>2, <1>3, <1>4, <1>5 DEF HandlerStep

LEMMA DialogGoes ==
  ASSUME TypeInv, NEW r \in Request, DialogOK(r), Inward(r),
         NEW pc, Goto(r, pc), worker' = worker, answer' = answer,
         \/ pc = "end"
         \/ /\ handler[r].pc \notin Awaiting \cup {"end"}
            /\ pc \notin {"top", "again"}
            /\ pc \in Drained \cup {"verify"} => Light(handler[r])
  PROVE  DialogOK(r)'
  <1>1. handler'[r] = [handler[r] EXCEPT !.pc = pc] /\ handler'[r].pc = pc
    BY GoesNow DEF TypeInv
  <1>2. /\ handler'[r].picked = handler[r].picked
        /\ handler'[r].selected = handler[r].selected
    BY <1>1 DEF TypeInv, HandlersOK, Handler
  <1>3. Light(handler'[r]) => pc \in Drained \cup {"top"}
    BY <1>1 DEF Light
  <1>4. Unrefreshed(r) => Onward(handler[r], handler'[r])
    BY <1>1, <1>2, <1>3 DEF Onward, Picked, DialogOK
  <1> QED
    BY <1>4, DialogStays

\* What is heard: a cancel of the user, or the answer to the view that asks.
LEMMA FrameHeard ==
  ASSUME TypeInv, NEW r \in Request, DialogOK(r), Heard(r)
  PROVE  /\ Heeds(r).kind = "cancel" => worker[r].dismissed
         /\ /\ Unrefreshed(r) /\ handler[r].pc # "end"
            /\ Heeds(r).kind # "cancel"
            => Answers(handler[r], r \in Verified, Heeds(r))
  <1>1. /\ worker[r] \in Worker /\ worker[r].actions # <<>> /\ FramesOK(worker[r])
        /\ Heeds(r) = Head(worker[r].actions)
        /\ Heeds(r).kind # "cancel" => Used(Heeds(r))
    BY DEF TypeInv, WorkersOK, DialogOK, Heard, Heeds, Used
  <1>2. Unrefreshed(r) /\ handler[r].pc # "end" =>
           Turn(handler[r], r \in Verified, worker[r])
    BY DEF DialogOK, TurnOK
  <1> QED
    BY <1>1, <1>2, TurnTaken

LEMMA SelectionDialogs ==
  ASSUME TypeInv, NEW r \in Request, DialogOK(r), Inward(r)
  PROVE  /\ Accept(r) => DialogOK(r)'
         /\ AcquireHardware(r) => DialogOK(r)'
         /\ SelectDevice(r) => DialogOK(r)'
         /\ CancelSelection(r) => DialogOK(r)'
         /\ Choose(r) => DialogOK(r)'
         /\ RefuseAnonymous(r) => DialogOK(r)'
         /\ AskCache(r) => DialogOK(r)'
  <1> DEFINE h == handler[r]
  <1>0. HandlersOK /\ h \in Handler /\ (Unrefreshed(r) => Picked(h))
    BY DEF TypeInv, HandlersOK, DialogOK, Picked
  <1>1. ASSUME Accept(r) PROVE DialogOK(r)'
    <2> DEFINE pc == IF r \in Verified THEN "lock" ELSE "begin"
               g == [h EXCEPT !.base = version[KeyOf[r]], !.pc = pc]
    <2>1. handler'[r] = g
      BY <1>0, <1>1, HandlerNow DEF Accept
    <2>2. pc \in {"lock", "begin"}
      OBVIOUS
    <2> HIDE DEF pc
    <2>3. g.pc = pc /\ g.picked = h.picked /\ g.selected = h.selected
      BY <1>0 DEF Handler
    <2>4. h.pc = "start" /\ worker' = worker /\ answer' = answer
      BY <1>1 DEF Accept, At
    <2> HIDE DEF g
    <2>5. Unrefreshed(r) => Onward(h, g)
      BY <1>0, <2>2, <2>3, <2>4 DEF Onward, Picked, Awaiting, Light, Drained
    <2> QED
      BY <2>1, <2>4, <2>5, DialogStays
  <1>2. ASSUME AcquireHardware(r) PROVE DialogOK(r)'
    <2>1. h.pc = "lock" /\ Goto(r, "discover") /\ worker' = worker /\ answer' = answer
      BY <1>2 DEF AcquireHardware, LockFree, At
    <2> QED
      BY <2>1, DialogGoes DEF Awaiting, Light, Drained
  <1>3. ASSUME SelectDevice(r) PROVE DialogOK(r)'
    <2>1. PICK found \in Discovered :
             LET s == [Discard(r) EXCEPT !.found = found]
             IN CASE found = <<>> -> Present(r, s, "wait")
                  [] Len(found) = 1 ->
                       /\ Becomes(r, [s EXCEPT !.selected = found[1],
                                               !.pc = "selected"])
                       /\ UNCHANGED <<worker, answer>>
                  [] OTHER -> Present(r, s, "choose")
      BY <1>3, Zenon DEF SelectDevice
    <2> DEFINE s == [Discard(r) EXCEPT !.found = found]
               g == [s EXCEPT !.selected = found[1], !.pc = "selected"]
    <2>2. s \in Handler /\ s.picked = NoConn /\ s.selected = NoConn
      BY <1>0, DiscoveredType DEF Discard, Handler
    <2>3. g.pc = "selected" /\ g.picked = s.picked
      BY <2>2 DEF Handler
    <2>4. h.pc = "discover"
      BY <1>3 DEF SelectDevice, At
    <2>5. \/ Present(r, s, "wait")
          \/ Becomes(r, g) /\ UNCHANGED <<worker, answer>>
          \/ Present(r, s, "choose")
      BY <2>1
    <2> HIDE DEF s, g
    <2>6. CASE Becomes(r, g) /\ UNCHANGED <<worker, answer>>
      <3>1. handler'[r] = g
        BY <1>0, <2>6, HandlerNow
      <3>2. Onward(h, g)
        BY <2>2, <2>3, <2>4 DEF Onward, Picked, Awaiting, Light, Drained
      <3> QED
        BY <2>6, <3>1, <3>2, DialogStays
    <2>7. Picked(s) /\ h.pc \notin Awaiting \cup {"end"}
      BY <2>2, <2>4 DEF Picked, Awaiting
    <2> QED
      BY <2>2, <2>5, <2>6, <2>7, DialogPresents
  <1>4. ASSUME CancelSelection(r) PROVE DialogOK(r)'
    <2>1. Heard(r) /\ Heeds(r).kind = "cancel" /\ Finish(r, 1)
      BY <1>4 DEF CancelSelection
    <2> QED
      BY <2>1, FrameHeard, DialogFinishes DEF Unanswered
  <1>5. ASSUME Choose(r) PROVE DialogOK(r)'
    <2> DEFINE i == Heeds(r).selected
               g == [h EXCEPT !.selected = h.found[i],
                              !.picked = Heeds(r).devices[i],
                              !.pc = "selected"]
    <2>1. /\ h.pc \in {"wait", "choose"} /\ Heard(r) /\ Heeds(r).kind # "cancel"
          /\ Consume(r) /\ answer' = answer
      BY <1>5 DEF Choose, At
    <2>2. \/ Becomes(r, g) /\ h.pc = "choose" /\ Heeds(r).kind = "select"
          \/ Goto(r, "discover")
      BY <1>5 DEF Choose, At, Selects
    <2>3. /\ g.pc = "selected" /\ g.selected = h.found[i]
          /\ g.picked = Heeds(r).devices[i]
      BY <1>0 DEF Handler
    <2>4. ASSUME Unrefreshed(r), Heeds(r).kind = "select"
          PROVE  Heeds(r).devices = h.found
      BY <2>1, <2>4, FrameHeard DEF Answers
    <2>5. CASE Becomes(r, g) /\ h.pc = "choose" /\ Heeds(r).kind = "select"
      <3>1. handler'[r] = g
        BY <1>0, <2>5, HandlerNow
      <3>2. Unrefreshed(r) => Picked(g)
        BY <2>3, <2>4, <2>5 DEF Picked
      <3> HIDE DEF g
      <3> QED
        BY <2>1, <2>3, <3>1, <3>2, DialogHeeds
    <2>6. CASE Goto(r, "discover")
      <3>1. handler'[r] = [h EXCEPT !.pc = "discover"]
        BY <1>0, <2>6, GoesNow
      <3>2. /\ handler'[r].pc = "discover" /\ handler'[r].picked = h.picked
            /\ handler'[r].selected = h.selected
        BY <1>0, <3>1 DEF Handler
      <3> QED
        BY <1>0, <2>1, <3>2, DialogHeeds DEF Picked
    <2> QED
      BY <2>2, <2>5, <2>6
  <1>6. ASSUME RefuseAnonymous(r) PROVE DialogOK(r)'
    <2>1. h.pc = "selected" /\ PresentError(r, h)
      BY <1>6 DEF RefuseAnonymous, At
    <2> QED
      BY <1>0, <2>1, DialogPresents DEF Awaiting
  <1>7. ASSUME AskCache(r) PROVE DialogOK(r)'
    <2>1. PICK b : Becomes(r, [h EXCEPT !.cand = b.lookup,
                                        !.value = b.lookup.secret, !.pc = "top"])
      BY <1>7, Zenon DEF AskCache
    <2> DEFINE c == b.lookup
               x == b.lookup.secret
    <2> DEFINE g == [h EXCEPT !.cand = c, !.value = x, !.pc = "top"]
    <2>2. handler'[r] = g
      BY <1>0, <2>1, HandlerNow
    <2>3. g.pc = "top" /\ g.picked = h.picked /\ g.selected = h.selected
      BY <1>0 DEF Handler
    <2>4. h.pc \in {"begin", "selected"} /\ worker' = worker /\ answer' = answer
      BY <1>7 DEF AskCache, At
    <2> HIDE DEF g
    <2>5. Unrefreshed(r) => Onward(h, g)
      BY <1>0, <2>3, <2>4 DEF Onward, Picked, Awaiting, Light, Drained
    <2> QED
      BY <2>2, <2>4, <2>5, DialogStays
  <1> QED
    BY <1>1, <1>2, <1>3, <1>4, <1>5, <1>6, <1>7


LEMMA LoopDialogs ==
  ASSUME TypeInv, NEW r \in Request, DialogOK(r), Inward(r)
  PROVE  /\ Prompt(r) => DialogOK(r)'
         /\ ChangeDevice(r) => DialogOK(r)'
         /\ Submit(r) => DialogOK(r)'
         /\ CancelInput(r) => DialogOK(r)'
         /\ Recheck(r) => DialogOK(r)'
         /\ AskAgain(r) => DialogOK(r)'
  <1> DEFINE h == handler[r]
  <1>0. HandlersOK /\ h \in Handler /\ (Unrefreshed(r) => Picked(h))
    BY DEF TypeInv, HandlersOK, DialogOK, Picked
  <1>1. ASSUME Prompt(r) PROVE DialogOK(r)'
    <2>1. /\ h.pc = "top"
          /\ \/ Present(r, h, "input")
             \/ /\ h.value # NoSecret /\ Becomes(r, Examine(r, h))
                /\ worker' = worker /\ answer' = answer
      BY <1>1 DEF Prompt, At
    <2>2. CASE Present(r, h, "input")
      BY <1>0, <2>1, <2>2, DialogPresents DEF Awaiting
    <2>3. CASE /\ h.value # NoSecret /\ Becomes(r, Examine(r, h))
               /\ worker' = worker /\ answer' = answer
      <3> DEFINE pc == IF r \notin Verified THEN "final"
                       ELSE IF HasCandidate(h) THEN "check" ELSE "enumerate"
                 g == [h EXCEPT !.pc = pc]
      <3>1. handler'[r] = g
        BY <1>0, <2>3, HandlerNow DEF Examine
      <3>2. pc \in {"final", "check", "enumerate"}
        OBVIOUS
      <3> HIDE DEF pc
      <3>3. g.pc = pc /\ g.picked = h.picked /\ g.selected = h.selected
        BY <1>0 DEF Handler
      <3> HIDE DEF g
      <3>4. Unrefreshed(r) => Onward(h, g)
        BY <1>0, <2>1, <2>3, <3>2, <3>3 DEF Onward, Picked, Awaiting, Light
      <3> QED
        BY <2>3, <3>1, <3>4, DialogStays
    <2> QED
      BY <2>1, <2>2, <2>3
  <1>2. ASSUME ChangeDevice(r) PROVE DialogOK(r)'
    <2>1. /\ h.pc = "input" /\ Heard(r) /\ Heeds(r).kind # "cancel"
          /\ Consume(r) /\ answer' = answer /\ Goto(r, "discover")
      BY <1>2 DEF ChangeDevice, At
    <2>2. handler'[r] = [h EXCEPT !.pc = "discover"]
      BY <1>0, <2>1, GoesNow
    <2>3. /\ handler'[r].pc = "discover" /\ handler'[r].picked = h.picked
          /\ handler'[r].selected = h.selected
      BY <1>0, <2>2 DEF Handler
    <2> QED
      BY <1>0, <2>1, <2>3, DialogHeeds DEF Picked
  <1>3. ASSUME Submit(r) PROVE DialogOK(r)'
    <2> DEFINE s == [h EXCEPT !.value = Heeds(r).value,
                              !.remember = Heeds(r).remember]
               pc == IF r \notin Verified THEN "final"
                     ELSE IF HasCandidate(s) THEN "check" ELSE "enumerate"
               g == [s EXCEPT !.pc = pc]
    <2>1. /\ h.pc = "input" /\ Heard(r) /\ Heeds(r).kind # "cancel"
          /\ Consume(r) /\ answer' = answer
      BY <1>3 DEF Submit, At
    <2>2. Becomes(r, g)
      BY <1>3 DEF Submit, Examine
    <2>3. pc \in {"final", "check", "enumerate"}
      OBVIOUS
    <2> HIDE DEF pc
    <2>4. g.pc = pc /\ g.picked = h.picked /\ g.selected = h.selected
      BY <1>0 DEF Handler
    <2> HIDE DEF g
    <2>5. handler'[r] = g
      BY <1>0, <2>2, HandlerNow
    <2> QED
      BY <1>0, <2>1, <2>3, <2>4, <2>5, DialogHeeds DEF Picked
  <1>4. ASSUME CancelInput(r) PROVE DialogOK(r)'
    <2>1. /\ h.pc = "input" /\ Heard(r) /\ Heeds(r).kind # "submit"
          /\ ~(r \in Verified /\ Heeds(r).kind = "change") /\ Finish(r, 1)
      BY <1>4 DEF CancelInput, At
    <2>2. Unrefreshed(r) => worker[r].dismissed
      <3> SUFFICES ASSUME Unrefreshed(r), Heeds(r).kind # "cancel" PROVE FALSE
        BY <2>1, FrameHeard
      <3>1. Answers(h, r \in Verified, Heeds(r))
        BY <2>1, FrameHeard
      <3> QED
        BY <2>1, <3>1 DEF Answers
    <2> QED
      BY <2>1, <2>2, DialogFinishes DEF Unanswered
  <1>5. ASSUME Recheck(r) PROVE DialogOK(r)'
    <2> DEFINE to == IF h.pc = "check" THEN "enumerate" ELSE "final"
               on == [h EXCEPT !.pc = to]
               back == [h EXCEPT !.value = NoSecret, !.verdict = "none",
                                 !.pc = "again"]
    <2>1. h.pc \in {"check", "confirm"} /\ worker' = worker /\ answer' = answer
      BY <1>5 DEF Recheck, At
    <2>2. Becomes(r, on) \/ Becomes(r, back)
      BY <1>5 DEF Recheck
    <2>3. /\ to = "final" \/ (to = "enumerate" /\ h.pc = "check")
          /\ on.pc = to /\ on.picked = h.picked /\ on.selected = h.selected
      BY <1>0 DEF Handler
    <2>4. /\ back.pc = "again" /\ back.value = NoSecret
          /\ back.picked = h.picked /\ back.selected = h.selected
      BY <1>0 DEF Handler
    <2> HIDE DEF to, on, back
    <2>5. handler'[r] = on \/ handler'[r] = back
      BY <1>0, <2>2, HandlerNow
    <2>6. Unrefreshed(r) => Onward(h, on) /\ Onward(h, back)
      BY <1>0, <2>1, <2>3, <2>4 DEF Onward, Picked, Awaiting, Light, Drained
    <2> QED
      BY <2>1, <2>5, <2>6, DialogStays
  <1>6. ASSUME AskAgain(r) PROVE DialogOK(r)'
    <2>1. PICK b : Becomes(r, [h EXCEPT !.cand = b.lookup,
                                        !.pc = IF h.verdict = "blocked"
                                               THEN "failed" ELSE "top"])
      BY <1>6, Zenon DEF AskAgain
    <2> DEFINE to == IF h.verdict = "blocked" THEN "failed" ELSE "top"
               c == b.lookup
               g == [h EXCEPT !.cand = c, !.pc = to]
    <2>2. h.pc = "again" /\ worker' = worker /\ answer' = answer
      BY <1>6 DEF AskAgain, At
    <2>3. handler'[r] = g
      BY <1>0, <2>1, HandlerNow
    <2>4. to \in {"failed", "top"}
      OBVIOUS
    <2> HIDE DEF to, c
    <2>5. /\ g.pc = to /\ g.value = h.value
          /\ g.picked = h.picked /\ g.selected = h.selected
      BY <1>0 DEF Handler
    <2> HIDE DEF g
    <2>6. Unrefreshed(r) => h.value = NoSecret
      BY <2>2 DEF DialogOK, TurnOK, LoadOK
    <2>7. Unrefreshed(r) => Onward(h, g)
      BY <1>0, <2>2, <2>4, <2>5, <2>6 DEF Onward, Picked, Awaiting, Light, Drained
    <2> QED
      BY <2>2, <2>3, <2>7, DialogStays
  <1> QED
    BY <1>1, <1>2, <1>3, <1>4, <1>5, <1>6

LEMMA DeviceDialogs ==
  ASSUME TypeInv, NEW r \in Request, DialogOK(r), Inward(r)
  PROVE  /\ FindDevice(r) => DialogOK(r)'
         /\ AskDevice(r) => DialogOK(r)'
         /\ CancelledLate(r) => DialogOK(r)'
         /\ JudgeVerdict(r) => DialogOK(r)'
         /\ ReportFailure(r) => DialogOK(r)'
         /\ LeaveError(r) => DialogOK(r)'
  <1> DEFINE h == handler[r]
  <1>0. HandlersOK /\ h \in Handler /\ (Unrefreshed(r) => Picked(h))
    BY DEF TypeInv, HandlersOK, DialogOK, Picked
  <1>1. ASSUME FindDevice(r) PROVE DialogOK(r)'
    <2> DEFINE e == [h EXCEPT !.value = NoSecret]
    <2>1. /\ h.pc = "enumerate"
          /\ \/ Goto(r, "verify") /\ worker' = worker /\ answer' = answer
             \/ Goto(r, "verify") /\ Shows(r, "busy") /\ answer' = answer
             \/ Goto(r, "end") /\ worker' = worker /\ answer' = answer
             \/ PresentError(r, e)
      BY <1>1 DEF FindDevice, At
    <2>2. e \in Handler /\ e.picked = h.picked /\ e.selected = h.selected
      BY <1>0 DEF Handler
    <2> HIDE DEF e
    <2>3. h.pc \notin Awaiting \cup {"end"} /\ Light(h)
      BY <2>1 DEF Awaiting, Light, Drained
    <2>4. CASE Goto(r, "verify") /\ worker' = worker /\ answer' = answer
      BY <2>3, <2>4, DialogGoes
    <2>5. CASE Goto(r, "end") /\ worker' = worker /\ answer' = answer
      BY <2>5, DialogGoes
    <2>6. CASE PresentError(r, e)
      BY <1>0, <2>2, <2>3, <2>6, DialogPresents DEF Picked
    <2>7. CASE Goto(r, "verify") /\ Shows(r, "busy") /\ answer' = answer
      <3> DEFINE g == [h EXCEPT !.pc = "verify"]
      <3>1. handler'[r] = g
        BY <1>0, <2>7, GoesNow
      <3>2. /\ g \in Handler /\ g.pc = "verify"
            /\ g.picked = h.picked /\ g.selected = h.selected
        BY <1>0 DEF Handler, Place
      <3> HIDE DEF g
      <3>3. Unrefreshed(r) => Picked(g)
        BY <1>0, <3>2 DEF Picked
      <3> QED
        BY <2>3, <2>7, <3>1, <3>2, <3>3, DialogShows
    <2> QED
      BY <2>1, <2>4, <2>5, <2>6, <2>7
  <1>2. ASSUME AskDevice(r) PROVE DialogOK(r)'
    <2>1. PICK verdict : Becomes(r, [h EXCEPT !.verdict = verdict, !.pc = "verified"])
      BY <1>2, Zenon DEF AskDevice
    <2> DEFINE g == [h EXCEPT !.verdict = verdict, !.pc = "verified"]
    <2>2. h.pc = "verify" /\ worker' = worker /\ answer' = answer
      BY <1>2 DEF AskDevice, At
    <2>3. handler'[r] = g
      BY <1>0, <2>1, HandlerNow
    <2>4. g.pc = "verified" /\ g.picked = h.picked /\ g.selected = h.selected
      BY <1>0 DEF Handler
    <2> HIDE DEF g
    <2>5. Unrefreshed(r) => Onward(h, g)
      BY <1>0, <2>2, <2>4 DEF Onward, Picked, Awaiting, Light, Drained
    <2> QED
      BY <2>2, <2>3, <2>5, DialogStays
  <1>3. ASSUME CancelledLate(r) PROVE DialogOK(r)'
    <2>1. worker[r].cancelled /\ Finish(r, 1)
      BY <1>3 DEF CancelledLate
    <2>2. worker[r].dismissed
      BY <2>1 DEF DialogOK, FramesOK
    <2> QED
      BY <2>1, <2>2, DialogFinishes DEF Unanswered
  <1>4. ASSUME JudgeVerdict(r) PROVE DialogOK(r)'
    <2> DEFINE cleared == [h EXCEPT !.value = NoSecret]
    <2>1. h.pc = "verified" /\ worker' = worker /\ answer' = answer
      BY <1>4 DEF JudgeVerdict, At
    <2>2. \/ \E to \in {"confirm", "final"} : Goto(r, to)
          \/ \E to \in {"again", "failed", "top"} : Becomes(r, [cleared EXCEPT !.pc = to])
      BY <1>4 DEF JudgeVerdict, DiscardRefused
    <2>3. ASSUME NEW to \in {"confirm", "final"}, Goto(r, to) PROVE DialogOK(r)'
      BY <2>1, <2>3, DialogGoes DEF Awaiting, Drained
    <2>4. ASSUME NEW to \in {"again", "failed", "top"},
                 Becomes(r, [cleared EXCEPT !.pc = to])
          PROVE  DialogOK(r)'
      <3> DEFINE g == [cleared EXCEPT !.pc = to]
      <3>1. handler'[r] = g
        BY <1>0, <2>4, HandlerNow
      <3>2. /\ g.pc = to /\ g.value = NoSecret
            /\ g.picked = h.picked /\ g.selected = h.selected
        BY <1>0 DEF Handler
      <3> HIDE DEF g
      <3>3. Unrefreshed(r) => Onward(h, g)
        BY <1>0, <2>1, <3>2 DEF Onward, Picked, Awaiting, Light, Drained
      <3> QED
        BY <2>1, <3>1, <3>3, DialogStays
    <2> QED
      BY <2>2, <2>3, <2>4
  <1>5. ASSUME ReportFailure(r) PROVE DialogOK(r)'
    <2>1. h.pc = "failed" /\ Present(r, h, "error")
      BY <1>5 DEF ReportFailure, At
    <2> QED
      BY <1>0, <2>1, DialogPresents DEF Awaiting
  <1>6. ASSUME LeaveError(r) PROVE DialogOK(r)'
    <2>1. /\ h.pc = "error" /\ Finish(r, 1)
          /\ Heard(r) \/ Disconnected(worker[r]) \/ r \in aware
      BY <1>6 DEF LeaveError, At
    <2>2. CASE r \in aware
      BY <2>1, <2>2, DialogFinishes DEF DialogOK, Unanswered
    <2>3. CASE Disconnected(worker[r])
      BY <2>1, <2>3, DialogFinishes DEF DialogOK, Disconnected, Unanswered
    <2>4. CASE Heard(r)
      <3>1. Unrefreshed(r) => worker[r].dismissed
        <4> SUFFICES ASSUME Unrefreshed(r), Heeds(r).kind # "cancel" PROVE FALSE
          BY <2>4, FrameHeard
        <4>1. Answers(h, r \in Verified, Heeds(r))
          BY <2>1, <2>4, FrameHeard
        <4> QED
          BY <2>1, <4>1 DEF Answers
      <3> QED
        BY <2>1, <3>1, DialogFinishes DEF Unanswered
    <2> QED
      BY <2>1, <2>2, <2>3, <2>4
  <1> QED
    BY <1>1, <1>2, <1>3, <1>4, <1>5, <1>6


LEMMA LateDialogs ==
  ASSUME TypeInv, NEW r \in Request, DialogOK(r), Inward(r)
  PROVE  /\ Conclude(r) => DialogOK(r)'
         /\ SendAnswer(r) => DialogOK(r)'
         /\ Acknowledged(r) => DialogOK(r)'
         /\ CommitAnswer(r) => DialogOK(r)'
         /\ SavePreference(r) \/ AckTimeout(r) \/ Abandon(r) \/ LoseDialog(r)
               => DialogOK(r)'
         /\ Return(r) => DialogOK(r)'
         /\ PassOver(r) => DialogOK(r)'
  <1> DEFINE h == handler[r]
             w == worker[r]
             v == r \in Verified
  <1>0. /\ HandlersOK /\ h \in Handler /\ (Unrefreshed(r) => Picked(h))
        /\ w \in Worker /\ FramesOK(w)
    BY DEF TypeInv, HandlersOK, WorkersOK, DialogOK, Picked
  <1>1. ASSUME Conclude(r) PROVE DialogOK(r)'
    <2>1. h.pc = "final" /\ Goto(r, "send") /\ worker' = worker /\ answer' = answer
      BY <1>1 DEF Conclude, At
    <2> QED
      BY <2>1, DialogGoes DEF Awaiting, Drained
  <1>2. ASSUME SendAnswer(r) PROVE DialogOK(r)'
    <2>1. /\ h.pc = "send" /\ worker'[r] = Close(w)
          /\ \/ answer' = [answer EXCEPT ![r] = Answered(h.value)] /\ Goto(r, "sent")
             \/ answer' = answer /\ Goto(r, "end")
      BY <1>2 DEF SendAnswer, At, TypeInv, WorkersOK
    <2>2. /\ FramesOK(worker'[r]) /\ Idle(worker'[r])
          /\ worker'[r].dismissed = w.dismissed /\ worker'[r].process # "dead"
      BY <1>0, <2>1, TurnClosed
    <2>3. PICK to \in {"sent", "end"} : Goto(r, to)
      BY <2>1
    <2>4. handler'[r] = [h EXCEPT !.pc = to]
      BY <1>0, <2>3, GoesNow
    <2>5. /\ handler'[r].pc = to /\ handler'[r].picked = h.picked
          /\ handler'[r].selected = h.selected
      BY <1>0, <2>4 DEF Handler
    <2>6. answer'[r] = answer[r] \/ answer'[r] # Status(1)
      BY <2>1 DEF TypeInv, OthersOK, Answered, Status
    <2>7. TurnOK(handler'[r], v, worker'[r])
      BY <2>2, <2>5 DEF TurnOK, Turn, LoadOK, Light, Drained
    <2>8. Unrefreshed(r) => Picked(handler'[r])
      BY <1>0, <2>5 DEF Picked
    <2> QED
      BY <2>2, <2>6, <2>7, <2>8, DialogCarried
  <1>3. ASSUME Acknowledged(r) PROVE DialogOK(r)'
    <2> DEFINE keep == h.cand.token # 0 /\ h.remember /\ h.value # NoSecret
                          /\ version[KeyOf[r]] = h.base
               to == IF keep THEN "commit" ELSE "prefs"
    <2>1. h.pc = "sent" /\ Goto(r, to) /\ worker' = worker /\ answer' = answer
      BY <1>3 DEF Acknowledged, Delivered, At
    <2>2. to \in {"commit", "prefs"}
      OBVIOUS
    <2> HIDE DEF to
    <2> QED
      BY <2>1, <2>2, DialogGoes DEF Awaiting, Drained
  <1>4. ASSUME CommitAnswer(r) PROVE DialogOK(r)'
    <2>1. PICK b : Becomes(r, [h EXCEPT !.stored = b, !.pc = "prefs"])
      BY <1>4, Zenon DEF CommitAnswer
    <2> DEFINE g == [h EXCEPT !.stored = b, !.pc = "prefs"]
    <2>2. h.pc = "commit" /\ worker' = worker /\ answer' = answer
      BY <1>4 DEF CommitAnswer, At
    <2>3. handler'[r] = g
      BY <1>0, <2>1, HandlerNow
    <2>4. g.pc = "prefs" /\ g.picked = h.picked /\ g.selected = h.selected
      BY <1>0 DEF Handler
    <2> HIDE DEF g
    <2>5. Unrefreshed(r) => Onward(h, g)
      BY <1>0, <2>2, <2>4 DEF Onward, Picked, Awaiting, Light, Drained
    <2> QED
      BY <2>2, <2>3, <2>5, DialogStays
  <1>5. ASSUME SavePreference(r) \/ AckTimeout(r) \/ Abandon(r) \/ LoseDialog(r)
        PROVE  DialogOK(r)'
    <2>1. Goto(r, "end") /\ worker' = worker /\ answer' = answer
      BY <1>5 DEF SavePreference, AckTimeout, Abandon, LoseDialog
    <2> QED
      BY <2>1, DialogGoes
  <1>6. ASSUME Return(r) PROVE DialogOK(r)'
    <2> DEFINE o == [Fresh EXCEPT !.pc = "over", !.base = h.base,
                                  !.remember = h.remember]
    <2>1. worker'[r] = Close(w) /\ answer' = answer /\ Becomes(r, o)
      BY <1>6 DEF Return, TypeInv, WorkersOK
    <2>2. o.pc = "over" /\ o.picked = NoConn
      BY DEF Fresh
    <2> HIDE DEF o
    <2>3. handler'[r] = o
      BY <1>0, <2>1, HandlerNow
    <2>4. /\ FramesOK(worker'[r]) /\ Idle(worker'[r])
          /\ worker'[r].dismissed = w.dismissed /\ worker'[r].process # "dead"
      BY <1>0, <2>1, TurnClosed
    <2>5. TurnOK(handler'[r], v, worker'[r])
      BY <2>2, <2>3, <2>4 DEF TurnOK, Turn, LoadOK, Light, Drained
    <2> QED
      BY <2>1, <2>2, <2>3, <2>4, <2>5, DialogCarried DEF Picked
  <1>7. ASSUME PassOver(r) PROVE DialogOK(r)'
    <2>1. /\ h.pc \in {"wait", "choose", "input", "error"}
          /\ w.actions # <<>> /\ ~Used(Head(w.actions))
          /\ worker'[r] = Take(w) /\ handler' = handler /\ answer' = answer
      BY <1>7 DEF PassOver, Consume, Heard, Used, TypeInv, WorkersOK
    <2>2. /\ FramesOK(worker'[r]) /\ worker'[r].dismissed = w.dismissed
          /\ worker'[r].process = w.process
      BY <1>0, <2>1, TurnTaken
    <2>3. ~Light(h) /\ h.pc \notin {"verify", "again", "end"}
      BY <2>1 DEF Light, Drained
    <2>4. ASSUME Unrefreshed(r) PROVE TurnOK(handler'[r], v, worker'[r])
      <3>1. Turn(h, v, w)
        BY <2>3, <2>4 DEF DialogOK, TurnOK
      <3>2. Turn(h, v, worker'[r])
        BY <1>0, <2>1, <3>1, TurnTaken
      <3> QED
        BY <2>1, <2>3, <3>2 DEF TurnOK, LoadOK
    <2> QED
      BY <1>0, <2>1, <2>2, <2>4, DialogCarried
  <1> QED
    BY <1>1, <1>2, <1>3, <1>4, <1>5, <1>6, <1>7

LEMMA OwnDialog ==
  ASSUME TypeInv, NEW r \in Request, DialogOK(r), HandlerStep(r)
  PROVE  DialogOK(r)'
  <1>0. Inward(r)
    BY HandlerInward
  <1>1. CASE \/ Accept(r) \/ AcquireHardware(r) \/ SelectDevice(r)
             \/ CancelSelection(r) \/ Choose(r) \/ RefuseAnonymous(r) \/ AskCache(r)
    BY <1>0, <1>1, SelectionDialogs
  <1>2. CASE \/ Prompt(r) \/ ChangeDevice(r) \/ Submit(r) \/ CancelInput(r)
             \/ Recheck(r) \/ AskAgain(r)
    BY <1>0, <1>2, LoopDialogs
  <1>3. CASE \/ FindDevice(r) \/ AskDevice(r) \/ CancelledLate(r) \/ JudgeVerdict(r)
             \/ ReportFailure(r) \/ LeaveError(r)
    BY <1>0, <1>3, DeviceDialogs
  <1>4. CASE \/ Conclude(r) \/ SendAnswer(r) \/ Acknowledged(r) \/ CommitAnswer(r)
             \/ SavePreference(r) \/ AckTimeout(r) \/ Abandon(r) \/ LoseDialog(r)
             \/ Return(r) \/ PassOver(r)
    BY <1>0, <1>4, LateDialogs
  <1> QED
    BY <1>1, <1>2, <1>3, <1>4 DEF HandlerStep

\* The dialogs of the other requests.
LEMMA DialogsWait ==
  ASSUME NEW r \in Request, NEW q \in Request, q # r, HandlerStep(r)
  PROVE  worker'[q] = worker[q] \/ DOMAIN worker # Request
  <1> SUFFICES ASSUME DOMAIN worker = Request PROVE worker'[q] = worker[q]
    OBVIOUS
  <1>1. ASSUME NEW u, worker' = [worker EXCEPT ![r] = u]
        PROVE  worker'[q] = worker[q]
    BY <1>1
  <1>2. ASSUME NEW code, Finish(r, code) PROVE worker'[q] = worker[q]
    BY <1>1, <1>2, Zenon DEF Finish
  <1>3. ASSUME NEW stage, Shows(r, stage) PROVE worker'[q] = worker[q]
    BY <1>1, <1>3, Zenon DEF Shows
  <1>4. CASE \/ Accept(r) \/ AcquireHardware(r) \/ AskCache(r) \/ Recheck(r)
             \/ AskAgain(r) \/ AskDevice(r) \/ JudgeVerdict(r) \/ Conclude(r)
             \/ Acknowledged(r) \/ CommitAnswer(r) \/ SavePreference(r)
             \/ AckTimeout(r) \/ Abandon(r) \/ LoseDialog(r)
    <2>1. worker' = worker
      BY <1>4, Zenon
      DEF Accept, AcquireHardware, AskCache, Recheck, AskAgain, AskDevice,
          JudgeVerdict, Conclude, Acknowledged, CommitAnswer, SavePreference,
          AckTimeout, Abandon, LoseDialog
    <2> QED
      BY <2>1
  <1>5. CASE CancelSelection(r) \/ CancelInput(r) \/ CancelledLate(r) \/ LeaveError(r)
    BY <1>2, <1>5, Zenon DEF CancelSelection, CancelInput, CancelledLate, LeaveError
  <1>6. CASE Choose(r) \/ ChangeDevice(r) \/ Submit(r) \/ PassOver(r)
    <2>1. Consume(r)
      BY <1>6, Zenon DEF Choose, ChangeDevice, Submit, PassOver
    <2> QED
      BY <1>1, <2>1, Zenon DEF Consume
  <1>7. CASE SelectDevice(r) \/ Prompt(r) \/ ReportFailure(r)
    <2>1. ASSUME NEW h, NEW stage, Present(r, h, stage)
          PROVE  worker'[q] = worker[q]
      BY <1>2, <1>3, <2>1, Zenon DEF Present
    <2>2. CASE SelectDevice(r)
      <3>1. PICK found \in Discovered :
               LET s == [Discard(r) EXCEPT !.found = found]
               IN CASE found = <<>> -> Present(r, s, "wait")
                    [] Len(found) = 1 ->
                         /\ Becomes(r, [s EXCEPT !.selected = found[1],
                                                 !.pc = "selected"])
                         /\ UNCHANGED <<worker, answer>>
                    [] OTHER -> Present(r, s, "choose")
        BY <2>2, Zenon DEF SelectDevice
      <3> DEFINE s == [Discard(r) EXCEPT !.found = found]
      <3>2. Present(r, s, "wait") \/ worker' = worker \/ Present(r, s, "choose")
        BY <3>1
      <3> QED
        BY <2>1, <3>2
    <2>3. CASE Prompt(r) \/ ReportFailure(r)
      <3>1. \/ worker' = worker \/ Present(r, handler[r], "input")
            \/ Present(r, handler[r], "error")
        BY <2>3, Zenon DEF Prompt, ReportFailure
      <3> QED
        BY <2>1, <3>1
    <2> QED
      BY <1>7, <2>2, <2>3
  <1>8. CASE RefuseAnonymous(r) \/ FindDevice(r)
    <2>1. worker' = worker \/ Shows(r, "busy") \/ \E h : PresentError(r, h)
      BY <1>8 DEF RefuseAnonymous, FindDevice
    <2> QED
      BY <1>2, <1>3, <2>1 DEF PresentError
  <1>9. CASE SendAnswer(r) \/ Return(r)
    BY <1>1, <1>9, Zenon DEF SendAnswer, Return
  <1> QED
    BY <1>4, <1>5, <1>6, <1>7, <1>8, <1>9 DEF HandlerStep

\* What concerns a request's dialog does not change with the other requests.
LEMMA DialogWaits ==
  ASSUME NEW q \in Request, DialogOK(q),
         worker'[q] = worker[q], handler'[q] = handler[q],
         answer'[q] = answer[q], helper'[q] = helper[q],
         used'.refreshes[q] = used.refreshes[q],
         q \in aware' => q \in aware \/ helper[q] = "gone"
  PROVE  DialogOK(q)'
  BY DEF DialogOK, Unrefreshed

LEMMA OtherDialog ==
  ASSUME TypeInv, NEW r \in Request, NEW q \in Request, q # r, DialogOK(q),
         HandlerStep(r)
  PROVE  DialogOK(q)'
  <1>1. Others(r) /\ Inward(r)
    BY OthersWait, HandlerInward
  <1>2. worker'[q] = worker[q]
    BY DialogsWait DEF TypeInv, WorkersOK
  <1> QED
    BY <1>1, <1>2, DialogWaits DEF Others, Inward

---------------------------------------------------------------------------
(* The steps of the dialog, of its reader and of the helper.               *)

LEMMA FramesMove ==
  ASSUME TypeInv, NEW r \in Request, DialogOK(r),
         UNCHANGED <<handler, answer, helper, used>>,
         aware' = aware, NEW u, worker'[r] = u,
         FramesOK(u), u.process = worker[r].process,
         u.dismissed = worker[r].dismissed, Load(u) = Load(worker[r]),
         \A h, v : Turn(h, v, worker[r]) => Turn(h, v, u)
  PROVE  DialogOK(r)'
  <1>1. ASSUME Unrefreshed(r)
        PROVE  TurnOK(handler[r], r \in Verified, u)
    <2>1. TurnOK(handler[r], r \in Verified, worker[r])
      BY <1>1 DEF DialogOK
    <2> QED
      BY <2>1 DEF TurnOK, LoadOK, Cancels
  <1> QED
    BY <1>1 DEF DialogOK, Unrefreshed

LEMMA DialogMoves ==
  ASSUME TypeInv, NEW r \in Request, DialogOK(r), UsedOK
  PROVE  /\ ReadFrame(r) => DialogOK(r)'
         /\ RenderView(r) => DialogOK(r)'
         /\ PressControl(r) => DialogOK(r)'
         /\ DismissDialog(r) => DialogOK(r)'
         /\ TimerRefreshes(r) => DialogOK(r)'
         /\ DialogDies(r) => DialogOK(r)'
  <1> DEFINE h == handler[r]
             w == worker[r]
             u == worker'[r]
             v == r \in Verified
  <1>0. /\ w \in Worker /\ FramesOK(w) /\ Load(w) \in Nat /\ Cancels(w) \in {0, 1}
        /\ DOMAIN worker = Request
    BY PipeType DEF TypeInv, WorkersOK, DialogOK
  <1>1. ASSUME ReadFrame(r) PROVE DialogOK(r)'
    <2>1. /\ w.sent # <<>> /\ u = Read(w)
          /\ UNCHANGED <<handler, answer, helper, used, aware>>
      BY <1>0, <1>1 DEF ReadFrame, worldVars
    <2>2. u.process = w.process /\ u.dismissed = w.dismissed
      BY <1>0, <2>1 DEF Read, Worker
    <2> HIDE DEF u, w
    <2>3. FramesOK(u) /\ Load(u) = Load(w) /\ \A g, x : Turn(g, x, w) => Turn(g, x, u)
      BY <1>0, <2>1, TurnRead
    <2> QED
      BY <2>1, <2>2, <2>3, FramesMove DEF u, w
  <1>2. ASSUME RenderView(r) PROVE DialogOK(r)'
    <2>1. /\ w.views # <<>> /\ u = Render(w)
          /\ UNCHANGED <<handler, answer, helper, used, aware>>
      BY <1>0, <1>2 DEF RenderView, Dialog
    <2>2. u.process = w.process /\ u.dismissed = w.dismissed
      BY <1>0, <2>1 DEF Render, Worker
    <2> HIDE DEF u, w
    <2>3. FramesOK(u) /\ Load(u) = Load(w) /\ \A g, x : Turn(g, x, w) => Turn(g, x, u)
      BY <1>0, <2>1, TurnRendered
    <2> QED
      BY <2>1, <2>2, <2>3, FramesMove DEF u, w
  <1>3. ASSUME PressControl(r) PROVE DialogOK(r)'
    <2>1. PICK f \in Controls(w.screen) : u = Press(w, f)
      BY <1>0, <1>3 DEF PressControl, Dialog
    <2>2. w.sensitive /\ UNCHANGED <<handler, answer, helper, aware>>
      BY <1>3, Zenon DEF PressControl, Dialog
    <2>6. used'.refreshes = used.refreshes
      BY <1>3 DEF PressControl, UsedOK
    <2>3. u.process = w.process /\ u.dismissed = w.dismissed
      BY <1>0, <2>1 DEF Press, Worker
    <2>4. FramesOK(u)
      BY <1>0, <2>1, <2>2, TurnPressed
    <2>5. ASSUME Unrefreshed(r) PROVE TurnOK(h, v, u)
      <3>1. CASE h.pc = "end"
        BY <3>1 DEF TurnOK
      <3>2. CASE h.pc # "end"
        <4>1. Turn(h, v, w)
          BY <2>5, <3>2 DEF DialogOK, TurnOK
        <4>2. Turn(h, v, u) /\ h.pc \in Awaiting
          BY <1>0, <2>1, <2>2, <4>1, TurnPressed
        <4> HIDE DEF h
        <4> QED
          BY <4>2 DEF TurnOK, LoadOK, Light, Drained, Awaiting
      <3> QED
        BY <3>1, <3>2
    <2> QED
      BY <2>2, <2>3, <2>4, <2>5, <2>6 DEF DialogOK, Unrefreshed
  <1>4. ASSUME DismissDialog(r) PROVE DialogOK(r)'
    <2>1. /\ ~w.dismissed /\ w.process = "up" /\ u = Dismiss(w)
          /\ UNCHANGED <<handler, answer, helper, used, aware>>
      BY <1>0, <1>4 DEF DismissDialog, Dialog
    <2>2. u.process = w.process
      BY <1>0, <2>1 DEF Dismiss, Worker
    <2>3. /\ FramesOK(u) /\ u.dismissed /\ Load(u) = Load(w) + 1
          /\ Cancels(w) = 0 /\ Cancels(u) = 1
          /\ Turn(h, v, w) => Turn(h, v, u)
      BY <1>0, <2>1, TurnDismissed
    <2>4. ASSUME Unrefreshed(r) PROVE TurnOK(h, v, u)
      <3>1. h.pc # "end" => Turn(h, v, w) /\ LoadOK(h, w)
        BY <2>4 DEF DialogOK, TurnOK
      <3> HIDE DEF h, u, w, v
      <3> QED
        BY <1>0, <2>3, <3>1 DEF TurnOK, LoadOK
    <2> QED
      BY <2>1, <2>2, <2>3, <2>4 DEF DialogOK, Unrefreshed
  <1>5. ASSUME TimerRefreshes(r) PROVE DialogOK(r)'
    <2>1. /\ u = AutoRefresh(w) /\ used' = [used EXCEPT !.refreshes[r] = @ + 1]
          /\ UNCHANGED <<handler, answer, helper, aware>>
      BY <1>0, <1>5 DEF TimerRefreshes, Dialog
    <2>2. ~Unrefreshed(r)'
      <3>1. used'.refreshes[r] = used.refreshes[r] + 1 /\ used.refreshes[r] \in Nat
        BY <2>1 DEF UsedOK
      <3> QED
        BY <3>1 DEF Unrefreshed
    <2>3. FramesOK(u) /\ u.dismissed = w.dismissed /\ u.process = w.process
      BY <1>0, <2>1, FramesRefreshed
    <2> QED
      BY <2>1, <2>2, <2>3 DEF DialogOK, Unrefreshed
  <1>6. ASSUME DialogDies(r) PROVE DialogOK(r)'
    <2>1. /\ r \in Failing /\ w.process = "up" /\ u \in Crash(w)
          /\ UNCHANGED <<handler, answer, helper, used, aware>>
      BY <1>0, <1>6 DEF DialogDies, Dialog
    <2>2. u \in Worker
      BY <1>0, <2>1, CrashType
    <2>3. Load(u) \in Nat
      BY <2>2, PipeType
    <2>4. /\ FramesOK(u) /\ Load(u) <= Load(w) /\ Cancels(u) = Cancels(w)
          /\ Turn(h, v, w) => Turn(h, v, u)
      BY <1>0, <2>1, TurnCrashed
    <2>5. ASSUME Unrefreshed(r) PROVE TurnOK(h, v, u)
      <3>1. h.pc # "end" => Turn(h, v, w) /\ LoadOK(h, w)
        BY <2>5 DEF DialogOK, TurnOK
      <3> HIDE DEF h, u, w, v
      <3> QED
        BY <1>0, <2>3, <2>4, <3>1 DEF TurnOK, LoadOK
    <2> QED
      BY <2>1, <2>4, <2>5 DEF DialogOK, Unrefreshed
  <1> QED
    BY <1>1, <1>2, <1>3, <1>4, <1>5, <1>6

LEMMA HelperDialogs ==
  ASSUME TypeInv, NEW r \in Request, NEW q \in Request, DialogOK(q),
         HelperStep(r) \/ HelperDies(r)
  PROVE  DialogOK(q)'
  <1>1. PICK state : HelperBecomes(r, state) /\ helper[r] # "gone"
    BY DEF HelperStep, HelperDies, HelperExits, HelperPrints, HelperAcknowledges
  <1>2. /\ UNCHANGED <<handler, worker, answer, aware, used>>
        /\ helper'[q] = helper[q] \/ (q = r /\ helper[q] # "gone")
    BY <1>1 DEF HelperBecomes, serviceVars, TypeInv, OthersOK
  <1> QED
    BY <1>2 DEF DialogOK, Unrefreshed

---------------------------------------------------------------------------
(* Every step keeps what is true of the dialogs.                           *)

LEMMA UsesCounted ==
  ASSUME UsedOK, [Next]_vars
  PROVE  UsedOK'
  <1>1. ASSUME NEW r \in Request, TimerRefreshes(r) PROVE UsedOK'
    <2>1. used' = [used EXCEPT !.refreshes[r] = @ + 1]
      BY <1>1 DEF TimerRefreshes
    <2> QED
      BY <2>1 DEF UsedOK
  <1>2. ASSUME NEW r \in Request, PressControl(r) PROVE UsedOK'
    <2>1. used' = [used EXCEPT !.presses[r] = @ + 1]
      BY <1>2 DEF PressControl
    <2> QED
      BY <2>1 DEF UsedOK
  <1>3. ASSUME NEW k \in Key, UserForgets(k) PROVE UsedOK'
    <2>1. used' = [used EXCEPT !.forgets = @ + 1]
      BY <1>3 DEF UserForgets
    <2> QED
      BY <2>1 DEF UsedOK
  <1>4. ASSUME used' = used PROVE UsedOK'
    BY <1>4 DEF UsedOK
  <1>5. ASSUME NEW r \in Request, HandlerStep(r) PROVE used' = used
    BY <1>5, HandlerInward DEF Inward
  <1>6. ASSUME \/ \E r \in Request :
                     \/ ReadFrame(r) \/ NoticeHangup(r)
                     \/ RenderView(r) \/ DismissDialog(r) \/ DialogDies(r)
                     \/ HelperStep(r) \/ HelperDies(r)
               \/ \E k \in Key : FileChanges(k)
               \/ \E c \in Conn : DeviceMoves(c)
               \/ SweepCache
               \/ Tick
               \/ Finished
               \/ UNCHANGED vars
        PROVE  used' = used
    BY <1>6
    DEF ReadFrame, NoticeHangup, RenderView, DismissDialog, DialogDies, HelperStep,
        HelperExits, HelperPrints, HelperAcknowledges, HelperDies, HelperBecomes,
        FileChanges, DeviceMoves, SweepCache, Tick, Finished, vars, worldVars
  <1> QED
    BY <1>1, <1>2, <1>3, <1>4, <1>5, <1>6 DEF Next

LEMMA NextKeepsDialogs ==
  ASSUME DialogsInv, [Next]_vars
  PROVE  DialogsInv'
  <1>0. TypeInv /\ UsedOK
    BY DEF DialogsInv
  <1>1. TypeInv' /\ UsedOK'
    BY <1>0, NextKeepsTypes, UsesCounted
  <1> SUFFICES ASSUME NEW q \in Request PROVE DialogOK(q)'
    BY <1>1 DEF DialogsInv
  <1>2. DialogOK(q)
    BY DEF DialogsInv
  <1>3. ASSUME NEW r \in Request, HandlerStep(r) PROVE DialogOK(q)'
    BY <1>0, <1>2, <1>3, OwnDialog, OtherDialog
  <1>4. ASSUME NEW r \in Request,
               \/ ReadFrame(r) \/ RenderView(r) \/ PressControl(r)
               \/ DismissDialog(r) \/ TimerRefreshes(r) \/ DialogDies(r)
        PROVE  DialogOK(q)'
    <2>1. CASE q = r
      BY <1>0, <1>2, <1>4, <2>1, DialogMoves
    <2>2. CASE q # r
      <3>1. /\ \E u : worker' = [worker EXCEPT ![r] = u]
            /\ UNCHANGED <<handler, answer, helper, aware>>
        BY <1>4, Zenon
        DEF ReadFrame, RenderView, PressControl, DismissDialog, TimerRefreshes,
            DialogDies, Dialog, worldVars
      <3>2. worker'[q] = worker[q]
        BY <1>0, <2>2, <3>1 DEF TypeInv, WorkersOK
      <3>3. used'.refreshes[q] = used.refreshes[q]
        <4>1. \/ used' = used
              \/ used' = [used EXCEPT !.presses[r] = @ + 1]
              \/ used' = [used EXCEPT !.refreshes[r] = @ + 1]
          BY <1>4, Zenon
          DEF ReadFrame, RenderView, PressControl, DismissDialog, TimerRefreshes,
              DialogDies, worldVars
        <4> QED
          BY <1>0, <2>2, <4>1 DEF UsedOK
      <3> QED
        BY <1>2, <3>1, <3>2, <3>3, DialogWaits
    <2> QED
      BY <2>1, <2>2
  <1>5. ASSUME NEW r \in Request, HelperStep(r) \/ HelperDies(r)
        PROVE  DialogOK(q)'
    BY <1>0, <1>2, <1>5, HelperDialogs
  <1>6. ASSUME NEW r \in Request, NoticeHangup(r) PROVE DialogOK(q)'
    <2>1. /\ aware' = aware \cup {r} /\ helper[r] = "gone"
          /\ UNCHANGED <<handler, worker, answer, helper, used>>
      BY <1>6 DEF NoticeHangup, worldVars
    <2> QED
      BY <1>2, <2>1, DialogWaits
  <1>7. ASSUME \/ \E k \in Key : FileChanges(k) \/ UserForgets(k)
               \/ \E c \in Conn : DeviceMoves(c)
               \/ SweepCache
               \/ Tick
               \/ Finished
               \/ UNCHANGED vars
        PROVE  DialogOK(q)'
    <2>1. UNCHANGED <<handler, worker, answer, aware, helper>>
      BY <1>7
      DEF FileChanges, UserForgets, DeviceMoves, SweepCache, Tick, Finished,
          vars, serviceVars, worldVars
    <2>2. used' = used \/ used' = [used EXCEPT !.forgets = @ + 1]
      BY <1>7
      DEF FileChanges, UserForgets, DeviceMoves, SweepCache, Tick, Finished,
          vars, worldVars
    <2>3. used'.refreshes = used.refreshes
      BY <1>0, <2>2 DEF UsedOK
    <2> QED
      BY <1>2, <2>1, <2>3, DialogWaits
  <1> QED
    BY <1>3, <1>4, <1>5, <1>6, <1>7 DEF Next

LEMMA DialogsInitial == Init => DialogsInv
  <1> SUFFICES ASSUME Init PROVE DialogsInv
    OBVIOUS
  <1>1. TypeInv
    BY TypesInitial
  <1>2. UsedOK
    BY DEF Init, UsedOK
  <1>3. ASSUME NEW r \in Request PROVE DialogOK(r)
    <2>1. /\ handler[r] = Fresh /\ worker[r] = NoWorker /\ aware = {}
          /\ answer[r] = Silence
      BY <1>3 DEF Init
    <2>2. /\ NoWorker.process = "none" /\ NoWorker.views = <<>>
          /\ NoWorker.screen = Blank /\ ~NoWorker.sensitive
          /\ NoWorker.sent = <<>> /\ NoWorker.actions = <<>>
          /\ ~NoWorker.cancelled /\ ~NoWorker.dismissed
      BY DEF NoWorker
    <2>3. Blank.stage = "blank" /\ Blank.devices = <<>> /\ ~Blank.offerChange
      BY DEF Blank, View
    <2>4. Pipe(NoWorker) = <<>> /\ Len(Pipe(NoWorker)) = 0 /\ Load(NoWorker) = 0
      BY <2>2 DEF Pipe, Load
    <2>5. FramesOK(NoWorker) /\ Idle(NoWorker)
      BY <2>2, <2>3, <2>4 DEF FramesOK, Plain, Idle, Offers, Unused
    <2>6. Fresh.pc = "start" /\ Fresh.picked = NoConn
      BY DEF Fresh
    <2>7. LoadOK(Fresh, NoWorker)
      BY <2>2, <2>4, <2>6 DEF LoadOK, Cancels
    <2>8. answer[r] # Status(1)
      BY <2>1 DEF Silence, Status
    <2> QED
      BY <2>1, <2>2, <2>5, <2>6, <2>7, <2>8 DEF DialogOK, TurnOK, Turn
  <1> QED
    BY <1>1, <1>2, <1>3 DEF DialogsInv

LEMMA DialogsAlways == Spec => []DialogsInv
  <1>1. Init => DialogsInv
    BY DialogsInitial
  <1>2. DialogsInv /\ [Next]_vars => DialogsInv'
    BY NextKeepsDialogs
  <1> QED
    BY <1>1, <1>2, PTL DEF Spec

\* Unless the timer of the wait view has interfered, or the dialog may crash, a
\* helper that lives to read status 1 has a user who cancelled: no frame of an
\* earlier view is taken for the answer to a later one (service.go:283).
THEOREM OneMeansCancelUndisturbed == Spec => []OneUnlessDisturbed
  <1>1. DialogsInv => OneUnlessDisturbed
    <2> SUFFICES ASSUME DialogsInv, NEW r \in Request, r \notin Failing,
                        Unrefreshed(r), answer[r] = Status(1), helper[r] = "exited"
                 PROVE  worker[r].dismissed
      BY DEF OneUnlessDisturbed, OneIsCancel
    <2>1. DialogOK(r)
      BY DEF DialogsInv
    <2> QED
      BY <2>1 DEF DialogOK
  <1> QED
    BY <1>1, DialogsAlways, PTL

\* The device a request goes on with is the one the user pointed at, however
\* often the list was shown again in between (service.go:231), unless the timer
\* has interfered.
THEOREM ConfirmedDeviceIsSelected == Spec => []SelectedAsConfirmed
  <1>1. DialogsInv => SelectedAsConfirmed
    BY DEF DialogsInv, DialogOK, SelectedAsConfirmed
  <1> QED
    BY <1>1, DialogsAlways, PTL

\* While a device verifies, a cancel of the user is never stuck behind a reader
\* that waits for room in the channel (DESIGN.md:118), again unless the timer has
\* interfered: nothing else is under way but one report of the busy view.
THEOREM CancelIsHeard == Spec => []CancelHeard
  <1>1. DialogsInv => CancelHeard
    <2> SUFFICES ASSUME DialogsInv, NEW r \in Request, Unrefreshed(r),
                        handler[r].pc = "verify", Len(worker[r].actions) >= 2,
                        NEW i \in DOMAIN worker[r].sent
                 PROVE  FALSE
      BY DEF CancelHeard, At, ReaderBlocked
    <2> DEFINE w == worker[r]
    <2>1. DialogOK(r) /\ w \in Worker
      BY DEF DialogsInv, TypeInv, WorkersOK
    <2>2. Load(w) <= 1 + Cancels(w)
      BY <2>1 DEF DialogOK, TurnOK, LoadOK
    <2>3. Cancels(w) \in {0, 1} /\ Len(w.views) \in Nat
          /\ Len(Pipe(w)) = Len(w.actions) + Len(w.sent)
      BY <2>1, PipeType
    <2>4. /\ w.sent \in Seq(Input \cup Choice) /\ w.actions \in Seq(Input \cup Choice)
      BY <2>1, WorkerFields
    <2>5. Len(w.sent) \in Nat /\ Len(w.sent) >= 1 /\ Len(w.actions) \in Nat
      BY <2>4
    <2>6. Len(w.actions) >= 2
      OBVIOUS
    <2>7. \A c \in {0, 1}, v, p, a, s \in Nat :
             p = a + s /\ v + p <= 1 + c /\ a >= 2 /\ s >= 1 => FALSE
      OBVIOUS
    <2>8. Len(Pipe(w)) \in Nat /\ Len(w.views) + Len(Pipe(w)) <= 1 + Cancels(w)
      BY <2>1, <2>2, PipeType DEF Load
    <2> HIDE DEF w
    <2> QED
      BY <2>3, <2>5, <2>6, <2>7, <2>8
  <1> QED
    BY <1>1, DialogsAlways, PTL
===========================================================================
