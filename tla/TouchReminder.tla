--------------------------- MODULE TouchReminder ---------------------------
(***************************************************************************)
(* What the touch popups promise, without mailboxes and processes: while a *)
(* security key waits for a touch there is an episode; an episode gets at  *)
(* most one window; a device has at most one window at a time; and the     *)
(* window of an episode that is over goes away.                            *)
(***************************************************************************)
EXTENDS Naturals

CONSTANT Device

VARIABLES
    episode,  \* per device the number of the episode that lasts, or 0
    window,   \* per device the episode its window belongs to, or 0
    spent,    \* the episodes that have had their window
    last      \* the number of the latest episode

vars == <<episode, window, spent, last>>

Init ==
    /\ episode = [d \in Device |-> 0]
    /\ window = [d \in Device |-> 0]
    /\ spent = {}
    /\ last = 0

Begin(d) ==
    /\ episode[d] = 0
    /\ last' = last + 1
    /\ episode' = [episode EXCEPT ![d] = last + 1]
    /\ UNCHANGED <<window, spent>>

End(d) ==
    /\ episode[d] # 0
    /\ episode' = [episode EXCEPT ![d] = 0]
    /\ UNCHANGED <<window, spent, last>>

\* A window opens for one episode once.  The episode may just have ended: the
\* device does not wait for the screen.
Open(d) ==
    /\ window[d] = 0
    /\ \E e \in (1..last) \ spent :
          /\ window' = [window EXCEPT ![d] = e]
          /\ spent' = spent \cup {e}
    /\ UNCHANGED <<episode, last>>

Close(d) ==
    /\ window[d] # 0
    /\ window' = [window EXCEPT ![d] = 0]
    /\ UNCHANGED <<episode, spent, last>>

Next == \E d \in Device : Begin(d) \/ End(d) \/ Open(d) \/ Close(d)

Steps == Init /\ [][Next]_vars

\* A window does not outlive its episode for ever.
Retires ==
    \A d \in Device :
        (window[d] # 0 /\ episode[d] = 0) ~> (window[d] = 0 \/ episode[d] # 0)

ReminderSpec == Steps /\ Retires
===========================================================================
