--------------------------- MODULE MCPinRequest ---------------------------
(* Instances of PinRequest for TLC.                                        *)
EXTENDS PinRequest, TLC

CONSTANTS a, f, c1, c2, d1, d2, d3, p1, p2, r1, r2, r3

OneRequest == {r1}
Requests == {r1, r2}
ThreeRequests == {r1, r2, r3}
None == {}
AgentKeys == {a}
FileKeys == {f}
AgentForAll == [r \in Request |-> a]
FileForAll == [r \in Request |-> f]
OneCaller == {c1}
SameCaller == [r \in Request |-> c1]
OneDevice == <<d1>>
TwoDevices == <<d1, d2>>
ThreeDevices == <<d1, d2, d3>>
FirstDevice == {d1}
AllDevices == Conn
ThirdDevice == {d3}
OneSecret == {p1}
Never == [r \in Request |-> 0]
Once == [r \in Request |-> 1]
Twice == [r \in Request |-> 2]
FirstOnce == [r \in Request |-> IF r = r1 THEN 1 ELSE 0]
SecretOrNothing == {p1, NoSecret}
\* Requests on one key from one caller that type nothing are interchangeable.
OthersAlike == Permutations({r2, r3})
Stamps == (0..MaxChanges) \X (Conn \cup {NoConn})
===========================================================================
