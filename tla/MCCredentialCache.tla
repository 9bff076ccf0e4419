------------------------- MODULE MCCredentialCache -------------------------
(* Instances of CredentialCache for TLC: an ssh-agent key and a file key.  *)
EXTENDS CredentialCache, TLC

CONSTANTS a, f, c1, c2, s1, s2, p1, p2

Keys == {a, f}
AgentKeys == {a}
Callers == {c1, c2}
Stamps == {s1, s2}
OneSecret == {p1}

\* Callers and stamps are interchangeable.
Symmetry == Permutations(Callers) \cup Permutations(Stamps)
===========================================================================
