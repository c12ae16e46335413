----------------------------- MODULE MCNodeCalls -----------------------------
(* NodeCalls on small instances: the model values of the .cfg files.       *)
EXTENDS NodeCalls

CONSTANTS c1, c2, a1, a2

OneCall == {c1}
TwoCalls == {c1, c2}
OneAccept == {a1}
TwoAccepts == {a1, a2}
NoCall == {}

NoSignal == {}
OnlyReady == {"ready"}
OnlyFailed == {"failed"}

Symmetry == Permutations({a1, a2})

=============================================================================
