---------------------------- MODULE MCOffscreenHost ----------------------------
(* OffscreenHost on small instances: the model values of the .cfg files.   *)
EXTENDS OffscreenHost

CONSTANTS k1, k2, k3, w1, w2, key1

ThreeConns == {k1, k2, k3}
TwoWorkers == {w1, w2}
OneKey == {key1}

=============================================================================
