---------------------------- MODULE MCDemoExtension ----------------------------
(* DemoExtension on a small instance.                                      *)
EXTENDS DemoExtension

CONSTANTS a, b, x, y

TwoSettings == {a, b}
TwoContexts == {x, y}

=============================================================================
