-------------------------- MODULE MCExtensionHarness --------------------------
(* ExtensionHarness on a small instance.                                   *)
EXTENDS ExtensionHarness

CONSTANTS c1, r1, r2

OneCall == {c1}

\* the request is small, the response has a chunk that takes two messages
SmallBodies ==
  [b \in Channels \X OneCall |-> IF b[1] = "request" THEN <<<<1>>>> ELSE <<<<1, 2>>, <<3>>>>]

TwoReaders == {r1, r2}

SomeOptions == {"an account", "not plain", "no entries"}

=============================================================================
