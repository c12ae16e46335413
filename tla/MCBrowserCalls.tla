--------------------------- MODULE MCBrowserCalls ---------------------------
(* BrowserCalls on small instances: the model values of the .cfg files.    *)
EXTENDS BrowserCalls

CONSTANTS c1, c2, a1, a2

OneCall == {c1}
TwoCalls == {c1, c2}
OneAccept == {a1}
TwoAccepts == {a1, a2}
OtherCall == {c2}
NoCall == {}

NoSignal == {}
OnlyFailed == {"failed"}

=============================================================================
