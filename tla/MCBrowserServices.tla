--------------------------- MODULE MCBrowserServices ---------------------------
(* BrowserServices on a small instance, with the records other workers     *)
(* have stored around this one's.                                          *)
EXTENDS BrowserServices

CONSTANT theirs

\* the empty prefix, and a key that is a prefix of another
FewKeys == {<<>>, <<1>>, <<1, 2>>}

\* the addresses below and above address 2, under the same keys
Neighbours == [x \in {1, 3} \X {<<1>>, <<1, 2>>} |-> theirs]

BothServices == {"kps", "storage"}

=============================================================================
