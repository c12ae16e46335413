--------------------------- MODULE OffscreenDocument ---------------------------
(***************************************************************************)
(* The one offscreen document of an extension, created by whichever of its *)
(* contexts needs it first                                                 *)
(* (browser-extension-harness/src/background/offscreen.ts).  A context     *)
(* shares one creation among its callers; contexts share the browser only. *)
(***************************************************************************)
EXTENDS Naturals

CONSTANT Contexts   \* the contexts that construct workers

VARIABLES
  document,   \* there is an offscreen document
  creation,   \* where each context's `pending` creation is, or how it last ended
  closures    \* history: the creations during which the document was closed

documentVars == <<document, creation, closures>>

DocumentInit ==
  /\ document \in BOOLEAN
  /\ creation = [k \in Contexts |-> "none"]
  /\ closures = {}

To(k, where) == creation' = [creation EXCEPT ![k] = where]

EnsureOffscreenDocument(k) ==
  /\ creation[k] \in {"none", "done", "failed"}
  /\ To(k, "asking")
  /\ closures' = closures \ {k}
  /\ UNCHANGED document

HasDocument(k) ==
  /\ creation[k] = "asking"
  /\ To(k, IF document THEN "done" ELSE "creating")
  /\ UNCHANGED <<document, closures>>

CreateDocument_NoSecondLook(k) ==
  /\ creation[k] = "creating"
  /\ document' = TRUE
  /\ To(k, IF document THEN "failed" ELSE "done")
  /\ UNCHANGED closures

\* a second document is refused, which is no failure if the first is there
CreateDocument(k) ==
  /\ creation[k] = "creating"
  /\ document' = TRUE
  /\ To(k, IF document THEN "checking" ELSE "done")
  /\ UNCHANGED closures

StillThere(k) ==
  /\ creation[k] = "checking"
  /\ To(k, IF document THEN "done" ELSE "failed")
  /\ UNCHANGED <<document, closures>>

CloseOffscreenDocument ==
  /\ document
  /\ document' = FALSE
  /\ closures' = closures \cup {k \in Contexts : creation[k] = "checking"}
  /\ UNCHANGED creation

DocumentNext ==
  \/ \E k \in Contexts : \/ EnsureOffscreenDocument(k) \/ HasDocument(k)
                         \/ CreateDocument(k) \/ StillThere(k)
  \/ CloseOffscreenDocument

-----------------------------------------------------------------------------

(***************************************************************************)
(* offscreen.ts:53: losing the race to create the document is no failure.  *)
(* A creation fails only where the document that won was closed before the *)
(* loser looked again.                                                     *)
(***************************************************************************)
LostRaceIsNoFailure ==
  \A k \in Contexts : creation[k] = "failed" => k \in closures

=============================================================================
