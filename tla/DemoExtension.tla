----------------------------- MODULE DemoExtension -----------------------------
(***************************************************************************)
(* The demo extension's service worker, its popup's watch, log and         *)
(* bootstrap field, and the creation of its offscreen document.  They      *)
(* share no state, so that a behaviour here is one of one of them (bound:  *)
(* `part`).                                                                *)
(***************************************************************************)
EXTENDS DemoWatcher, DemoPopup, PopupWatch, OffscreenDocument, TLC

VARIABLE part

vars == <<watchVars, logVars, fieldVars, watchingVars, documentVars, part>>

Init ==
  /\ part \in {"watcher", "log", "field", "watch", "document"}
  /\ WatchInit /\ PopupInit /\ WatchingInit /\ DocumentInit
  /\ part # "field" => proven = {}
  /\ part # "watch" => ~wanted
  /\ part # "document" => ~document

Next ==
  /\ UNCHANGED part
  /\ \/ part = "watcher" /\ WatchNext /\ UNCHANGED <<logVars, fieldVars, watchingVars, documentVars>>
     \/ part = "log" /\ LogNext /\ UNCHANGED <<watchVars, fieldVars, watchingVars, documentVars>>
     \/ part = "field" /\ FieldNext /\ UNCHANGED <<watchVars, logVars, watchingVars, documentVars>>
     \/ part = "watch" /\ WatchingNext /\ UNCHANGED <<watchVars, logVars, fieldVars, documentVars>>
     \/ part = "document" /\ DocumentNext /\ UNCHANGED <<watchVars, logVars, fieldVars, watchingVars>>

Spec == Init /\ [][Next]_vars

Proceeds ==
  /\ part = "watcher" /\ \E r \in Requests : Proceed(r)
  /\ UNCHANGED <<part, logVars, fieldVars, watchingVars, documentVars>>

\* storage and endpoints answer; a request has finitely many awaits
FairSpec == Spec /\ WF_vars(Proceeds)

=============================================================================
