------------------------------- MODULE PopupWatch -------------------------------
(***************************************************************************)
(* How the demo extension's popup watches a balance                        *)
(* (demo-extension/src/popup.ts): it opens on what the service worker says *)
(* is running, starts and stops a watch, and polls at an interval; it may  *)
(* be closed and opened again, and its requests are slower than that.  The *)
(* service worker keeps what is running in session storage; its own awaits *)
(* are DemoWatcher's, and are merged here up to what the popup can tell.   *)
(*                                                                         *)
(* Each start is for another account, named by the request.                *)
(***************************************************************************)
EXTENDS Integers

CONSTANT MaxAsks   \* how many starts and polls are ever asked for (bound)

Asks == 1 .. MaxAsks
Nothing == -1      \* no balance

VARIABLES
  popup,      \* what is left to do to open it, what it was told, whether it runs,
              \* its intervals, whether it knows one, the account it is for, and
              \* whether a start was clicked before it was done opening
  service,    \* the session's store: whether it runs, for which account, and the last
              \* balance
  ask,        \* each request: kind, where it is, the balance it got, and whether the
              \* popup that made it is still open
  shown,      \* the balance on the popup's card
  wanted,     \* history: the last click was a start
  revived,    \* history: a request that was under way at a stop stored that it runs
  crossed     \* history: a start was on its way to the service worker when the popup
              \* was told what runs or another was clicked, or the popup resumed
              \* what it was told of over a start

watchingVars == <<popup, service, ask, shown, wanted, revived, crossed>>

\* a balance: whose it is, and (history) the account watched by who asked for it
NoBalance == [of |-> Nothing, for |-> Nothing]

Unasked(where) == [kind |-> "none", at |-> where, got |-> NoBalance, heard |-> FALSE]

NotTold == [running |-> FALSE, account |-> 0, last |-> NoBalance]

Opening == [opening |-> "status", told |-> NotTold, running |-> FALSE, starting |-> FALSE,
            intervals |-> 0, timer |-> FALSE, account |-> 0, eager |-> FALSE]

WatchingInit ==
  /\ popup = Opening
  /\ \E running \in BOOLEAN : /\ service = [running |-> running, account |-> 0, last |-> NoBalance]
                              /\ wanted = running
  /\ ask = [r \in Asks |-> Unasked("new")]
  /\ shown = NoBalance
  /\ revived = FALSE /\ crossed = FALSE

Asked(r) == ask[r].at = "new" /\ \A q \in 1 .. (r - 1) : ask[q].at # "new"

Sent(asks, r, kind, account) ==
  [asks EXCEPT ![r] = [kind |-> kind, at |-> "sent", heard |-> TRUE,
                       got |-> [of |-> Nothing, for |-> account]]]

\* a start that the service worker has not stored yet
StartOnItsWay == \E r \in Asks : ask[r].kind = "start" /\ ask[r].at = "sent"

\* its answer, if there is anyone to hear it; of a request that is over nothing is kept
Answered(r, where) ==
  ask' = [ask EXCEPT ![r] = IF ask[r].heard THEN [@ EXCEPT !.at = where] ELSE Unasked("over")]

\* an interval, and a poll at once
BeginPolling(p, asks, r) ==
  /\ Asked(r)
  /\ popup' = [p EXCEPT !.running = TRUE, !.intervals = @ + 1, !.timer = TRUE]
  /\ ask' = Sent(asks, r, "poll", p.account)

-----------------------------------------------------------------------------
(* The popup *)

StatusArrives ==
  /\ popup.opening = "status"
  /\ popup' = [popup EXCEPT !.opening = "logs", !.told = service,
                            !.account = IF service.running THEN service.account ELSE @]
  /\ crossed' = (crossed \/ StartOnItsWay)
  /\ UNCHANGED <<service, ask, shown, wanted, revived>>

\* the log is here too: the last balance is shown, and a watch resumed
Opened(r) ==
  /\ popup.opening = "logs"
  /\ shown' = IF popup.told.last = NoBalance THEN shown ELSE popup.told.last
  /\ crossed' = (crossed \/ (popup.told.running /\ popup.eager))
  /\ LET p == [popup EXCEPT !.opening = "done", !.told = NotTold]
     IN  IF popup.told.running THEN BeginPolling(p, ask, r) ELSE popup' = p /\ UNCHANGED ask
  /\ UNCHANGED <<service, wanted, revived>>

OpenedAgain ==
  /\ popup.opening = "done"
  /\ popup' = Opening
  /\ ask' = [r \in Asks |-> IF ask[r].at \in {"answered", "refused"} THEN Unasked("over")
                             ELSE [ask[r] EXCEPT !.heard = FALSE]]
  /\ shown' = NoBalance
  /\ UNCHANGED <<service, wanted, revived, crossed>>

\* neither a stop nor a start takes the last balance off the card
Start(r) ==
  /\ ~popup.running /\ ~popup.starting
  /\ Asked(r)
  /\ ask' = Sent(ask, r, "start", r)
  /\ popup' = [popup EXCEPT !.starting = TRUE, !.account = r,
                            !.eager = @ \/ popup.opening # "done"]
  /\ wanted' = TRUE
  /\ crossed' = (crossed \/ StartOnItsWay)
  /\ UNCHANGED <<service, shown, revived>>

Stop_KeepsInterval ==
  /\ popup.running /\ ~popup.starting
  /\ popup' = [popup EXCEPT !.running = FALSE, !.timer = FALSE]
  /\ service' = [service EXCEPT !.running = FALSE, !.last = NoBalance]
  /\ wanted' = FALSE
  /\ UNCHANGED <<ask, shown, revived, crossed>>

\* the interval the popup knows is cleared; the service worker stores at once that it stopped
Stop ==
  /\ popup.running /\ ~popup.starting
  /\ popup' = [popup EXCEPT !.running = FALSE, !.timer = FALSE,
                            !.intervals = IF popup.timer THEN @ - 1 ELSE @]
  /\ service' = [service EXCEPT !.running = FALSE, !.last = NoBalance]
  /\ wanted' = FALSE
  /\ UNCHANGED <<ask, shown, revived, crossed>>

\* an interval's tick, of no effect while the popup does not run
Poll(r) ==
  /\ popup.intervals > 0 /\ popup.running
  /\ Asked(r)
  /\ ask' = Sent(ask, r, "poll", popup.account)
  /\ UNCHANGED <<popup, service, shown, wanted, revived, crossed>>

\* an answer, for as long as the popup that asked is open
StartAnswered(r, q) ==
  /\ ask[r].kind = "start" /\ ask[r].at \in {"answered", "refused"}
  /\ LET told == [ask EXCEPT ![r] = Unasked("over")]
         p == [popup EXCEPT !.starting = FALSE]
     IN  IF ask[r].at = "answered" THEN BeginPolling(p, told, q) ELSE popup' = p /\ ask' = told
  /\ UNCHANGED <<service, shown, wanted, revived, crossed>>

PollAnswered(r) ==
  /\ ask[r].kind = "poll" /\ ask[r].at \in {"answered", "refused"}
  /\ ask' = [ask EXCEPT ![r] = Unasked("over")]
  /\ shown' = IF popup.running /\ ask[r].at = "answered" THEN ask[r].got ELSE shown
  /\ UNCHANGED <<popup, service, wanted, revived, crossed>>

-----------------------------------------------------------------------------
(* The service worker *)

StartSaved(r) ==
  /\ ask[r].kind = "start" /\ ask[r].at = "sent"
  /\ ask' = [ask EXCEPT ![r].at = "saved"]
  /\ service' = [running |-> TRUE, account |-> r, last |-> NoBalance]
  /\ UNCHANGED <<popup, shown, wanted, revived, crossed>>

\* the worker is there, or the session is marked as stopped
StartServed(r, ok) ==
  /\ ask[r].at = "saved"
  /\ Answered(r, IF ok THEN "answered" ELSE "refused")
  /\ service' = [service EXCEPT !.running = ok, !.last = NoBalance]
  /\ revived' = (revived \/ (ok /\ ~service.running))
  /\ UNCHANGED <<popup, shown, wanted, crossed>>

PollRead(r) ==
  /\ ask[r].kind = "poll" /\ ask[r].at = "sent"
  /\ IF service.running
     THEN ask' = [ask EXCEPT ![r].at = "read", ![r].got.of = service.account]
     ELSE Answered(r, "refused")
  /\ UNCHANGED <<popup, service, shown, wanted, revived, crossed>>

\* a balance that arrived is stored with the session marked as running
PollServed(r, ok) ==
  /\ ask[r].at = "read"
  /\ Answered(r, IF ok THEN "answered" ELSE "refused")
  /\ service' = IF ok THEN [service EXCEPT !.running = TRUE, !.last = ask[r].got] ELSE service
  /\ revived' = (revived \/ (ok /\ ~service.running))
  /\ UNCHANGED <<popup, shown, wanted, crossed>>

WatchingNext ==
  \/ StatusArrives \/ OpenedAgain \/ Stop
  \/ \E r \in Asks :
       \/ Opened(r) \/ Start(r) \/ Poll(r) \/ PollAnswered(r) \/ StartSaved(r) \/ PollRead(r)
       \/ \E q \in Asks : StartAnswered(r, q)
       \/ \E ok \in BOOLEAN : StartServed(r, ok) \/ PollServed(r, ok)

-----------------------------------------------------------------------------

(***************************************************************************)
(* popup.ts:321 and 384: the popup polls at one interval, and at none once *)
(* it was stopped; a start that is clicked before it is done opening       *)
(* leaves one more, and no more than that, until it is closed.  It runs,   *)
(* opened again or not, only what was not stopped, unless a request that   *)
(* was under way at the stop has stored that the session runs.  And        *)
(* whatever polls, stops and starts cross, a balance that was asked for by *)
(* the watch the popup is on is that account's: the previous account's,    *)
(* which neither start() nor stop() takes off the card, and a late answer  *)
(* to one of its polls are replaced by the first answer of the new watch.  *)
(* The last two do not hold once two starts have crossed (`crossed`).      *)
(***************************************************************************)
WatchInForce ==
  /\ popup.intervals >= (IF popup.running THEN 1 ELSE 0)
  /\ popup.intervals <= (IF popup.running THEN 1 ELSE 0) + (IF popup.eager THEN 1 ELSE 0)
  /\ popup.running /\ ~crossed =>
       /\ wanted \/ revived
       /\ shown.for = popup.account => shown.of = popup.account

=============================================================================
