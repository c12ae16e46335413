------------------------------- MODULE PageWorker -------------------------------
(***************************************************************************)
(* The extension harness in a page of its own, where there is a DOM        *)
(* (browser-extension-harness/src/page/PageWorker.ts): the browser harness *)
(* runs in place, once its sandboxed page was found in the extension.      *)
(* What is asked of it before that waits, in order; what becomes of a call *)
(* that the browser harness was handed is BrowserCalls, and its log is     *)
(* WorkerLogs.                                                             *)
(***************************************************************************)
EXTENDS WorkerLogs

CONSTANTS
  MaxFetches,  \* how many calls are made (bound)
  Options      \* the forwarded entries the host's init may hold

NotPlain == "not plain"    \* one of them is no plain value
NoEntries == "no entries"  \* there are none: every member is one of fetch()'s own

Fetches == 1 .. MaxFetches

VARIABLES
  inner,       \* #inner: pending, there, or rejected
  chained,     \* what waits for #inner, in the order it was asked
  options,     \* the init object, which the host uses for all its calls
  call,        \* each fetch: where it is, what it was made with and what was sent
  handed,      \* the calls the browser harness was handed, in order
  asked,       \* the readers that wait for #inner, and those of them that were aborted
  ended        \* history: close() was called, and the worker failed of itself

pageVars == <<inner, chained, options, call, handed, asked, ended>>
vars == <<logVars, pageVars>>

Init ==
  /\ LogsInit
  /\ inner = "pending" /\ chained = <<>>
  /\ options \in Options
  /\ call = [c \in Fetches |-> [at |-> "new", made |-> "", sent |-> "", closing |-> FALSE, changed |-> FALSE]]
  /\ handed = <<>>
  /\ asked = [readers |-> {}, aborted |-> {}]
  /\ ended = [close |-> FALSE, failed |-> FALSE]

\* the page is not in the extension, or the browser harness refuses it
SettleInner(ok) ==
  /\ inner = "pending"
  /\ inner' = IF ok THEN "there" ELSE "rejected"
  /\ UNCHANGED <<logVars, chained, options, call, handed, asked, ended>>

\* the call has the host's object, not a copy
Uncopied(c) == call[c].at = "waiting" /\ call[c].made = NoEntries

\* the calls that have no copy remember it, as history
HostChangesOptions ==
  /\ options' \in Options \ {options}
  /\ \E c \in Fetches : call[c].at = "new" \/ Uncopied(c)
  /\ call' = [c \in Fetches |-> [call[c] EXCEPT !.changed = @ \/ Uncopied(c)]]
  /\ UNCHANGED <<logVars, inner, chained, handed, asked, ended>>

\* fetch() copies the entries there are at once, or rejects when they are not plain
Fetch(c) ==
  /\ call[c].at = "new" /\ \A d \in 1 .. (c - 1) : call[d].at # "new"
  /\ call' = [call EXCEPT ![c] = [at |-> IF options = NotPlain THEN "rejected" ELSE "waiting",
                                  made |-> options, sent |-> "", closing |-> ended.close,
                                  changed |-> FALSE]]
  /\ chained' = IF options = NotPlain THEN chained ELSE Append(chained, <<"fetch", c>>)
  /\ UNCHANGED <<logVars, inner, options, handed, asked, ended>>

AskLog(r) ==
  /\ reader[r] = "idle" /\ r \notin asked.readers
  /\ chained' = Append(chained, <<"log", r>>)
  /\ asked' = [asked EXCEPT !.readers = @ \cup {r}]
  /\ UNCHANGED <<logVars, inner, options, call, handed, ended>>

\* nobody listens to its signal yet
AbortAsked(r) ==
  /\ r \in asked.readers \ asked.aborted
  /\ asked' = [asked EXCEPT !.aborted = @ \cup {r}]
  /\ UNCHANGED <<logVars, inner, chained, options, call, handed, ended>>

AskClose ==
  /\ ~ended.close
  /\ ended' = [ended EXCEPT !.close = TRUE]
  /\ chained' = Append(chained, <<"close", 0>>)
  /\ UNCHANGED <<logVars, inner, options, call, handed, asked>>

\* with no entries to copy, the closure has the host's own object
Given(c) == IF call[c].made = NoEntries THEN options ELSE call[c].made

\* the browser harness, unless there is none or it is dead or it refuses the entries, gets the call
Hand(c, entries) ==
  /\ UNCHANGED <<logVars, asked>>
  /\ IF inner = "rejected" \/ log.closed \/ entries = NotPlain
     THEN call' = [call EXCEPT ![c].at = "rejected"] /\ UNCHANGED handed
     ELSE /\ call' = [call EXCEPT ![c].at = "handed", ![c].sent = entries]
          /\ handed' = Append(handed, c)

HandFetch_AsIs(c) == Hand(c, options)

HandFetch(c) == Hand(c, Given(c))

\* an acceptLog whose signal has been aborted takes an entry all the same, but does not wait
HandLog(r) ==
  /\ asked' = [readers |-> asked.readers \ {r}, aborted |-> asked.aborted \ {r}]
  /\ UNCHANGED <<call, handed>>
  /\ IF inner = "rejected"
     THEN reader' = [reader EXCEPT ![r] = "rejected"] /\ UNCHANGED <<log, logged, refused, read>>
     ELSE IF r \in asked.aborted /\ log.items = <<>> THEN UNCHANGED logVars
     ELSE AcceptLog(r)

HandClose ==
  /\ UNCHANGED <<call, handed, asked>>
  /\ IF inner = "rejected" THEN UNCHANGED logVars ELSE Fail

\* what waited for #inner goes on, in order, once it is settled
GoOn ==
  /\ inner # "pending" /\ chained # <<>>
  /\ chained' = Tail(chained)
  /\ CASE Head(chained)[1] = "fetch" -> HandFetch(Head(chained)[2])
       [] Head(chained)[1] = "log" -> HandLog(Head(chained)[2])
       [] OTHER -> HandClose
  /\ UNCHANGED <<inner, options, ended>>

\* the browser harness's own steps
WorkerSteps ==
  /\ inner = "there"
  /\ \/ (Log \/ \E r \in Readers : AbortLog(r)) /\ UNCHANGED ended
     \/ ~log.closed /\ Fail /\ ended' = [ended EXCEPT !.failed = TRUE]
  /\ UNCHANGED <<inner, chained, options, call, handed, asked>>

Next ==
  \/ \E ok \in BOOLEAN : SettleInner(ok)
  \/ HostChangesOptions
  \/ \E c \in Fetches : Fetch(c)
  \/ \E r \in Readers : AskLog(r) \/ AbortAsked(r)
  \/ AskClose \/ GoOn \/ WorkerSteps

Spec == Init /\ [][Next]_vars

-----------------------------------------------------------------------------

(***************************************************************************)
(* PageWorker.ts:64-72: each call is sent with the entries it was made     *)
(* with, whatever the host has since done to the object, and in the order  *)
(* it was made; none that was made before close() is refused because of    *)
(* it.  (A call that was made with no entries is not copied: it is sent    *)
(* with, or refused for, what the host put in the object meanwhile.)  Once *)
(* #inner is settled nothing is left to wait for it, and a close that was  *)
(* asked before there was a worker has closed it.                          *)
(***************************************************************************)
CallsAsMade ==
  /\ \A i, j \in DOMAIN handed : i < j => handed[i] < handed[j]
  /\ \A c \in Fetches :
       /\ call[c].at = "handed" => call[c].sent = call[c].made \/ call[c].changed
       /\ call[c].at = "rejected" =>
            \/ call[c].made = NotPlain \/ call[c].changed
            \/ inner = "rejected" \/ ended.failed \/ call[c].closing
  /\ inner # "pending" /\ chained = <<>> =>
       /\ \A c \in Fetches : call[c].at # "waiting"
       /\ asked.readers = {}
       /\ ended.close => inner = "rejected" \/ log.closed

=============================================================================
