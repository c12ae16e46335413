------------------------------ MODULE GuestIsolate ------------------------------
(***************************************************************************)
(* A worker's isolate in its thread (node-harness/src/child/isolate.ts and *)
(* isolate-thread.ts), the timers and the fetch its guest platform builds  *)
(* over the host's requests (prelude.guest.js), and the host's side of     *)
(* fetch (host/fetch-bridge-host.ts).                                      *)
(*                                                                         *)
(* Each request is a promise the isolate holds for the guest.  The guest   *)
(* runs when the isolate enters it, which a call may make it do at any     *)
(* time.  What address a name is looked up to, and whether the policy      *)
(* allows it, is a choice here (AddressPolicy models the policy).          *)
(***************************************************************************)
EXTENDS FiniteSets, Integers

CONSTANTS
  MaxAsked,       \* how many timers and fetches the guest ever starts (bound)
  MaxFetches      \* maxConcurrent of the fetch bridge

Requests == 1 .. MaxAsked

VARIABLES
  thread,      \* creating the isolate, running, without one, gone, or terminated
  asked,       \* each timer or fetch: its kind and where it is
  liveTimers,  \* the guest's liveTimers
  timers,      \* the thread's timers
  pending,     \* #pending: the requests whose deferred promise is live
  handles,     \* how many handles each request's deferred holds
  bridge,      \* the fetch bridge is installed
  channel,     \* the host's end of the channel is open, and it has posted "shutdown"
  inFlight,    \* the bridge's inFlight
  seen         \* history: timers cleared and run though cleared, fetches checked while others
               \* were looked up, and still to be looked up at the bridge's end

isolateVars == <<thread, asked, liveTimers, timers, pending, handles, bridge, channel, inFlight,
                 seen>>
hostVars == <<bridge, channel, inFlight>>
threadVars == <<thread, liveTimers, timers, pending, handles>>

IsolateInit ==
  /\ thread = "creating"
  /\ asked = [r \in Requests |-> [kind |-> "none", at |-> "new"]]
  /\ liveTimers = {} /\ timers = {} /\ pending = {}
  /\ handles = [r \in Requests |-> 0]
  /\ bridge = TRUE
  /\ channel = [open |-> TRUE, told |-> FALSE]
  /\ inFlight = {}
  /\ seen = [cleared |-> {}, ranCleared |-> {}, checkedBeside |-> {}, atEnd |-> {}]

Move(r, where) == asked' = [asked EXCEPT ![r].at = where]

\* Isolate.create and the bundle's evaluation, either of which may fail
Boot(ok) ==
  /\ thread = "creating"
  /\ thread' = IF ok THEN "running" ELSE "none"
  /\ UNCHANGED <<asked, liveTimers, timers, pending, handles, hostVars, seen>>

\* __host_request: the thread arms the timer, or passes the fetch to the host
Hold(r) ==
  /\ pending' = pending \cup {r}
  /\ handles' = [handles EXCEPT ![r] = @ + 1]

Ask(r, kind) ==
  /\ thread = "running"
  /\ asked[r].at = "new" /\ \A q \in 1 .. (r - 1) : asked[q].at # "new"
  /\ asked' = [asked EXCEPT ![r] = [kind |-> kind, at |-> "asked"]]
  /\ Hold(r)
  /\ liveTimers' = IF kind = "fetch" THEN liveTimers ELSE liveTimers \cup {r}
  /\ timers' = IF kind = "fetch" THEN timers ELSE timers \cup {r}
  /\ UNCHANGED <<thread, hostVars, seen>>

\* clearTimeout and clearInterval: nobody settles the request of a timer that is cancelled
Clear(r) ==
  /\ thread = "running" /\ r \in liveTimers
  /\ liveTimers' = liveTimers \ {r}
  /\ timers' = timers \ {r}
  /\ seen' = [seen EXCEPT !.cleared = @ \cup {r}]
  /\ UNCHANGED <<thread, asked, pending, handles, hostVars>>

TimerFires(r) ==
  /\ r \in timers
  /\ timers' = timers \ {r}
  /\ Move(r, "answered")
  /\ UNCHANGED <<thread, liveTimers, pending, handles, hostVars, seen>>

Free(freed) == handles' = [r \in Requests |-> IF r \in freed THEN handles[r] - 1 ELSE handles[r]]

\* the callback has run: an interval, unless its callback clears it, is asked for again
Ticks(r, clears) ==
  IF asked[r].kind = "interval" /\ ~clears
  THEN /\ timers' = timers \cup {r}
       /\ Move(r, "asked")
       /\ UNCHANGED <<liveTimers, pending, handles>>
  ELSE /\ liveTimers' = liveTimers \ {r}
       /\ Move(r, "over")
       /\ pending' = pending \ {r}
       /\ Free({r})
       /\ UNCHANGED timers

Finish_KeepsEntry(r, clears) ==
  /\ thread = "running" /\ asked[r].at = "answered" /\ r \in pending
  /\ IF r \in liveTimers
     THEN Ticks(r, clears) /\ seen' = [seen EXCEPT !.ranCleared = @ \cup ({r} \cap seen.cleared)]
     ELSE /\ Move(r, "over")
          /\ Free({r})
          /\ UNCHANGED <<liveTimers, timers, pending, seen>>
  /\ UNCHANGED <<thread, hostVars>>

\* finish: the promise settles, its handle is freed and the guest's reactions run
Finish(r, clears) ==
  /\ thread = "running" /\ asked[r].at = "answered" /\ r \in pending
  /\ IF r \in liveTimers
     THEN Ticks(r, clears) /\ seen' = [seen EXCEPT !.ranCleared = @ \cup ({r} \cap seen.cleared)]
     ELSE /\ Move(r, "over")
          /\ pending' = pending \ {r}
          /\ Free({r})
          /\ UNCHANGED <<liveTimers, timers, seen>>
  /\ UNCHANGED <<thread, hostVars>>

-----------------------------------------------------------------------------
(* The fetch bridge *)

LookedUp == {r \in Requests : asked[r].at = "lookup"}

\* the host's reply, which a channel that is closed does not post
RpcReply(r) == Move(r, IF channel.open THEN "answered" ELSE "unanswered")

ReceiveFetch_Uncapped(r) ==
  /\ asked[r].kind = "fetch" /\ asked[r].at = "asked"
  /\ Move(r, "lookup")
  /\ seen' = [seen EXCEPT !.checkedBeside = @ \cup (IF LookedUp = {} THEN {} ELSE {r})]
  /\ UNCHANGED <<threadVars, hostVars>>

\* the cap counts what is in flight, and not what is being looked up
ReceiveFetch(r) ==
  /\ asked[r].kind = "fetch" /\ asked[r].at = "asked"
  /\ IF Cardinality(inFlight) >= MaxFetches THEN RpcReply(r) ELSE Move(r, "lookup")
  /\ seen' = [seen EXCEPT !.checkedBeside = @ \cup (IF LookedUp = {} THEN {} ELSE {r})]
  /\ UNCHANGED <<threadVars, hostVars>>

Resolve(r, allowed) ==
  /\ asked[r].at = "lookup"
  /\ IF allowed THEN Move(r, "fetching") ELSE RpcReply(r)
  /\ inFlight' = IF allowed THEN inFlight \cup {r} ELSE inFlight
  /\ UNCHANGED <<threadVars, bridge, channel, seen>>

\* the network answers, or the bridge has aborted it
Fetched(r) ==
  /\ asked[r].at \in {"fetching", "aborted"}
  /\ RpcReply(r)
  /\ inFlight' = inFlight \ {r}
  /\ UNCHANGED <<threadVars, bridge, channel, seen>>

\* Rpc.close and Rpc.emit at the host's end: a channel that is closed posts nothing
ClosedPort(port) == [port EXCEPT !.open = FALSE]
EmitShutdown(port) == [port EXCEPT !.told = port.open]

\* #fail of the host's worker: its bridges are disposed, its channel is closed, and it emits
\* "shutdown", in this order
HostEnds ==
  /\ bridge
  /\ bridge' = FALSE
  /\ inFlight' = {}
  /\ asked' = [r \in Requests |-> IF r \in inFlight THEN [asked[r] EXCEPT !.at = "aborted"]
                               ELSE asked[r]]
  /\ channel' = EmitShutdown(ClosedPort(channel))
  /\ seen' = [seen EXCEPT !.atEnd = LookedUp \cup {r \in Requests : asked[r].at \in {"asked", "new"}}]
  /\ UNCHANGED threadVars

\* and its thread is terminated, which runs nothing in it
Terminate ==
  /\ ~bridge /\ thread \notin {"gone", "terminated"}
  /\ thread' = "terminated"
  /\ timers' = {}
  /\ UNCHANGED <<asked, liveTimers, pending, handles, hostVars, seen>>

\* told so, or by an exception of the harness's own, the thread shuts down: timers are cleared,
\* and dispose frees every deferred that is pending
Shutdown ==
  /\ thread \in {"running", "none"}
  /\ thread' = "gone"
  /\ timers' = {} /\ pending' = {}
  /\ Free(pending)
  /\ UNCHANGED <<asked, liveTimers, hostVars, seen>>

IsolateNext ==
  \/ \E ok \in BOOLEAN : Boot(ok)
  \/ \E r \in Requests :
       \/ \E kind \in {"timeout", "interval", "fetch"} : Ask(r, kind)
       \/ Clear(r) \/ TimerFires(r) \/ ReceiveFetch(r) \/ Fetched(r)
       \/ \E choice \in BOOLEAN : Resolve(r, choice) \/ Finish(r, choice)
  \/ HostEnds \/ Terminate \/ Shutdown

IsolateSpec == IsolateInit /\ [][IsolateNext]_isolateVars

-----------------------------------------------------------------------------

(***************************************************************************)
(* A timer that was cleared never runs its callback, however late its      *)
(* request settles, and the thread holds none that the guest has cleared   *)
(* (isolate-thread.ts:116-118).  isolate.ts:420-422: a thread that shuts   *)
(* down has freed every deferred, and none is ever freed twice, either of  *)
(* which would abort the process.                                          *)
(***************************************************************************)
TimersAndHandles ==
  /\ seen.ranCleared = {}
  /\ timers \cap seen.cleared = {}
  /\ \A r \in Requests : handles[r] = IF r \in pending THEN 1 ELSE 0
  /\ thread = "gone" => pending = {} /\ timers = {}

(***************************************************************************)
(* fetch-bridge-host.ts:32: no more fetches are in flight than the cap     *)
(* allows, but for those that were checked while others were looked up;    *)
(* and none is in flight once the bridge is disposed, but for those that   *)
(* had yet to be looked up then.                                           *)
(***************************************************************************)
FetchesBounded ==
  /\ Cardinality(inFlight) <= MaxFetches + Cardinality(inFlight \cap seen.checkedBeside)
  /\ ~bridge => inFlight \subseteq seen.atEnd

=============================================================================
