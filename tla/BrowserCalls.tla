---------------------------- MODULE BrowserCalls ----------------------------
(***************************************************************************)
(* The call path of the browser harness, from the host's fetch() to the    *)
(* worker's respond() and back:                                            *)
(*                                                                         *)
(*   host     browser-harness/src/host/AnonRpcWorker.ts, host page         *)
(*   ports    a MessageChannel, FIFO in each direction                     *)
(*   worker   browser-harness/src/worker/anon-rpc-worker-api.ts, the       *)
(*            harness's half of the dedicated worker                       *)
(*   bundle   the code that calls acceptCall() and respond()               *)
(*                                                                         *)
(* JavaScript runs one task at a time and drains the microtasks before the *)
(* next.  A handler that resumes after its await is a microtask: `replies` *)
(* holds those that will resume, oldest first, and no task of the host     *)
(* (a message, a boot step) starts while there is one.  Host code -        *)
(* fetch(), an AbortController, close() - may itself run in a microtask:   *)
(* the model lets it run between any two of them.                          *)
(*                                                                         *)
(* A definition named X_Why is X with a plausible slip, which a property   *)
(* has to notice; the specification uses none of them.                     *)
(***************************************************************************)
EXTENDS CallQueue, Naturals

CONSTANTS
  Calls,       \* the fetch() calls the host makes
  Accepts,     \* acceptCall() requests the worker may have outstanding at once
  Signalled,   \* the calls made with an AbortSignal
  Bodied,      \* the calls whose body is transferred, not cloned
  Signals,     \* the signals the bundle may send, each once (bound)
  MaxAborts    \* how many acceptCall()s the bundle aborts (bound)

ASSUME CallsAssumption == Signalled \subseteq Calls /\ Bodied \subseteq Calls
ASSUME SignalsAssumption == Signals \subseteq {"ready", "failed"}
ASSUME AbortsAssumption == MaxAborts \in Nat

VARIABLES
  \* the host
  outcome,     \* the promise each fetch() returned
  calls,       \* #calls: the registered, unsettled calls
  queue,       \* #queue
  replies,     \* handlers that resume before the next task, with what they post
  detached,    \* the bodies a post has already transferred
  aborted,     \* the calls whose host signal has fired
  failed,      \* #failure is set
  closed,      \* close() was called
  ready,       \* the `ready` promise
  boot,        \* how far #boot has come
  \* the ports
  toWorker,
  toHost,
  \* the worker
  accept,      \* what became of each outstanding acceptCall()
  callAborts,  \* calls with an AbortController
  preAborted,  \* calls aborted before they arrived
  told,        \* calls whose AbortController has fired
  answered,    \* calls the bundle has responded to
  signals,     \* the signals the bundle has sent
  aborts,      \* how many acceptCall()s the bundle has aborted
  \* history
  issued,      \* the calls in the order of their ids
  late,        \* the calls registered after the failure
  handed       \* the calls in the order the bundle got them

hostVars == <<outcome, calls, queue, replies, detached, aborted, failed, closed, ready, boot>>
workerVars == <<accept, callAborts, preAborted, told, answered, signals, aborts, handed>>
vars == <<hostVars, toWorker, toHost, workerVars, issued, late>>

-----------------------------------------------------------------------------
(* Messages. *)

Delivery(a, c) == [kind |-> "delivery", acc |-> a, call |-> c]
Refusal(a) == [kind |-> "refusal", acc |-> a]
CallAbort(c) == [kind |-> "call-abort", call |-> c]
Responded(c) == [kind |-> "responded", call |-> c]

Accept(a) == [kind |-> "acceptCall", acc |-> a]
Requeue(c) == [kind |-> "requeue-call", call |-> c]
Respond(c, ok) == [kind |-> "respond", call |-> c, ok |-> ok]
Signal(s) == [kind |-> s]

Reply ==
  {Delivery(a, c) : a \in Accepts, c \in Calls}
    \cup {Refusal(a) : a \in Accepts} \cup {Responded(c) : c \in Calls}

ToWorker == Reply \cup {CallAbort(c) : c \in Signalled}

ToHost ==
  {Accept(a) : a \in Accepts} \cup {Requeue(c) : c \in Calls}
    \cup {Respond(c, ok) : c \in Calls, ok \in BOOLEAN}
    \cup {Signal(s) : s \in {"ready", "failed"}}

-----------------------------------------------------------------------------

TypeOK ==
  /\ outcome \in [Calls -> {"idle", "normalizing", "pending", "resolved", "rejected"}]
  /\ calls \subseteq Calls
  /\ queue \in QueueOf(Calls, Accepts)
  /\ replies \in Seq(Reply)
  /\ detached \subseteq Bodied
  /\ aborted \subseteq Signalled
  /\ failed \in BOOLEAN
  /\ closed \in BOOLEAN
  /\ ready \in {"pending", "resolved", "rejected"}
  /\ boot \in {"loading", "framed", "up", "gone"}
  /\ toWorker \in Seq(ToWorker)
  /\ toHost \in Seq(ToHost)
  /\ accept \in [Accepts -> {"free", "pending", "abandoned"}]
  /\ callAborts \subseteq Signalled
  /\ preAborted \subseteq Signalled
  /\ told \subseteq Signalled
  /\ answered \subseteq Calls
  /\ signals \subseteq {"ready", "failed"}
  /\ aborts \in 0 .. MaxAborts
  /\ issued \in Seq(Calls)
  /\ late \subseteq Calls
  /\ handed \in Seq(Calls)

Init ==
  /\ outcome = [c \in Calls |-> "idle"]
  /\ calls = {}
  /\ queue = EmptyQueue
  /\ replies = <<>>
  /\ detached = {}
  /\ aborted = {}
  /\ failed = FALSE
  /\ closed = FALSE
  /\ ready = "pending"
  /\ boot = "loading"
  /\ toWorker = <<>>
  /\ toHost = <<>>
  /\ accept = [a \in Accepts |-> "free"]
  /\ callAborts = {}
  /\ preAborted = {}
  /\ told = {}
  /\ answered = {}
  /\ signals = {}
  /\ aborts = 0
  /\ issued = <<>>
  /\ late = {}
  /\ handed = <<>>

-----------------------------------------------------------------------------
(* The host. *)

Tick == replies = <<>>   \* the microtasks are drained: a task may start

WorkerUp == boot = "up"

\* postMessage: into the port while the worker lives, nowhere otherwise
Post(m) == toWorker' = IF WorkerUp THEN Append(toWorker, m) ELSE toWorker

\* the acceptCall handlers a queue operation resumes
Deliveries(given) == [i \in DOMAIN given |-> Delivery(given[i].taker, given[i].item)]

QueueStep(step) ==
  /\ queue' = step.queue
  /\ replies' = replies \o Deliveries(step.given)

Refusals(takers) == [i \in DOMAIN takers |-> Refusal(takers[i])]

\* only the queue's items are rejected, not what the worker already has
Fail_QueuedOnly ==
  IF failed
  THEN UNCHANGED <<failed, ready, outcome, calls, queue, replies>>
  ELSE /\ failed' = TRUE
       /\ ready' = IF ready = "pending" THEN "rejected" ELSE ready
       /\ outcome' = [c \in Calls |-> IF IsQueued(queue, c) THEN "rejected" ELSE outcome[c]]
       /\ calls' = calls \ ToSet(queue.items)
       /\ queue' = RejectAll(queue)
       /\ replies' = replies \o Refusals(queue.takers)

\* rejectAll is trusted to reject the queued calls
Fail_TrustsQueue ==
  IF failed
  THEN UNCHANGED <<failed, ready, outcome, calls, queue, replies>>
  ELSE /\ failed' = TRUE
       /\ ready' = IF ready = "pending" THEN "rejected" ELSE ready
       /\ outcome' = [c \in Calls |-> IF c \in calls /\ ~IsQueued(queue, c)
                                      THEN "rejected" ELSE outcome[c]]
       /\ calls' = {}
       /\ queue' = RejectAll(queue)
       /\ replies' = replies \o Refusals(queue.takers)

(***************************************************************************)
(* #fail is one-shot.  It rejects `ready`, every registered call and every *)
(* waiting acceptCall; the queue's own items need nothing, being calls.    *)
(***************************************************************************)
Fail ==
  IF failed
  THEN UNCHANGED <<failed, ready, outcome, calls, queue, replies>>
  ELSE /\ failed' = TRUE
       /\ ready' = IF ready = "pending" THEN "rejected" ELSE ready
       /\ outcome' = [c \in Calls |-> IF c \in calls THEN "rejected" ELSE outcome[c]]
       /\ calls' = {}
       /\ queue' = RejectAll(queue)
       /\ replies' = replies \o Refusals(queue.takers)

\* fetch(), up to its first await
Fetch(c) ==
  /\ outcome[c] = "idle"
  /\ outcome' = [outcome EXCEPT ![c] = IF failed THEN "rejected" ELSE "normalizing"]
  /\ UNCHANGED <<calls, queue, replies, detached, aborted, failed, closed, ready, boot>>
  /\ UNCHANGED <<toWorker, toHost, workerVars, issued, late>>

\* normalizeRequest throws: a forwarded entry or a body it cannot read
NormalizeFails(c) ==
  /\ outcome[c] = "normalizing"
  /\ outcome' = [outcome EXCEPT ![c] = "rejected"]
  /\ UNCHANGED <<calls, queue, replies, detached, aborted, failed, closed, ready, boot>>
  /\ UNCHANGED <<toWorker, toHost, workerVars, issued, late>>

(***************************************************************************)
(* fetch(), after its await: give the call its id, register it and queue   *)
(* it, unless its signal fired meanwhile.  Nothing here looks at `failed`. *)
(***************************************************************************)
Register(c) ==
  /\ outcome[c] = "normalizing"
  /\ c \notin aborted
  /\ issued' = Append(issued, c)
  /\ outcome' = [outcome EXCEPT ![c] = "pending"]
  /\ calls' = calls \cup {c}
  /\ QueueStep(Push(queue, c))
  /\ late' = IF failed THEN late \cup {c} ELSE late
  /\ UNCHANGED <<detached, aborted, failed, closed, ready, boot>>
  /\ UNCHANGED <<toWorker, toHost, workerVars>>

RegisterAborted(c) ==
  /\ outcome[c] = "normalizing"
  /\ c \in aborted
  /\ outcome' = [outcome EXCEPT ![c] = "rejected"]
  /\ UNCHANGED <<calls, queue, replies, detached, aborted, failed, closed, ready, boot>>
  /\ UNCHANGED <<toWorker, toHost, workerVars, issued, late>>

\* the host's signal fires before the call has a listener on it
AbortEarly(c) ==
  /\ c \in Signalled \ aborted
  /\ outcome[c] = "normalizing"
  /\ aborted' = aborted \cup {c}
  /\ UNCHANGED <<outcome, calls, queue, replies, detached, failed, closed, ready, boot>>
  /\ UNCHANGED <<toWorker, toHost, workerVars, issued, late>>

\* the call's abort listener: withdraw a queued call, else tell the worker
AbortListener(c) ==
  /\ IF IsQueued(queue, c)
     THEN queue' = RemoveItem(queue, c) /\ UNCHANGED toWorker
     ELSE Post(CallAbort(c)) /\ UNCHANGED queue
  /\ calls' = calls \ {c}
  /\ outcome' = [outcome EXCEPT ![c] = "rejected"]

HostAbort(c) ==
  /\ c \in Signalled \ aborted
  /\ c \in calls
  /\ aborted' = aborted \cup {c}
  /\ AbortListener(c)
  /\ UNCHANGED <<replies, detached, failed, closed, ready, boot>>
  /\ UNCHANGED <<toHost, workerVars, issued, late>>

(***************************************************************************)
(* A handler resumes and posts its response.  A body already transferred   *)
(* cannot be transferred again: postMessage throws and the error is posted *)
(* instead.                                                                *)
(***************************************************************************)
Response(m) ==
  IF m.kind = "delivery" /\ m.call \in detached THEN Refusal(m.acc) ELSE m

PostReply ==
  /\ replies # <<>>
  /\ LET m == Head(replies) IN
       /\ Post(Response(m))
       /\ detached' = IF m.kind = "delivery" THEN detached \cup (Bodied \cap {m.call})
                                             ELSE detached
  /\ replies' = Tail(replies)
  /\ UNCHANGED <<outcome, calls, queue, aborted, failed, closed, ready, boot>>
  /\ UNCHANGED <<toHost, workerVars, issued, late>>

-----------------------------------------------------------------------------
(* The host's message handlers. *)

OnAccept(m) ==
  /\ m.kind = "acceptCall"
  /\ QueueStep(Take(queue, m.acc))
  /\ UNCHANGED <<outcome, calls, failed, ready>>

\* the requeue event is not handled
OnRequeue_Ignored(m) ==
  /\ m.kind = "requeue-call"
  /\ UNCHANGED <<outcome, calls, failed, ready, queue, replies>>

OnRequeue(m) ==
  /\ m.kind = "requeue-call"
  /\ IF m.call \in calls THEN QueueStep(PushFront(queue, m.call))
                         ELSE UNCHANGED <<queue, replies>>
  /\ UNCHANGED <<outcome, calls, failed, ready>>

\* the answer settles the promise whether or not the call is registered
OnRespond_Unchecked(m) ==
  /\ m.kind = "respond"
  /\ calls' = calls \ {m.call}
  /\ outcome' = [outcome EXCEPT ![m.call] = IF m.ok THEN "resolved" ELSE "rejected"]
  /\ replies' = <<Responded(m.call)>>
  /\ UNCHANGED <<queue, failed, ready>>

\* a call no longer registered was aborted: its answer is dropped
OnRespond(m) ==
  /\ m.kind = "respond"
  /\ calls' = calls \ {m.call}
  /\ outcome' = IF m.call \in calls
                THEN [outcome EXCEPT ![m.call] = IF m.ok THEN "resolved" ELSE "rejected"]
                ELSE outcome
  /\ replies' = <<Responded(m.call)>>
  /\ UNCHANGED <<queue, failed, ready>>

OnReady(m) ==
  /\ m.kind = "ready"
  /\ ready' = IF ready = "pending" THEN "resolved" ELSE ready
  /\ UNCHANGED <<outcome, calls, queue, replies, failed>>

OnFailed(m) ==
  /\ m.kind = "failed"
  /\ Fail

HostReceive ==
  /\ Tick
  /\ toHost # <<>>
  /\ LET m == Head(toHost) IN
       OnAccept(m) \/ OnRequeue(m) \/ OnRespond(m) \/ OnReady(m) \/ OnFailed(m)
  /\ toHost' = Tail(toHost)
  /\ UNCHANGED <<detached, aborted, closed, boot, toWorker, workerVars, issued, late>>

-----------------------------------------------------------------------------
(* The worker's life. *)

\* specifier read, bundle fetched: the frame is attached.  `failed` is not looked at.
BootFrame ==
  /\ Tick
  /\ boot = "loading"
  /\ boot' = "framed"
  /\ UNCHANGED <<outcome, calls, queue, replies, detached, aborted, failed, closed, ready>>
  /\ UNCHANGED <<toWorker, toHost, workerVars, issued, late>>

\* no bundle, no provider, a foreign iframeUrl: #boot throws
BootFails ==
  /\ Tick
  /\ boot = "loading"
  /\ boot' = "gone"
  /\ Fail
  /\ UNCHANGED <<detached, aborted, closed, toWorker, toHost, workerVars, issued, late>>

\* the frame is ready: the bundle and the port are posted into it
BootInit ==
  /\ Tick
  /\ boot = "framed"
  /\ boot' = "up"
  /\ UNCHANGED <<outcome, calls, queue, replies, detached, aborted, failed, closed, ready>>
  /\ UNCHANGED <<toWorker, toHost, workerVars, issued, late>>

\* an uncaught error in the worker, reported by the frame and not by the port
WorkerError ==
  /\ Tick
  /\ WorkerUp
  /\ ~failed
  /\ ~closed   \* close() removed the listener
  /\ Fail
  /\ UNCHANGED <<detached, aborted, closed, boot, toWorker, toHost, workerVars, issued, late>>

(***************************************************************************)
(* close() removes the frame, and the worker with it, if there is one yet. *)
(* What the worker had already posted still arrives.                       *)
(***************************************************************************)
Close ==
  /\ closed' = TRUE
  /\ boot' = IF boot = "loading" THEN boot ELSE "gone"
  /\ toWorker' = <<>>
  /\ Fail
  /\ UNCHANGED <<detached, aborted, toHost, workerVars, issued, late>>

-----------------------------------------------------------------------------
(* The worker's harness and the bundle. *)

AcceptCall(a) ==
  /\ WorkerUp
  /\ accept[a] = "free"
  /\ accept' = [accept EXCEPT ![a] = "pending"]
  /\ toHost' = Append(toHost, Accept(a))
  /\ UNCHANGED <<callAborts, preAborted, told, answered, signals, aborts, handed>>
  /\ UNCHANGED <<hostVars, toWorker, issued, late>>

\* acceptCall's signal fires: the request itself stays with the host
AbortAccept(a) ==
  /\ WorkerUp
  /\ accept[a] = "pending"
  /\ aborts < MaxAborts
  /\ aborts' = aborts + 1
  /\ accept' = [accept EXCEPT ![a] = "abandoned"]
  /\ UNCHANGED <<callAborts, preAborted, told, answered, signals, handed>>
  /\ UNCHANGED <<hostVars, toWorker, toHost, issued, late>>

\* respond()'s promise settles and the answer is posted; respond() works once
RespondTo(c, ok) ==
  /\ WorkerUp
  /\ Contains(handed, c)
  /\ c \notin answered
  /\ answered' = answered \cup {c}
  /\ toHost' = Append(toHost, Respond(c, ok))
  /\ UNCHANGED <<accept, callAborts, preAborted, told, signals, aborts, handed>>
  /\ UNCHANGED <<hostVars, toWorker, issued, late>>

\* signalReady(), signalFailed(), or a bundle that throws while it loads
SendSignal(s) ==
  /\ WorkerUp
  /\ s \notin signals
  /\ signals' = signals \cup {s}
  /\ toHost' = Append(toHost, Signal(s))
  /\ UNCHANGED <<accept, callAborts, preAborted, told, answered, aborts, handed>>
  /\ UNCHANGED <<hostVars, toWorker, issued, late>>

\* a controller for every call
Controller_Always(c) == {c}

\* an AbortController is made for a call that came with a signal
Controller(c) == Signalled \cap {c}

(***************************************************************************)
(* The response to acceptCall.  The bundle gets the call, with a signal if *)
(* the host has one for it, already fired if the abort overtook the call.  *)
(* If the bundle aborted the acceptCall meanwhile the call goes back.      *)
(***************************************************************************)
OnDelivery(m) ==
  /\ m.kind = "delivery"
  /\ accept' = [accept EXCEPT ![m.acc] = "free"]
  /\ IF accept[m.acc] = "abandoned"
     THEN /\ toHost' = Append(toHost, Requeue(m.call))
          /\ UNCHANGED <<handed, callAborts, preAborted, told>>
     ELSE /\ handed' = Append(handed, m.call)
          /\ callAborts' = callAborts \cup Controller(m.call)
          /\ told' = told \cup (preAborted \cap {m.call})
          /\ preAborted' = preAborted \ {m.call}
          /\ UNCHANGED toHost

OnRefusal(m) ==
  /\ m.kind = "refusal"
  /\ accept' = [accept EXCEPT ![m.acc] = "free"]
  /\ UNCHANGED <<toHost, handed, callAborts, preAborted, told>>

\* an abort for a call that has not arrived is dropped
OnCallAbort_NoMemory(m) ==
  /\ m.kind = "call-abort"
  /\ told' = told \cup (callAborts \cap {m.call})
  /\ UNCHANGED <<toHost, accept, handed, callAborts, preAborted>>

OnCallAbort(m) ==
  /\ m.kind = "call-abort"
  /\ IF m.call \in callAborts
     THEN told' = told \cup {m.call} /\ UNCHANGED preAborted
     ELSE preAborted' = preAborted \cup {m.call} /\ UNCHANGED told
  /\ UNCHANGED <<toHost, accept, handed, callAborts>>

OnResponded(m) ==
  /\ m.kind = "responded"
  /\ callAborts' = callAborts \ {m.call}
  /\ UNCHANGED <<toHost, accept, handed, preAborted, told>>

WorkerReceive ==
  /\ WorkerUp
  /\ toWorker # <<>>
  /\ LET m == Head(toWorker) IN
       OnDelivery(m) \/ OnRefusal(m) \/ OnCallAbort(m) \/ OnResponded(m)
  /\ toWorker' = Tail(toWorker)
  /\ UNCHANGED <<answered, signals, aborts, hostVars, issued, late>>

-----------------------------------------------------------------------------

HostStep(c) ==
  \/ Fetch(c) \/ NormalizeFails(c) \/ Register(c) \/ RegisterAborted(c)
  \/ AbortEarly(c) \/ HostAbort(c)

BundleStep ==
  \/ \E a \in Accepts : AcceptCall(a) \/ AbortAccept(a)
  \/ \E c \in Calls, ok \in BOOLEAN : RespondTo(c, ok)
  \/ \E s \in Signals : SendSignal(s)

Next ==
  \/ \E c \in Calls : HostStep(c)
  \/ PostReply \/ HostReceive \/ WorkerReceive
  \/ BootFrame \/ BootFails \/ BootInit \/ WorkerError \/ Close
  \/ BundleStep

Spec == Init /\ [][Next]_vars

(***************************************************************************)
(* The event loops run what is runnable and the ports deliver; a body that *)
(* is being read ends; the boot ends one way or the other.  The last two   *)
(* conjuncts are the bundle's part, as in passthrough-worker/src: it keeps *)
(* accepting and answers what it is given.                                 *)
(***************************************************************************)
Fairness ==
  /\ WF_vars(PostReply) /\ WF_vars(HostReceive) /\ WF_vars(WorkerReceive)
  /\ WF_vars(BootFrame \/ BootFails) /\ WF_vars(BootInit)
  /\ \A c \in Calls : WF_vars(Register(c) \/ RegisterAborted(c) \/ NormalizeFails(c))
  /\ WF_vars(\E a \in Accepts : AcceptCall(a))
  /\ \A c \in Calls : WF_vars(\E ok \in BOOLEAN : RespondTo(c, ok))

FairSpec == Spec /\ Fairness

-----------------------------------------------------------------------------
(* Where a registered call can be. *)

InReplies(c) == {i \in DOMAIN replies : replies[i].kind = "delivery" /\ replies[i].call = c}
InQueue(c) == {i \in DOMAIN queue.items : queue.items[i] = c}
InDelivery(c) == {i \in DOMAIN toWorker : toWorker[i].kind = "delivery" /\ toWorker[i].call = c}
InReturn(c) ==
  {i \in DOMAIN toHost : toHost[i].kind \in {"requeue-call", "respond"} /\ toHost[i].call = c}
InBundle(c) == {i \in DOMAIN handed : handed[i] = c /\ c \notin answered}

Copies(c) ==
  Cardinality(InQueue(c)) + Cardinality(InReplies(c)) + Cardinality(InDelivery(c))
    + Cardinality(InReturn(c)) + Cardinality(InBundle(c))

(***************************************************************************)
(* SPEC.md 8, no drop and no duplication: a call the host waits for is in  *)
(* exactly one place - the queue, a resuming handler, on its way to the    *)
(* worker, in the bundle's hands, or on its way back - whatever the        *)
(* bundle's acceptCalls and the host's aborts did in between.  Calls that  *)
(* came after the failure have no worker to reach; and one whose body is   *)
(* transferred is lost by a requeue, for the second post of it throws      *)
(* after it left the queue.                                                *)
(***************************************************************************)
InOnePlace == \A c \in calls \ (late \cup Bodied) : Copies(c) = 1

(***************************************************************************)
(* The bundle never gets a call twice, although the same record can be     *)
(* taken from the queue and put back any number of times.                  *)
(***************************************************************************)
HandedOnce == IsInjective(handed)

(***************************************************************************)
(* The queue holds only calls the host still waits for: an aborted or      *)
(* failed call is withdrawn and a requeue cannot bring it back.            *)
(***************************************************************************)
OnlyLiveQueued == ToSet(queue.items) \subseteq calls

(***************************************************************************)
(* A fetch() promise is pending exactly while the call is registered: no   *)
(* path drops the record of a promise without settling it.                 *)
(***************************************************************************)
NoForgottenPromise == \A c \in Calls : outcome[c] = "pending" <=> c \in calls

(***************************************************************************)
(* Whatever was registered when the worker failed or was closed is settled *)
(* by the failure; only calls registered after it remain.                  *)
(***************************************************************************)
FailureSettles == failed => calls \subseteq late

(***************************************************************************)
(* An abort is never lost: once the host's signal fired for a call the     *)
(* bundle has, the call's own signal has fired or is about to, even when   *)
(* the abort overtook the call.                                            *)
(***************************************************************************)
AbortReachesBundle ==
  \A c \in aborted :
    WorkerUp /\ Contains(handed, c) => c \in told \/ Contains(toWorker, CallAbort(c))

(***************************************************************************)
(* SPEC.md 8: the bundle gets the calls in the order of their ids, as long *)
(* as it aborts no acceptCall.  One that comes back after an abort may be  *)
(* overtaken by a later call.                                              *)
(***************************************************************************)
HandedInOrder ==
  aborts = 0 =>
    \A i, j \in DOMAIN handed, m, n \in DOMAIN issued :
      i < j /\ issued[m] = handed[i] /\ issued[n] = handed[j] => m < n

(***************************************************************************)
(* SPEC.md 8, of a call on its way through the queue: it is in one place,  *)
(* goes to the bundle once and in its turn, is withdrawn by what settles   *)
(* it, and its abort follows it.                                           *)
(***************************************************************************)
CallsKept ==
  InOnePlace /\ HandedOnce /\ OnlyLiveQueued /\ AbortReachesBundle /\ HandedInOrder

(***************************************************************************)
(* SPEC.md 5: all pending and future calls fail with the worker, nothing   *)
(* hangs awaiting a worker that will never serve.                          *)
(***************************************************************************)
NothingHangs == \A c \in Calls : (outcome[c] = "pending") ~> (outcome[c] # "pending")

(***************************************************************************)
(* A bundle that keeps accepting and answering, and that aborts only       *)
(* boundedly many acceptCalls, leaves no registered call unsettled: all    *)
(* are settled again and again, the calls being bounded.                   *)
(***************************************************************************)
EventuallySettled == []<>(calls \subseteq late \cup Bodied)

(***************************************************************************)
(* The call path implements the service promised to the host.              *)
(***************************************************************************)
Service == INSTANCE CallService WITH
  Late <- {},
  entered <- ToSet(issued),
  reached <- ToSet(handed),
  replied <- answered,
  dead <- failed

ImplementsService == Service!Spec

=============================================================================
