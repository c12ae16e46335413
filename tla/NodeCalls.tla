------------------------------- MODULE NodeCalls -------------------------------
(***************************************************************************)
(* The call path of the node harness, from the host's fetch() to the       *)
(* guest's respond() and back:                                             *)
(*                                                                         *)
(*   host     node-harness/src/host/AnonRpcWorker.ts and protocol.ts       *)
(*   ports    the worker_thread's message port, FIFO in each direction     *)
(*   thread   node-harness/src/child/isolate-thread.ts                     *)
(*   guest    child/prelude.guest.js and the bundle, run by the thread     *)
(*                                                                         *)
(* It differs from BrowserCalls where the code does.  An aborted           *)
(* acceptCall() is withdrawn by a message instead of being handed back, a  *)
(* call is recorded as in flight by the handler that resumes after take(), *)
(* and the thread outlives the failure until it is terminated.             *)
(*                                                                         *)
(* `resuming` holds the host's handlers that resume as microtasks, oldest  *)
(* first: no task of the host (a message, an event of the thread) starts   *)
(* while there is one.  Host code - fetch(), an AbortController, close() - *)
(* may itself run in a microtask and so between them, unless they resume   *)
(* from a message of the guest that is none of the host code's business.   *)
(*                                                                         *)
(* A definition named X_Why is X with a plausible slip, which a property   *)
(* has to notice; the specification uses none of them.                     *)
(***************************************************************************)
EXTENDS CallQueue, Naturals

CONSTANTS
  Calls,       \* the fetch() calls the host makes
  Accepts,     \* acceptCall() requests the host may owe an answer at once
  Signalled,   \* the calls made with an AbortSignal
  Signals,     \* the signals the guest may send, each once (bound)
  Twice,       \* the calls the guest may call respond() on a second time (bound)
  MaxAborts    \* how many acceptCall()s the guest aborts (bound)

ASSUME CallsAssumption == Signalled \subseteq Calls /\ Twice \subseteq Calls
ASSUME SignalsAssumption == Signals \subseteq {"ready", "failed"}
ASSUME BoundsAssumption == MaxAborts \in Nat

VARIABLES
  \* the host
  outcome,     \* the promise each fetch() returned
  queue,       \* #queue
  resuming,    \* handlers that resume before the next task
  quiet,       \* the handlers resume from a message the host code is not told of
  inFlight,    \* #inFlight
  aborted,     \* the calls whose host signal has fired
  dead,        \* #dead is set
  ready,       \* the `ready` promise
  thread,      \* how far #boot and the thread have come
  \* the ports
  toThread,
  toHost,
  \* the thread and the guest
  accept,      \* what became of each outstanding acceptCall()
  controllers, \* the prelude's inFlight: calls with an AbortController
  told,        \* calls whose AbortController has fired
  reading,     \* answers whose body the prelude is reading
  answers,     \* how often respond() was called on each call
  signals,     \* the signals the guest has sent
  aborts,      \* how many acceptCall()s the guest has aborted
  \* history
  issued,      \* the calls in the order of their ids
  late,        \* the calls registered after the failure
  slipped,     \* the calls the failure, an abandoned acceptCall() or an abort let slip
  handed       \* the calls in the order the guest got them

callerVars == <<outcome, aborted, issued, late>>
hostVars == <<queue, resuming, quiet, inFlight, dead, ready>>
guestVars == <<accept, controllers, told, reading, answers, signals, aborts, handed>>
vars == <<callerVars, hostVars, slipped, thread, toThread, toHost, guestVars>>

-----------------------------------------------------------------------------
(* Messages, and the handlers that resume. *)

Delivery(a, c) == [kind |-> "delivery", acc |-> a, call |-> c]
Refusal(a) == [kind |-> "refusal", acc |-> a]
CallAbort(c) == [kind |-> "call.abort", call |-> c]

Accept(a) == [kind |-> "call.accept", acc |-> a]
Withdraw(a) == [kind |-> "abort", acc |-> a]
Answer(c, ok) == [kind |-> "answer", call |-> c, ok |-> ok]
Signal(s) == [kind |-> s]

Served(m) == [at |-> "take", msg |-> m]     \* take() has settled
Replying(m) == [at |-> "reply", msg |-> m]  \* the handler has returned

Reply == {Delivery(a, c) : a \in Accepts, c \in Calls} \cup {Refusal(a) : a \in Accepts}

ToThread == Reply \cup {CallAbort(c) : c \in Signalled}

ToHost ==
  {Accept(a) : a \in Accepts} \cup {Withdraw(a) : a \in Accepts}
    \cup {Answer(c, ok) : c \in Calls, ok \in BOOLEAN}
    \cup {Signal(s) : s \in {"ready", "failed"}}

Handler == [at : {"take", "reply"}, msg : Reply]

TypeOK ==
  /\ outcome \in [Calls -> {"idle", "normalizing", "pending", "resolved", "rejected"}]
  /\ queue \in QueueOf(Calls, Accepts)
  /\ resuming \in Seq(Handler)
  /\ quiet \in BOOLEAN
  /\ inFlight \subseteq Calls
  /\ aborted \subseteq Signalled
  /\ dead \in BOOLEAN
  /\ ready \in {"pending", "resolved", "rejected"}
  /\ thread \in {"reading", "up", "gone"}
  /\ toThread \in Seq(ToThread)
  /\ toHost \in Seq(ToHost)
  /\ accept \in [Accepts -> {"free", "pending", "abandoned"}]
  /\ controllers \subseteq Calls
  /\ told \subseteq Signalled
  /\ reading \in Seq(Calls)
  /\ answers \in [Calls -> 0 .. 2]
  /\ signals \subseteq Signals
  /\ aborts \in 0 .. MaxAborts
  /\ issued \in Seq(Calls)
  /\ late \subseteq Calls
  /\ slipped \subseteq Calls
  /\ handed \in Seq(Calls)

Init ==
  /\ outcome = [c \in Calls |-> "idle"]
  /\ queue = EmptyQueue
  /\ resuming = <<>>
  /\ quiet = FALSE
  /\ inFlight = {}
  /\ aborted = {}
  /\ dead = FALSE
  /\ ready = "pending"
  /\ thread = "reading"
  /\ toThread = <<>>
  /\ toHost = <<>>
  /\ accept = [a \in Accepts |-> "free"]
  /\ controllers = {}
  /\ told = {}
  /\ reading = <<>>
  /\ answers = [c \in Calls |-> 0]
  /\ signals = {}
  /\ aborts = 0
  /\ issued = <<>>
  /\ late = {}
  /\ slipped = {}
  /\ handed = <<>>

-----------------------------------------------------------------------------
(* The host. *)

Tick == resuming = <<>>   \* the microtasks are drained: a task may start

HostCode == Tick \/ ~quiet   \* the host's code may be running

\* emit() and a handler's response: nothing leaves a closed channel
Emit(m) == toThread' = IF dead THEN toThread ELSE Append(toThread, m)

\* the call.accept handlers whose take() settles
Deliveries(given) == [i \in DOMAIN given |-> Served(Delivery(given[i].taker, given[i].item))]

Refusals(takers) == [i \in DOMAIN takers |-> Served(Refusal(takers[i]))]

QueueStep(step) ==
  /\ queue' = step.queue
  /\ resuming' = resuming \o Deliveries(step.given)

\* calls that left the queue and are not in flight yet
CallOf(m) == IF m.kind = "delivery" THEN {m.call} ELSE {}

Between == UNION {CallOf(h.msg) : h \in {g \in ToSet(resuming) : g.at = "take"}}

(***************************************************************************)
(* #fail is one-shot.  It rejects `ready`, the queued calls and those in   *)
(* flight, the waiting acceptCalls (whose response goes nowhere, the       *)
(* channel being closed).  The thread is terminated, which takes a while.  *)
(***************************************************************************)
Fail ==
  IF dead
  THEN UNCHANGED <<outcome, hostVars, slipped>>
  ELSE /\ dead' = TRUE
       /\ ready' = IF ready = "pending" THEN "rejected" ELSE ready
       /\ outcome' = [c \in Calls |-> IF IsQueued(queue, c) \/ c \in inFlight
                                      THEN "rejected" ELSE outcome[c]]
       /\ queue' = RejectAll(queue)
       /\ resuming' = resuming \o Refusals(queue.takers)
       /\ inFlight' = {}
       /\ slipped' = slipped \cup Between
       /\ quiet' = FALSE

\* fetch(), up to its first await
Fetch(c) ==
  /\ HostCode
  /\ outcome[c] = "idle"
  /\ outcome' = [outcome EXCEPT ![c] = IF dead THEN "rejected" ELSE "normalizing"]
  /\ UNCHANGED <<aborted, issued, late, hostVars, slipped, thread, toThread, toHost, guestVars>>

\* normalizeRequest throws: a bad URL, a forwarded entry that is not plain
NormalizeFails(c) ==
  /\ HostCode
  /\ outcome[c] = "normalizing"
  /\ outcome' = [outcome EXCEPT ![c] = "rejected"]
  /\ UNCHANGED <<aborted, issued, late, hostVars, slipped, thread, toThread, toHost, guestVars>>

(***************************************************************************)
(* fetch(), after its await: give the call its id and queue it, unless its *)
(* signal fired meanwhile.  Nothing here looks at `dead`.                  *)
(***************************************************************************)
Register(c) ==
  /\ HostCode
  /\ outcome[c] = "normalizing"
  /\ c \notin aborted
  /\ outcome' = [outcome EXCEPT ![c] = "pending"]
  /\ issued' = Append(issued, c)
  /\ QueueStep(Push(queue, c))
  /\ late' = IF dead THEN late \cup {c} ELSE late
  /\ quiet' = FALSE
  /\ UNCHANGED <<aborted, inFlight, dead, ready, slipped, thread, toThread, toHost, guestVars>>

RegisterAborted(c) ==
  /\ HostCode
  /\ outcome[c] = "normalizing"
  /\ c \in aborted
  /\ outcome' = [outcome EXCEPT ![c] = "rejected"]
  /\ UNCHANGED <<aborted, issued, late, hostVars, slipped, thread, toThread, toHost, guestVars>>

\* the host's signal fires before the call has a listener on it
AbortEarly(c) ==
  /\ HostCode
  /\ c \in Signalled \ aborted
  /\ outcome[c] = "normalizing"
  /\ aborted' = aborted \cup {c}
  /\ UNCHANGED <<outcome, issued, late, hostVars, slipped, thread, toThread, toHost, guestVars>>

(***************************************************************************)
(* The call's abort listener, which runs once: withdraw a queued call, or  *)
(* tell the guest of one in flight and reject it.  A call that is between  *)
(* the two is neither.                                                     *)
(***************************************************************************)
AbortListener(c) ==
  /\ outcome' = IF IsQueued(queue, c) \/ c \in inFlight
                THEN [outcome EXCEPT ![c] = "rejected"] ELSE outcome
  /\ queue' = RemoveItem(queue, c)
  /\ inFlight' = inFlight \ {c}
  /\ IF c \in inFlight THEN Emit(CallAbort(c)) ELSE toThread' = toThread

HostAbort(c) ==
  /\ HostCode
  /\ c \in Signalled \ aborted
  /\ outcome[c] = "pending"
  /\ aborted' = aborted \cup {c}
  /\ AbortListener(c)
  /\ UNCHANGED <<issued, late, resuming, quiet, dead, ready, slipped, thread, toHost, guestVars>>

\* the call is not recorded when take() gives it
Resume_NotRecorded ==
  /\ resuming # <<>>
  /\ LET h == Head(resuming) IN
       IF h.at = "take"
       THEN resuming' = Append(Tail(resuming), Replying(h.msg)) /\ UNCHANGED <<inFlight, toThread>>
       ELSE resuming' = Tail(resuming) /\ inFlight' = inFlight /\ Emit(h.msg)
  /\ UNCHANGED <<callerVars, queue, quiet, dead, ready, slipped, thread, toHost, guestVars>>

(***************************************************************************)
(* A call.accept handler resumes after take(), records the call as in      *)
(* flight and returns; or its response is posted.                          *)
(***************************************************************************)
Resume ==
  /\ resuming # <<>>
  /\ LET h == Head(resuming) IN
       IF h.at = "take"
       THEN /\ inFlight' = inFlight \cup CallOf(h.msg)
            /\ resuming' = Append(Tail(resuming), Replying(h.msg))
            /\ UNCHANGED toThread
       ELSE /\ Emit(h.msg)
            /\ resuming' = Tail(resuming)
            /\ UNCHANGED inFlight
  /\ UNCHANGED <<callerVars, queue, quiet, dead, ready, slipped, thread, toHost, guestVars>>

-----------------------------------------------------------------------------
(* The host's message handlers. *)

OnAccept(m) ==
  /\ m.kind = "call.accept"
  /\ QueueStep(Take(queue, m.acc))
  /\ quiet' = TRUE
  /\ UNCHANGED <<outcome, inFlight, dead, ready, slipped>>

\* the abort of a request that is not waiting any more reaches nobody
OnWithdraw(m) ==
  /\ m.kind = "abort"
  /\ IF Contains(queue.takers, m.acc)
     THEN /\ queue' = WithdrawTaker(queue, m.acc)
          /\ resuming' = resuming \o Refusals(<<m.acc>>)
     ELSE UNCHANGED <<queue, resuming>>
  /\ quiet' = TRUE
  /\ UNCHANGED <<outcome, inFlight, dead, ready, slipped>>

\* the answer settles the promise whether or not the call is in flight
OnAnswer_Unchecked(m) ==
  /\ m.kind = "answer"
  /\ inFlight' = inFlight \ {m.call}
  /\ outcome' = [outcome EXCEPT ![m.call] = IF m.ok THEN "resolved" ELSE "rejected"]
  /\ quiet' = FALSE
  /\ UNCHANGED <<queue, resuming, dead, ready, slipped>>

\* call.respond and call.fail: for a call no longer in flight, nothing
OnAnswer(m) ==
  /\ m.kind = "answer"
  /\ inFlight' = inFlight \ {m.call}
  /\ outcome' = IF m.call \in inFlight
                THEN [outcome EXCEPT ![m.call] = IF m.ok THEN "resolved" ELSE "rejected"]
                ELSE outcome
  /\ quiet' = FALSE
  /\ UNCHANGED <<queue, resuming, dead, ready, slipped>>

OnReady(m) ==
  /\ m.kind = "ready"
  /\ ready' = IF ready = "pending" /\ ~dead THEN "resolved" ELSE ready
  /\ quiet' = FALSE
  /\ UNCHANGED <<outcome, queue, resuming, inFlight, dead, slipped>>

OnFailed(m) ==
  /\ m.kind = "failed"
  /\ Fail

HostReceive ==
  /\ Tick
  /\ toHost # <<>>
  /\ LET m == Head(toHost) IN
       OnAccept(m) \/ OnWithdraw(m) \/ OnAnswer(m) \/ OnReady(m) \/ OnFailed(m)
  /\ toHost' = Tail(toHost)
  /\ UNCHANGED <<aborted, issued, late, thread, toThread, guestVars>>

-----------------------------------------------------------------------------
(* The thread's life. *)

\* specifier read, bundle fetched, thread spawned: terminated at once after close()
BootThread ==
  /\ Tick
  /\ thread = "reading"
  /\ thread' = IF dead THEN "gone" ELSE "up"
  /\ UNCHANGED <<callerVars, hostVars, slipped, toThread, toHost, guestVars>>

BootFails ==
  /\ Tick
  /\ thread = "reading"
  /\ thread' = "gone"
  /\ Fail
  /\ UNCHANGED <<aborted, issued, late, toThread, toHost, guestVars>>

\* a crash, or the termination #fail asked for; the host learns of it later
ThreadExits ==
  /\ thread = "up"
  /\ thread' = "gone"
  /\ UNCHANGED <<callerVars, hostVars, slipped, toThread, toHost, guestVars>>

OnExit ==
  /\ Tick
  /\ thread = "gone"
  /\ ~dead
  /\ Fail
  /\ UNCHANGED <<aborted, issued, late, thread, toThread, toHost, guestVars>>

Close ==
  /\ HostCode
  /\ Fail
  /\ UNCHANGED <<aborted, issued, late, thread, toThread, toHost, guestVars>>

-----------------------------------------------------------------------------
(* The thread and the guest in it. *)

Running == thread = "up"

guestIdle == <<callerVars, hostVars, thread>>

AcceptCall(a) ==
  /\ Running
  /\ accept[a] = "free"
  /\ accept' = [accept EXCEPT ![a] = "pending"]
  /\ toHost' = Append(toHost, Accept(a))
  /\ UNCHANGED <<controllers, told, reading, answers, signals, aborts, handed>>
  /\ UNCHANGED <<guestIdle, slipped, toThread>>

(***************************************************************************)
(* The signal of an acceptCall() fires: it rejects at once, its request is *)
(* forgotten and the host is told.  The host still answers the request.    *)
(***************************************************************************)
AbortAccept(a) ==
  /\ Running
  /\ accept[a] = "pending"
  /\ aborts < MaxAborts
  /\ aborts' = aborts + 1
  /\ accept' = [accept EXCEPT ![a] = "abandoned"]
  /\ toHost' = Append(toHost, Withdraw(a))
  /\ UNCHANGED <<controllers, told, reading, answers, signals, handed>>
  /\ UNCHANGED <<guestIdle, slipped, toThread>>

\* respond()'s promise settles: from here no abort reaches the guest
Respond(c) ==
  /\ Running
  /\ Contains(handed, c)
  /\ answers[c] = 0 \/ (answers[c] = 1 /\ c \in Twice)
  /\ answers' = [answers EXCEPT ![c] = @ + 1]
  /\ controllers' = controllers \ {c}
  /\ reading' = Append(reading, c)
  /\ UNCHANGED <<accept, told, signals, aborts, handed>>
  /\ UNCHANGED <<guestIdle, slipped, toThread, toHost>>

\* an answer's body is read, or could not be, or there was none: it is posted
PostAnswer(i, ok) ==
  /\ Running
  /\ toHost' = Append(toHost, Answer(reading[i], ok))
  /\ reading' = RemoveAt(reading, i)
  /\ UNCHANGED <<accept, controllers, told, answers, signals, aborts, handed>>
  /\ UNCHANGED <<guestIdle, slipped, toThread>>

\* signalReady() counts once and not after signalFailed(), or a bundle that throws
SendSignal(s) ==
  /\ Running
  /\ s \notin signals
  /\ s = "ready" => "failed" \notin signals
  /\ signals' = signals \cup {s}
  /\ toHost' = Append(toHost, Signal(s))
  /\ UNCHANGED <<accept, controllers, told, reading, answers, aborts, handed>>
  /\ UNCHANGED <<guestIdle, slipped, toThread>>

(***************************************************************************)
(* The response to acceptCall().  One nobody waits for any more is dropped *)
(* with whatever it carries.                                               *)
(***************************************************************************)
OnDelivery(m) ==
  /\ m.kind = "delivery"
  /\ accept' = [accept EXCEPT ![m.acc] = "free"]
  /\ IF accept[m.acc] = "pending"
     THEN /\ handed' = Append(handed, m.call)
          /\ controllers' = controllers \cup {m.call}
          /\ UNCHANGED slipped
     ELSE /\ slipped' = slipped \cup {m.call}
          /\ UNCHANGED <<handed, controllers>>
  /\ UNCHANGED told

OnRefusal(m) ==
  /\ m.kind = "refusal"
  /\ accept' = [accept EXCEPT ![m.acc] = "free"]
  /\ UNCHANGED <<handed, controllers, told, slipped>>

\* the abort is not passed to the call's signal
OnCallAbort_Untold(m) ==
  /\ m.kind = "call.abort"
  /\ controllers' = controllers \ {m.call}
  /\ UNCHANGED <<handed, accept, slipped, told>>

\* the abort of a call that has not arrived, or is answered, is forgotten
OnCallAbort(m) ==
  /\ m.kind = "call.abort"
  /\ told' = told \cup (controllers \cap {m.call})
  /\ controllers' = controllers \ {m.call}
  /\ slipped' = IF Contains(handed, m.call) THEN slipped ELSE slipped \cup {m.call}
  /\ UNCHANGED <<handed, accept>>

ThreadReceive ==
  /\ Running
  /\ toThread # <<>>
  /\ LET m == Head(toThread) IN OnDelivery(m) \/ OnRefusal(m) \/ OnCallAbort(m)
  /\ toThread' = Tail(toThread)
  /\ UNCHANGED <<reading, answers, signals, aborts, guestIdle, toHost>>

-----------------------------------------------------------------------------

HostStep(c) ==
  \/ Fetch(c) \/ NormalizeFails(c) \/ Register(c) \/ RegisterAborted(c)
  \/ AbortEarly(c) \/ HostAbort(c)

GuestStep ==
  \/ \E a \in Accepts : AcceptCall(a) \/ AbortAccept(a)
  \/ \E c \in Calls : Respond(c)
  \/ \E i \in DOMAIN reading, ok \in BOOLEAN : PostAnswer(i, ok)
  \/ \E s \in Signals : SendSignal(s)

Next ==
  \/ \E c \in Calls : HostStep(c)
  \/ Resume \/ HostReceive \/ ThreadReceive
  \/ BootThread \/ BootFails \/ ThreadExits \/ OnExit \/ Close
  \/ GuestStep

Spec == Init /\ [][Next]_vars

(***************************************************************************)
(* The event loops run what is runnable and the ports deliver; a body that *)
(* is being read ends; the boot ends one way or the other.  The last two   *)
(* conjuncts are the guest's part, as in passthrough-worker/src.           *)
(***************************************************************************)
Fairness ==
  /\ WF_vars(Resume) /\ WF_vars(HostReceive) /\ WF_vars(ThreadReceive)
  /\ WF_vars(BootThread \/ BootFails) /\ WF_vars(OnExit)
  /\ \A c \in Calls : WF_vars(Register(c) \/ RegisterAborted(c) \/ NormalizeFails(c))
  /\ WF_vars(\E i \in DOMAIN reading, ok \in BOOLEAN : PostAnswer(i, ok))
  /\ WF_vars(\E a \in Accepts : AcceptCall(a))
  /\ \A c \in Calls : WF_vars(answers[c] = 0 /\ Respond(c))

FairSpec == Spec /\ Fairness

-----------------------------------------------------------------------------

Pending == {c \in Calls : outcome[c] = "pending"}

(***************************************************************************)
(* A fetch() promise is pending exactly while the host has the call in one *)
(* of three places - the queue, a handler between take() and #inFlight, or *)
(* #inFlight - and in one only: no path forgets or doubles a call.         *)
(***************************************************************************)
Accounted ==
  /\ Pending = ToSet(queue.items) \cup Between \cup inFlight
  /\ ToSet(queue.items) \cap Between = {}
  /\ inFlight \cap (ToSet(queue.items) \cup Between) = {}
  /\ IsInjective(queue.items)

(***************************************************************************)
(* Whatever was registered when the worker failed or was closed is settled *)
(* by the failure, but for what was between the queue and #inFlight.       *)
(***************************************************************************)
FailureSettles == dead => Pending \subseteq late \cup slipped

(***************************************************************************)
(* SPEC.md 8: the guest gets the calls in the order of their ids, each     *)
(* once, also when acceptCalls are aborted in between.                     *)
(***************************************************************************)
HandedInOrder ==
  \A i, j \in DOMAIN handed, m, n \in DOMAIN issued :
    i < j /\ issued[m] = handed[i] /\ issued[n] = handed[j] => m < n

(***************************************************************************)
(* A call whose promise the guest's answer resolved was handed to the      *)
(* guest, and a promise settles once: no step changes a settled one.       *)
(***************************************************************************)
SettlesOnce ==
  [][\A c \in Calls :
       /\ outcome[c] \in {"resolved", "rejected"} => outcome'[c] = outcome[c]
       /\ outcome[c] = "pending" /\ outcome'[c] = "resolved" => Contains(handed, c)]_vars

(***************************************************************************)
(* A taker the guest still waits with is known to the host, unless the     *)
(* host is failed: its request is queued, resuming, or on its way.         *)
(***************************************************************************)
AcceptNotLost ==
  \A a \in Accepts : accept[a] = "pending" /\ ~dead =>
    \/ Contains(toHost, Accept(a))
    \/ Contains(queue.takers, a)
    \/ \E h \in ToSet(resuming) : h.msg.acc = a
    \/ \E m \in ToSet(toThread) : m.kind \in {"delivery", "refusal"} /\ m.acc = a

(***************************************************************************)
(* SPEC.md 9: the abort of a call the guest has, and has not answered, has *)
(* fired the call's own signal or is about to, but for an abort that       *)
(* overtook the delivery.                                                  *)
(***************************************************************************)
AbortReachesGuest ==
  \A c \in aborted \ slipped : Running /\ ~dead /\ Contains(handed, c) /\ answers[c] = 0 =>
    c \in told \/ c \in inFlight \/ Contains(toThread, CallAbort(c))

(***************************************************************************)
(* What the host owes each call and each taker while the worker lives, and *)
(* that it fails them with it: the invariants above together.              *)
(***************************************************************************)
CallsKept ==
  /\ TypeOK
  /\ Accounted /\ FailureSettles /\ HandedInOrder
  /\ AcceptNotLost /\ AbortReachesGuest

(***************************************************************************)
(* SPEC.md 8: the aborted acceptCall() consumes no call.  A call in flight *)
(* is on its way to the guest, with it, or on its way back.                *)
(***************************************************************************)
NotConsumed ==
  \A c \in inFlight : ~dead =>
    \/ \E h \in ToSet(resuming) : c \in CallOf(h.msg)
    \/ \E m \in ToSet(toThread) : c \in CallOf(m)
    \/ Contains(handed, c)

(***************************************************************************)
(* A guest that keeps accepting and answers what it is given leaves no     *)
(* call unsettled but those that slipped or came after the failure; the    *)
(* calls are bounded, so that all are settled again and again.             *)
(***************************************************************************)
EventuallySettled == []<>(Pending \subseteq late \cup slipped)

=============================================================================
