-------------------------- MODULE BrowserCallsProofs --------------------------
(***************************************************************************)
(* Theorems about BrowserCalls, for every set of calls, of acceptCalls, of *)
(* signals and every bound: its type invariant; that no promise is         *)
(* forgotten and that a failure settles what was registered; that a call   *)
(* on its way is in one place, reaches the bundle once and in its turn and *)
(* is followed by its abort (SPEC.md 8); and that the call path implements *)
(* the service promised to the host.                                       *)
(*                                                                         *)
(* The inductive invariants are Promises, Lined and AbortsFollow.          *)
(***************************************************************************)
EXTENDS BrowserCalls, CallQueueTheorems

-----------------------------------------------------------------------------
(* The type invariant. *)

(***************************************************************************)
(* What a queue operation gives becomes responses to acceptCall.           *)
(***************************************************************************)
LEMMA DeliveriesType ==
  ASSUME NEW given \in Seq(Gift(Calls, Accepts))
  PROVE  Deliveries(given) \in Seq(Reply)
<1>1. \A i \in DOMAIN given : given[i] \in Gift(Calls, Accepts)
  BY ElementOfSeq, LenProperties
<1>2. \A i \in DOMAIN given : Delivery(given[i].taker, given[i].item) \in Reply
  BY <1>1 DEF Gift, Reply
<1>3. DOMAIN given = 1 .. Len(given) /\ Len(given) \in Nat
  BY LenProperties
<1>4. Deliveries(given) \in [1 .. Len(given) -> Reply]
  BY <1>2, <1>3 DEF Deliveries
<1>. QED  BY <1>3, <1>4, SeqDef

(***************************************************************************)
(* The refusals posted to the waiting acceptCalls are responses.           *)
(***************************************************************************)
LEMMA RefusalsType ==
  ASSUME NEW takers \in Seq(Accepts)
  PROVE  Refusals(takers) \in Seq(Reply)
<1>1. \A i \in DOMAIN takers : Refusal(takers[i]) \in Reply
  BY ElementOfSeq, LenProperties DEF Reply
<1>2. DOMAIN takers = 1 .. Len(takers) /\ Len(takers) \in Nat
  BY LenProperties
<1>3. Refusals(takers) \in [1 .. Len(takers) -> Reply]
  BY <1>1, <1>2 DEF Refusals
<1>. QED  BY <1>2, <1>3, SeqDef

(***************************************************************************)
(* A queue operation whose step has the right type keeps the host's types. *)
(***************************************************************************)
LEMMA QueueStepType ==
  ASSUME TypeOK, NEW step, QueueStep(step),
         step.queue \in QueueOf(Calls, Accepts), step.given \in Seq(Gift(Calls, Accepts))
  PROVE  queue' \in QueueOf(Calls, Accepts) /\ replies' \in Seq(Reply)
BY DeliveriesType, ConcatProperties DEF QueueStep, TypeOK

(***************************************************************************)
(* #fail keeps the host's types.                                           *)
(***************************************************************************)
LEMMA FailType ==
  ASSUME TypeOK, Fail
  PROVE  /\ failed' \in BOOLEAN
         /\ ready' \in {"pending", "resolved", "rejected"}
         /\ outcome' \in [Calls -> {"idle", "normalizing", "pending", "resolved", "rejected"}]
         /\ calls' \subseteq Calls
         /\ queue' \in QueueOf(Calls, Accepts)
         /\ replies' \in Seq(Reply)
<1>1. CASE failed
  BY <1>1 DEF Fail, TypeOK
<1>2. CASE ~failed
  <2>1. failed' \in BOOLEAN /\ ready' \in {"pending", "resolved", "rejected"}
    BY <1>2 DEF Fail, TypeOK
  <2>2. /\ outcome' \in [Calls -> {"idle", "normalizing", "pending", "resolved", "rejected"}]
        /\ calls' \subseteq Calls
    BY <1>2 DEF Fail, TypeOK
  <2>3. queue' = RejectAll(queue) /\ replies' = replies \o Refusals(queue.takers)
    BY <1>2 DEF Fail
  <2>4. replies \in Seq(Reply) /\ queue.takers \in Seq(Accepts)
    BY DEF TypeOK, QueueOf
  <2>5. queue' \in QueueOf(Calls, Accepts) /\ replies' \in Seq(Reply)
    BY <2>3, <2>4, RejectAllType, RefusalsType, ConcatProperties
  <2>. QED  BY <2>1, <2>2, <2>5
<1>. QED  BY <1>1, <1>2 DEF TypeOK

(***************************************************************************)
(* What the host posts goes into the port or nowhere.                      *)
(***************************************************************************)
LEMMA PostType ==
  ASSUME TypeOK, NEW m \in ToWorker, Post(m)
  PROVE  toWorker' \in Seq(ToWorker)
BY DEF Post, TypeOK

(***************************************************************************)
(* The initial state has the type.                                         *)
(***************************************************************************)
LEMMA TypeInit == Init => TypeOK
<1>1. EmptyQueue \in QueueOf(Calls, Accepts)
  BY RejectAllType
<1>2. 0 \in 0 .. MaxAborts
  BY AbortsAssumption
<1>3. Init => /\ replies \in Seq(Reply) /\ toWorker \in Seq(ToWorker) /\ toHost \in Seq(ToHost)
              /\ issued \in Seq(Calls) /\ handed \in Seq(Calls)
  BY DEF Init
<1>4. Init => /\ outcome \in [Calls -> {"idle", "normalizing", "pending", "resolved", "rejected"}]
              /\ accept \in [Accepts -> {"free", "pending", "abandoned"}]
  BY DEF Init
<1>. QED  BY <1>1, <1>2, <1>3, <1>4 DEF Init, TypeOK

(***************************************************************************)
(* fetch() up to and after its await, and the abort of its signal.         *)
(***************************************************************************)
LEMMA TypeHostStep ==
  ASSUME TypeOK, NEW c \in Calls, HostStep(c)
  PROVE  TypeOK'
<1>. USE CallsAssumption DEF hostVars, workerVars
<1>1. CASE Fetch(c)
  BY <1>1 DEF Fetch, TypeOK
<1>2. CASE NormalizeFails(c)
  BY <1>2 DEF NormalizeFails, TypeOK
<1>3. CASE Register(c)
  <2>1. QueueStep(Push(queue, c)) /\ queue \in QueueOf(Calls, Accepts)
    BY <1>3 DEF Register, TypeOK
  <2>2. queue' \in QueueOf(Calls, Accepts) /\ replies' \in Seq(Reply)
    BY <2>1, PushType, QueueStepType
  <2>. QED  BY <1>3, <2>2 DEF Register, TypeOK
<1>4. CASE RegisterAborted(c)
  BY <1>4 DEF RegisterAborted, TypeOK
<1>5. CASE AbortEarly(c)
  BY <1>5 DEF AbortEarly, TypeOK
<1>6. CASE HostAbort(c)
  <2>1. c \in Signalled /\ AbortListener(c)
    BY <1>6 DEF HostAbort
  <2>2. queue' \in QueueOf(Calls, Accepts) /\ toWorker' \in Seq(ToWorker)
    <3>1. CallAbort(c) \in ToWorker
      BY <2>1 DEF ToWorker
    <3>2. CASE IsQueued(queue, c)
      BY <2>1, <3>2, RemoveItemType DEF AbortListener, TypeOK
    <3>3. CASE ~IsQueued(queue, c)
      BY <2>1, <3>1, <3>3, PostType DEF AbortListener, TypeOK
    <3>. QED  BY <3>2, <3>3
  <2>. QED  BY <1>6, <2>1, <2>2 DEF HostAbort, AbortListener, TypeOK
<1>. QED  BY <1>1, <1>2, <1>3, <1>4, <1>5, <1>6 DEF HostStep

(***************************************************************************)
(* A handler posts its response.                                           *)
(***************************************************************************)
LEMMA TypePostReply ==
  ASSUME TypeOK, PostReply
  PROVE  TypeOK'
<1>. DEFINE m == Head(replies)
<1>1. m \in Reply /\ Tail(replies) \in Seq(Reply)
  BY HeadTailProperties DEF PostReply, TypeOK
<1>2. Response(m) \in ToWorker
  BY <1>1 DEF Response, Reply, ToWorker, Delivery, Refusal, Responded
<1>3. Post(Response(m))
  BY DEF PostReply
<1>4. toWorker' \in Seq(ToWorker)
  BY <1>2, <1>3, PostType
<1>5. detached' \subseteq Bodied
  BY DEF PostReply, TypeOK
<1>. QED  BY <1>1, <1>4, <1>5 DEF PostReply, workerVars, TypeOK

(***************************************************************************)
(* The host's message handlers.                                            *)
(***************************************************************************)
LEMMA TypeHostReceive ==
  ASSUME TypeOK, HostReceive
  PROVE  TypeOK'
<1>. DEFINE m == Head(toHost)
<1>1. m \in ToHost /\ Tail(toHost) \in Seq(ToHost)
  BY HeadTailProperties DEF HostReceive, TypeOK
<1>. DEFINE Handled ==
       /\ failed' \in BOOLEAN
       /\ ready' \in {"pending", "resolved", "rejected"}
       /\ outcome' \in [Calls -> {"idle", "normalizing", "pending", "resolved", "rejected"}]
       /\ calls' \subseteq Calls
       /\ queue' \in QueueOf(Calls, Accepts)
       /\ replies' \in Seq(Reply)
<1>2. ASSUME OnAccept(m) PROVE Handled
  <2>1. m.acc \in Accepts
    BY <1>1, <1>2 DEF OnAccept, ToHost, Accept, Requeue, Respond, Signal
  <2>2. queue \in QueueOf(Calls, Accepts) /\ QueueStep(Take(queue, m.acc))
    BY <1>2 DEF OnAccept, TypeOK
  <2>3. queue' \in QueueOf(Calls, Accepts) /\ replies' \in Seq(Reply)
    BY <2>1, <2>2, TakeType, QueueStepType
  <2>. QED  BY <1>2, <2>3 DEF OnAccept, TypeOK
<1>3. ASSUME OnRequeue(m) PROVE Handled
  <2>1. m.call \in Calls
    BY <1>1, <1>3 DEF OnRequeue, ToHost, Accept, Requeue, Respond, Signal
  <2>2. CASE m.call \in calls
    <3>1. queue \in QueueOf(Calls, Accepts) /\ QueueStep(PushFront(queue, m.call))
      BY <1>3, <2>2 DEF OnRequeue, TypeOK
    <3>2. queue' \in QueueOf(Calls, Accepts) /\ replies' \in Seq(Reply)
      BY <2>1, <3>1, PushType, QueueStepType
    <3>. QED  BY <1>3, <3>2 DEF OnRequeue, TypeOK
  <2>3. CASE m.call \notin calls
    BY <1>3, <2>3 DEF OnRequeue, TypeOK
  <2>. QED  BY <2>2, <2>3
<1>4. ASSUME OnRespond(m) PROVE Handled
  <2>1. m.call \in Calls
    BY <1>1, <1>4 DEF OnRespond, ToHost, Accept, Requeue, Respond, Signal
  <2>2. <<Responded(m.call)>> \in Seq(Reply)
    BY <2>1 DEF Reply
  <2>. QED  BY <1>4, <2>2 DEF OnRespond, TypeOK
<1>5. ASSUME OnReady(m) PROVE Handled
  BY <1>5 DEF OnReady, TypeOK
<1>6. ASSUME OnFailed(m) PROVE Handled
  BY <1>6, FailType DEF OnFailed
<1>7. Handled
  BY <1>2, <1>3, <1>4, <1>5, <1>6 DEF HostReceive
<1>. QED  BY <1>1, <1>7 DEF HostReceive, workerVars, TypeOK

(***************************************************************************)
(* Boot, crash and close.                                                  *)
(***************************************************************************)
LEMMA TypeLife ==
  ASSUME TypeOK, BootFrame \/ BootFails \/ BootInit \/ WorkerError \/ Close
  PROVE  TypeOK'
<1>. USE DEF hostVars, workerVars
<1>1. CASE BootFrame
  BY <1>1 DEF BootFrame, TypeOK
<1>2. CASE BootFails
  BY <1>2, FailType DEF BootFails, TypeOK
<1>3. CASE BootInit
  BY <1>3 DEF BootInit, TypeOK
<1>4. CASE WorkerError
  BY <1>4, FailType DEF WorkerError, TypeOK
<1>5. CASE Close
  BY <1>5, FailType, EmptySeq DEF Close, TypeOK
<1>. QED  BY <1>1, <1>2, <1>3, <1>4, <1>5

(***************************************************************************)
(* The bundle.                                                             *)
(***************************************************************************)
LEMMA TypeBundleStep ==
  ASSUME TypeOK, BundleStep
  PROVE  TypeOK'
<1>. USE DEF hostVars, workerVars
<1>1. ASSUME NEW a \in Accepts, AcceptCall(a)
      PROVE  TypeOK'
  <2>1. Accept(a) \in ToHost
    BY DEF ToHost
  <2>. QED  BY <1>1, <2>1 DEF AcceptCall, TypeOK
<1>2. ASSUME NEW a \in Accepts, AbortAccept(a)
      PROVE  TypeOK'
  BY <1>2, AbortsAssumption DEF AbortAccept, TypeOK
<1>3. ASSUME NEW c \in Calls, NEW ok \in BOOLEAN, RespondTo(c, ok)
      PROVE  TypeOK'
  <2>1. Respond(c, ok) \in ToHost
    BY DEF ToHost
  <2>. QED  BY <1>3, <2>1 DEF RespondTo, TypeOK
<1>4. ASSUME NEW s \in Signals, SendSignal(s)
      PROVE  TypeOK'
  <2>1. Signal(s) \in ToHost /\ s \in {"ready", "failed"}
    BY SignalsAssumption DEF ToHost
  <2>. QED  BY <1>4, <2>1 DEF SendSignal, TypeOK
<1>. QED  BY <1>1, <1>2, <1>3, <1>4 DEF BundleStep

(***************************************************************************)
(* The worker's message handlers.                                          *)
(***************************************************************************)
LEMMA TypeWorkerReceive ==
  ASSUME TypeOK, WorkerReceive
  PROVE  TypeOK'
<1>. DEFINE m == Head(toWorker)
<1>1. m \in ToWorker /\ Tail(toWorker) \in Seq(ToWorker)
  BY HeadTailProperties DEF WorkerReceive, TypeOK
<1>. DEFINE Handled ==
       /\ toHost' \in Seq(ToHost)
       /\ accept' \in [Accepts -> {"free", "pending", "abandoned"}]
       /\ handed' \in Seq(Calls)
       /\ callAborts' \subseteq Signalled
       /\ preAborted' \subseteq Signalled
       /\ told' \subseteq Signalled
<1>2. ASSUME OnDelivery(m) PROVE Handled
  <2>1. m.call \in Calls /\ m.acc \in Accepts
    BY <1>1, <1>2 DEF OnDelivery, ToWorker, Reply, Delivery, Refusal, Responded, CallAbort
  <2>2. accept' \in [Accepts -> {"free", "pending", "abandoned"}]
    BY <1>2, <2>1 DEF OnDelivery, TypeOK
  <2>3. CASE accept[m.acc] = "abandoned"
    <3>1. Requeue(m.call) \in ToHost
      BY <2>1 DEF ToHost
    <3>2. toHost' = Append(toHost, Requeue(m.call))
      BY <1>2, <2>3 DEF OnDelivery
    <3>3. UNCHANGED <<handed, callAborts, preAborted, told>>
      BY <1>2, <2>3 DEF OnDelivery
    <3>. QED  BY <2>2, <3>1, <3>2, <3>3 DEF TypeOK
  <2>4. CASE accept[m.acc] # "abandoned"
    <3>1. /\ handed' = Append(handed, m.call)
          /\ callAborts' = callAborts \cup (Signalled \cap {m.call})
          /\ told' = told \cup (preAborted \cap {m.call})
          /\ preAborted' = preAborted \ {m.call}
          /\ UNCHANGED toHost
      BY <1>2, <2>4 DEF OnDelivery, Controller
    <3>. QED  BY <2>1, <2>2, <3>1 DEF TypeOK
  <2>. QED  BY <2>3, <2>4
<1>3. ASSUME OnRefusal(m) PROVE Handled
  BY <1>3 DEF OnRefusal, TypeOK
<1>4. ASSUME OnCallAbort(m) PROVE Handled
  <2>1. m.call \in Signalled
    BY <1>1, <1>4 DEF OnCallAbort, ToWorker, Reply, Delivery, Refusal, Responded, CallAbort
  <2>. QED  BY <1>4, <2>1 DEF OnCallAbort, TypeOK
<1>5. ASSUME OnResponded(m) PROVE Handled
  BY <1>5 DEF OnResponded, TypeOK
<1>6. Handled
  BY <1>2, <1>3, <1>4, <1>5 DEF WorkerReceive
<1>. QED  BY <1>1, <1>6 DEF WorkerReceive, hostVars, TypeOK

(***************************************************************************)
(* Every step keeps the types.                                             *)
(***************************************************************************)
LEMMA TypeStep == TypeOK /\ [Next]_vars => TypeOK'
<1>. SUFFICES ASSUME TypeOK, [Next]_vars PROVE TypeOK'
  OBVIOUS
<1>1. CASE Next
  BY <1>1, TypeHostStep, TypePostReply, TypeHostReceive, TypeWorkerReceive, TypeLife,
     TypeBundleStep DEF Next
<1>2. CASE UNCHANGED vars
  BY <1>2 DEF vars, hostVars, workerVars, TypeOK
<1>. QED  BY <1>1, <1>2

(***************************************************************************)
(* Type correctness: every state of the call path, whatever the numbers of *)
(* calls and acceptCalls, has the types the code gives its fields.         *)
(***************************************************************************)
THEOREM TypeCorrect == Spec => []TypeOK
BY TypeInit, TypeStep, PTL DEF Spec

-----------------------------------------------------------------------------
(* The promises.  Both invariants are inductive over the typed states: the *)
(* registration of a call and the state of its promise change together in  *)
(* Register, HostAbort, OnRespond and Fail, and nowhere else.              *)

Promises == NoForgottenPromise /\ FailureSettles

(***************************************************************************)
(* #fail settles every registered call and forgets none.                   *)
(***************************************************************************)
LEMMA FailPromises ==
  ASSUME TypeOK, Promises, Fail, UNCHANGED late
  PROVE  Promises'
<1>1. CASE failed
  BY <1>1 DEF Fail, Promises, NoForgottenPromise, FailureSettles
<1>2. CASE ~failed
  <2>1. calls' = {}
    BY <1>2 DEF Fail
  <2>2. ASSUME NEW c \in Calls PROVE outcome'[c] # "pending"
    BY <1>2 DEF Fail, TypeOK, Promises, NoForgottenPromise
  <2>. QED  BY <2>1, <2>2 DEF Promises, NoForgottenPromise, FailureSettles
<1>. QED  BY <1>1, <1>2 DEF TypeOK

(***************************************************************************)
(* Every step keeps a promise and its record together.                     *)
(***************************************************************************)
LEMMA PromisesStep == TypeOK /\ Promises /\ [Next]_vars => Promises'
<1>. SUFFICES ASSUME TypeOK, Promises, [Next]_vars PROVE Promises'
  OBVIOUS
<1>. USE DEF Promises, NoForgottenPromise, FailureSettles
<1>1. ASSUME NEW c \in Calls, HostStep(c)
      PROVE  Promises'
  <2>1. CASE Fetch(c)
    BY <2>1 DEF Fetch, TypeOK
  <2>2. CASE NormalizeFails(c)
    BY <2>2 DEF NormalizeFails, TypeOK
  <2>3. CASE Register(c)
    BY <2>3 DEF Register, TypeOK
  <2>4. CASE RegisterAborted(c)
    BY <2>4 DEF RegisterAborted, TypeOK
  <2>5. CASE AbortEarly(c)
    BY <2>5 DEF AbortEarly
  <2>6. CASE HostAbort(c)
    BY <2>6 DEF HostAbort, AbortListener, TypeOK
  <2>. QED  BY <1>1, <2>1, <2>2, <2>3, <2>4, <2>5, <2>6 DEF HostStep
<1>2. CASE PostReply
  BY <1>2 DEF PostReply
<1>3. CASE HostReceive
  <2>. DEFINE m == Head(toHost)
  <2>1. CASE OnAccept(m)
    BY <1>3, <2>1 DEF HostReceive, OnAccept
  <2>2. CASE OnRequeue(m)
    BY <1>3, <2>2 DEF HostReceive, OnRequeue
  <2>3. CASE OnRespond(m)
    BY <1>3, <2>3 DEF HostReceive, OnRespond, TypeOK
  <2>4. CASE OnReady(m)
    BY <1>3, <2>4 DEF HostReceive, OnReady
  <2>5. CASE OnFailed(m)
    BY <1>3, <2>5, FailPromises DEF HostReceive, OnFailed
  <2>. QED  BY <1>3, <2>1, <2>2, <2>3, <2>4, <2>5 DEF HostReceive
<1>4. CASE WorkerReceive
  BY <1>4 DEF WorkerReceive, hostVars
<1>5. CASE BootFrame \/ BootInit
  BY <1>5 DEF BootFrame, BootInit
<1>6. CASE BootFails \/ WorkerError \/ Close
  BY <1>6, FailPromises DEF BootFails, WorkerError, Close
<1>7. CASE BundleStep
  BY <1>7 DEF BundleStep, AcceptCall, AbortAccept, RespondTo, SendSignal, hostVars
<1>8. CASE UNCHANGED vars
  BY <1>8 DEF vars, hostVars
<1>. QED  BY <1>1, <1>2, <1>3, <1>4, <1>5, <1>6, <1>7, <1>8 DEF Next

(***************************************************************************)
(* Nothing is pending or registered at first.                              *)
(***************************************************************************)
LEMMA PromisesInit == Init => Promises
BY DEF Init, Promises, NoForgottenPromise, FailureSettles

(***************************************************************************)
(* The conjunction holds throughout.                                       *)
(***************************************************************************)
LEMMA PromisesInvariant == Spec => []Promises
BY PromisesInit, PromisesStep, TypeCorrect, PTL DEF Spec

(***************************************************************************)
(* A fetch() promise is pending exactly while its call is registered, so   *)
(* abort, answer, failure and close each settle what they unregister.      *)
(***************************************************************************)
THEOREM PromisesKept == Spec => []NoForgottenPromise
BY PromisesInvariant, PTL DEF Promises

(***************************************************************************)
(* A failure or a close settles every call registered before it: what is   *)
(* registered in a failed harness came after.                              *)
(***************************************************************************)
THEOREM FailureSettlesAll == Spec => []FailureSettles
BY PromisesInvariant, PTL DEF Promises

-----------------------------------------------------------------------------
(* Where a call can be, and in which order calls are there. *)

Queued(c) == Contains(queue.items, c)
Resuming(c) == Carries(replies, "delivery", c)
Going(c) == Carries(toWorker, "delivery", c)
Had(c) == Contains(handed, c)
Returning(c) == Carries(toHost, "requeue-call", c)
Answering(c) == Carries(toHost, "respond", c)
Entered(c) == Contains(issued, c)

\* the way to the bundle: what it has, what is on its way, what will be posted, what is queued
InLine(R) == Line(Calls, handed, toWorker, replies, queue.items, R)

\* the order of the ids
IssueOrder ==
  {p \in Calls \X Calls : \E m, n \in 1 .. Len(issued) : m < n /\ issued[m] = p[1] /\ issued[n] = p[2]}

(***************************************************************************)
(* The invariant, in parts.  Nobody waits for what is there, and before    *)
(* the worker is up there is nobody at all.                                *)
(***************************************************************************)
Quiet ==
  /\ boot \in {"loading", "framed"} =>
       toWorker = <<>> /\ toHost = <<>> /\ replies = <<>> /\ handed = <<>> /\ queue.takers = <<>>
  /\ boot = "gone" => failed

\* only a call with an id is anywhere, and it has one id
Known ==
  /\ InOrder(issued, Distinct(Calls))
  /\ \A c \in Calls :
       /\ Queued(c) => c \in calls
       /\ c \in calls \/ Resuming(c) \/ Going(c) \/ Had(c) \/ Returning(c) => Entered(c)
       /\ outcome[c] \in {"idle", "normalizing"} => ~Entered(c)

\* what goes back is not on the line, and is answered by the bundle that has it
Back ==
  /\ CarriedInOrder(toHost, "requeue-call", Distinct(Calls))
  /\ CarriedInOrder(toHost, "respond", Distinct(Calls))
  /\ \A c \in Calls :
       /\ Returning(c) => ~(Queued(c) \/ Resuming(c) \/ Going(c) \/ Had(c))
       /\ Answering(c) => c \in answered
       /\ c \in answered => Had(c)

\* a registered call is somewhere
Located ==
  \A c \in calls \ (late \cup Bodied) :
    Queued(c) \/ Resuming(c) \/ Going(c) \/ Returning(c) \/ (Had(c) /\ c \notin answered) \/ Answering(c)

\* nothing comes back to the queue
NoReturn ==
  aborts = 0 => /\ \A a \in Accepts : accept[a] # "abandoned"
                /\ \A c \in Calls : ~Returning(c)
                /\ InLine(IssueOrder)

Lined == Serving(queue) /\ Quiet /\ Known /\ Back /\ Located /\ InLine(Distinct(Calls)) /\ NoReturn

(***************************************************************************)
(* What the lemmas about lines need of the types.                          *)
(***************************************************************************)
LEMMA Typed ==
  ASSUME TypeOK
  PROVE  /\ handed \in Seq(Calls) /\ issued \in Seq(Calls)
         /\ queue \in QueueOf(Calls, Accepts) /\ queue.items \in Seq(Calls) /\ queue.takers \in Seq(Accepts)
         /\ replies \in Seq(ToWorker) /\ toWorker \in Seq(ToWorker) /\ toHost \in Seq(ToHost)
         /\ Carrying(Calls, ToWorker)
<1>1. queue.items \in Seq(Calls) /\ queue.takers \in Seq(Accepts)
  BY DEF TypeOK, QueueOf
<1>2. Reply \subseteq ToWorker
  BY DEF ToWorker
<1>3. replies \in Seq(ToWorker)
  <2>1. replies \in Seq(Reply)
    BY DEF TypeOK
  <2>. QED  BY <1>2, <2>1, SeqMonotonic
<1>4. Carrying(Calls, ToWorker)
  BY CallsAssumption DEF Carrying, ToWorker, Reply, Delivery, Refusal, Responded, CallAbort
<1>. QED  BY <1>1, <1>3, <1>4 DEF TypeOK

(***************************************************************************)
(* A queue operation that gives nothing resumes no handler; one that gives *)
(* a call resumes one, which will post it.                                 *)
(***************************************************************************)
LEMMA QueueStepGives ==
  ASSUME TypeOK, NEW step, QueueStep(step)
  PROVE  /\ queue' = step.queue
         /\ step.given = <<>> => replies' = replies
         /\ \A a \in Accepts, c \in Calls :
              step.given = <<[taker |-> a, item |-> c]>> => replies' = Append(replies, Delivery(a, c))
<1>1. replies \in Seq(Reply)
  BY DEF TypeOK
<1>2. step.given = <<>> => replies' = replies
  <2>1. Deliveries(<<>>) = <<>>
    BY DEF Deliveries
  <2>. QED  BY <1>1, <2>1, ConcatEmptySeq DEF QueueStep
<1>3. ASSUME NEW a \in Accepts, NEW c \in Calls, step.given = <<[taker |-> a, item |-> c]>>
      PROVE  replies' = Append(replies, Delivery(a, c))
  <2>1. Deliveries(<<[taker |-> a, item |-> c]>>) = <<Delivery(a, c)>>
    BY DEF Deliveries
  <2>2. Delivery(a, c) \in Reply
    BY DEF Reply
  <2>. QED  BY <1>1, <1>3, <2>1, <2>2, AppendIsConcat DEF QueueStep
<1>. QED  BY <1>2, <1>3 DEF QueueStep

(***************************************************************************)
(* The refusals of #fail carry no call.                                    *)
(***************************************************************************)
LEMMA RefusalsCarryNone ==
  ASSUME TypeOK, NEW k, k # "refusal"
  PROVE  LET r == replies \o Refusals(queue.takers)
         IN  /\ \A c : Carries(r, k, c) <=> Carries(replies, k, c)
             /\ \A R : CarriedInOrder(replies, k, R) => CarriedInOrder(r, k, R)
<1>1. queue.takers \in Seq(Accepts) /\ replies \in Seq(Reply)
  BY DEF TypeOK, QueueOf
<1>2. Refusals(queue.takers) \in Seq(Reply)
  BY <1>1, RefusalsType
<1>3. \A i \in 1 .. Len(Refusals(queue.takers)) : Refusals(queue.takers)[i].kind # k
  <2>1. DOMAIN queue.takers = 1 .. Len(queue.takers) /\ Len(queue.takers) \in Nat
    BY <1>1, LenProperties
  <2>2. Len(Refusals(queue.takers)) = Len(queue.takers)
    BY <2>1 DEF Refusals
  <2>. QED  BY <2>1, <2>2 DEF Refusals, Refusal
<1>. QED  BY <1>1, <1>2, <1>3, ConcatCarries

(***************************************************************************)
(* The invariant holds at first.                                           *)
(***************************************************************************)
LEMMA LinedInit == Init => Lined
<1>. SUFFICES ASSUME Init PROVE Lined
  OBVIOUS
<1>1. Len(<<>>) = 0 /\ \A i : i \notin 1 .. 0
  OBVIOUS
<1>2. queue.items = <<>> /\ queue.takers = <<>>
  BY DEF Init, EmptyQueue
<1>3. \A c : ~Queued(c) /\ ~Resuming(c) /\ ~Going(c) /\ ~Had(c) /\ ~Returning(c) /\ ~Answering(c) /\ ~Entered(c)
  BY <1>1, <1>2 DEF Init, Queued, Resuming, Going, Had, Returning, Answering, Entered, Contains, Carries
<1>4. \A R : InLine(R)
  BY <1>1, <1>2, <1>3 DEF Init, InLine, Line, InOrder, CarriedInOrder, Queued, Resuming, Going, Had
<1>5. Known
  BY <1>1, <1>3 DEF Init, Known, InOrder
<1>6. Back
  BY <1>1, <1>3 DEF Init, Back, CarriedInOrder
<1>7. Serving(queue) /\ Quiet /\ Located
  BY <1>2 DEF Init, Serving, Quiet, Located
<1>8. NoReturn
  BY <1>3, <1>4 DEF Init, NoReturn
<1>. QED  BY <1>4, <1>5, <1>6, <1>7, <1>8 DEF Lined

(***************************************************************************)
(* push, pushFront and take on the host's queue: one call goes to a        *)
(* resuming handler, or waits, or nothing happens to any call.             *)
(***************************************************************************)
LEMMA PushMoves ==
  ASSUME TypeOK, Serving(queue), NEW c \in Calls,
         NEW step \in {Push(queue, c), PushFront(queue, c)}, QueueStep(step)
  PROVE  /\ Serving(queue')
         /\ \/ /\ queue.takers # <<>> /\ queue.items = <<>> /\ queue'.items = <<>>
               /\ \E a \in Accepts : replies' = Append(replies, Delivery(a, c))
            \/ /\ queue.takers = <<>> /\ queue'.takers = <<>> /\ replies' = replies
               /\ queue'.items = IF step = Push(queue, c) THEN Append(queue.items, c)
                                                          ELSE <<c>> \o queue.items
<1>1. queue \in QueueOf(Calls, Accepts) /\ queue.takers \in Seq(Accepts)
  BY Typed
<1>2. queue' = step.queue
  BY QueueStepGives
<1>3. CASE queue.takers # <<>>
  <2>1. PICK a \in Accepts : a = Head(queue.takers)
    BY <1>1, <1>3, HeadTailProperties
  <2>2. /\ Serving(Push(queue, c).queue) /\ queue.items = <<>> /\ Push(queue, c).queue.items = <<>>
        /\ Push(queue, c).given = <<[taker |-> a, item |-> c]>>
        /\ PushFront(queue, c) = Push(queue, c)
    BY <1>1, <1>3, <2>1, PushGives
  <2>3. replies' = Append(replies, Delivery(a, c))
    BY <2>2, QueueStepGives
  <2>. QED  BY <1>2, <1>3, <2>2, <2>3
<1>4. CASE queue.takers = <<>>
  <2>1. /\ Push(queue, c).queue.items = Append(queue.items, c)
        /\ Push(queue, c).given = <<>> /\ Push(queue, c).queue.takers = <<>>
    BY <1>1, <1>4, PushWaits
  <2>2. /\ PushFront(queue, c).queue.items = <<c>> \o queue.items
        /\ PushFront(queue, c).given = <<>> /\ PushFront(queue, c).queue.takers = <<>>
    BY <1>1, <1>4, PushFrontWaits
  <2>3. replies' = replies
    BY <2>1, <2>2, QueueStepGives
  <2>4. Serving(queue')
    BY <1>2, <2>1, <2>2 DEF Serving
  <2>. QED  BY <1>2, <1>4, <2>1, <2>2, <2>3, <2>4
<1>. QED  BY <1>3, <1>4

(***************************************************************************)
(* The acceptCall takes the first of the queue, or waits.                  *)
(***************************************************************************)
LEMMA TakeMoves ==
  ASSUME TypeOK, Serving(queue), NEW a \in Accepts, QueueStep(Take(queue, a))
  PROVE  /\ Serving(queue')
         /\ \/ queue.items = <<>> /\ queue'.items = <<>> /\ replies' = replies
            \/ /\ queue.items # <<>> /\ queue'.items = Tail(queue.items)
               /\ Head(queue.items) \in Calls
               /\ replies' = Append(replies, Delivery(a, Head(queue.items)))
<1>1. queue \in QueueOf(Calls, Accepts) /\ queue.items \in Seq(Calls)
  BY Typed
<1>2. queue' = Take(queue, a).queue
  BY QueueStepGives
<1>3. CASE queue.items = <<>>
  <2>1. Serving(Take(queue, a).queue) /\ Take(queue, a).queue.items = <<>> /\ Take(queue, a).given = <<>>
    BY <1>1, <1>3, TakeWaits
  <2>2. replies' = replies
    BY <2>1, QueueStepGives
  <2>. QED  BY <1>2, <1>3, <2>1, <2>2
<1>4. CASE queue.items # <<>>
  <2>1. PICK x \in Calls : x = Head(queue.items)
    BY <1>1, <1>4, HeadTailProperties
  <2>2. /\ Serving(Take(queue, a).queue) /\ Take(queue, a).queue.items = Tail(queue.items)
        /\ Take(queue, a).given = <<[taker |-> a, item |-> x]>>
    BY <1>1, <1>4, <2>1, TakeGives
  <2>3. replies' = Append(replies, Delivery(a, x))
    BY <2>2, QueueStepGives
  <2>. QED  BY <1>2, <1>4, <2>1, <2>2, <2>3
<1>. QED  BY <1>3, <1>4

(***************************************************************************)
(* What one more handler, with a delivery, carries.                        *)
(***************************************************************************)
LEMMA DeliveryResumes ==
  ASSUME TypeOK, NEW a \in Accepts, NEW c \in Calls, replies' = Append(replies, Delivery(a, c))
  PROVE  /\ Delivery(a, c) \in ToWorker /\ Delivery(a, c).kind = "delivery" /\ Delivery(a, c).call = c
         /\ \A d : Resuming(d)' <=> Resuming(d) \/ d = c
         /\ \A d : Carries(replies', "responded", d) <=> Carries(replies, "responded", d)
<1>1. Delivery(a, c) \in ToWorker
  BY DEF ToWorker, Reply
<1>2. Delivery(a, c).kind = "delivery" /\ Delivery(a, c).call = c
  BY DEF Delivery
<1>3. replies \in Seq(ToWorker)
  BY Typed
<1>4. \A d : Carries(Append(replies, Delivery(a, c)), "delivery", d) <=>
               Carries(replies, "delivery", d) \/ d = c
  BY <1>1, <1>2, <1>3, AppendCarries
<1>5. \A d : Carries(Append(replies, Delivery(a, c)), "responded", d) <=> Carries(replies, "responded", d)
  BY <1>1, <1>2, <1>3, AppendCarries
<1>. QED  BY <1>1, <1>2, <1>4, <1>5 DEF Resuming

-----------------------------------------------------------------------------
(* Each step and the invariant.  A step that moves calls moves one, and    *)
(* the lemmas about lines say what that does to the line.                  *)

(***************************************************************************)
(* The line moves on, and the ids stay.                                    *)
(***************************************************************************)
LEMMA LineMoves ==
  ASSUME Lined, \A R : InLine(R) => InLine(R)', UNCHANGED issued
  PROVE  /\ InLine(Distinct(Calls))'
         /\ aborts = 0 => InLine(IssueOrder)'
<1>1. IssueOrder' = IssueOrder
  BY DEF IssueOrder
<1>2. InLine(Distinct(Calls))'
  BY DEF Lined
<1>3. ASSUME aborts = 0 PROVE InLine(IssueOrder)'
  <2>1. PICK R : R = IssueOrder
    OBVIOUS
  <2>2. InLine(R)'
    BY <1>3, <2>1 DEF Lined, NoReturn
  <2>. QED  BY <1>1, <2>1, <2>2 DEF InLine
<1>. QED  BY <1>2, <1>3

(***************************************************************************)
(* A step that moves no call.                                              *)
(***************************************************************************)
LEMMA LinedStill ==
  ASSUME Lined, UNCHANGED <<calls, queue, replies, toWorker, handed, issued, late, answered>>,
         Quiet',
         \A c : (Returning(c)' <=> Returning(c)) /\ (Answering(c)' <=> Answering(c)),
         CarriedInOrder(toHost, "requeue-call", Distinct(Calls)) =>
           CarriedInOrder(toHost', "requeue-call", Distinct(Calls)),
         CarriedInOrder(toHost, "respond", Distinct(Calls)) =>
           CarriedInOrder(toHost', "respond", Distinct(Calls)),
         \A c \in Calls : outcome'[c] \in {"idle", "normalizing"} => outcome[c] \in {"idle", "normalizing"},
         aborts' = 0 => aborts = 0 /\ \A a \in Accepts : accept'[a] = "abandoned" => accept[a] = "abandoned"
  PROVE  Lined'
<1>1. \A R : InLine(R) => InLine(R)'
  BY DEF InLine
<1>2. Serving(queue)' /\ InLine(Distinct(Calls))' /\ (aborts' = 0 => InLine(IssueOrder)')
  BY <1>1, LineMoves DEF Lined
<1>3. Known'
  BY DEF Lined, Known, Queued, Resuming, Going, Had, Entered
<1>4. Back'
  BY DEF Lined, Back, Queued, Resuming, Going, Had
<1>5. Located'
  BY DEF Lined, Located, Queued, Resuming, Going, Had
<1>6. NoReturn'
  BY <1>2 DEF Lined, NoReturn
<1>. QED  BY <1>2, <1>3, <1>4, <1>5, <1>6 DEF Lined

(***************************************************************************)
(* A message to the host that is no answer and returns no call.            *)
(***************************************************************************)
LEMMA OtherToHost ==
  ASSUME TypeOK, NEW m \in ToHost, m.kind # "requeue-call", m.kind # "respond"
  PROVE  toHost' \in {toHost, Append(toHost, m)} =>
           /\ \A c : (Returning(c)' <=> Returning(c)) /\ (Answering(c)' <=> Answering(c))
           /\ \A k \in {"requeue-call", "respond"} : \A R :
                CarriedInOrder(toHost, k, R) => CarriedInOrder(toHost', k, R)
<1>1. toHost \in Seq(ToHost)
  BY DEF TypeOK
<1>2. ASSUME NEW k \in {"requeue-call", "respond"}
      PROVE  /\ \A c : Carries(Append(toHost, m), k, c) <=> Carries(toHost, k, c)
             /\ \A R : CarriedInOrder(toHost, k, R) => CarriedInOrder(Append(toHost, m), k, R)
  BY <1>1, AppendCarries
<1>. QED  BY <1>2 DEF Returning, Answering

(***************************************************************************)
(* fetch() before its await, and the signal that fires before its end.     *)
(***************************************************************************)
LEMMA LinedFetch ==
  ASSUME TypeOK, Lined, NEW c \in Calls,
         Fetch(c) \/ NormalizeFails(c) \/ RegisterAborted(c) \/ AbortEarly(c)
  PROVE  Lined'
<1>1. UNCHANGED <<calls, queue, replies, toWorker, toHost, handed, issued, late, answered, aborts,
                  accept, boot, failed>>
  BY DEF Fetch, NormalizeFails, RegisterAborted, AbortEarly, workerVars
<1>2. \A d \in Calls : outcome'[d] \in {"idle", "normalizing"} => outcome[d] \in {"idle", "normalizing"}
  BY DEF Fetch, NormalizeFails, RegisterAborted, AbortEarly, TypeOK
<1>3. Quiet'
  BY <1>1 DEF Lined, Quiet
<1>. QED  BY <1>1, <1>2, <1>3, LinedStill DEF Returning, Answering

(***************************************************************************)
(* The boot, and what the bundle sends that is about no call.              *)
(***************************************************************************)
LEMMA LinedBoot ==
  ASSUME TypeOK, Lined, BootFrame \/ BootInit
  PROVE  Lined'
<1>1. UNCHANGED <<calls, queue, replies, toWorker, toHost, handed, issued, late, answered, aborts,
                  accept, outcome, failed>>
  BY DEF BootFrame, BootInit, workerVars
<1>2. Quiet'
  BY <1>1 DEF BootFrame, BootInit, Lined, Quiet
<1>. QED  BY <1>1, <1>2, LinedStill DEF Returning, Answering

(***************************************************************************)
(* The bundle's acceptCalls, their aborts and its signals move no call.    *)
(***************************************************************************)
LEMMA LinedBundle ==
  ASSUME TypeOK, Lined,
         \/ \E a \in Accepts : AcceptCall(a) \/ AbortAccept(a)
         \/ \E s \in Signals : SendSignal(s)
  PROVE  Lined'
<1>1. UNCHANGED <<calls, queue, replies, toWorker, handed, issued, late, answered, outcome, failed, boot>>
      /\ WorkerUp
  BY DEF AcceptCall, AbortAccept, SendSignal, hostVars
<1>2. Quiet'
  BY <1>1 DEF Lined, Quiet, WorkerUp
<1>3. PICK m \in ToHost : /\ m.kind # "requeue-call" /\ m.kind # "respond"
                          /\ toHost' \in {toHost, Append(toHost, m)}
  <2>1. CASE \E a \in Accepts : AcceptCall(a) \/ AbortAccept(a)
    <3>1. PICK a \in Accepts : AcceptCall(a) \/ AbortAccept(a)
      BY <2>1
    <3>2. Accept(a) \in ToHost /\ Accept(a).kind = "acceptCall"
      BY DEF ToHost, Accept
    <3>. QED  BY <3>1, <3>2 DEF AcceptCall, AbortAccept
  <2>2. CASE \E s \in Signals : SendSignal(s)
    <3>1. PICK s \in Signals : SendSignal(s)
      BY <2>2
    <3>2. Signal(s) \in ToHost /\ Signal(s).kind \in {"ready", "failed"}
      BY SignalsAssumption DEF ToHost, Signal
    <3>. QED  BY <3>1, <3>2 DEF SendSignal
  <2>. QED  BY <2>1, <2>2
<1>4. aborts' = 0 => aborts = 0 /\ \A b \in Accepts : accept'[b] = "abandoned" => accept[b] = "abandoned"
  BY DEF AcceptCall, AbortAccept, SendSignal, TypeOK
<1>. QED  BY <1>1, <1>2, <1>3, <1>4, LinedStill, OtherToHost

(***************************************************************************)
(* A call that gets its id comes last on the line.                         *)
(***************************************************************************)
LEMMA LinedRegister ==
  ASSUME TypeOK, Lined, NEW c \in Calls, Register(c)
  PROVE  Lined'
<1>. USE DEF Queued, Resuming, Going, Had, Returning, Answering, Entered
<1>1. /\ issued' = Append(issued, c) /\ calls' = calls \cup {c} /\ late \subseteq late'
      /\ outcome[c] = "normalizing" /\ outcome' = [outcome EXCEPT ![c] = "pending"]
      /\ QueueStep(Push(queue, c))
      /\ UNCHANGED <<boot, failed, toWorker, toHost, handed, answered, accept, aborts>>
  BY DEF Register, workerVars
<1>2. /\ \A d : Entered(d)' <=> Entered(d) \/ d = c
      /\ InOrder(issued, Distinct(Calls)) => InOrder(issued', Distinct(Calls))
  <2>1. \A d : Entered(d)' <=> Entered(d) \/ d = c
    BY <1>1, Typed, AppendContains
  <2>2. \A d : Contains(issued, d) => <<d, c>> \in Distinct(Calls)
    BY <1>1, Typed, ContainsType DEF Lined, Known, Distinct
  <2>. QED  BY <1>1, <2>1, <2>2, Typed, AppendContains
<1>3. ~Entered(c) /\ ~Queued(c) /\ ~Resuming(c) /\ ~Going(c) /\ ~Had(c) /\ ~Returning(c)
  BY <1>1 DEF Lined, Known
<1>4. Serving(queue')
      /\ \/ /\ queue.takers # <<>> /\ queue.items = <<>> /\ queue'.items = <<>>
            /\ \E a \in Accepts : replies' = Append(replies, Delivery(a, c))
         \/ /\ queue.takers = <<>> /\ queue'.takers = <<>> /\ replies' = replies
            /\ queue'.items = Append(queue.items, c)
  BY <1>1, PushMoves DEF Lined
<1>5. ASSUME NEW R, InLine(R),
             \A d \in Calls : OnLine(handed, toWorker, replies, queue.items, d) => <<d, c>> \in R
      PROVE  InLine(R)'
  <2>1. Line(Calls, handed, toWorker, replies, Append(queue.items, c), R)
    BY <1>5, Typed, LineJoined DEF InLine
  <2>2. ASSUME NEW a \in Accepts, replies' = Append(replies, Delivery(a, c)), queue.items = <<>>
        PROVE  Line(Calls, handed, toWorker, replies', queue.items, R)
    BY <1>5, <2>2, Typed, DeliveryResumes, LineJoined DEF InLine
  <2>. QED  BY <1>1, <1>4, <2>1, <2>2 DEF InLine
<1>6. \A d : /\ Queued(d)' \/ Resuming(d)' <=> Queued(d) \/ Resuming(d) \/ d = c
             /\ Queued(d)' => Queued(d) \/ d = c
  <2>1. \A d : Contains(Append(queue.items, c), d) <=> Contains(queue.items, d) \/ d = c
    BY Typed, AppendContains
  <2>. HIDE DEF Resuming
  <2>2. ASSUME NEW a \in Accepts, replies' = Append(replies, Delivery(a, c))
        PROVE  \A d : Resuming(d)' <=> Resuming(d) \/ d = c
    BY <2>2, DeliveryResumes
  <2>3. replies' = replies => \A d : Resuming(d)' <=> Resuming(d)
    BY DEF Resuming
  <2>. QED  BY <1>4, <2>1, <2>2, <2>3
<1>7. \A d : (Going(d)' <=> Going(d)) /\ (Had(d)' <=> Had(d)) /\ (Returning(d)' <=> Returning(d))
             /\ (Answering(d)' <=> Answering(d))
  BY <1>1
<1>. HIDE DEF Queued, Resuming, Going, Had, Returning, Answering, Entered
<1>8. Quiet'
  BY <1>1, <1>4 DEF Lined, Quiet
<1>9. Known'
  <2>1. ASSUME NEW d \in Calls
        PROVE  /\ Queued(d)' => d \in calls'
               /\ d \in calls' \/ Resuming(d)' \/ Going(d)' \/ Had(d)' \/ Returning(d)' => Entered(d)'
               /\ outcome'[d] \in {"idle", "normalizing"} => ~Entered(d)'
    <3>1. outcome'[d] = IF d = c THEN "pending" ELSE outcome[d]
      BY <1>1 DEF TypeOK
    <3>2. /\ Queued(d) => d \in calls
          /\ d \in calls \/ Resuming(d) \/ Going(d) \/ Had(d) \/ Returning(d) => Entered(d)
          /\ outcome[d] \in {"idle", "normalizing"} => ~Entered(d)
      BY DEF Lined, Known
    <3>3. calls' = calls \cup {c} /\ (Entered(d)' <=> Entered(d) \/ d = c)
      BY <1>1, <1>2
    <3>. QED  BY <1>6, <1>7, <3>1, <3>2, <3>3
  <2>2. InOrder(issued', Distinct(Calls))
    BY <1>2 DEF Lined, Known
  <2>. QED  BY <2>1, <2>2 DEF Known
<1>10. Back'
  <2>1. ASSUME NEW d \in Calls
        PROVE  /\ Returning(d)' => ~(Queued(d)' \/ Resuming(d)' \/ Going(d)' \/ Had(d)')
               /\ Answering(d)' => d \in answered'
               /\ d \in answered' => Had(d)'
    BY <1>1, <1>3, <1>6, <1>7 DEF Lined, Back
  <2>. QED  BY <1>1, <2>1 DEF Lined, Back
<1>11. Located'
  <2>1. ASSUME NEW d \in calls' \ (late' \cup Bodied)
        PROVE  \/ Queued(d)' \/ Resuming(d)' \/ Going(d)' \/ Returning(d)'
               \/ (Had(d)' /\ d \notin answered') \/ Answering(d)'
    BY <1>1, <1>6, <1>7 DEF Lined, Located
  <2>. QED  BY <2>1 DEF Located
<1>12. InLine(Distinct(Calls))'
  <2>1. \A d \in Calls : OnLine(handed, toWorker, replies, queue.items, d) => <<d, c>> \in Distinct(Calls)
    BY <1>3 DEF OnLine, Distinct, Queued, Resuming, Going, Had
  <2>. QED  BY <1>5, <2>1 DEF Lined
<1>13. NoReturn'
  <2>. SUFFICES ASSUME aborts = 0 PROVE InLine(IssueOrder)'
    BY <1>1, <1>7 DEF Lined, NoReturn
  <2>1. PICK R : R = IssueOrder'
    OBVIOUS
  <2>2. Len(issued) \in Nat /\ Len(issued') = Len(issued) + 1 /\ issued'[Len(issued) + 1] = c
        /\ \A i \in 1 .. Len(issued) : issued'[i] = issued[i]
    BY <1>1, Typed, LenProperties, AppendProperties
  <2>3. \A p \in IssueOrder : p \in R
    BY <2>1, <2>2 DEF IssueOrder
  <2>4. \A d \in Calls : Entered(d) => <<d, c>> \in R
    <3>. SUFFICES ASSUME NEW d \in Calls, NEW i \in 1 .. Len(issued), issued[i] = d
                  PROVE  <<d, c>> \in R
      BY DEF Entered, Contains
    <3>1. i \in 1 .. Len(issued') /\ Len(issued) + 1 \in 1 .. Len(issued') /\ i < Len(issued) + 1
      BY <2>2
    <3>. QED  BY <2>1, <2>2, <3>1 DEF IssueOrder
  <2>5. InLine(IssueOrder)
    BY DEF Lined, NoReturn
  <2>6. InLine(R)
    BY <2>3, <2>5 DEF InLine, Line, InOrder, CarriedInOrder
  <2>7. \A d \in Calls : OnLine(handed, toWorker, replies, queue.items, d) => <<d, c>> \in R
    BY <2>4 DEF OnLine, Lined, Known, Queued, Resuming, Going, Had
  <2>8. InLine(R)'
    BY <1>5, <2>6, <2>7
  <2>. QED  BY <2>1, <2>8 DEF InLine
<1>. QED  BY <1>4, <1>8, <1>9, <1>10, <1>11, <1>12, <1>13 DEF Lined

(***************************************************************************)
(* A message into the port that is no delivery moves no call.              *)
(***************************************************************************)
LEMMA OtherToWorker ==
  ASSUME TypeOK, NEW m \in ToWorker, m.kind # "delivery", Post(m)
  PROVE  /\ \A d : Going(d)' <=> Going(d)
         /\ \A R : CarriedInOrder(toWorker, "delivery", R) => CarriedInOrder(toWorker', "delivery", R)
         /\ ~WorkerUp => toWorker' = toWorker
<1>1. toWorker \in Seq(ToWorker)
  BY Typed
<1>2. /\ \A d : Carries(Append(toWorker, m), "delivery", d) <=> Carries(toWorker, "delivery", d)
      /\ \A R : CarriedInOrder(toWorker, "delivery", R)
                  => CarriedInOrder(Append(toWorker, m), "delivery", R)
  BY <1>1, AppendCarries
<1>. QED  BY <1>2 DEF Post, Going

(***************************************************************************)
(* An abort takes its call out of the queue and out of the registered      *)
(* calls, and leaves the others where they are.                            *)
(***************************************************************************)
LEMMA LinedHostAbort ==
  ASSUME TypeOK, Lined, NEW c \in Calls, HostAbort(c)
  PROVE  Lined'
<1>1. /\ calls' = calls \ {c} /\ outcome' = [outcome EXCEPT ![c] = "rejected"]
      /\ c \in calls /\ c \in Signalled
      /\ UNCHANGED <<replies, boot, failed, toHost, handed, answered, accept, aborts, issued, late>>
  BY DEF HostAbort, AbortListener, workerVars
<1>2. CallAbort(c) \in ToWorker /\ CallAbort(c).kind # "delivery"
  BY <1>1 DEF ToWorker, CallAbort
<1>3. /\ queue'.takers = queue.takers
      /\ \A d : Queued(d)' <=> Queued(d) /\ d # c
      /\ \A R : InOrder(queue.items, R) => InOrder(queue'.items, R)
      /\ \A d : Going(d)' <=> Going(d)
      /\ \A R : CarriedInOrder(toWorker, "delivery", R) => CarriedInOrder(toWorker', "delivery", R)
      /\ ~WorkerUp => toWorker' = toWorker
  <2>1. CASE IsQueued(queue, c)
    <3>1. queue' = RemoveItem(queue, c) /\ toWorker' = toWorker
      BY <2>1 DEF HostAbort, AbortListener
    <3>2. queue'.items = RemoveFirst(queue.items, c) /\ queue'.takers = queue.takers
      BY <3>1, Typed DEF RemoveItem, QueueOf
    <3>3. InOrder(queue.items, Distinct(Calls)) /\ queue.items \in Seq(Calls) /\ Contains(queue.items, c)
      BY <2>1, Typed DEF Lined, InLine, Line, IsQueued
    <3>4. /\ \A d : Contains(queue'.items, d) <=> Contains(queue.items, d) /\ d # c
          /\ \A R : InOrder(queue.items, R) => InOrder(queue'.items, R)
      BY <3>2, <3>3, RemoveContains
    <3>. QED  BY <3>1, <3>2, <3>4 DEF Queued, Going
  <2>2. CASE ~IsQueued(queue, c)
    <3>1. queue' = queue /\ Post(CallAbort(c))
      BY <2>2 DEF HostAbort, AbortListener
    <3>2. \A d : Queued(d)' <=> Queued(d) /\ d # c
      BY <2>2, <3>1 DEF Queued, IsQueued
    <3>. QED  BY <1>2, <3>1, <3>2, OtherToWorker
  <2>. QED  BY <2>1, <2>2
<1>4. \A d : /\ Resuming(d)' <=> Resuming(d)
             /\ Had(d)' <=> Had(d)
             /\ Returning(d)' <=> Returning(d)
             /\ Answering(d)' <=> Answering(d)
             /\ Entered(d)' <=> Entered(d)
  BY <1>1 DEF Resuming, Had, Returning, Answering, Entered
<1>5. \A R : InLine(R) => InLine(R)'
  BY <1>1, <1>3 DEF InLine, Line, Queued, Going
<1>6. InLine(Distinct(Calls))' /\ (aborts = 0 => InLine(IssueOrder)')
  BY <1>1, <1>5, LineMoves
<1>7. Serving(queue)'
  <2>1. queue.items = <<>> => queue'.items = <<>>
    BY <1>1, Typed DEF HostAbort, AbortListener, RemoveItem, RemoveFirst, IsQueued, Contains
  <2>. QED  BY <1>3, <2>1 DEF Lined, Serving
<1>8. Quiet'
  BY <1>1, <1>3 DEF Lined, Quiet, WorkerUp
<1>9. Known'
  <2>1. ASSUME NEW d \in Calls
        PROVE  /\ Queued(d)' => d \in calls'
               /\ d \in calls' \/ Resuming(d)' \/ Going(d)' \/ Had(d)' \/ Returning(d)' => Entered(d)'
               /\ outcome'[d] \in {"idle", "normalizing"} => ~Entered(d)'
    <3>1. outcome'[d] = IF d = c THEN "rejected" ELSE outcome[d]
      BY <1>1 DEF TypeOK
    <3>. QED  BY <1>1, <1>3, <1>4, <3>1 DEF Lined, Known
  <2>. QED  BY <1>1, <2>1 DEF Lined, Known
<1>10. Back'
  BY <1>1, <1>3, <1>4 DEF Lined, Back
<1>11. Located'
  BY <1>1, <1>3, <1>4 DEF Lined, Located
<1>12. NoReturn'
  BY <1>1, <1>4, <1>6 DEF Lined, NoReturn
<1>. QED  BY <1>6, <1>7, <1>8, <1>9, <1>10, <1>11, <1>12 DEF Lined

(***************************************************************************)
(* A handler posts the call it was given, or, if there is no worker or the *)
(* body is gone, does not.                                                 *)
(***************************************************************************)
LEMMA LinedPostReply ==
  ASSUME TypeOK, Lined, Promises', PostReply
  PROVE  Lined'
<1>. DEFINE m == Head(replies)
<1>1. /\ replies # <<>> /\ replies' = Tail(replies) /\ Post(Response(m))
      /\ UNCHANGED <<calls, queue, outcome, boot, failed, toHost, handed, answered, accept, aborts,
                     issued, late>>
  BY DEF PostReply, workerVars
<1>2. replies \in Seq(ToWorker) /\ m \in ToWorker /\ Carrying(Calls, ToWorker) /\ toWorker \in Seq(ToWorker)
  BY <1>1, Typed, HeadTailProperties
<1>3. /\ \A d : Resuming(d) <=> Resuming(d)' \/ (m.kind = "delivery" /\ m.call = d)
      /\ \A R : CarriedInOrder(replies, "delivery", R) => CarriedInOrder(replies', "delivery", R)
  BY <1>1, <1>2, TailCarries DEF Resuming
<1>4. boot \notin {"loading", "framed"}
  BY <1>1 DEF Lined, Quiet
<1>5. \/ /\ m.kind = "delivery" /\ toWorker' = Append(toWorker, m)
      \/ /\ \A d : Going(d)' <=> Going(d)
         /\ \A R : CarriedInOrder(toWorker, "delivery", R) => CarriedInOrder(toWorker', "delivery", R)
         /\ m.kind = "delivery" => m.call \in Bodied \/ failed
  <2>1. CASE ~WorkerUp
    <3>1. toWorker' = toWorker /\ failed
      BY <1>1, <1>4, <2>1 DEF Post, WorkerUp, Lined, Quiet, TypeOK
    <3>. QED  BY <3>1 DEF Going
  <2>2. CASE WorkerUp /\ m.kind = "delivery" /\ m.call \notin detached
    BY <1>1, <2>2 DEF Post, Response
  <2>3. CASE m.kind = "delivery" /\ m.call \in detached
    <3>1. Response(m) = Refusal(m.acc) /\ m.call \in Bodied
      BY <2>3 DEF Response, TypeOK
    <3>2. Refusal(m.acc) \in ToWorker /\ Refusal(m.acc).kind # "delivery"
      BY <1>2, <2>3, CallsAssumption DEF ToWorker, Reply, Delivery, Refusal, Responded, CallAbort
    <3>. QED  BY <1>1, <2>3, <3>1, <3>2, OtherToWorker
  <2>4. CASE m.kind # "delivery"
    <3>1. Response(m) = m
      BY <2>4 DEF Response
    <3>. QED  BY <1>1, <1>2, <2>4, <3>1, OtherToWorker
  <2>. QED  BY <2>1, <2>2, <2>3, <2>4
<1>6. ASSUME NEW R, InLine(R) PROVE InLine(R)'
  <2>1. CASE m.kind = "delivery" /\ toWorker' = Append(toWorker, m)
    BY <1>1, <1>2, <1>6, <2>1, Typed, LinePosted DEF InLine
  <2>2. CASE /\ \A d : Going(d)' <=> Going(d)
             /\ CarriedInOrder(toWorker, "delivery", R) => CarriedInOrder(toWorker', "delivery", R)
    <3>1. Line(Calls, handed, toWorker', replies', queue.items, R)
      BY <1>3, <1>6, <2>2, LineLeft DEF InLine, Line, Going, Resuming
    <3>. QED  BY <1>1, <3>1 DEF InLine
  <2>. QED  BY <1>5, <2>1, <2>2
<1>7. InLine(Distinct(Calls))' /\ (aborts = 0 => InLine(IssueOrder)')
  BY <1>1, <1>6, LineMoves
<1>8. \A d : /\ Queued(d)' <=> Queued(d)
             /\ Had(d)' <=> Had(d)
             /\ Returning(d)' <=> Returning(d)
             /\ Answering(d)' <=> Answering(d)
             /\ Entered(d)' <=> Entered(d)
  BY <1>1 DEF Queued, Had, Returning, Answering, Entered
<1>9. /\ \A d : Resuming(d)' \/ Going(d)' => Resuming(d) \/ Going(d)
      /\ ~failed => \A d : d \notin Bodied /\ (Resuming(d) \/ Going(d)) => Resuming(d)' \/ Going(d)'
  <2>1. CASE m.kind = "delivery" /\ toWorker' = Append(toWorker, m)
    <3>1. \A d : Going(d)' <=> Going(d) \/ d = m.call
      BY <1>2, <2>1, AppendCarries DEF Going
    <3>. QED  BY <1>3, <2>1, <3>1
  <2>2. CASE /\ \A d : Going(d)' <=> Going(d)
             /\ m.kind = "delivery" => m.call \in Bodied \/ failed
    BY <1>3, <2>2
  <2>. QED  BY <1>5, <2>1, <2>2
<1>10. Serving(queue)' /\ Quiet'
  BY <1>1, <1>4 DEF Lined, Quiet
<1>11. Known'
  BY <1>1, <1>8, <1>9 DEF Lined, Known
<1>12. Back'
  BY <1>1, <1>8, <1>9 DEF Lined, Back
<1>13. Located'
  <2>1. CASE failed
    <3>1. calls' \subseteq late'
      BY <1>1, <2>1 DEF Promises, FailureSettles
    <3>. QED  BY <3>1 DEF Located
  <2>2. CASE ~failed
    BY <1>1, <1>8, <1>9, <2>2 DEF Lined, Located
  <2>. QED  BY <2>1, <2>2
<1>14. NoReturn'
  BY <1>1, <1>7, <1>8 DEF Lined, NoReturn
<1>. QED  BY <1>7, <1>10, <1>11, <1>12, <1>13, <1>14 DEF Lined

(***************************************************************************)
(* #fail empties the queue; what is further on its way stays there, unless *)
(* the port goes with the worker.                                          *)
(***************************************************************************)
LEMMA LinedFail ==
  ASSUME TypeOK, Lined, Promises', Fail, UNCHANGED <<handed, answered, accept, aborts, issued, late>>,
         toWorker' = toWorker \/ toWorker' = <<>>,
         toHost' = toHost \/ (toHost # <<>> /\ toHost' = Tail(toHost)),
         boot' = boot \/ boot' = "gone"
  PROVE  Lined'
<1>1. /\ failed' = TRUE /\ calls' \subseteq calls
      /\ \A c \in Calls : outcome'[c] \in {"idle", "normalizing"} => outcome[c] \in {"idle", "normalizing"}
      /\ queue' = queue \/ queue' = EmptyQueue
      /\ calls' = calls \/ queue' = EmptyQueue
      /\ replies' = replies \/ (replies' = replies \o Refusals(queue.takers) /\ queue' = EmptyQueue)
  BY DEF Fail, TypeOK, RejectAll
<1>2. EmptyQueue.items = <<>> /\ EmptyQueue.takers = <<>> /\ \A c : ~Contains(<<>>, c)
  BY DEF EmptyQueue, Contains
<1>3. /\ \A c : Resuming(c)' <=> Resuming(c)
      /\ \A R : CarriedInOrder(replies, "delivery", R) => CarriedInOrder(replies', "delivery", R)
  BY <1>1, RefusalsCarryNone DEF Resuming
<1>4. /\ \A c : Going(c)' => Going(c)
      /\ \A R : CarriedInOrder(toWorker, "delivery", R) => CarriedInOrder(toWorker', "delivery", R)
  BY DEF Going, Carries, CarriedInOrder
<1>5. /\ \A c : Queued(c)' => Queued(c) /\ queue' = queue
      /\ \A R : InOrder(queue.items, R) => InOrder(queue'.items, R)
  BY <1>1, <1>2 DEF Queued, InOrder
<1>6. /\ \A c : /\ Returning(c)' => Returning(c)
                /\ Answering(c)' => Answering(c)
      /\ \A k, R : CarriedInOrder(toHost, k, R) => CarriedInOrder(toHost', k, R)
  <2>1. toHost \in Seq(ToHost)
    BY Typed
  <2>2. toHost # <<>> =>
          /\ \A k, c : Carries(Tail(toHost), k, c) => Carries(toHost, k, c)
          /\ \A k, R : CarriedInOrder(toHost, k, R) => CarriedInOrder(Tail(toHost), k, R)
    BY <2>1, TailCarries
  <2>. QED  BY <2>2 DEF Returning, Answering
<1>7. \A c : (Had(c)' <=> Had(c)) /\ (Entered(c)' <=> Entered(c))
  BY DEF Had, Entered
<1>8. \A R : InLine(R) => InLine(R)'
  BY <1>3, <1>4, <1>5 DEF InLine, Line, Queued, Going, Resuming
<1>9. InLine(Distinct(Calls))' /\ (aborts = 0 => InLine(IssueOrder)')
  BY <1>8, LineMoves
<1>10. Serving(queue)'
  BY <1>1, <1>2 DEF Lined, Serving
<1>11. Quiet'
  <2>. SUFFICES ASSUME boot' \in {"loading", "framed"}
                PROVE  toWorker' = <<>> /\ toHost' = <<>> /\ replies' = <<>> /\ handed' = <<>>
                         /\ queue'.takers = <<>>
    BY <1>1 DEF Quiet
  <2>1. toWorker = <<>> /\ toHost = <<>> /\ replies = <<>> /\ handed = <<>> /\ queue.takers = <<>>
    BY DEF Lined, Quiet
  <2>2. Refusals(<<>>) = <<>>
    BY DEF Refusals
  <2>. QED  BY <1>1, <1>2, <2>1, <2>2
<1>12. Known'
  <2>1. ASSUME NEW c \in Calls, Queued(c)' PROVE c \in calls'
    <3>1. Queued(c) /\ queue' = queue
      BY <1>5, <2>1
    <3>2. queue' # EmptyQueue
      BY <1>2, <3>1 DEF Queued
    <3>. QED  BY <1>1, <3>1, <3>2 DEF Lined, Known
  <2>2. ASSUME NEW c \in Calls
        PROVE  /\ c \in calls' \/ Resuming(c)' \/ Going(c)' \/ Had(c)' \/ Returning(c)' => Entered(c)'
               /\ outcome'[c] \in {"idle", "normalizing"} => ~Entered(c)'
    BY <1>1, <1>3, <1>4, <1>6, <1>7 DEF Lined, Known
  <2>. QED  BY <2>1, <2>2 DEF Lined, Known
<1>13. Back'
  BY <1>3, <1>4, <1>5, <1>6, <1>7 DEF Lined, Back
<1>14. Located'
  <2>1. calls' \subseteq late'
    BY <1>1 DEF Promises, FailureSettles
  <2>. QED  BY <2>1 DEF Located
<1>15. NoReturn'
  BY <1>6, <1>9 DEF Lined, NoReturn
<1>. QED  BY <1>9, <1>10, <1>11, <1>12, <1>13, <1>14, <1>15 DEF Lined

(***************************************************************************)
(* The first message to the host is handled, and gone.                     *)
(***************************************************************************)
LEMMA HostReceives ==
  ASSUME TypeOK, Lined, HostReceive
  PROVE  LET m == Head(toHost)
         IN  /\ m \in ToHost /\ toHost # <<>> /\ toHost' = Tail(toHost) /\ replies = <<>>
             /\ \A d : Returning(d) <=> Returning(d)' \/ (m.kind = "requeue-call" /\ m.call = d)
             /\ \A d : Answering(d) <=> Answering(d)' \/ (m.kind = "respond" /\ m.call = d)
             /\ \A d : m.kind = "requeue-call" /\ m.call = d => ~Returning(d)'
             /\ \A k, R : CarriedInOrder(toHost, k, R) => CarriedInOrder(toHost', k, R)
             /\ \A d : (Going(d)' <=> Going(d)) /\ (Had(d)' <=> Had(d)) /\ (Entered(d)' <=> Entered(d))
             /\ UNCHANGED <<toWorker, handed, answered, accept, aborts, issued, late, boot>>
             /\ boot \notin {"loading", "framed"}
<1>. DEFINE m == Head(toHost)
<1>1. /\ toHost # <<>> /\ toHost' = Tail(toHost) /\ replies = <<>>
      /\ UNCHANGED <<toWorker, handed, answered, accept, aborts, issued, late, boot>>
  BY DEF HostReceive, Tick, workerVars
<1>2. m \in ToHost /\ toHost \in Seq(ToHost)
  BY <1>1, Typed, HeadTailProperties
<1>3. /\ \A d : Returning(d) <=> Returning(d)' \/ (m.kind = "requeue-call" /\ m.call = d)
      /\ \A d : Answering(d) <=> Answering(d)' \/ (m.kind = "respond" /\ m.call = d)
  BY <1>1, <1>2, TailCarries DEF Returning, Answering
<1>4. \A k, R : CarriedInOrder(toHost, k, R) => CarriedInOrder(toHost', k, R)
  BY <1>1, <1>2, TailCarries
<1>5. ASSUME NEW d, m.kind = "requeue-call", m.call = d PROVE ~Returning(d)'
  <2>1. CarriedInOrder(toHost, "requeue-call", Distinct(Calls))
    BY DEF Lined, Back
  <2>2. \A c : Carries(toHost', "requeue-call", c) => <<d, c>> \in Distinct(Calls)
    BY <1>1, <1>2, <1>5, <2>1, TailCarries
  <2>3. <<d, d>> \notin Distinct(Calls)
    BY DEF Distinct
  <2>. QED  BY <2>2, <2>3 DEF Returning
<1>6. \A d : (Going(d)' <=> Going(d)) /\ (Had(d)' <=> Had(d)) /\ (Entered(d)' <=> Entered(d))
  BY <1>1 DEF Going, Had, Entered
<1>7. boot \notin {"loading", "framed"}
  BY <1>1 DEF Lined, Quiet
<1>. QED  BY <1>1, <1>2, <1>3, <1>4, <1>5, <1>6, <1>7

(***************************************************************************)
(* An acceptCall takes the first of the queue, or waits.                   *)
(***************************************************************************)
LEMMA LinedOnAccept ==
  ASSUME TypeOK, Lined, HostReceive, OnAccept(Head(toHost))
  PROVE  Lined'
<1>. DEFINE m == Head(toHost)
<1>1. /\ m \in ToHost /\ m.kind = "acceptCall"
      /\ UNCHANGED <<outcome, calls, failed, toWorker, handed, answered, accept, aborts, issued, late, boot>>
      /\ boot \notin {"loading", "framed"}
      /\ \A d : (Returning(d)' <=> Returning(d)) /\ (Answering(d)' <=> Answering(d))
      /\ \A k, R : CarriedInOrder(toHost, k, R) => CarriedInOrder(toHost', k, R)
      /\ \A d : (Going(d)' <=> Going(d)) /\ (Had(d)' <=> Had(d)) /\ (Entered(d)' <=> Entered(d))
  BY HostReceives DEF OnAccept
<1>2. PICK a \in Accepts : a = m.acc
  BY <1>1 DEF ToHost, Accept, Requeue, Respond, Signal
<1>3. Serving(queue')
      /\ \/ queue.items = <<>> /\ queue'.items = <<>> /\ replies' = replies
         \/ /\ queue.items # <<>> /\ queue'.items = Tail(queue.items)
            /\ Head(queue.items) \in Calls
            /\ replies' = Append(replies, Delivery(a, Head(queue.items)))
  <2>1. QueueStep(Take(queue, a))
    BY <1>2 DEF OnAccept
  <2>. QED  BY <2>1, TakeMoves DEF Lined
<1>4. CASE queue.items = <<>> /\ queue'.items = <<>> /\ replies' = replies
  <2>1. \A R : InLine(R) => InLine(R)'
    BY <1>1, <1>4 DEF InLine
  <2>2. InLine(Distinct(Calls))' /\ (aborts = 0 => InLine(IssueOrder)')
    BY <1>1, <2>1, LineMoves
  <2>3. \A d : (Queued(d)' <=> Queued(d)) /\ (Resuming(d)' <=> Resuming(d))
    BY <1>4 DEF Queued, Resuming
  <2>4. Serving(queue)' /\ Quiet'
    BY <1>1, <1>3 DEF Lined, Quiet
  <2>5. Known' /\ Located'
    BY <1>1, <2>3 DEF Lined, Known, Located
  <2>6. Back' /\ NoReturn'
    BY <1>1, <2>2, <2>3 DEF Lined, Back, NoReturn
  <2>. QED  BY <2>2, <2>4, <2>5, <2>6 DEF Lined
<1>5. CASE queue.items # <<>>
  <2>. DEFINE x == Head(queue.items)
  <2>1. queue'.items = Tail(queue.items) /\ x \in Calls /\ replies' = Append(replies, Delivery(a, x))
    BY <1>3, <1>5
  <2>2. queue.items \in Seq(Calls)
    BY Typed
  <2>3. \A d : Queued(d) <=> Queued(d)' \/ d = x
    BY <1>5, <2>1, <2>2, TailContains DEF Queued
  <2>4. \A d : Resuming(d)' <=> Resuming(d) \/ d = x
    BY <2>1, DeliveryResumes
  <2>5. ASSUME NEW R, InLine(R) PROVE InLine(R)'
    <3>1. Delivery(a, x) \in ToWorker /\ Delivery(a, x).kind = "delivery" /\ Delivery(a, x).call = x
      BY <2>1, DeliveryResumes
    <3>2. Line(Calls, handed, toWorker, Append(replies, Delivery(a, x)), Tail(queue.items), R)
      BY <1>5, <2>2, <2>5, <3>1, Typed, LineTaken DEF InLine
    <3>. QED  BY <1>1, <2>1, <3>2 DEF InLine
  <2>. HIDE DEF x
  <2>6. InLine(Distinct(Calls))' /\ (aborts = 0 => InLine(IssueOrder)')
    BY <1>1, <2>5, LineMoves
  <2>7. Serving(queue)' /\ Quiet'
    BY <1>1, <1>3 DEF Lined, Quiet
  <2>8. Known'
    BY <1>1, <2>3, <2>4 DEF Lined, Known
  <2>9. Back'
    BY <1>1, <2>3, <2>4 DEF Lined, Back
  <2>10. Located'
    BY <1>1, <2>3, <2>4 DEF Lined, Located
  <2>11. NoReturn'
    BY <1>1, <2>6 DEF Lined, NoReturn
  <2>. QED  BY <2>6, <2>7, <2>8, <2>9, <2>10, <2>11 DEF Lined
<1>. QED  BY <1>3, <1>4, <1>5

(***************************************************************************)
(* A call that comes back is put in front, or given away, or dropped if it *)
(* is no longer registered.                                                *)
(***************************************************************************)
LEMMA LinedOnRequeue ==
  ASSUME TypeOK, Lined, HostReceive, OnRequeue(Head(toHost))
  PROVE  Lined'
<1>. DEFINE m == Head(toHost)
<1>1. /\ m \in ToHost /\ m.kind = "requeue-call"
      /\ UNCHANGED <<outcome, calls, failed, toWorker, handed, answered, accept, aborts, issued, late, boot>>
      /\ boot \notin {"loading", "framed"}
      /\ \A d : (Returning(d) <=> Returning(d)' \/ d = m.call) /\ (Answering(d)' <=> Answering(d))
      /\ \A d : d = m.call => ~Returning(d)'
      /\ \A k, R : CarriedInOrder(toHost, k, R) => CarriedInOrder(toHost', k, R)
      /\ \A d : (Going(d)' <=> Going(d)) /\ (Had(d)' <=> Had(d)) /\ (Entered(d)' <=> Entered(d))
  BY HostReceives DEF OnRequeue
<1>2. PICK c \in Calls : c = m.call
  BY <1>1 DEF ToHost, Accept, Requeue, Respond, Signal
<1>3. Returning(c) /\ ~Returning(c)' /\ ~Queued(c) /\ ~Resuming(c) /\ ~Going(c) /\ ~Had(c) /\ aborts # 0
  BY <1>1, <1>2 DEF Lined, Back, NoReturn
<1>. HIDE DEF m
<1>4. /\ Serving(queue)' /\ InLine(Distinct(Calls))'
      /\ \A d : (Queued(d)' => Queued(d) \/ d = c) /\ (Resuming(d)' => Resuming(d) \/ d = c)
      /\ \A d : Queued(d) => Queued(d)'
      /\ \A d : Resuming(d) => Resuming(d)'
      /\ Queued(c)' \/ Resuming(c)' <=> c \in calls
  <2>1. CASE c \notin calls
    <3>1. UNCHANGED <<queue, replies>>
      BY <1>2, <2>1 DEF OnRequeue, m
    <3>. QED  BY <1>1, <1>3, <2>1, <3>1 DEF Lined, InLine, Queued, Resuming
  <2>2. CASE c \in calls
    <3>1. QueueStep(PushFront(queue, c))
      BY <1>2, <2>2 DEF OnRequeue, m
    <3>2. /\ Serving(queue')
          /\ \/ /\ queue.takers # <<>> /\ queue.items = <<>> /\ queue'.items = <<>>
                /\ \E a \in Accepts : replies' = Append(replies, Delivery(a, c))
             \/ /\ queue.takers = <<>> /\ queue'.takers = <<>> /\ replies' = replies
                /\ \/ queue'.items = Append(queue.items, c)
                   \/ queue'.items = <<c>> \o queue.items
      BY <3>1, PushMoves DEF Lined
    <3>3. ~OnLine(handed, toWorker, replies, queue.items, c)
      BY <1>3 DEF OnLine, Queued, Resuming, Going, Had
    <3>4. \A d \in Calls : OnLine(handed, toWorker, replies, queue.items, d) => <<d, c>> \in Distinct(Calls)
      BY <3>3 DEF Distinct
    <3>5. queue.items \in Seq(Calls)
      BY Typed
    <3>6. CASE queue'.items = Append(queue.items, c) /\ replies' = replies
      <4>1. \A d : Queued(d)' <=> Queued(d) \/ d = c
        BY <3>5, <3>6, AppendContains DEF Queued
      <4>2. Line(Calls, handed, toWorker, replies, Append(queue.items, c), Distinct(Calls))
        BY <3>4, Typed, LineJoined DEF Lined, InLine
      <4>. QED  BY <1>1, <2>2, <3>2, <3>6, <4>1, <4>2 DEF InLine, Resuming
    <3>7. CASE queue'.items = <<c>> \o queue.items /\ replies' = replies
      <4>1. \A d : Queued(d)' <=> Queued(d) \/ d = c
        BY <3>5, <3>7, ConsContains DEF Queued
      <4>2. Line(Calls, handed, toWorker, replies, <<c>> \o queue.items, Distinct(Calls))
        BY <3>3, Typed, LineReturned DEF Lined, InLine
      <4>. QED  BY <1>1, <2>2, <3>2, <3>7, <4>1, <4>2 DEF InLine, Resuming
    <3>8. ASSUME NEW a \in Accepts, replies' = Append(replies, Delivery(a, c)), queue.items = <<>>,
                 queue'.items = <<>>
          PROVE  /\ \A d : (Queued(d)' <=> Queued(d)) /\ (Resuming(d)' <=> Resuming(d) \/ d = c)
                 /\ InLine(Distinct(Calls))'
      <4>1. Line(Calls, handed, toWorker, replies', queue.items, Distinct(Calls))
        BY <3>4, <3>8, Typed, DeliveryResumes, LineJoined DEF Lined, InLine
      <4>. QED  BY <1>1, <3>8, <4>1, DeliveryResumes DEF InLine, Queued
    <3>. QED  BY <2>2, <3>2, <3>6, <3>7, <3>8
  <2>. QED  BY <2>1, <2>2
<1>5. Quiet'
  BY <1>1 DEF Lined, Quiet
<1>6. Known'
  BY <1>1, <1>2, <1>3, <1>4 DEF Lined, Known
<1>7. Back'
  BY <1>1, <1>2, <1>3, <1>4 DEF Lined, Back
<1>8. Located'
  BY <1>1, <1>2, <1>3, <1>4 DEF Lined, Located
<1>9. NoReturn'
  BY <1>1, <1>3 DEF NoReturn
<1>. QED  BY <1>4, <1>5, <1>6, <1>7, <1>8, <1>9 DEF Lined

(***************************************************************************)
(* An answer ends its call; `ready` is about none.                         *)
(***************************************************************************)
LEMMA LinedOnRespond ==
  ASSUME TypeOK, Lined, HostReceive, OnRespond(Head(toHost)) \/ OnReady(Head(toHost))
  PROVE  Lined'
<1>. DEFINE m == Head(toHost)
<1>1. /\ m \in ToHost /\ m.kind \in {"respond", "ready"} /\ replies = <<>>
      /\ UNCHANGED <<queue, failed, toWorker, handed, answered, accept, aborts, issued, late, boot>>
      /\ boot \notin {"loading", "framed"}
      /\ \A d : (Returning(d) <=> Returning(d)')
      /\ \A d : Answering(d) <=> Answering(d)' \/ (m.kind = "respond" /\ m.call = d)
      /\ \A k, R : CarriedInOrder(toHost, k, R) => CarriedInOrder(toHost', k, R)
      /\ \A d : (Going(d)' <=> Going(d)) /\ (Had(d)' <=> Had(d)) /\ (Entered(d)' <=> Entered(d))
  BY HostReceives DEF OnRespond, OnReady
<1>2. /\ calls' = IF m.kind = "respond" THEN calls \ {m.call} ELSE calls
      /\ \A d \in Calls : outcome'[d] \in {"idle", "normalizing"} => outcome[d] \in {"idle", "normalizing"}
  BY DEF OnRespond, OnReady, TypeOK
<1>3. replies' = <<Responded(m.call)>> \/ replies' = <<>>
  BY <1>1 DEF OnRespond, OnReady
<1>4. \A d : ~Resuming(d) /\ ~Resuming(d)'
  BY <1>1, <1>3 DEF Resuming, Carries, Responded
<1>5. \A R : CarriedInOrder(replies', "delivery", R)
  BY <1>3 DEF CarriedInOrder, Responded
<1>6. ASSUME m.kind = "respond" PROVE m.call \in answered /\ m.call \in Calls /\ Had(m.call)
  <2>1. m.call \in Calls
    BY <1>1, <1>6 DEF ToHost, Accept, Requeue, Respond, Signal
  <2>. QED  BY <1>1, <1>6, <2>1 DEF Lined, Back
<1>. HIDE DEF m
<1>7. \A d : Queued(d)' <=> Queued(d)
  BY <1>1 DEF Queued
<1>8. \A R : InLine(R) => InLine(R)'
  BY <1>1, <1>4, <1>5 DEF InLine, Line, Resuming
<1>9. InLine(Distinct(Calls))' /\ (aborts = 0 => InLine(IssueOrder)')
  BY <1>1, <1>8, LineMoves
<1>10. Serving(queue)' /\ Quiet'
  BY <1>1 DEF Lined, Quiet
<1>11. Known'
  <2>1. ASSUME NEW d \in Calls, Queued(d)' PROVE d \in calls'
    <3>1. m.kind = "respond" => d # m.call
      BY <1>6, <1>7, <2>1, LineDistinct DEF Lined, InLine, Queued, Had
    <3>. QED  BY <1>2, <1>7, <2>1, <3>1 DEF Lined, Known
  <2>2. ASSUME NEW d \in Calls
        PROVE  /\ d \in calls' \/ Resuming(d)' \/ Going(d)' \/ Had(d)' \/ Returning(d)' => Entered(d)'
               /\ outcome'[d] \in {"idle", "normalizing"} => ~Entered(d)'
    BY <1>1, <1>2, <1>4 DEF Lined, Known
  <2>. QED  BY <1>1, <2>1, <2>2 DEF Lined, Known
<1>12. Back'
  BY <1>1, <1>4, <1>7 DEF Lined, Back
<1>13. Located'
  BY <1>1, <1>2, <1>4, <1>7 DEF Lined, Located
<1>14. NoReturn'
  BY <1>1, <1>9 DEF Lined, NoReturn
<1>. QED  BY <1>9, <1>10, <1>11, <1>12, <1>13, <1>14 DEF Lined

(***************************************************************************)
(* Every message the host gets.                                            *)
(***************************************************************************)
LEMMA LinedHostReceive ==
  ASSUME TypeOK, Lined, Promises', HostReceive
  PROVE  Lined'
<1>. DEFINE m == Head(toHost)
<1>1. CASE OnFailed(m)
  <2>1. /\ UNCHANGED <<handed, answered, accept, aborts, issued, late, toWorker, boot>>
        /\ toHost # <<>> /\ toHost' = Tail(toHost)
    BY HostReceives
  <2>2. Fail
    BY <1>1 DEF OnFailed
  <2>. QED  BY <2>1, <2>2, LinedFail
<1>2. OnAccept(m) \/ OnRequeue(m) \/ OnRespond(m) \/ OnReady(m) \/ OnFailed(m)
  BY DEF HostReceive
<1>. QED  BY <1>1, <1>2, LinedOnAccept, LinedOnRequeue, LinedOnRespond

(***************************************************************************)
(* The bundle answers a call it has.                                       *)
(***************************************************************************)
LEMMA LinedRespondTo ==
  ASSUME TypeOK, Lined, NEW c \in Calls, NEW ok \in BOOLEAN, RespondTo(c, ok)
  PROVE  Lined'
<1>1. /\ Had(c) /\ c \notin answered /\ answered' = answered \cup {c} /\ WorkerUp
      /\ toHost' = Append(toHost, Respond(c, ok))
      /\ UNCHANGED <<outcome, calls, queue, replies, failed, boot, toWorker, handed, accept, aborts,
                     issued, late>>
  BY DEF RespondTo, hostVars, Had
<1>2. /\ Respond(c, ok) \in ToHost /\ Respond(c, ok).kind = "respond" /\ Respond(c, ok).call = c
      /\ toHost \in Seq(ToHost)
  BY Typed DEF ToHost, Respond
<1>3. /\ \A d : Returning(d)' <=> Returning(d)
      /\ \A d : Answering(d)' <=> Answering(d) \/ d = c
      /\ \A R : CarriedInOrder(toHost, "requeue-call", R) => CarriedInOrder(toHost', "requeue-call", R)
  BY <1>1, <1>2, AppendCarries DEF Returning, Answering
<1>4. CarriedInOrder(toHost', "respond", Distinct(Calls))
  <2>1. \A m \in ToHost : m.kind = "respond" => m.call \in Calls
    BY DEF ToHost, Accept, Requeue, Respond, Signal
  <2>2. \A d : Answering(d) => d \in Calls
    BY <1>2, <2>1, CarriesType DEF Answering
  <2>3. \A d : Answering(d) => <<d, c>> \in Distinct(Calls)
    BY <1>1, <2>2 DEF Lined, Back, Distinct
  <2>4. CarriedInOrder(toHost, "respond", Distinct(Calls))
    BY DEF Lined, Back
  <2>5. \A d : Carries(toHost, "respond", d) => <<d, Respond(c, ok).call>> \in Distinct(Calls)
    BY <1>2, <2>3 DEF Answering
  <2>. QED  BY <1>1, <1>2, <2>4, <2>5, AppendCarries
<1>5. \A d : /\ Queued(d)' <=> Queued(d)
             /\ Resuming(d)' <=> Resuming(d)
             /\ Going(d)' <=> Going(d)
             /\ Had(d)' <=> Had(d)
             /\ Entered(d)' <=> Entered(d)
  BY <1>1 DEF Queued, Resuming, Going, Had, Entered
<1>6. \A R : InLine(R) => InLine(R)'
  BY <1>1 DEF InLine
<1>7. InLine(Distinct(Calls))' /\ (aborts = 0 => InLine(IssueOrder)')
  BY <1>1, <1>6, LineMoves
<1>8. Serving(queue)' /\ Quiet'
  BY <1>1 DEF Lined, Quiet, WorkerUp
<1>9. Known'
  BY <1>1, <1>3, <1>5 DEF Lined, Known
<1>10. Back'
  BY <1>1, <1>3, <1>4, <1>5 DEF Lined, Back
<1>11. Located'
  BY <1>1, <1>3, <1>5 DEF Lined, Located
<1>12. NoReturn'
  BY <1>1, <1>3, <1>7 DEF Lined, NoReturn
<1>. QED  BY <1>7, <1>8, <1>9, <1>10, <1>11, <1>12 DEF Lined

(***************************************************************************)
(* A delivery arrives: the bundle has the call, or the call goes back.     *)
(***************************************************************************)
LEMMA LinedWorkerReceive ==
  ASSUME TypeOK, Lined, WorkerReceive
  PROVE  Lined'
<1>. DEFINE m == Head(toWorker)
<1>1. /\ toWorker # <<>> /\ toWorker' = Tail(toWorker) /\ WorkerUp
      /\ UNCHANGED <<outcome, calls, queue, replies, failed, boot, answered, aborts, issued, late>>
  BY DEF WorkerReceive, hostVars
<1>2. m \in ToWorker /\ toWorker \in Seq(ToWorker) /\ toHost \in Seq(ToHost)
  BY <1>1, Typed, HeadTailProperties
<1>3. /\ \A d : Going(d) <=> Going(d)' \/ (m.kind = "delivery" /\ m.call = d)
      /\ \A R : CarriedInOrder(toWorker, "delivery", R) => CarriedInOrder(toWorker', "delivery", R)
  BY <1>1, <1>2, TailCarries DEF Going
<1>4. \A d : /\ Queued(d)' <=> Queued(d)
             /\ Resuming(d)' <=> Resuming(d)
             /\ Entered(d)' <=> Entered(d)
  BY <1>1 DEF Queued, Resuming, Entered
<1>5. Serving(queue)' /\ Quiet'
  BY <1>1 DEF Lined, Quiet, WorkerUp
<1>6. CASE m.kind # "delivery"
  <2>1. UNCHANGED <<handed, toHost>> /\ \A a \in Accepts : accept'[a] = "abandoned" => accept[a] = "abandoned"
    BY <1>6 DEF WorkerReceive, OnDelivery, OnRefusal, OnCallAbort, OnResponded, TypeOK
  <2>2. \A d : (Going(d)' <=> Going(d)) /\ (Had(d)' <=> Had(d)) /\ (Returning(d)' <=> Returning(d))
               /\ (Answering(d)' <=> Answering(d))
    BY <1>3, <1>6, <2>1 DEF Had, Returning, Answering
  <2>3. \A R : InLine(R) => InLine(R)'
    BY <1>1, <1>3, <2>1, <2>2 DEF InLine, Line, Going
  <2>4. InLine(Distinct(Calls))' /\ (aborts = 0 => InLine(IssueOrder)')
    BY <1>1, <2>3, LineMoves
  <2>5. Known' /\ Located'
    BY <1>1, <1>4, <2>2 DEF Lined, Known, Located
  <2>6. Back'
    BY <1>1, <1>4, <2>1, <2>2 DEF Lined, Back
  <2>7. NoReturn'
    BY <1>1, <2>1, <2>2, <2>4 DEF Lined, NoReturn
  <2>. QED  BY <1>5, <2>4, <2>5, <2>6, <2>7 DEF Lined
<1>7. CASE m.kind = "delivery"
  <2>1. PICK c \in Calls, a \in Accepts : c = m.call /\ a = m.acc
    BY <1>2, <1>7 DEF ToWorker, Reply, Delivery, Refusal, Responded, CallAbort
  <2>2. OnDelivery(m)
    BY <1>7 DEF WorkerReceive, OnRefusal, OnCallAbort, OnResponded
  <2>3. accept' = [accept EXCEPT ![a] = "free"]
    BY <2>1, <2>2 DEF OnDelivery
  <2>4. Going(c) /\ ~Going(c)' /\ ~Had(c) /\ ~Resuming(c) /\ ~Queued(c) /\ ~Returning(c)
    <3>1. Going(c)
      BY <1>3, <1>7, <2>1
    <3>2. ~Had(c) /\ ~Resuming(c) /\ ~Queued(c) /\ ~Returning(c)
      BY <3>1, LineDistinct DEF Lined, Back, InLine, Queued, Resuming, Going, Had
    <3>3. CarriedInOrder(toWorker, "delivery", Distinct(Calls))
      BY DEF Lined, InLine, Line
    <3>4. \A d : Carries(toWorker', "delivery", d) => <<c, d>> \in Distinct(Calls)
      BY <1>1, <1>2, <1>7, <2>1, <3>3, TailCarries
    <3>5. ~Going(c)'
      BY <3>4 DEF Going, Distinct
    <3>. QED  BY <3>1, <3>2, <3>5
  <2>5. CASE accept[a] = "abandoned"
    <3>1. toHost' = Append(toHost, Requeue(c)) /\ handed' = handed /\ aborts # 0
      BY <2>1, <2>2, <2>5 DEF OnDelivery, Lined, NoReturn
    <3>2. Requeue(c) \in ToHost /\ Requeue(c).kind = "requeue-call" /\ Requeue(c).call = c
      BY DEF ToHost, Requeue
    <3>3. /\ \A d : Returning(d)' <=> Returning(d) \/ d = c
          /\ \A d : Answering(d)' <=> Answering(d)
          /\ \A R : CarriedInOrder(toHost, "respond", R) => CarriedInOrder(toHost', "respond", R)
      BY <1>2, <3>1, <3>2, AppendCarries DEF Returning, Answering
    <3>4. CarriedInOrder(toHost', "requeue-call", Distinct(Calls))
      <4>1. \A n \in ToHost : n.kind = "requeue-call" => n.call \in Calls
        BY DEF ToHost, Accept, Requeue, Respond, Signal
      <4>2. \A d : Returning(d) => d \in Calls
        BY <1>2, <4>1, CarriesType DEF Returning
      <4>3. \A d : Carries(toHost, "requeue-call", d) => <<d, Requeue(c).call>> \in Distinct(Calls)
        BY <2>4, <3>2, <4>2 DEF Returning, Distinct
      <4>4. CarriedInOrder(toHost, "requeue-call", Distinct(Calls))
        BY DEF Lined, Back
      <4>. QED  BY <1>2, <3>1, <3>2, <4>3, <4>4, AppendCarries
    <3>5. \A d : (Going(d) <=> Going(d)' \/ d = c) /\ (Had(d)' <=> Had(d))
      BY <1>3, <1>7, <2>1, <3>1 DEF Had
    <3>6. \A R : InLine(R) => InLine(R)'
      BY <1>1, <1>3, <3>1, <3>5 DEF InLine, Line, Going
    <3>7. InLine(Distinct(Calls))'
      BY <1>1, <3>6, LineMoves
    <3>8. Known'
      BY <1>1, <1>4, <2>4, <3>3, <3>5 DEF Lined, Known
    <3>9. Back'
      BY <1>1, <1>4, <2>4, <3>3, <3>4, <3>5 DEF Lined, Back
    <3>10. Located'
      BY <1>1, <1>4, <3>3, <3>5 DEF Lined, Located
    <3>11. NoReturn'
      BY <1>1, <3>1 DEF NoReturn
    <3>. QED  BY <1>5, <3>7, <3>8, <3>9, <3>10, <3>11 DEF Lined
  <2>6. CASE accept[a] # "abandoned"
    <3>1. toHost' = toHost /\ handed' = Append(handed, c)
      BY <2>1, <2>2, <2>6 DEF OnDelivery
    <3>2. \A d : Had(d)' <=> Had(d) \/ d = c
      BY <3>1, Typed, AppendContains DEF Had
    <3>3. \A d : (Going(d) <=> Going(d)' \/ d = c) /\ (Returning(d)' <=> Returning(d))
                 /\ (Answering(d)' <=> Answering(d))
      BY <1>3, <1>7, <2>1, <3>1 DEF Returning, Answering
    <3>4. ASSUME NEW R, InLine(R) PROVE InLine(R)'
      <4>1. Line(Calls, Append(handed, Head(toWorker).call), Tail(toWorker), replies, queue.items, R)
        BY <1>1, <1>7, <3>4, Typed, LineArrived DEF InLine
      <4>. QED  BY <1>1, <2>1, <3>1, <4>1 DEF InLine
    <3>5. InLine(Distinct(Calls))' /\ (aborts = 0 => InLine(IssueOrder)')
      BY <1>1, <3>4, LineMoves
    <3>6. Known'
      BY <1>1, <1>4, <2>4, <3>2, <3>3 DEF Lined, Known
    <3>7. Back'
      BY <1>1, <1>4, <2>4, <3>1, <3>2, <3>3 DEF Lined, Back
    <3>8. Located'
      BY <1>1, <1>4, <2>4, <3>2, <3>3 DEF Lined, Located, Back
    <3>9. NoReturn'
      BY <1>1, <2>3, <3>3, <3>5 DEF Lined, NoReturn, TypeOK
    <3>. QED  BY <1>5, <3>5, <3>6, <3>7, <3>8, <3>9 DEF Lined
  <2>. QED  BY <2>5, <2>6
<1>. QED  BY <1>6, <1>7

(***************************************************************************)
(* Every step keeps the invariant.                                         *)
(***************************************************************************)
LEMMA LinedStep == TypeOK /\ Promises /\ Lined /\ [Next]_vars => Lined'
<1>. SUFFICES ASSUME TypeOK, Promises, Lined, [Next]_vars PROVE Lined'
  OBVIOUS
<1>1. Promises'
  BY PromisesStep
<1>2. ASSUME NEW c \in Calls, HostStep(c) PROVE Lined'
  BY <1>2, LinedFetch, LinedRegister, LinedHostAbort DEF HostStep
<1>3. CASE PostReply
  BY <1>1, <1>3, LinedPostReply
<1>4. CASE HostReceive
  BY <1>1, <1>4, LinedHostReceive
<1>5. CASE WorkerReceive
  BY <1>5, LinedWorkerReceive
<1>6. CASE BootFrame \/ BootInit
  BY <1>6, LinedBoot
<1>7. CASE BootFails \/ WorkerError \/ Close
  <2>1. Fail /\ UNCHANGED <<toHost, handed, answered, accept, aborts, issued, late>>
    BY <1>7 DEF BootFails, WorkerError, Close, workerVars
  <2>2. (toWorker' = toWorker \/ toWorker' = <<>>) /\ (boot' = boot \/ boot' = "gone")
    BY <1>7 DEF BootFails, WorkerError, Close
  <2>. QED  BY <1>1, <2>1, <2>2, LinedFail
<1>8. CASE BundleStep
  <2>1. ASSUME NEW a \in Accepts, AcceptCall(a) \/ AbortAccept(a) PROVE Lined'
    BY <2>1, LinedBundle
  <2>2. ASSUME NEW s \in Signals, SendSignal(s) PROVE Lined'
    BY <2>2, LinedBundle
  <2>3. ASSUME NEW c \in Calls, NEW ok \in BOOLEAN, RespondTo(c, ok) PROVE Lined'
    BY <2>3, LinedRespondTo
  <2>. QED  BY <1>8, <2>1, <2>2, <2>3 DEF BundleStep
<1>9. CASE UNCHANGED vars
  <2>1. UNCHANGED <<calls, queue, replies, toWorker, toHost, handed, issued, late, answered, aborts,
                    accept, outcome, boot, failed>>
    BY <1>9 DEF vars, hostVars, workerVars
  <2>2. Quiet'
    BY <2>1 DEF Lined, Quiet
  <2>. QED  BY <2>1, <2>2, LinedStill DEF Returning, Answering
<1>. QED  BY <1>2, <1>3, <1>4, <1>5, <1>6, <1>7, <1>8, <1>9 DEF Next

(***************************************************************************)
(* The line and what is beside it, throughout.                             *)
(***************************************************************************)
LEMMA LinedInvariant == Spec => []Lined
BY LinedInit, LinedStep, TypeCorrect, PromisesInvariant, PTL DEF Spec

-----------------------------------------------------------------------------
(* What the line is for. *)

(***************************************************************************)
(* How often a call is in each place: once, or not at all.                 *)
(***************************************************************************)
LEMMA PlacesCounted ==
  ASSUME TypeOK, Lined, NEW c \in Calls
  PROVE  /\ Cardinality(InQueue(c)) = IF Queued(c) THEN 1 ELSE 0
         /\ Cardinality(InReplies(c)) = IF Resuming(c) THEN 1 ELSE 0
         /\ Cardinality(InDelivery(c)) = IF Going(c) THEN 1 ELSE 0
         /\ Cardinality(InReturn(c)) = IF Returning(c) \/ Answering(c) THEN 1 ELSE 0
         /\ Cardinality(InBundle(c)) = IF Had(c) /\ c \notin answered THEN 1 ELSE 0
<1>1. /\ InOrder(queue.items, Distinct(Calls)) /\ InOrder(handed, Distinct(Calls))
      /\ CarriedInOrder(replies, "delivery", Distinct(Calls))
      /\ CarriedInOrder(toWorker, "delivery", Distinct(Calls))
      /\ CarriedInOrder(toHost, "requeue-call", Distinct(Calls))
      /\ CarriedInOrder(toHost, "respond", Distinct(Calls))
  BY DEF Lined, InLine, Line, Back
<1>2. /\ queue.items \in Seq(Calls) /\ handed \in Seq(Calls) /\ replies \in Seq(ToWorker)
      /\ toWorker \in Seq(ToWorker) /\ toHost \in Seq(ToHost)
  BY Typed
<1>3. Cardinality(InQueue(c)) = IF Queued(c) THEN 1 ELSE 0
  BY <1>1, <1>2, CountContains DEF InQueue, Queued
<1>4. Cardinality(InReplies(c)) = IF Resuming(c) THEN 1 ELSE 0
  BY <1>1, <1>2, CountCarries DEF InReplies, Resuming
<1>5. Cardinality(InDelivery(c)) = IF Going(c) THEN 1 ELSE 0
  BY <1>1, <1>2, CountCarries DEF InDelivery, Going
<1>6. Cardinality(InReturn(c)) = IF Returning(c) \/ Answering(c) THEN 1 ELSE 0
  <2>. DEFINE Back1 == {i \in DOMAIN toHost : toHost[i].kind = "requeue-call" /\ toHost[i].call = c}
              Back2 == {i \in DOMAIN toHost : toHost[i].kind = "respond" /\ toHost[i].call = c}
  <2>1. /\ Cardinality(Back1) = IF Returning(c) THEN 1 ELSE 0
        /\ Cardinality(Back2) = IF Answering(c) THEN 1 ELSE 0
    <3>1. Cardinality(Back1) = IF Returning(c) THEN 1 ELSE 0
      BY <1>1, <1>2, CountCarries DEF Returning
    <3>2. Cardinality(Back2) = IF Answering(c) THEN 1 ELSE 0
      BY <1>1, <1>2, CountCarries DEF Answering
    <3>. QED  BY <3>1, <3>2
  <2>2. DOMAIN toHost = 1 .. Len(toHost)
    BY <1>2, LenProperties
  <2>3. (~Returning(c) => Back1 = {}) /\ (~Answering(c) => Back2 = {})
    BY <2>2 DEF Returning, Answering, Carries
  <2>4. InReturn(c) = Back1 \cup Back2
    BY DEF InReturn
  <2>5. ~Returning(c) \/ ~Answering(c)
    BY DEF Lined, Back
  <2>. HIDE DEF Back1, Back2
  <2>6. CASE ~Returning(c)
    <3>1. InReturn(c) = Back2
      BY <2>3, <2>4, <2>6
    <3>. QED  BY <2>1, <2>6, <3>1
  <2>7. CASE ~Answering(c)
    <3>1. InReturn(c) = Back1
      BY <2>3, <2>4, <2>7
    <3>. QED  BY <2>1, <2>7, <3>1
  <2>. QED  BY <2>5, <2>6, <2>7
<1>7. Cardinality(InBundle(c)) = IF Had(c) /\ c \notin answered THEN 1 ELSE 0
  <2>1. CASE c \in answered
    <3>1. InBundle(c) = {}
      BY <2>1 DEF InBundle
    <3>. QED  BY <2>1, <3>1, FS_EmptySet
  <2>2. CASE c \notin answered
    <3>1. InBundle(c) = {i \in DOMAIN handed : handed[i] = c}
      BY <2>2 DEF InBundle
    <3>. QED  BY <1>1, <1>2, <2>2, <3>1, CountContains DEF Had
  <2>. QED  BY <2>1, <2>2
<1>. QED  BY <1>3, <1>4, <1>5, <1>6, <1>7

(***************************************************************************)
(* SPEC.md 8, no drop and no duplication: a call the host waits for is in  *)
(* exactly one place.                                                      *)
(***************************************************************************)
THEOREM CallsInOnePlace == Spec => []InOnePlace
<1>1. TypeOK /\ Lined => InOnePlace
  <2>. SUFFICES ASSUME TypeOK, Lined, NEW c \in calls \ (late \cup Bodied) PROVE Copies(c) = 1
    BY DEF InOnePlace
  <2>1. c \in Calls
    BY DEF TypeOK
  <2>2. /\ Had(c) => ~Going(c) /\ ~Resuming(c) /\ ~Queued(c)
        /\ Going(c) => ~Resuming(c) /\ ~Queued(c)
        /\ Resuming(c) => ~Queued(c)
    BY <2>1, LineDistinct DEF Lined, InLine, Queued, Resuming, Going, Had
  <2>3. /\ Returning(c) => ~(Queued(c) \/ Resuming(c) \/ Going(c) \/ Had(c))
        /\ Answering(c) => c \in answered /\ Had(c)
    BY <2>1 DEF Lined, Back
  <2>4. \/ Queued(c) \/ Resuming(c) \/ Going(c) \/ Returning(c)
        \/ (Had(c) /\ c \notin answered) \/ Answering(c)
    BY DEF Lined, Located
  <2>. QED  BY <2>1, <2>2, <2>3, <2>4, PlacesCounted DEF Copies
<1>. QED  BY <1>1, TypeCorrect, LinedInvariant, PTL

(***************************************************************************)
(* The bundle never gets a call twice, however often the call was taken    *)
(* from the queue and put back.                                            *)
(***************************************************************************)
THEOREM NeverTwice == Spec => []HandedOnce
<1>1. TypeOK /\ Lined => HandedOnce
  <2>. SUFFICES ASSUME TypeOK, Lined, NEW i \in DOMAIN handed, NEW j \in DOMAIN handed,
                       handed[i] = handed[j], i # j
                PROVE  FALSE
    BY DEF HandedOnce, IsInjective
  <2>1. DOMAIN handed = 1 .. Len(handed) /\ Len(handed) \in Nat
    BY Typed, LenProperties
  <2>2. InOrder(handed, Distinct(Calls))
    BY DEF Lined, InLine, Line
  <2>3. <<handed[i], handed[j]>> \in Distinct(Calls) \/ <<handed[j], handed[i]>> \in Distinct(Calls)
    BY <2>1, <2>2 DEF InOrder
  <2>. QED  BY <2>3 DEF Distinct
<1>. QED  BY <1>1, TypeCorrect, LinedInvariant, PTL

(***************************************************************************)
(* The queue holds only calls the host still waits for.                    *)
(***************************************************************************)
THEOREM QueueIsLive == Spec => []OnlyLiveQueued
<1>1. TypeOK /\ Lined => OnlyLiveQueued
  <2>. SUFFICES ASSUME TypeOK, Lined, NEW c \in ToSet(queue.items) PROVE c \in calls
    BY DEF OnlyLiveQueued
  <2>1. queue.items \in Seq(Calls)
    BY Typed
  <2>2. Queued(c)
    BY <2>1, LenProperties DEF Queued, Contains, ToSet
  <2>3. c \in Calls
    BY <2>1, <2>2, ContainsType DEF Queued
  <2>. QED  BY <2>2, <2>3 DEF Lined, Known
<1>. QED  BY <1>1, TypeCorrect, LinedInvariant, PTL

(***************************************************************************)
(* SPEC.md 8: the bundle gets the calls in the order of their ids, as long *)
(* as it aborts no acceptCall.                                             *)
(***************************************************************************)
THEOREM InTheirOrder == Spec => []HandedInOrder
<1>1. TypeOK /\ Lined => HandedInOrder
  <2>. SUFFICES ASSUME TypeOK, Lined, aborts = 0, NEW i \in DOMAIN handed, NEW j \in DOMAIN handed,
                       NEW m \in DOMAIN issued, NEW n \in DOMAIN issued,
                       i < j, issued[m] = handed[i], issued[n] = handed[j]
                PROVE  m < n
    BY DEF HandedInOrder
  <2>1. /\ DOMAIN handed = 1 .. Len(handed) /\ Len(handed) \in Nat
        /\ DOMAIN issued = 1 .. Len(issued) /\ Len(issued) \in Nat
    BY Typed, LenProperties
  <2>2. <<handed[i], handed[j]>> \in IssueOrder
    BY <2>1 DEF Lined, NoReturn, InLine, Line, InOrder
  <2>3. PICK k, l \in 1 .. Len(issued) : k < l /\ issued[k] = handed[i] /\ issued[l] = handed[j]
    BY <2>2 DEF IssueOrder
  <2>4. \A x, y \in 1 .. Len(issued) : issued[x] = issued[y] => x = y
    <3>. SUFFICES ASSUME NEW x \in 1 .. Len(issued), NEW y \in 1 .. Len(issued),
                         issued[x] = issued[y], x # y
                  PROVE  FALSE
      OBVIOUS
    <3>1. InOrder(issued, Distinct(Calls)) /\ (x < y \/ y < x)
      BY <2>1 DEF Lined, Known
    <3>2. <<issued[x], issued[y]>> \in Distinct(Calls) \/ <<issued[y], issued[x]>> \in Distinct(Calls)
      BY <3>1 DEF InOrder
    <3>. QED  BY <3>2 DEF Distinct
  <2>. QED  BY <2>1, <2>3, <2>4
<1>. QED  BY <1>1, TypeCorrect, LinedInvariant, PTL

-----------------------------------------------------------------------------
(* The aborts.  An abort is in the port behind its delivery or ahead of    *)
(* it, and in either case ahead of what ends the call in the worker.       *)

AbortSent(c) == Carries(toWorker, "call-abort", c)
Closing(c) == Carries(toWorker, "responded", c) \/ Carries(replies, "responded", c)
Reaching(c) == Resuming(c) \/ Going(c) \/ Had(c)

Followed(c) ==
  /\ c \in aborted /\ Entered(c) => c \notin calls
  /\ AbortSent(c) => c \in aborted
  /\ c \in callAborts => Had(c)
  /\ c \in aborted /\ WorkerUp /\ Reaching(c) =>
       c \in told \/ AbortSent(c) \/ (c \in preAborted /\ ~Had(c))
  /\ Closing(c) => c \in answered /\ c \notin calls
  /\ Had(c) /\ c \notin callAborts => c \notin calls /\ ~AbortSent(c)

AbortsFollow == (\A c \in Signalled : Followed(c)) /\ Ahead(toWorker, "call-abort", "responded")

(***************************************************************************)
(* Nothing is aborted at first.                                            *)
(***************************************************************************)
LEMMA AbortsInit == Init => AbortsFollow
<1>. SUFFICES ASSUME Init PROVE AbortsFollow
  OBVIOUS
<1>1. \A c : ~Entered(c) /\ ~AbortSent(c) /\ ~Closing(c) /\ ~Had(c)
  BY DEF Init, Entered, AbortSent, Closing, Had, Carries, Contains
<1>2. Ahead(toWorker, "call-abort", "responded")
  BY DEF Init, Ahead
<1>. QED  BY <1>1, <1>2 DEF Init, AbortsFollow, Followed

(***************************************************************************)
(* A step that sends the worker nothing, or that takes the worker away.  A *)
(* call that starts on its way is registered, so it is not aborted.        *)
(***************************************************************************)
LEMMA AbortsStill ==
  ASSUME Lined, AbortsFollow, UNCHANGED <<told, preAborted, callAborts, handed>>,
         toWorker' = toWorker \/ (toWorker' = <<>> /\ ~WorkerUp'),
         aborted \subseteq aborted', answered \subseteq answered',
         \A c \in Signalled : c \in aborted' \ aborted => ~Entered(c)',
         \A c \in Signalled : Entered(c)' => Entered(c) \/ c \notin aborted',
         \A c \in Signalled : Entered(c) => Entered(c)',
         \A c \in Signalled : c \in calls' => c \in calls \/ ~Entered(c),
         \A c \in Signalled : Resuming(c)' => Resuming(c) \/ (c \in calls' /\ Entered(c)'),
         \A c \in Signalled : Carries(replies', "responded", c) => Carries(replies, "responded", c),
         WorkerUp' => WorkerUp \/ boot = "framed"
  PROVE  AbortsFollow'
<1>1. \A c : /\ Going(c)' => Going(c)
             /\ Had(c)' <=> Had(c)
             /\ AbortSent(c)' => AbortSent(c)
             /\ Closing(c)' => Closing(c) \/ Carries(replies', "responded", c)
  BY DEF Going, Had, AbortSent, Closing, Carries
<1>2. Ahead(toWorker', "call-abort", "responded")
  BY DEF AbortsFollow, Ahead
<1>3. ASSUME NEW c \in Signalled PROVE Followed(c)'
  <2>1. Followed(c) /\ c \in Calls
    BY CallsAssumption DEF AbortsFollow
  <2>2. c \in aborted' /\ Entered(c)' => c \notin calls'
    BY <2>1 DEF Followed
  <2>3. (AbortSent(c)' => c \in aborted') /\ (c \in callAborts' => Had(c)')
    BY <1>1, <2>1 DEF Followed
  <2>4. Closing(c)' => Closing(c)
    BY <1>1 DEF Closing
  <2>5. Closing(c) => c \in answered /\ c \notin calls /\ Entered(c)
    BY <2>1 DEF Followed, Lined, Known, Back
  <2>6. Closing(c)' => c \in answered' /\ c \notin calls'
    BY <2>4, <2>5
  <2>7. Had(c)' /\ c \notin callAborts' => c \notin calls' /\ ~AbortSent(c)'
    <3>1. Had(c) => Entered(c)
      BY <2>1 DEF Lined, Known
    <3>. QED  BY <1>1, <2>1, <3>1 DEF Followed
  <2>8. ASSUME c \in aborted', WorkerUp', Reaching(c)'
        PROVE  c \in told' \/ AbortSent(c)' \/ (c \in preAborted' /\ ~Had(c)')
    <3>1. Reaching(c)
      BY <1>1, <2>2, <2>8 DEF Reaching
    <3>2. Entered(c) /\ boot # "framed"
      BY <2>1, <3>1 DEF Reaching, Lined, Known, Quiet, Resuming, Going, Had, Carries, Contains
    <3>3. c \in aborted /\ WorkerUp
      BY <2>8, <3>2
    <3>4. c \in told \/ AbortSent(c) \/ (c \in preAborted /\ ~Had(c))
      BY <2>1, <3>1, <3>3 DEF Followed
    <3>5. AbortSent(c)' <=> AbortSent(c)
      BY <2>8 DEF AbortSent
    <3>. QED  BY <1>1, <3>4, <3>5
  <2>. QED  BY <2>2, <2>3, <2>6, <2>7, <2>8 DEF Followed
<1>. QED  BY <1>2, <1>3 DEF AbortsFollow

(***************************************************************************)
(* Most steps are of that kind.                                            *)
(***************************************************************************)
LEMMA AbortsHost ==
  ASSUME TypeOK, Lined, AbortsFollow, NEW c \in Calls,
         Fetch(c) \/ NormalizeFails(c) \/ RegisterAborted(c) \/ AbortEarly(c)
  PROVE  AbortsFollow'
<1>1. /\ UNCHANGED <<calls, replies, issued, boot, toWorker, told, preAborted, callAborts, handed, answered>>
      /\ aborted \subseteq aborted'
  BY DEF Fetch, NormalizeFails, RegisterAborted, AbortEarly, workerVars
<1>2. \A d : (Entered(d)' <=> Entered(d)) /\ (Resuming(d)' <=> Resuming(d))
  BY <1>1 DEF Entered, Resuming
<1>3. \A d \in Signalled : d \in aborted' \ aborted => ~Entered(d)'
  BY <1>2 DEF Fetch, NormalizeFails, RegisterAborted, AbortEarly, Lined, Known
<1>. QED  BY <1>1, <1>2, <1>3, AbortsStill DEF WorkerUp

(***************************************************************************)
(* A call that is registered was not aborted.                              *)
(***************************************************************************)
LEMMA AbortsRegister ==
  ASSUME TypeOK, Lined, AbortsFollow, NEW c \in Calls, Register(c)
  PROVE  AbortsFollow'
<1>1. /\ issued' = Append(issued, c) /\ calls' = calls \cup {c} /\ c \notin aborted
      /\ outcome[c] = "normalizing" /\ QueueStep(Push(queue, c))
      /\ UNCHANGED <<boot, aborted, toWorker, told, preAborted, callAborts, handed, answered>>
  BY DEF Register, workerVars
<1>2. \A d : Entered(d)' <=> Entered(d) \/ d = c
  BY <1>1, Typed, AppendContains DEF Entered
<1>3. ~Entered(c)
  BY <1>1 DEF Lined, Known
<1>4. replies' = replies \/ \E a \in Accepts : replies' = Append(replies, Delivery(a, c))
  BY <1>1, PushMoves DEF Lined
<1>5. /\ \A d : Resuming(d)' => Resuming(d) \/ d = c
      /\ \A d : Carries(replies', "responded", d) => Carries(replies, "responded", d)
  <2>1. ASSUME NEW a \in Accepts, replies' = Append(replies, Delivery(a, c))
        PROVE  /\ \A d : Resuming(d)' => Resuming(d) \/ d = c
               /\ \A d : Carries(replies', "responded", d) => Carries(replies, "responded", d)
    BY <2>1, DeliveryResumes
  <2>. QED  BY <1>4, <2>1 DEF Resuming
<1>. QED  BY <1>1, <1>2, <1>3, <1>5, AbortsStill DEF WorkerUp

(***************************************************************************)
(* What the host does on a message other than an answer brings only        *)
(* registered calls nearer to the worker.                                  *)
(***************************************************************************)
LEMMA AbortsHostReceive ==
  ASSUME TypeOK, Lined, AbortsFollow, HostReceive, ~OnRespond(Head(toHost))
  PROVE  AbortsFollow'
<1>. DEFINE m == Head(toHost)
<1>1. /\ m \in ToHost /\ replies = <<>>
      /\ UNCHANGED <<toWorker, handed, answered, issued, boot, aborted, told, preAborted, callAborts>>
  BY HostReceives DEF HostReceive, workerVars
<1>2. OnAccept(m) \/ OnRequeue(m) \/ OnReady(m) \/ OnFailed(m)
  BY DEF HostReceive
<1>3. calls' \subseteq calls
  BY <1>2 DEF OnAccept, OnRequeue, OnReady, OnFailed, Fail
<1>4. \A d : Entered(d)' <=> Entered(d)
  BY <1>1 DEF Entered
<1>5. \/ replies' = replies
      \/ \E a \in Accepts, c \in Calls : c \in calls' /\ replies' = Append(replies, Delivery(a, c))
      \/ replies' = replies \o Refusals(queue.takers)
  <2>1. CASE OnAccept(m)
    <3>1. PICK a \in Accepts : a = m.acc
      BY <1>1, <2>1 DEF OnAccept, ToHost, Accept, Requeue, Respond, Signal
    <3>2. QueueStep(Take(queue, a)) /\ calls' = calls
      BY <2>1, <3>1 DEF OnAccept
    <3>3. \/ replies' = replies
          \/ /\ queue.items # <<>> /\ Head(queue.items) \in Calls
             /\ replies' = Append(replies, Delivery(a, Head(queue.items)))
      BY <3>2, TakeMoves DEF Lined
    <3>4. ASSUME queue.items # <<>>, Head(queue.items) \in Calls
          PROVE  Head(queue.items) \in calls
      <4>1. Queued(Head(queue.items))
        BY <3>4, Typed, TailContains DEF Queued
      <4>. QED  BY <3>4, <4>1 DEF Lined, Known
    <3>. QED  BY <3>2, <3>3, <3>4
  <2>2. CASE OnRequeue(m)
    <3>1. PICK c \in Calls : c = m.call
      BY <1>1, <2>2 DEF OnRequeue, ToHost, Accept, Requeue, Respond, Signal
    <3>2. CASE c \in calls
      <4>1. QueueStep(PushFront(queue, c)) /\ calls' = calls
        BY <2>2, <3>1, <3>2 DEF OnRequeue
      <4>2. replies' = replies \/ \E a \in Accepts : replies' = Append(replies, Delivery(a, c))
        BY <4>1, PushMoves DEF Lined
      <4>. QED  BY <3>2, <4>1, <4>2
    <3>3. CASE c \notin calls
      BY <2>2, <3>1, <3>3 DEF OnRequeue
    <3>. QED  BY <3>2, <3>3
  <2>3. CASE OnReady(m) \/ OnFailed(m)
    BY <2>3 DEF OnReady, OnFailed, Fail
  <2>. QED  BY <1>2, <2>1, <2>2, <2>3
<1>6. /\ \A d : Resuming(d)' => Resuming(d) \/ d \in calls'
      /\ \A d : Carries(replies', "responded", d) => Carries(replies, "responded", d)
  <2>1. ASSUME NEW a \in Accepts, NEW c \in Calls, c \in calls', replies' = Append(replies, Delivery(a, c))
        PROVE  /\ \A d : Resuming(d)' => Resuming(d) \/ d \in calls'
               /\ \A d : Carries(replies', "responded", d) => Carries(replies, "responded", d)
    BY <2>1, DeliveryResumes
  <2>2. CASE replies' = replies \o Refusals(queue.takers)
    BY <2>2, RefusalsCarryNone DEF Resuming
  <2>. QED  BY <1>5, <2>1, <2>2 DEF Resuming
<1>7. \A d \in Signalled : d \in calls' => Entered(d)'
  BY <1>3, <1>4, CallsAssumption DEF Lined, Known
<1>. QED  BY <1>1, <1>3, <1>4, <1>6, <1>7, AbortsStill DEF WorkerUp

(***************************************************************************)
(* The boot and the end of the worker.                                     *)
(***************************************************************************)
LEMMA AbortsLife ==
  ASSUME TypeOK, Lined, AbortsFollow, BootFrame \/ BootFails \/ BootInit \/ WorkerError \/ Close
  PROVE  AbortsFollow'
<1>1. /\ UNCHANGED <<issued, aborted, told, preAborted, callAborts, handed, answered>>
      /\ calls' \subseteq calls
      /\ replies' = replies \/ replies' = replies \o Refusals(queue.takers)
  BY DEF BootFrame, BootFails, BootInit, WorkerError, Close, Fail, workerVars
<1>2. /\ toWorker' = toWorker \/ (toWorker' = <<>> /\ ~WorkerUp')
      /\ WorkerUp' => WorkerUp \/ boot = "framed"
  BY DEF BootFrame, BootFails, BootInit, WorkerError, Close, WorkerUp
<1>3. /\ \A d : Resuming(d)' => Resuming(d)
      /\ \A d : Carries(replies', "responded", d) => Carries(replies, "responded", d)
  BY <1>1, RefusalsCarryNone DEF Resuming
<1>4. \A d : Entered(d)' <=> Entered(d)
  BY <1>1 DEF Entered
<1>. QED  BY <1>1, <1>2, <1>3, <1>4, AbortsStill

(***************************************************************************)
(* The bundle's answer only adds to what is answered.                      *)
(***************************************************************************)
LEMMA AbortsBundle ==
  ASSUME TypeOK, Lined, AbortsFollow, BundleStep
  PROVE  AbortsFollow'
<1>1. UNCHANGED <<calls, replies, issued, aborted, boot, toWorker, told, preAborted, callAborts, handed>>
      /\ answered \subseteq answered'
  BY DEF BundleStep, AcceptCall, AbortAccept, RespondTo, SendSignal, hostVars
<1>2. \A d : (Entered(d)' <=> Entered(d)) /\ (Resuming(d)' <=> Resuming(d))
  BY <1>1 DEF Entered, Resuming
<1>. QED  BY <1>1, <1>2, AbortsStill DEF WorkerUp

(***************************************************************************)
(* The abort of a registered call withdraws it, or follows it.  Nothing    *)
(* that ends the call in the worker is on its way yet.                     *)
(***************************************************************************)
LEMMA AbortsHostAbort ==
  ASSUME TypeOK, Lined, AbortsFollow, NEW c \in Calls, HostAbort(c)
  PROVE  AbortsFollow'
<1>1. /\ c \in Signalled /\ c \in calls /\ c \notin aborted /\ AbortListener(c)
      /\ calls' = calls \ {c} /\ aborted' = aborted \cup {c}
      /\ UNCHANGED <<replies, boot, told, preAborted, callAborts, handed, answered, issued>>
  BY DEF HostAbort, AbortListener, workerVars
<1>2. toWorker \in Seq(ToWorker) /\ CallAbort(c) \in ToWorker
  BY <1>1, Typed DEF ToWorker
<1>3. CallAbort(c).kind = "call-abort" /\ CallAbort(c).call = c
  BY DEF CallAbort
<1>4. Followed(c) /\ ~Closing(c)
  BY <1>1 DEF AbortsFollow, Followed
<1>5. \/ toWorker' = toWorker /\ (Queued(c) \/ ~WorkerUp)
      \/ toWorker' = Append(toWorker, CallAbort(c))
  BY <1>1 DEF AbortListener, Post, IsQueued, Queued
<1>6. /\ \A d : (Going(d)' <=> Going(d)) /\ (Closing(d)' <=> Closing(d))
      /\ \A d : AbortSent(d)' => AbortSent(d) \/ d = c
      /\ \A d : AbortSent(d) => AbortSent(d)'
      /\ Queued(c) \/ ~WorkerUp \/ AbortSent(c)'
  <2>1. \A k, d : Carries(Append(toWorker, CallAbort(c)), k, d) <=>
                   Carries(toWorker, k, d) \/ (k = "call-abort" /\ d = c)
    BY <1>2, <1>3, AppendCarries
  <2>2. CASE toWorker' = toWorker /\ (Queued(c) \/ ~WorkerUp)
    BY <1>1, <2>2 DEF Going, Closing, AbortSent
  <2>3. CASE toWorker' = Append(toWorker, CallAbort(c))
    BY <1>1, <2>1, <2>3 DEF Going, Closing, AbortSent
  <2>. QED  BY <1>5, <2>2, <2>3
<1>7. Ahead(toWorker', "call-abort", "responded")
  <2>1. ~Carries(toWorker, "responded", c)
    BY <1>4 DEF Closing
  <2>. QED  BY <1>2, <1>3, <1>5, <2>1, AppendAhead DEF AbortsFollow
<1>8. \A d : (Resuming(d)' <=> Resuming(d)) /\ (Had(d)' <=> Had(d)) /\ (Entered(d)' <=> Entered(d))
  BY <1>1 DEF Resuming, Had, Entered
<1>9. Queued(c) => ~Reaching(c)
  BY LineDistinct DEF Lined, InLine, Queued, Reaching, Resuming, Going, Had
<1>10. ASSUME NEW d \in Signalled PROVE Followed(d)'
  <2>1. Followed(d)
    BY DEF AbortsFollow
  <2>2. Reaching(d)' <=> Reaching(d)
    BY <1>6, <1>8 DEF Reaching
  <2>3. CASE d = c
    BY <1>1, <1>4, <1>6, <1>8, <1>9, <2>2, <2>3 DEF Followed, WorkerUp
  <2>4. CASE d # c
    BY <1>1, <1>6, <1>8, <2>1, <2>2, <2>4 DEF Followed, WorkerUp
  <2>. QED  BY <2>3, <2>4
<1>. QED  BY <1>7, <1>10 DEF AbortsFollow

(***************************************************************************)
(* A response is posted: an abort that was sent stays where it is.         *)
(***************************************************************************)
LEMMA AbortsPostReply ==
  ASSUME TypeOK, Lined, AbortsFollow, PostReply
  PROVE  AbortsFollow'
<1>. DEFINE m == Head(replies)
<1>1. /\ replies # <<>> /\ replies' = Tail(replies) /\ Post(Response(m))
      /\ UNCHANGED <<calls, aborted, boot, told, preAborted, callAborts, handed, answered, issued>>
  BY DEF PostReply, workerVars
<1>2. replies \in Seq(ToWorker) /\ toWorker \in Seq(ToWorker)
  BY Typed
<1>3. m \in Reply
  BY <1>1, HeadTailProperties DEF TypeOK
<1>4. /\ Response(m) \in ToWorker /\ Response(m).kind # "call-abort"
      /\ Response(m).kind # "refusal" => Response(m) = m
  BY <1>3 DEF Response, Reply, ToWorker, Delivery, Refusal, Responded
<1>5. \A k, d : Carries(replies, k, d) <=> Carries(replies', k, d) \/ (m.kind = k /\ m.call = d)
  BY <1>1, <1>2, TailCarries
<1>6. toWorker' = toWorker \/ toWorker' = Append(toWorker, Response(m))
  BY <1>1 DEF Post
<1>7. /\ \A k, d : Carries(toWorker', k, d) =>
                     Carries(toWorker, k, d) \/ (Response(m).kind = k /\ Response(m).call = d)
      /\ \A k, d : Carries(toWorker, k, d) => Carries(toWorker', k, d)
  <2>1. \A k, d : Carries(Append(toWorker, Response(m)), k, d) <=>
                   Carries(toWorker, k, d) \/ (Response(m).kind = k /\ Response(m).call = d)
    BY <1>2, <1>4, AppendCarries
  <2>. QED  BY <1>6, <2>1
<1>8. Ahead(toWorker', "call-abort", "responded")
  <2>1. Ahead(Append(toWorker, Response(m)), "call-abort", "responded")
    BY <1>2, <1>4, AppendAhead DEF AbortsFollow
  <2>. QED  BY <1>6, <2>1 DEF AbortsFollow
<1>. HIDE DEF m
<1>9. \A d : /\ AbortSent(d)' <=> AbortSent(d)
             /\ Closing(d)' => Closing(d)
             /\ Going(d)' \/ Resuming(d)' => Going(d) \/ Resuming(d)
             /\ Had(d)' <=> Had(d)
             /\ Entered(d)' <=> Entered(d)
  BY <1>1, <1>4, <1>5, <1>7 DEF AbortSent, Closing, Going, Resuming, Had, Entered
<1>10. ASSUME NEW d \in Signalled PROVE Followed(d)'
  <2>1. Followed(d) /\ (Reaching(d)' => Reaching(d))
    BY <1>9 DEF AbortsFollow, Reaching
  <2>. QED  BY <1>1, <1>9, <2>1 DEF Followed, WorkerUp
<1>. QED  BY <1>8, <1>10 DEF AbortsFollow

(***************************************************************************)
(* The answer of a call: the acknowledgement that will close it in the     *)
(* worker finds the call answered and settled.                             *)
(***************************************************************************)
LEMMA AbortsOnRespond ==
  ASSUME TypeOK, Lined, AbortsFollow, HostReceive, OnRespond(Head(toHost))
  PROVE  AbortsFollow'
<1>. DEFINE m == Head(toHost)
<1>1. /\ m \in ToHost /\ m.kind = "respond" /\ calls' = calls \ {m.call}
      /\ replies' = <<Responded(m.call)>>
      /\ \A d : m.call = d => Answering(d)
      /\ UNCHANGED <<toWorker, aborted, boot, told, preAborted, callAborts, handed, answered, issued>>
  BY HostReceives DEF OnRespond, HostReceive, workerVars
<1>2. PICK c \in Calls : c = m.call
  BY <1>1 DEF ToHost, Accept, Requeue, Respond, Signal
<1>3. c \in answered /\ calls' = calls \ {c} /\ replies' = <<Responded(c)>>
  BY <1>1, <1>2 DEF Lined, Back
<1>4. \A d : /\ ~Resuming(d)'
             /\ Carries(replies', "responded", d) => d = c
  BY <1>3 DEF Resuming, Carries, Responded
<1>5. \A d : /\ AbortSent(d)' <=> AbortSent(d)
             /\ Closing(d)' => Closing(d) \/ d = c
             /\ Reaching(d)' => Reaching(d)
             /\ Had(d)' <=> Had(d)
             /\ Entered(d)' <=> Entered(d)
  BY <1>1, <1>4 DEF AbortSent, Closing, Reaching, Going, Had, Entered
<1>6. ASSUME NEW d \in Signalled PROVE Followed(d)'
  <2>1. Followed(d)
    BY DEF AbortsFollow
  <2>. QED  BY <1>1, <1>3, <1>5, <2>1 DEF Followed, WorkerUp
<1>7. Ahead(toWorker', "call-abort", "responded")
  BY <1>1 DEF AbortsFollow
<1>. QED  BY <1>6, <1>7 DEF AbortsFollow

(***************************************************************************)
(* The worker's end: an abort finds the call's controller or is kept for   *)
(* the call that is still coming, and a controller goes with the           *)
(* acknowledgement, which no abort follows.                                *)
(***************************************************************************)
LEMMA AbortsWorkerReceive ==
  ASSUME TypeOK, Lined, AbortsFollow, WorkerReceive
  PROVE  AbortsFollow'
<1>. DEFINE m == Head(toWorker)
<1>1. /\ toWorker # <<>> /\ toWorker' = Tail(toWorker) /\ WorkerUp
      /\ UNCHANGED <<calls, replies, aborted, boot, answered, issued>>
      /\ OnDelivery(m) \/ OnRefusal(m) \/ OnCallAbort(m) \/ OnResponded(m)
  BY DEF WorkerReceive, hostVars
<1>2. m \in ToWorker /\ toWorker \in Seq(ToWorker) /\ handed \in Seq(Calls)
  BY <1>1, Typed, HeadTailProperties
<1>3. \A k, d : Carries(toWorker, k, d) <=> Carries(toWorker', k, d) \/ (m.kind = k /\ m.call = d)
  BY <1>1, <1>2, TailCarries
<1>4. /\ Ahead(toWorker', "call-abort", "responded")
      /\ m.kind = "responded" => \A d : d = m.call => ~AbortSent(d)'
  <2>1. Ahead(toWorker, "call-abort", "responded")
    BY DEF AbortsFollow
  <2>2. /\ Ahead(Tail(toWorker), "call-abort", "responded")
        /\ m.kind = "responded" => \A d : d = m.call => ~Carries(Tail(toWorker), "call-abort", d)
    BY <1>1, <1>2, <2>1, TailAhead
  <2>. QED  BY <1>1, <2>2 DEF AbortSent
<1>5. m.kind \in {"delivery", "call-abort", "responded"} => m.call \in Calls
  BY <1>2, CallsAssumption DEF ToWorker, Reply, Delivery, Refusal, Responded, CallAbort
<1>6. /\ m.kind = "delivery" => OnDelivery(m)
      /\ m.kind = "refusal" => OnRefusal(m)
      /\ m.kind = "call-abort" => OnCallAbort(m)
      /\ m.kind = "responded" => OnResponded(m)
      /\ m.kind \in {"delivery", "refusal", "call-abort", "responded"}
  BY <1>1 DEF OnDelivery, OnRefusal, OnCallAbort, OnResponded
<1>. HIDE DEF m
<1>7. \A d : /\ AbortSent(d) <=> AbortSent(d)' \/ (m.kind = "call-abort" /\ m.call = d)
             /\ Closing(d) <=> Closing(d)' \/ (m.kind = "responded" /\ m.call = d)
             /\ Going(d) <=> Going(d)' \/ (m.kind = "delivery" /\ m.call = d)
             /\ Resuming(d)' <=> Resuming(d)
             /\ Entered(d)' <=> Entered(d)
  <2>1. \A d : (Resuming(d)' <=> Resuming(d)) /\ (Entered(d)' <=> Entered(d))
    BY <1>1 DEF Resuming, Entered
  <2>2. \A d : /\ AbortSent(d) <=> AbortSent(d)' \/ (m.kind = "call-abort" /\ m.call = d)
               /\ Going(d) <=> Going(d)' \/ (m.kind = "delivery" /\ m.call = d)
    BY <1>3 DEF AbortSent, Going
  <2>3. \A d : Closing(d) <=> Closing(d)' \/ (m.kind = "responded" /\ m.call = d)
    BY <1>1, <1>3 DEF Closing
  <2>. QED  BY <2>1, <2>2, <2>3
<1>8. CASE m.kind \in {"delivery", "refusal"} /\ UNCHANGED <<handed, callAborts, preAborted, told>>
  <2>1. \A d : (Had(d)' <=> Had(d)) /\ (Reaching(d)' => Reaching(d)) /\ (AbortSent(d)' <=> AbortSent(d))
               /\ (Closing(d)' => Closing(d))
    BY <1>7, <1>8 DEF Had, Reaching
  <2>2. ASSUME NEW d \in Signalled PROVE Followed(d)'
    <3>1. Followed(d)
      BY DEF AbortsFollow
    <3>. QED  BY <1>1, <1>7, <1>8, <2>1, <3>1 DEF Followed
  <2>. QED  BY <1>4, <2>2 DEF AbortsFollow
<1>9. ASSUME NEW c \in Calls, c = m.call, m.kind = "delivery",
             handed' = Append(handed, c), callAborts' = callAborts \cup Controller(c),
             told' = told \cup (preAborted \cap {c}), preAborted' = preAborted \ {c}
      PROVE  AbortsFollow'
  <2>1. \A d : Had(d)' <=> Had(d) \/ d = c
    BY <1>2, <1>9, AppendContains DEF Had
  <2>2. Going(c) /\ Reaching(c)
    BY <1>7, <1>9 DEF Reaching
  <2>3. ~Had(c)
    BY <2>2, LineDistinct DEF Lined, InLine, Had, Going
  <2>4. \A d : /\ AbortSent(d)' <=> AbortSent(d)
               /\ Closing(d)' <=> Closing(d)
               /\ Reaching(d)' => Reaching(d)
    BY <1>7, <1>9, <2>1, <2>2 DEF Reaching
  <2>5. ASSUME NEW d \in Signalled PROVE Followed(d)'
    <3>1. Followed(d)
      BY DEF AbortsFollow
    <3>2. CASE d = c
      BY <1>1, <1>7, <1>9, <2>1, <2>2, <2>3, <2>4, <3>1, <3>2 DEF Followed, Controller
    <3>3. CASE d # c
      BY <1>1, <1>7, <1>9, <2>1, <2>4, <3>1, <3>3 DEF Followed, Controller
    <3>. QED  BY <3>2, <3>3
  <2>. QED  BY <1>4, <2>5 DEF AbortsFollow
<1>10. ASSUME NEW c \in Calls, c = m.call, m.kind = "call-abort" PROVE AbortsFollow'
  <2>1. /\ UNCHANGED <<handed, callAborts>>
        /\ c \in callAborts => told' = told \cup {c} /\ UNCHANGED preAborted
        /\ c \notin callAborts => preAborted' = preAborted \cup {c} /\ UNCHANGED told
    BY <1>6, <1>10 DEF OnCallAbort
  <2>2. \A d : (Had(d)' <=> Had(d)) /\ (Reaching(d)' <=> Reaching(d)) /\ (Closing(d)' <=> Closing(d))
    BY <1>7, <1>10, <2>1 DEF Had, Reaching
  <2>3. AbortSent(c) /\ \A d : d # c => (AbortSent(d)' <=> AbortSent(d))
    BY <1>7, <1>10
  <2>4. \A d : AbortSent(d)' => AbortSent(d)
    BY <1>7
  <2>5. ASSUME NEW d \in Signalled PROVE Followed(d)'
    <3>1. Followed(d)
      BY DEF AbortsFollow
    <3>2. CASE d = c
      BY <1>1, <1>7, <2>1, <2>2, <2>3, <2>4, <3>1, <3>2 DEF Followed
    <3>3. CASE d # c
      BY <1>1, <1>7, <2>1, <2>2, <2>3, <3>1, <3>3 DEF Followed
    <3>. QED  BY <3>2, <3>3
  <2>. QED  BY <1>4, <2>5 DEF AbortsFollow
<1>11. ASSUME NEW c \in Calls, c = m.call, m.kind = "responded" PROVE AbortsFollow'
  <2>1. UNCHANGED <<handed, preAborted, told>> /\ callAborts' = callAborts \ {c}
    BY <1>6, <1>11 DEF OnResponded
  <2>2. \A d : (Had(d)' <=> Had(d)) /\ (Reaching(d)' <=> Reaching(d)) /\ (AbortSent(d)' <=> AbortSent(d))
               /\ (Closing(d)' => Closing(d))
    BY <1>7, <1>11, <2>1 DEF Had, Reaching
  <2>3. Closing(c) /\ ~AbortSent(c)'
    BY <1>4, <1>7, <1>11
  <2>4. ASSUME NEW d \in Signalled PROVE Followed(d)'
    <3>1. Followed(d)
      BY DEF AbortsFollow
    <3>. QED  BY <1>1, <1>7, <2>1, <2>2, <2>3, <3>1 DEF Followed
  <2>. QED  BY <1>4, <2>4 DEF AbortsFollow
<1>12. CASE m.kind = "delivery"
  <2>1. PICK c \in Calls : c = m.call
    BY <1>5, <1>12
  <2>2. OnDelivery(m)
    BY <1>6, <1>12
  <2>3. \/ UNCHANGED <<handed, callAborts, preAborted, told>>
        \/ /\ handed' = Append(handed, c) /\ callAborts' = callAborts \cup Controller(c)
           /\ told' = told \cup (preAborted \cap {c}) /\ preAborted' = preAborted \ {c}
    BY <2>1, <2>2 DEF OnDelivery
  <2>. QED  BY <1>8, <1>9, <1>12, <2>1, <2>3
<1>13. CASE m.kind = "refusal"
  BY <1>6, <1>8, <1>13 DEF OnRefusal
<1>. QED  BY <1>5, <1>6, <1>10, <1>11, <1>12, <1>13

(***************************************************************************)
(* Every step lets the aborts follow.                                      *)
(***************************************************************************)
LEMMA AbortsStep == TypeOK /\ Lined /\ AbortsFollow /\ [Next]_vars => AbortsFollow'
<1>. SUFFICES ASSUME TypeOK, Lined, AbortsFollow, [Next]_vars PROVE AbortsFollow'
  OBVIOUS
<1>1. ASSUME NEW c \in Calls, HostStep(c) PROVE AbortsFollow'
  BY <1>1, AbortsHost, AbortsRegister, AbortsHostAbort DEF HostStep
<1>2. CASE HostReceive
  BY <1>2, AbortsOnRespond, AbortsHostReceive
<1>3. CASE PostReply \/ WorkerReceive
  BY <1>3, AbortsPostReply, AbortsWorkerReceive
<1>4. CASE BootFrame \/ BootFails \/ BootInit \/ WorkerError \/ Close
  BY <1>4, AbortsLife
<1>5. CASE BundleStep
  BY <1>5, AbortsBundle
<1>6. CASE UNCHANGED vars
  BY <1>6 DEF vars, hostVars, workerVars, AbortsFollow, Followed, Ahead, AbortSent, Closing,
       Reaching, Resuming, Going, Had, Entered, Carries, WorkerUp
<1>. QED  BY <1>1, <1>2, <1>3, <1>4, <1>5, <1>6 DEF Next

(***************************************************************************)
(* The aborts follow, throughout.                                          *)
(***************************************************************************)
LEMMA AbortsInvariant == Spec => []AbortsFollow
BY AbortsInit, AbortsStep, LinedInvariant, TypeCorrect, PTL DEF Spec

(***************************************************************************)
(* The abort of a call the bundle has is fired there, or in the port,      *)
(* whichever of the call and the abort came first.                         *)
(***************************************************************************)
THEOREM AbortsReach == Spec => []AbortReachesBundle
<1>1. TypeOK /\ AbortsFollow => AbortReachesBundle
  <2>. SUFFICES ASSUME TypeOK, AbortsFollow, NEW c \in aborted, WorkerUp, Contains(handed, c), c \notin told
                PROVE  Contains(toWorker, CallAbort(c))
    BY DEF AbortReachesBundle
  <2>1. c \in Signalled /\ Followed(c) /\ toWorker \in Seq(ToWorker)
    BY DEF TypeOK, AbortsFollow
  <2>2. AbortSent(c)
    BY <2>1 DEF Followed, Had, Reaching
  <2>3. PICK i \in 1 .. Len(toWorker) : toWorker[i].kind = "call-abort" /\ toWorker[i].call = c
    BY <2>2 DEF AbortSent, Carries
  <2>4. toWorker[i] \in ToWorker
    BY <2>1, ElementOfSeq
  <2>5. toWorker[i] = CallAbort(c)
    BY <2>3, <2>4 DEF ToWorker, Reply, Delivery, Refusal, Responded, CallAbort
  <2>. QED  BY <2>3, <2>5 DEF Contains
<1>. QED  BY <1>1, TypeCorrect, AbortsInvariant, PTL

(***************************************************************************)
(* SPEC.md 8, all of it, for every number of calls and acceptCalls.        *)
(***************************************************************************)
THEOREM AllCallsKept == Spec => []CallsKept
BY CallsInOnePlace, NeverTwice, QueueIsLive, AbortsReach, InTheirOrder, PTL DEF CallsKept

-----------------------------------------------------------------------------
(* The refinement: each step of the call path is a step of the service, or *)
(* one the service does not see.                                           *)

(***************************************************************************)
(* Nothing is issued, handed or answered at first.                         *)
(***************************************************************************)
LEMMA ServiceInit == Init => Service!Init
BY DEF Init, Service!Init, ToSet

(***************************************************************************)
(* What the service sees of the two histories.                             *)
(***************************************************************************)
LEMMA SeenBySet ==
  ASSUME TypeOK
  PROVE  /\ \A c : c \in ToSet(issued) <=> Entered(c)
         /\ \A c : c \in ToSet(handed) <=> Had(c)
         /\ \A c \in Calls : ToSet(Append(issued, c)) = ToSet(issued) \cup {c}
         /\ \A c \in Calls : ToSet(Append(handed, c)) = ToSet(handed) \cup {c}
BY Typed, SetContains, AppendSet DEF Entered, Had

(***************************************************************************)
(* #fail is the death of the service, the first time.                      *)
(***************************************************************************)
LEMMA FailIsDeath ==
  ASSUME TypeOK, Promises, Fail, UNCHANGED <<issued, handed, answered>>
  PROVE  Service!Die \/ UNCHANGED Service!vars
<1>1. CASE failed
  BY <1>1 DEF Fail, Service!vars
<1>2. CASE ~failed
  <2>1. failed' = TRUE /\ outcome' = [c \in Calls |-> IF c \in calls THEN "rejected" ELSE outcome[c]]
    BY <1>2 DEF Fail
  <2>2. \A c \in Calls : c \in calls <=> outcome[c] = "pending"
    BY DEF Promises, NoForgottenPromise
  <2>3. outcome' = [c \in Calls |-> IF outcome[c] = "pending" THEN "rejected" ELSE outcome[c]]
    BY <2>1, <2>2
  <2>. QED  BY <1>2, <2>1, <2>3 DEF Service!Die
<1>. QED  BY <1>1, <1>2

(***************************************************************************)
(* The host's own steps.                                                   *)
(***************************************************************************)
LEMMA ServiceHostStep ==
  ASSUME TypeOK, Promises, Lined, NEW c \in Calls, HostStep(c)
  PROVE  Service!Next \/ UNCHANGED Service!vars
<1>1. CASE Fetch(c)
  <2>1. Service!Refuse(c) \/ Service!Issue(c)
    BY <1>1 DEF Fetch, workerVars, Service!Refuse, Service!Issue, TypeOK
  <2>. QED  BY <2>1 DEF Service!Next
<1>2. CASE NormalizeFails(c) \/ RegisterAborted(c)
  <2>1. Service!Reject(c)
    BY <1>2 DEF NormalizeFails, RegisterAborted, workerVars, Service!Reject, Service!Unsettled
  <2>. QED  BY <2>1 DEF Service!Next
<1>3. CASE Register(c)
  <2>1. ToSet(issued') = ToSet(issued) \cup {c}
    BY <1>3, SeenBySet DEF Register
  <2>2. Service!Register(c)
    BY <1>3, <2>1 DEF Register, workerVars, Service!Register
  <2>. QED  BY <2>2 DEF Service!Next
<1>4. CASE AbortEarly(c)
  BY <1>4 DEF AbortEarly, workerVars, Service!vars
<1>5. CASE HostAbort(c)
  <2>1. outcome[c] = "pending"
    BY <1>5 DEF HostAbort, Promises, NoForgottenPromise
  <2>2. Service!Reject(c)
    BY <1>5, <2>1 DEF HostAbort, AbortListener, workerVars, Service!Reject, Service!Unsettled
  <2>. QED  BY <2>2 DEF Service!Next
<1>. QED  BY <1>1, <1>2, <1>3, <1>4, <1>5 DEF HostStep

(***************************************************************************)
(* Of the host's message handlers the service sees the answer of a call    *)
(* that is still pending, which the bundle has given, and the failure.     *)
(***************************************************************************)
LEMMA ServiceHostReceive ==
  ASSUME TypeOK, Promises, Lined, HostReceive
  PROVE  Service!Next \/ UNCHANGED Service!vars
<1>. DEFINE m == Head(toHost)
<1>1. /\ m \in ToHost /\ UNCHANGED <<issued, handed, answered>>
      /\ \A d : m.kind = "respond" /\ m.call = d => Answering(d)
      /\ OnAccept(m) \/ OnRequeue(m) \/ OnRespond(m) \/ OnReady(m) \/ OnFailed(m)
  BY HostReceives DEF HostReceive
<1>2. CASE OnFailed(m)
  BY <1>1, <1>2, FailIsDeath DEF OnFailed, Service!Next
<1>3. CASE OnAccept(m) \/ OnRequeue(m) \/ OnReady(m)
  BY <1>1, <1>3 DEF OnAccept, OnRequeue, OnReady, Service!vars
<1>4. CASE OnRespond(m)
  <2>1. m.kind = "respond" /\ UNCHANGED failed
        /\ outcome' = IF m.call \in calls
                      THEN [outcome EXCEPT ![m.call] = IF m.ok THEN "resolved" ELSE "rejected"]
                      ELSE outcome
    BY <1>4 DEF OnRespond
  <2>2. PICK c \in Calls : c = m.call
    BY <1>1, <2>1 DEF ToHost, Accept, Requeue, Respond, Signal
  <2>3. c \in answered
    BY <1>1, <2>1, <2>2 DEF Lined, Back
  <2>4. CASE c \in calls
    <3>1. outcome[c] = "pending"
      BY <2>4 DEF Promises, NoForgottenPromise
    <3>2. Service!Resolve(c) \/ Service!Reject(c)
      BY <1>1, <2>1, <2>2, <2>3, <2>4, <3>1 DEF Service!Resolve, Service!Reject, Service!Unsettled
    <3>. QED  BY <3>2 DEF Service!Next
  <2>5. CASE c \notin calls
    BY <1>1, <2>1, <2>2, <2>5 DEF Service!vars
  <2>. QED  BY <2>4, <2>5
<1>. QED  BY <1>1, <1>2, <1>3, <1>4

(***************************************************************************)
(* Of the worker's, a delivery that the bundle accepts.                    *)
(***************************************************************************)
LEMMA ServiceWorkerReceive ==
  ASSUME TypeOK, Lined, WorkerReceive
  PROVE  Service!Next \/ UNCHANGED Service!vars
<1>. DEFINE m == Head(toWorker)
<1>1. /\ toWorker # <<>> /\ UNCHANGED <<outcome, issued, answered, failed>>
      /\ OnDelivery(m) \/ OnRefusal(m) \/ OnCallAbort(m) \/ OnResponded(m)
  BY DEF WorkerReceive, hostVars
<1>2. m \in ToWorker /\ toWorker \in Seq(ToWorker)
  BY <1>1, Typed, HeadTailProperties
<1>3. CASE UNCHANGED handed
  BY <1>1, <1>3 DEF Service!vars
<1>4. CASE OnDelivery(m) /\ ~UNCHANGED handed
  <2>1. m.kind = "delivery" /\ handed' = Append(handed, m.call)
    BY <1>4 DEF OnDelivery
  <2>2. PICK c \in Calls : c = m.call
    BY <1>2, <2>1 DEF ToWorker, Reply, Delivery, Refusal, Responded, CallAbort
  <2>3. Going(c)
    BY <1>1, <1>2, <2>1, <2>2, TailCarries DEF Going
  <2>4. Entered(c) /\ ~Had(c)
    BY <2>3, LineDistinct DEF Lined, Known, InLine, Going, Had
  <2>5. ToSet(handed') = ToSet(handed) \cup {c} /\ c \in ToSet(issued) \ ToSet(handed)
    BY <2>1, <2>2, <2>4, SeenBySet
  <2>6. Service!Hand(c)
    BY <1>1, <2>5 DEF Service!Hand
  <2>. QED  BY <2>6 DEF Service!Next
<1>. QED  BY <1>1, <1>3, <1>4 DEF OnRefusal, OnCallAbort, OnResponded

(***************************************************************************)
(* Of the bundle's, its answer.                                            *)
(***************************************************************************)
LEMMA ServiceBundleStep ==
  ASSUME TypeOK, BundleStep
  PROVE  Service!Next \/ UNCHANGED Service!vars
<1>1. ASSUME NEW c \in Calls, NEW ok \in BOOLEAN, RespondTo(c, ok)
      PROVE  Service!Next
  <2>1. c \in ToSet(handed) \ answered
    BY <1>1, SeenBySet DEF RespondTo, Had
  <2>2. Service!Reply(c)
    BY <1>1, <2>1 DEF RespondTo, hostVars, Service!Reply
  <2>. QED  BY <2>2 DEF Service!Next
<1>2. CASE \E a \in Accepts : AcceptCall(a) \/ AbortAccept(a)
  BY <1>2 DEF AcceptCall, AbortAccept, hostVars, Service!vars
<1>3. CASE \E s \in Signals : SendSignal(s)
  BY <1>3 DEF SendSignal, hostVars, Service!vars
<1>. QED  BY <1>1, <1>2, <1>3 DEF BundleStep

(***************************************************************************)
(* Every step is one of the service's or stutters.                         *)
(***************************************************************************)
LEMMA ServiceStep ==
  TypeOK /\ Promises /\ Lined /\ [Next]_vars => [Service!Next]_Service!vars
<1>. SUFFICES ASSUME TypeOK, Promises, Lined, [Next]_vars
              PROVE  Service!Next \/ UNCHANGED Service!vars
  OBVIOUS
<1>1. ASSUME NEW c \in Calls, HostStep(c) PROVE Service!Next \/ UNCHANGED Service!vars
  BY <1>1, ServiceHostStep
<1>2. CASE PostReply
  BY <1>2 DEF PostReply, workerVars, Service!vars
<1>3. CASE HostReceive
  BY <1>3, ServiceHostReceive
<1>4. CASE WorkerReceive
  BY <1>4, ServiceWorkerReceive
<1>5. CASE BootFrame \/ BootInit
  BY <1>5 DEF BootFrame, BootInit, workerVars, Service!vars
<1>6. CASE BootFails \/ WorkerError \/ Close
  <2>1. Fail /\ UNCHANGED <<issued, handed, answered>>
    BY <1>6 DEF BootFails, WorkerError, Close, workerVars
  <2>. QED  BY <2>1, FailIsDeath DEF Service!Next
<1>7. CASE BundleStep
  BY <1>7, ServiceBundleStep
<1>8. CASE UNCHANGED vars
  BY <1>8 DEF vars, hostVars, workerVars, Service!vars
<1>. QED  BY <1>1, <1>2, <1>3, <1>4, <1>5, <1>6, <1>7, <1>8 DEF Next

(***************************************************************************)
(* The call path of the browser harness keeps what AnonRpcWorker.fetch     *)
(* promises: it implements the service, for every number of calls.         *)
(***************************************************************************)
THEOREM ServiceImplemented == Spec => ImplementsService
BY ServiceInit, ServiceStep, TypeCorrect, PromisesInvariant, LinedInvariant, PTL
   DEF Spec, ImplementsService, Service!Spec

=============================================================================
