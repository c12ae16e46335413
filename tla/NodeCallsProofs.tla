---------------------------- MODULE NodeCallsProofs ----------------------------
(***************************************************************************)
(* Theorems about NodeCalls, for every set of calls, of acceptCalls, of    *)
(* signals and every bound: what the node harness owes each call and each  *)
(* taker, in what order the guest gets the calls, and that a promise       *)
(* settles once, and not before the guest has the call.                    *)
(*                                                                         *)
(* The inductive invariant is NodeInv.                                     *)
(***************************************************************************)
EXTENDS NodeCalls, CallQueueTheorems

-----------------------------------------------------------------------------
(* The type invariant. *)

(***************************************************************************)
(* What a queue operation gives resumes handlers of acceptCall.            *)
(***************************************************************************)
LEMMA DeliveriesType ==
  ASSUME NEW given \in Seq(Gift(Calls, Accepts))
  PROVE  Deliveries(given) \in Seq(Handler)
<1>1. \A i \in DOMAIN given : given[i] \in Gift(Calls, Accepts)
  BY ElementOfSeq, LenProperties
<1>2. \A i \in DOMAIN given : Served(Delivery(given[i].taker, given[i].item)) \in Handler
  BY <1>1 DEF Gift, Reply, Handler, Served
<1>3. DOMAIN given = 1 .. Len(given) /\ Len(given) \in Nat
  BY LenProperties
<1>4. Deliveries(given) \in [1 .. Len(given) -> Handler]
  BY <1>2, <1>3 DEF Deliveries
<1>. QED  BY <1>3, <1>4, SeqDef

(***************************************************************************)
(* The waiting acceptCalls that are refused resume handlers too.           *)
(***************************************************************************)
LEMMA RefusalsType ==
  ASSUME NEW takers \in Seq(Accepts)
  PROVE  Refusals(takers) \in Seq(Handler)
<1>1. \A i \in DOMAIN takers : Served(Refusal(takers[i])) \in Handler
  BY ElementOfSeq, LenProperties DEF Reply, Handler, Served
<1>2. DOMAIN takers = 1 .. Len(takers) /\ Len(takers) \in Nat
  BY LenProperties
<1>3. Refusals(takers) \in [1 .. Len(takers) -> Handler]
  BY <1>1, <1>2 DEF Refusals
<1>. QED  BY <1>2, <1>3, SeqDef

(***************************************************************************)
(* A queue operation whose step has the right type keeps the host's types. *)
(***************************************************************************)
LEMMA QueueStepType ==
  ASSUME TypeOK, NEW step, QueueStep(step),
         step.queue \in QueueOf(Calls, Accepts), step.given \in Seq(Gift(Calls, Accepts))
  PROVE  queue' \in QueueOf(Calls, Accepts) /\ resuming' \in Seq(Handler)
BY DeliveriesType, ConcatProperties DEF QueueStep, TypeOK

Outcomes == [Calls -> {"idle", "normalizing", "pending", "resolved", "rejected"}]

\* the types of what the host's handlers change
HostTyped ==
  /\ outcome \in Outcomes
  /\ queue \in QueueOf(Calls, Accepts)
  /\ resuming \in Seq(Handler)
  /\ quiet \in BOOLEAN
  /\ inFlight \subseteq Calls
  /\ dead \in BOOLEAN
  /\ ready \in {"pending", "resolved", "rejected"}
  /\ slipped \subseteq Calls

(***************************************************************************)
(* These types follow from the type invariant.                             *)
(***************************************************************************)
LEMMA HostTypedIs == TypeOK => HostTyped
BY DEF TypeOK, HostTyped, Outcomes

\* and of the others
RestTyped ==
  /\ aborted \subseteq Signalled
  /\ thread \in {"reading", "up", "gone"}
  /\ toThread \in Seq(ToThread)
  /\ toHost \in Seq(ToHost)
  /\ accept \in [Accepts -> {"free", "pending", "abandoned"}]
  /\ controllers \subseteq Calls
  /\ told \subseteq Signalled
  /\ reading \in Seq(Calls)
  /\ answers \in [Calls -> 0 .. 2]
  /\ signals \subseteq Signals
  /\ aborts \in 0 .. MaxAborts
  /\ issued \in Seq(Calls)
  /\ late \subseteq Calls
  /\ handed \in Seq(Calls)

(***************************************************************************)
(* The type invariant is the two parts together.                           *)
(***************************************************************************)
LEMMA TypeParts == TypeOK <=> HostTyped /\ RestTyped
BY DEF TypeOK, HostTyped, RestTyped, Outcomes

(***************************************************************************)
(* Calls between the queue and #inFlight are calls.                        *)
(***************************************************************************)
LEMMA BetweenType == TypeOK => Between \subseteq Calls
<1>. SUFFICES ASSUME TypeOK, NEW c \in Between PROVE c \in Calls
  OBVIOUS
<1>1. PICK h \in ToSet(resuming) : c \in CallOf(h.msg)
  BY DEF Between
<1>2. h \in Handler
  BY <1>1, LenProperties, ElementOfSeq DEF TypeOK, ToSet
<1>. QED  BY <1>1, <1>2 DEF CallOf, Handler, Reply, Delivery, Refusal

(***************************************************************************)
(* #fail keeps the host's types.                                           *)
(***************************************************************************)
LEMMA FailType ==
  ASSUME TypeOK, Fail
  PROVE  HostTyped'
<1>1. CASE dead
  BY <1>1, HostTypedIs DEF Fail, HostTyped, hostVars
<1>2. CASE ~dead
  <2>1. /\ dead' \in BOOLEAN /\ ready' \in {"pending", "resolved", "rejected"} /\ quiet' \in BOOLEAN
        /\ inFlight' \subseteq Calls
    BY <1>2 DEF Fail, TypeOK
  <2>2. outcome' \in Outcomes
    BY <1>2 DEF Fail, TypeOK, Outcomes
  <2>3. queue' = RejectAll(queue) /\ resuming' = resuming \o Refusals(queue.takers)
    BY <1>2 DEF Fail
  <2>4. resuming \in Seq(Handler) /\ queue.takers \in Seq(Accepts)
    BY DEF TypeOK, QueueOf
  <2>5. queue' \in QueueOf(Calls, Accepts) /\ resuming' \in Seq(Handler)
    BY <2>3, <2>4, RejectAllType, RefusalsType, ConcatProperties
  <2>6. slipped' \subseteq Calls
    BY <1>2, BetweenType DEF Fail, TypeOK
  <2>. QED  BY <2>1, <2>2, <2>5, <2>6 DEF HostTyped
<1>. QED  BY <1>1, <1>2

(***************************************************************************)
(* What the host posts goes into the port or nowhere.                      *)
(***************************************************************************)
LEMMA EmitType ==
  ASSUME TypeOK, NEW m \in ToThread, Emit(m)
  PROVE  toThread' \in Seq(ToThread)
BY DEF Emit, TypeOK

(***************************************************************************)
(* The initial state has the type.                                         *)
(***************************************************************************)
LEMMA TypeInit == Init => TypeOK
<1>1. EmptyQueue \in QueueOf(Calls, Accepts)
  BY RejectAllType
<1>2. 0 \in 0 .. MaxAborts
  BY BoundsAssumption
<1>3. Init => /\ resuming \in Seq(Handler) /\ toThread \in Seq(ToThread) /\ toHost \in Seq(ToHost)
              /\ issued \in Seq(Calls) /\ handed \in Seq(Calls) /\ reading \in Seq(Calls)
  BY DEF Init
<1>4. Init => /\ outcome \in [Calls -> {"idle", "normalizing", "pending", "resolved", "rejected"}]
              /\ accept \in [Accepts -> {"free", "pending", "abandoned"}]
              /\ answers \in [Calls -> 0 .. 2]
  BY DEF Init
<1>. QED  BY <1>1, <1>2, <1>3, <1>4 DEF Init, TypeOK

(***************************************************************************)
(* fetch() up to and after its await, and the abort of its signal.         *)
(***************************************************************************)
LEMMA TypeHostStep ==
  ASSUME TypeOK, NEW c \in Calls, HostStep(c)
  PROVE  TypeOK'
<1>. USE CallsAssumption DEF hostVars, guestVars
<1>1. CASE Fetch(c)
  BY <1>1 DEF Fetch, TypeOK
<1>2. CASE NormalizeFails(c)
  BY <1>2 DEF NormalizeFails, TypeOK
<1>3. CASE Register(c)
  <2>1. QueueStep(Push(queue, c)) /\ queue \in QueueOf(Calls, Accepts)
    BY <1>3 DEF Register, TypeOK
  <2>2. queue' \in QueueOf(Calls, Accepts) /\ resuming' \in Seq(Handler)
    BY <2>1, PushType, QueueStepType
  <2>3. outcome' \in Outcomes /\ issued' \in Seq(Calls) /\ late' \subseteq Calls
    BY <1>3 DEF Register, TypeOK, Outcomes
  <2>4. HostTyped'
    BY <1>3, <2>2, <2>3, HostTypedIs DEF Register, HostTyped
  <2>5. RestTyped'
    BY <1>3, <2>3, TypeParts DEF Register, RestTyped
  <2>. QED  BY <2>4, <2>5 DEF TypeOK, HostTyped, RestTyped, Outcomes
<1>4. CASE RegisterAborted(c)
  BY <1>4 DEF RegisterAborted, TypeOK
<1>5. CASE AbortEarly(c)
  BY <1>5 DEF AbortEarly, TypeOK
<1>6. CASE HostAbort(c)
  <2>1. c \in Signalled /\ AbortListener(c)
    BY <1>6 DEF HostAbort
  <2>2. queue' \in QueueOf(Calls, Accepts)
    BY <2>1, RemoveItemType DEF AbortListener, TypeOK
  <2>3. toThread' \in Seq(ToThread)
    <3>1. CallAbort(c) \in ToThread
      BY <2>1 DEF ToThread
    <3>. QED  BY <2>1, <3>1, EmitType DEF AbortListener, TypeOK
  <2>4. outcome' \in Outcomes /\ inFlight' \subseteq Calls
    BY <2>1 DEF AbortListener, TypeOK, Outcomes
  <2>. QED  BY <1>6, <2>2, <2>3, <2>4 DEF HostAbort, TypeOK, Outcomes
<1>. QED  BY <1>1, <1>2, <1>3, <1>4, <1>5, <1>6 DEF HostStep

(***************************************************************************)
(* A handler resumes, or posts its response.                               *)
(***************************************************************************)
LEMMA TypeResume ==
  ASSUME TypeOK, Resume
  PROVE  TypeOK'
<1>. DEFINE h == Head(resuming)
<1>1. h \in Handler /\ Tail(resuming) \in Seq(Handler)
  BY HeadTailProperties DEF Resume, TypeOK
<1>2. /\ UNCHANGED <<callerVars, queue, quiet, dead, ready, slipped, thread, toHost, guestVars>>
      /\ \/ /\ inFlight' = inFlight \cup CallOf(h.msg)
            /\ resuming' = Append(Tail(resuming), Replying(h.msg)) /\ UNCHANGED toThread
         \/ Emit(h.msg) /\ resuming' = Tail(resuming) /\ UNCHANGED inFlight
  BY DEF Resume
<1>. HIDE DEF h
<1>3. h.msg \in ToThread /\ Replying(h.msg) \in Handler /\ CallOf(h.msg) \subseteq Calls
  BY <1>1 DEF Handler, ToThread, Replying, CallOf, Reply, Delivery, Refusal
<1>4. resuming' \in Seq(Handler)
  BY <1>1, <1>2, <1>3
<1>5. inFlight \subseteq Calls /\ toThread \in Seq(ToThread)
  BY DEF TypeOK
<1>6. inFlight' \subseteq Calls
  BY <1>2, <1>3, <1>5
<1>7. toThread' \in Seq(ToThread)
  BY <1>2, <1>3, <1>5, EmitType
<1>8. HostTyped'
  BY <1>2, <1>4, <1>6, HostTypedIs DEF HostTyped, callerVars
<1>9. RestTyped'
  BY <1>2, <1>7, TypeParts DEF RestTyped, callerVars, guestVars
<1>. QED  BY <1>8, <1>9 DEF TypeOK, HostTyped, RestTyped, Outcomes

(***************************************************************************)
(* The host's message handlers.                                            *)
(***************************************************************************)
LEMMA TypeHostReceive ==
  ASSUME TypeOK, HostReceive
  PROVE  TypeOK'
<1>. DEFINE m == Head(toHost)
<1>1. m \in ToHost /\ Tail(toHost) \in Seq(ToHost)
  BY HeadTailProperties DEF HostReceive, TypeOK
<1>0. HostTyped
  BY HostTypedIs
<1>2. ASSUME OnAccept(m) PROVE HostTyped'
  <2>1. m.acc \in Accepts
    BY <1>1, <1>2 DEF OnAccept, ToHost, Accept, Withdraw, Answer, Signal
  <2>2. queue \in QueueOf(Calls, Accepts) /\ QueueStep(Take(queue, m.acc))
    BY <1>2 DEF OnAccept, TypeOK
  <2>3. queue' \in QueueOf(Calls, Accepts) /\ resuming' \in Seq(Handler)
    BY <2>1, <2>2, TakeType, QueueStepType
  <2>. QED  BY <1>0, <1>2, <2>3 DEF OnAccept, HostTyped
<1>3. ASSUME OnWithdraw(m) PROVE HostTyped'
  <2>1. m.acc \in Accepts
    BY <1>1, <1>3 DEF OnWithdraw, ToHost, Accept, Withdraw, Answer, Signal
  <2>2. Refusals(<<m.acc>>) \in Seq(Handler)
    <3>1. <<m.acc>> \in Seq(Accepts)
      BY <2>1
    <3>. HIDE DEF m
    <3>. QED  BY <3>1, RefusalsType
  <2>3. WithdrawTaker(queue, m.acc) \in QueueOf(Calls, Accepts)
    BY <1>0, RemoveItemType DEF HostTyped
  <2>4. queue' \in QueueOf(Calls, Accepts) /\ resuming' \in Seq(Handler)
    BY <1>0, <1>3, <2>2, <2>3, ConcatProperties DEF OnWithdraw, HostTyped
  <2>. QED  BY <1>0, <1>3, <2>4 DEF OnWithdraw, HostTyped
<1>4. ASSUME OnAnswer(m) PROVE HostTyped'
  BY <1>0, <1>4 DEF OnAnswer, HostTyped, Outcomes
<1>5. ASSUME OnReady(m) PROVE HostTyped'
  BY <1>0, <1>5 DEF OnReady, HostTyped
<1>6. ASSUME OnFailed(m) PROVE HostTyped'
  BY <1>6, FailType DEF OnFailed
<1>7. HostTyped'
  BY <1>2, <1>3, <1>4, <1>5, <1>6 DEF HostReceive
<1>8. RestTyped'
  BY <1>1, TypeParts DEF HostReceive, RestTyped, guestVars
<1>. QED  BY <1>7, <1>8 DEF TypeOK, HostTyped, RestTyped, Outcomes

(***************************************************************************)
(* Boot, exit and close.                                                   *)
(***************************************************************************)
LEMMA TypeLife ==
  ASSUME TypeOK, BootThread \/ BootFails \/ ThreadExits \/ OnExit \/ Close
  PROVE  TypeOK'
<1>1. CASE BootThread \/ ThreadExits
  BY <1>1 DEF BootThread, ThreadExits, TypeOK, callerVars, hostVars, guestVars
<1>2. CASE BootFails \/ OnExit \/ Close
  <2>1. HostTyped'
    BY <1>2, FailType DEF BootFails, OnExit, Close
  <2>2. RestTyped'
    BY <1>2, TypeParts DEF BootFails, OnExit, Close, RestTyped, guestVars
  <2>. QED  BY <2>1, <2>2 DEF TypeOK, HostTyped, RestTyped, Outcomes
<1>. QED  BY <1>1, <1>2

(***************************************************************************)
(* An answer that is posted leaves those that are read.                    *)
(***************************************************************************)
LEMMA RemoveAtContains ==
  ASSUME NEW S, NEW s \in Seq(S), NEW i \in DOMAIN s
  PROVE  /\ s[i] \in S /\ Contains(s, s[i])
         /\ RemoveAt(s, i) \in Seq(S)
         /\ \A c : Contains(RemoveAt(s, i), c) => Contains(s, c)
         /\ \A c : Contains(s, c) /\ c # s[i] => Contains(RemoveAt(s, i), c)
<1>1. DOMAIN s = 1 .. Len(s) /\ Len(s) \in Nat /\ \A k \in 1 .. Len(s) : s[k] \in S
  BY LenProperties, ElementOfSeq
<1>. DEFINE t == SubSeq(s, 1, i - 1) u == SubSeq(s, i + 1, Len(s))
<1>2. /\ t \in Seq(S) /\ Len(t) = i - 1
      /\ \A k \in 1 .. (i - 1) : t[k] = s[k]
  BY <1>1, SubSeqProperties
<1>3. /\ u \in Seq(S) /\ Len(u) = Len(s) - i
      /\ \A k \in 1 .. (Len(s) - i) : u[k] = s[i + k]
  BY <1>1, SubSeqProperties
<1>. HIDE DEF t, u
<1>. DEFINE v == t \o u
<1>4. v \in Seq(S) /\ Len(v) = Len(t) + Len(u)
  BY <1>2, <1>3, ConcatProperties
<1>5. \A k \in 1 .. Len(v) : v[k] = IF k <= Len(t) THEN t[k] ELSE u[k - Len(t)]
  <2>1. \A k \in 1 .. Len(t) + Len(u) : v[k] = IF k <= Len(t) THEN t[k] ELSE u[k - Len(t)]
    BY <1>2, <1>3, ConcatProperties
  <2>. QED  BY <1>4, <2>1
<1>. HIDE DEF v
<1>0. /\ Len(s) \in Nat /\ i \in 1 .. Len(s)
      /\ Len(t) = i - 1 /\ Len(u) = Len(s) - i /\ Len(v) = Len(s) - 1
  BY <1>1, <1>2, <1>3, <1>4
<1>6. ASSUME NEW c, Contains(v, c) PROVE Contains(s, c)
  <2>1. PICK k \in 1 .. Len(v) : v[k] = c
    BY <1>6 DEF Contains
  <2>2. CASE k <= Len(t)
    <3>1. k \in 1 .. (i - 1) /\ k \in 1 .. Len(s)
      BY <1>0, <2>2
    <3>2. s[k] = c
      BY <1>2, <1>5, <2>1, <2>2, <3>1
    <3>. QED  BY <3>1, <3>2 DEF Contains
  <2>3. CASE ~(k <= Len(t))
    <3>1. k - Len(t) \in 1 .. (Len(s) - i) /\ i + (k - Len(t)) \in 1 .. Len(s)
      BY <1>0, <2>3
    <3>2. v[k] = u[k - Len(t)]
      BY <1>5, <2>3
    <3>3. s[i + (k - Len(t))] = c
      BY <1>3, <2>1, <3>1, <3>2
    <3>. QED  BY <3>1, <3>3 DEF Contains
  <2>. QED  BY <2>2, <2>3
<1>7. ASSUME NEW c, Contains(s, c), c # s[i] PROVE Contains(v, c)
  <2>1. PICK k \in 1 .. Len(s) : s[k] = c /\ k # i
    BY <1>7 DEF Contains
  <2>2. CASE k < i
    <3>1. k \in 1 .. (i - 1) /\ k \in 1 .. Len(v) /\ k <= Len(t)
      BY <1>0, <2>2
    <3>2. v[k] = c
      BY <1>2, <1>5, <2>1, <3>1
    <3>. QED  BY <3>1, <3>2 DEF Contains
  <2>3. CASE ~(k < i)
    <3>1. /\ k - i \in 1 .. (Len(s) - i) /\ k - 1 \in 1 .. Len(v)
          /\ ~(k - 1 <= Len(t)) /\ (k - 1) - Len(t) = k - i /\ i + (k - i) = k
      BY <1>0, <2>1, <2>3
    <3>2. v[k - 1] = u[k - i]
      BY <1>5, <3>1
    <3>3. v[k - 1] = c
      BY <1>3, <2>1, <3>1, <3>2
    <3>. QED  BY <3>1, <3>3 DEF Contains
  <2>. QED  BY <2>2, <2>3
<1>8. RemoveAt(s, i) = v
  BY DEF RemoveAt, t, u, v
<1>. QED  BY <1>1, <1>4, <1>6, <1>7, <1>8 DEF Contains

(***************************************************************************)
(* The guest.                                                              *)
(***************************************************************************)
LEMMA TypeGuestStep ==
  ASSUME TypeOK, GuestStep
  PROVE  TypeOK'
<1>. USE DEF guestIdle, callerVars, hostVars
<1>1. ASSUME NEW a \in Accepts, AcceptCall(a)
      PROVE  TypeOK'
  <2>1. Accept(a) \in ToHost
    BY DEF ToHost
  <2>. QED  BY <1>1, <2>1 DEF AcceptCall, TypeOK
<1>2. ASSUME NEW a \in Accepts, AbortAccept(a)
      PROVE  TypeOK'
  <2>1. Withdraw(a) \in ToHost
    BY DEF ToHost
  <2>. QED  BY <1>2, <2>1, BoundsAssumption DEF AbortAccept, TypeOK
<1>3. ASSUME NEW c \in Calls, Respond(c)
      PROVE  TypeOK'
  <2>1. answers' \in [Calls -> 0 .. 2]
    BY <1>3 DEF Respond, TypeOK
  <2>2. reading' \in Seq(Calls)
    BY <1>3 DEF Respond, TypeOK
  <2>. QED  BY <1>3, <2>1, <2>2 DEF Respond, TypeOK
<1>4. ASSUME NEW i \in DOMAIN reading, NEW ok \in BOOLEAN, PostAnswer(i, ok)
      PROVE  TypeOK'
  <2>1. reading \in Seq(Calls)
    BY DEF TypeOK
  <2>2. reading[i] \in Calls /\ reading' \in Seq(Calls)
    BY <1>4, <2>1, RemoveAtContains DEF PostAnswer
  <2>3. Answer(reading[i], ok) \in ToHost
    BY <2>2 DEF ToHost
  <2>4. toHost' \in Seq(ToHost)
    BY <1>4, <2>3 DEF PostAnswer, TypeOK
  <2>. QED  BY <1>4, <2>2, <2>4 DEF PostAnswer, TypeOK
<1>5. ASSUME NEW s \in Signals, SendSignal(s)
      PROVE  TypeOK'
  <2>1. Signal(s) \in ToHost
    BY SignalsAssumption DEF ToHost
  <2>. QED  BY <1>5, <2>1 DEF SendSignal, TypeOK
<1>. QED  BY <1>1, <1>2, <1>3, <1>4, <1>5 DEF GuestStep

(***************************************************************************)
(* What the thread gets is of its kind.                                    *)
(***************************************************************************)
LEMMA ToThreadKinds ==
  ASSUME NEW m \in ToThread
  PROVE  /\ m.kind = "delivery" => m.call \in Calls /\ m.acc \in Accepts
         /\ m.kind = "refusal" => m.acc \in Accepts
         /\ m.kind = "call.abort" => m.call \in Signalled /\ m = CallAbort(m.call)
BY DEF ToThread, Reply, Delivery, Refusal, CallAbort

(***************************************************************************)
(* The thread's message handlers.                                          *)
(***************************************************************************)
LEMMA TypeThreadReceive ==
  ASSUME TypeOK, ThreadReceive
  PROVE  TypeOK'
<1>. DEFINE m == Head(toThread)
<1>1. m \in ToThread /\ Tail(toThread) \in Seq(ToThread)
  BY HeadTailProperties DEF ThreadReceive, TypeOK
<1>. DEFINE Handled ==
       /\ accept' \in [Accepts -> {"free", "pending", "abandoned"}]
       /\ handed' \in Seq(Calls)
       /\ controllers' \subseteq Calls
       /\ told' \subseteq Signalled
       /\ slipped' \subseteq Calls
<1>2. ASSUME OnDelivery(m) PROVE Handled
  <2>1. m.call \in Calls /\ m.acc \in Accepts
    BY <1>1, <1>2, ToThreadKinds DEF OnDelivery
  <2>2. accept' \in [Accepts -> {"free", "pending", "abandoned"}]
    BY <1>2, <2>1 DEF OnDelivery, TypeOK
  <2>3. handed' \in Seq(Calls)
    <3>1. handed \in Seq(Calls)
      BY DEF TypeOK
    <3>. QED  BY <1>2, <2>1, <3>1 DEF OnDelivery
  <2>4. controllers' \subseteq Calls /\ told' \subseteq Signalled /\ slipped' \subseteq Calls
    BY <1>2, <2>1 DEF OnDelivery, TypeOK
  <2>. QED  BY <2>2, <2>3, <2>4
<1>3. ASSUME OnRefusal(m) PROVE Handled
  BY <1>3 DEF OnRefusal, TypeOK
<1>4. ASSUME OnCallAbort(m) PROVE Handled
  <2>1. m.call \in Signalled
    BY <1>1, <1>4, ToThreadKinds DEF OnCallAbort
  <2>. QED  BY <1>4, <2>1, CallsAssumption DEF OnCallAbort, TypeOK
<1>5. Handled
  BY <1>2, <1>3, <1>4 DEF ThreadReceive
<1>. HIDE DEF m
<1>6. toThread' \in Seq(ToThread)
  BY <1>1 DEF ThreadReceive
<1>7. UNCHANGED <<reading, answers, signals, aborts, guestIdle, toHost>>
  BY DEF ThreadReceive
<1>. QED  BY <1>5, <1>6, <1>7 DEF guestIdle, callerVars, hostVars, TypeOK

(***************************************************************************)
(* Every step keeps the types.                                             *)
(***************************************************************************)
LEMMA TypeStep == TypeOK /\ [Next]_vars => TypeOK'
<1>. SUFFICES ASSUME TypeOK, [Next]_vars PROVE TypeOK'
  OBVIOUS
<1>1. CASE Next
  BY <1>1, TypeHostStep, TypeResume, TypeHostReceive, TypeThreadReceive, TypeLife,
     TypeGuestStep DEF Next
<1>2. CASE UNCHANGED vars
  BY <1>2 DEF vars, callerVars, hostVars, guestVars, TypeOK
<1>. QED  BY <1>1, <1>2

-----------------------------------------------------------------------------
(* Where a call is: with the guest, on its way in the port, in a handler   *)
(* that has recorded it or one that will, in the queue; on its way back.   *)

\* a handler's delivery, as a message of a kind that says how far the handler is
Seen(h) == IF h.msg.kind = "delivery" THEN [kind |-> h.at, call |-> h.msg.call] ELSE [kind |-> "none"]

View(s) == [i \in DOMAIN s |-> Seen(s[i])]

Had(c) == Contains(handed, c)
Going(c) == Carries(toThread, "delivery", c)
Recorded(c) == Carries(View(resuming), "reply", c)
Taken(c) == Carries(View(resuming), "take", c)
Queued(c) == Contains(queue.items, c)
Answering(c) == Carries(toHost, "answer", c)
Entered(c) == Contains(issued, c)

\* the order of the ids
IssueOrder ==
  {p \in Calls \X Calls : \E m, n \in 1 .. Len(issued) : m < n /\ issued[m] = p[1] /\ issued[n] = p[2]}

Before(c, d) ==
  \/ Had(c) /\ (Going(d) \/ Recorded(d) \/ Taken(d) \/ Queued(d))
  \/ Going(c) /\ (Recorded(d) \/ Taken(d) \/ Queued(d))
  \/ Recorded(c) /\ (Taken(d) \/ Queued(d))
  \/ Taken(c) /\ Queued(d)

\* on the way to the guest the calls keep the order of their ids
InLine ==
  /\ InOrder(handed, IssueOrder)
  /\ CarriedInOrder(toThread, "delivery", IssueOrder)
  /\ CarriedInOrder(View(resuming), "reply", IssueOrder)
  /\ CarriedInOrder(View(resuming), "take", IssueOrder)
  /\ InOrder(queue.items, IssueOrder)
  /\ \A c, d \in Calls : Before(c, d) => <<c, d>> \in IssueOrder

OnWay(c) == Had(c) \/ Going(c) \/ Recorded(c) \/ Taken(c) \/ Queued(c)

\* a call has one id, and without one is nowhere
Known ==
  /\ InOrder(issued, Distinct(Calls))
  /\ \A c \in Calls :
       /\ OnWay(c) => Entered(c)
       /\ Entered(c) => outcome[c] \notin {"idle", "normalizing"}

Lined == Serving(queue) /\ Known /\ InLine

\* Accounted, of each call
Owed ==
  \A c \in Calls :
    /\ outcome[c] = "pending" <=> Queued(c) \/ Taken(c) \/ c \in inFlight
    /\ c \in inFlight => ~Queued(c) /\ ~Taken(c)

\* what the guest has answered it has, and what it has not it can be told of
Answered ==
  \A c \in Calls :
    /\ Answering(c) \/ Contains(reading, c) => answers[c] # 0
    /\ answers[c] # 0 => Had(c)
    /\ Had(c) /\ answers[c] = 0 => c \in controllers \cup told

\* a call whose delivery is posted or will be: its abort is on its way
Sent(c) == Had(c) \/ Going(c) \/ Recorded(c)

AbortsFollow ==
  ~dead => \A c \in aborted \ slipped :
    Sent(c) /\ answers[c] = 0 => c \in told \/ c \in inFlight \/ Contains(toThread, CallAbort(c))

NodeInv ==
  /\ TypeOK
  /\ Lined /\ Owed /\ FailureSettles
  /\ AcceptNotLost
  /\ Answered /\ AbortsFollow

-----------------------------------------------------------------------------
(* The handlers as a line of messages. *)

SeenHandlers == [kind : {"take", "reply"}, call : Calls] \cup [kind : {"none"}]

(***************************************************************************)
(* What is seen of a handler of either kind.                               *)
(***************************************************************************)
LEMMA SeenType ==
  ASSUME NEW h \in Handler
  PROVE  /\ Seen(h) \in SeenHandlers
         /\ h.at \in {"take", "reply"} /\ h.msg \in Reply /\ h.msg.kind \in {"delivery", "refusal"}
         /\ h.msg.kind = "delivery" =>
              h.msg.call \in Calls /\ Seen(h).kind = h.at /\ Seen(h).call = h.msg.call
         /\ h.msg.kind # "delivery" => Seen(h).kind = "none"
         /\ h.msg \in ToThread
BY DEF Handler, Reply, Delivery, Refusal, Seen, SeenHandlers, ToThread

(***************************************************************************)
(* The view of handlers is as long, and each is seen where it is.          *)
(***************************************************************************)
LEMMA ViewType ==
  ASSUME NEW s \in Seq(Handler)
  PROVE  /\ View(s) \in Seq(SeenHandlers) /\ Len(View(s)) = Len(s) /\ Len(s) \in Nat
         /\ \A i \in 1 .. Len(s) : s[i] \in Handler /\ View(s)[i] = Seen(s[i])
<1>1. DOMAIN s = 1 .. Len(s) /\ Len(s) \in Nat /\ \A i \in 1 .. Len(s) : s[i] \in Handler
  BY LenProperties, ElementOfSeq
<1>2. \A i \in 1 .. Len(s) : Seen(s[i]) \in SeenHandlers
  BY <1>1, SeenType
<1>3. View(s) \in [1 .. Len(s) -> SeenHandlers] /\ \A i \in 1 .. Len(s) : View(s)[i] = Seen(s[i])
  BY <1>1, <1>2 DEF View
<1>4. View(s) \in Seq(SeenHandlers)
  BY <1>1, <1>3, SeqDef
<1>5. Len(View(s)) = Len(s)
  BY <1>1, <1>3, <1>4, LenProperties
<1>. QED  BY <1>1, <1>3, <1>4, <1>5

(***************************************************************************)
(* One more handler is seen at the end.                                    *)
(***************************************************************************)
LEMMA ViewAppend ==
  ASSUME NEW s \in Seq(Handler), NEW h \in Handler
  PROVE  View(Append(s, h)) = Append(View(s), Seen(h))
<1>. DEFINE u == Append(s, h)
<1>1. u \in Seq(Handler) /\ Len(u) = Len(s) + 1 /\ u[Len(s) + 1] = h
      /\ \A i \in 1 .. Len(s) : u[i] = s[i]
  BY AppendProperties, LenProperties
<1>. HIDE DEF u
<1>2. /\ View(u) \in Seq(SeenHandlers) /\ Len(View(u)) = Len(s) + 1 /\ Len(s) \in Nat
      /\ \A i \in 1 .. Len(s) + 1 : View(u)[i] = Seen(u[i])
  BY <1>1, ViewType
<1>3. /\ View(s) \in Seq(SeenHandlers) /\ Len(View(s)) = Len(s)
      /\ \A i \in 1 .. Len(s) : View(s)[i] = Seen(s[i])
  BY ViewType
<1>4. Seen(h) \in SeenHandlers
  BY SeenType
<1>. DEFINE w == Append(View(s), Seen(h))
<1>5. /\ w \in Seq(SeenHandlers) /\ Len(w) = Len(s) + 1 /\ w[Len(s) + 1] = Seen(h)
      /\ \A i \in 1 .. Len(s) : w[i] = View(s)[i]
  BY <1>3, <1>4, AppendProperties
<1>. HIDE DEF w
<1>6. ASSUME NEW i \in 1 .. Len(s) + 1 PROVE View(u)[i] = w[i]
  <2>1. CASE i = Len(s) + 1
    BY <1>1, <1>2, <1>5, <2>1
  <2>2. CASE i # Len(s) + 1
    <3>1. i \in 1 .. Len(s)
      BY <1>2, <2>2
    <3>. QED  BY <1>1, <1>2, <1>3, <1>5, <3>1
  <2>. QED  BY <2>1, <2>2
<1>7. View(u) = w
  BY <1>2, <1>5, <1>6, SeqEqual
<1>. QED  BY <1>7 DEF u, w

(***************************************************************************)
(* The first of a sequence and what is behind it, by their indices.        *)
(***************************************************************************)
LEMMA FirstAndRest ==
  ASSUME NEW S, NEW s \in Seq(S), s # <<>>
  PROVE  /\ Head(s) = s[1] /\ Tail(s) \in Seq(S) /\ Len(Tail(s)) = Len(s) - 1
         /\ \A i \in 1 .. Len(s) - 1 : Tail(s)[i] = s[i + 1]
BY EmptySeq, HeadTailProperties, SMT

(***************************************************************************)
(* The first handler and those behind it are seen as such.                 *)
(***************************************************************************)
LEMMA ViewTail ==
  ASSUME NEW s \in Seq(Handler), s # <<>>
  PROVE  /\ View(s) # <<>> /\ Head(View(s)) = Seen(Head(s)) /\ View(Tail(s)) = Tail(View(s))
         /\ Head(s) \in Handler /\ Tail(s) \in Seq(Handler)
<1>1. /\ Len(s) \in Nat /\ Len(s) > 0 /\ Head(s) = s[1] /\ Tail(s) \in Seq(Handler)
      /\ Len(Tail(s)) = Len(s) - 1 /\ \A i \in 1 .. Len(Tail(s)) : Tail(s)[i] = s[i + 1]
  BY LenProperties, HeadTailProperties, EmptySeq
<1>2. /\ View(s) \in Seq(SeenHandlers) /\ Len(View(s)) = Len(s)
      /\ \A i \in 1 .. Len(s) : s[i] \in Handler /\ View(s)[i] = Seen(s[i])
  BY ViewType
<1>3. View(s) # <<>>
  BY <1>1, <1>2, EmptySeq
<1>4. /\ Head(View(s)) = View(s)[1] /\ Tail(View(s)) \in Seq(SeenHandlers)
      /\ Len(Tail(View(s))) = Len(s) - 1
      /\ \A i \in 1 .. (Len(s) - 1) : Tail(View(s))[i] = View(s)[i + 1]
  <2>1. /\ Head(View(s)) = View(s)[1] /\ Tail(View(s)) \in Seq(SeenHandlers)
        /\ Len(Tail(View(s))) = Len(View(s)) - 1
        /\ \A i \in 1 .. Len(View(s)) - 1 : Tail(View(s))[i] = View(s)[i + 1]
    BY <1>2, <1>3, FirstAndRest, Zenon
  <2>. QED  BY <1>2, <2>1
<1>5. /\ View(Tail(s)) \in Seq(SeenHandlers) /\ Len(View(Tail(s))) = Len(s) - 1
      /\ \A i \in 1 .. (Len(s) - 1) : View(Tail(s))[i] = Seen(Tail(s)[i])
  BY <1>1, ViewType
<1>6. \A i \in 1 .. (Len(s) - 1) : View(Tail(s))[i] = Tail(View(s))[i]
  <2>. TAKE i \in 1 .. (Len(s) - 1)
  <2>1. i + 1 \in 1 .. Len(s) /\ i \in 1 .. Len(Tail(s))
    BY <1>1
  <2>. QED  BY <1>1, <1>2, <1>4, <1>5, <2>1
<1>7. View(Tail(s)) = Tail(View(s))
  BY <1>4, <1>5, <1>6, SeqEqual
<1>8. Head(View(s)) = Seen(Head(s)) /\ Head(s) \in Handler
  <2>1. 1 \in 1 .. Len(s)
    BY <1>1
  <2>. QED  BY <1>1, <1>2, <1>4, <2>1
<1>. QED  BY <1>1, <1>3, <1>7, <1>8

(***************************************************************************)
(* The refusals carry no call.                                             *)
(***************************************************************************)
LEMMA ViewRefusals ==
  ASSUME NEW s \in Seq(Handler), NEW takers \in Seq(Accepts), NEW k \in {"take", "reply"}
  PROVE  /\ s \o Refusals(takers) \in Seq(Handler)
         /\ \A c : Carries(View(s \o Refusals(takers)), k, c) <=> Carries(View(s), k, c)
         /\ \A R : CarriedInOrder(View(s), k, R) => CarriedInOrder(View(s \o Refusals(takers)), k, R)
<1>. DEFINE r == Refusals(takers) u == s \o r v == View(u)
<1>1. r \in Seq(Handler)
  BY RefusalsType
<1>2. \A i \in 1 .. Len(r) : Seen(r[i]).kind = "none"
  <2>1. DOMAIN takers = 1 .. Len(takers) /\ Len(takers) \in Nat
    BY LenProperties
  <2>2. Len(r) = Len(takers)
    BY <2>1 DEF Refusals
  <2>. QED  BY <2>1, <2>2 DEF Refusals, Served, Refusal, Seen
<1>. HIDE DEF r
<1>3. /\ u \in Seq(Handler) /\ Len(u) = Len(s) + Len(r) /\ Len(s) \in Nat /\ Len(r) \in Nat
  BY <1>1, ConcatProperties, LenProperties
<1>4. \A i \in 1 .. Len(u) : u[i] = IF i <= Len(s) THEN s[i] ELSE r[i - Len(s)]
  BY <1>1, <1>3, ConcatProperties
<1>. HIDE DEF u
<1>5. /\ Len(v) = Len(u) /\ Len(View(s)) = Len(s)
      /\ \A i \in 1 .. Len(u) : v[i] = Seen(u[i])
      /\ \A i \in 1 .. Len(s) : View(s)[i] = Seen(s[i])
  BY <1>3, ViewType
<1>. HIDE DEF v
<1>6. \A i \in 1 .. Len(s) : i \in 1 .. Len(u) /\ v[i] = View(s)[i]
  BY <1>3, <1>4, <1>5
<1>7. \A i \in 1 .. Len(u) : v[i].kind = k => i \in 1 .. Len(s)
  <2>. SUFFICES ASSUME NEW i \in 1 .. Len(u), ~(i <= Len(s)) PROVE v[i].kind = "none"
    BY <1>3
  <2>1. i - Len(s) \in 1 .. Len(r) /\ u[i] = r[i - Len(s)]
    BY <1>3, <1>4
  <2>. QED  BY <1>2, <1>5, <2>1
<1>8. \A c : Carries(v, k, c) <=> Carries(View(s), k, c)
  BY <1>5, <1>6, <1>7 DEF Carries
<1>9. ASSUME NEW R, CarriedInOrder(View(s), k, R) PROVE CarriedInOrder(v, k, R)
  BY <1>5, <1>6, <1>7, <1>9 DEF CarriedInOrder
<1>. QED  BY <1>3, <1>8, <1>9 DEF u, v, r

(***************************************************************************)
(* Calls between take() and #inFlight are those of handlers that resume.   *)
(***************************************************************************)
LEMMA BetweenIsTaken == TypeOK => \A c : c \in Between <=> Taken(c)
<1>. SUFFICES ASSUME TypeOK, NEW c PROVE c \in Between <=> Taken(c)
  OBVIOUS
<1>1. /\ Len(View(resuming)) = Len(resuming)
      /\ \A i \in 1 .. Len(resuming) : resuming[i] \in Handler /\ View(resuming)[i] = Seen(resuming[i])
      /\ DOMAIN resuming = 1 .. Len(resuming)
  BY ViewType, LenProperties DEF TypeOK
<1>2. c \in Between <=> \E i \in 1 .. Len(resuming) : resuming[i].at = "take" /\ c \in CallOf(resuming[i].msg)
  <2>1. \A h : h \in ToSet(resuming) <=> \E i \in 1 .. Len(resuming) : h = resuming[i]
    BY <1>1 DEF ToSet
  <2>. QED  BY <2>1 DEF Between
<1>3. \A i \in 1 .. Len(resuming) :
        resuming[i].at = "take" /\ c \in CallOf(resuming[i].msg)
          <=> View(resuming)[i].kind = "take" /\ View(resuming)[i].call = c
  <2>. TAKE i \in 1 .. Len(resuming)
  <2>. DEFINE h == resuming[i]
  <2>1. h \in Handler /\ View(resuming)[i] = Seen(h)
    BY <1>1
  <2>. HIDE DEF h
  <2>2. h.at = "take" /\ c \in CallOf(h.msg) <=> Seen(h).kind = "take" /\ Seen(h).call = c
    BY <2>1, SeenType DEF CallOf
  <2>. QED  BY <2>1, <2>2 DEF h
<1>. QED  BY <1>1, <1>2, <1>3 DEF Taken, Carries

-----------------------------------------------------------------------------
(* What the invariant says of places. *)

(***************************************************************************)
(* What the lemmas about sequences need of the types.                      *)
(***************************************************************************)
LEMMA Typed ==
  ASSUME TypeOK
  PROVE  /\ handed \in Seq(Calls) /\ issued \in Seq(Calls) /\ reading \in Seq(Calls)
         /\ queue \in QueueOf(Calls, Accepts) /\ queue.items \in Seq(Calls) /\ queue.takers \in Seq(Accepts)
         /\ resuming \in Seq(Handler) /\ toThread \in Seq(ToThread) /\ toHost \in Seq(ToHost)
         /\ View(resuming) \in Seq(SeenHandlers)
BY ViewType DEF TypeOK, QueueOf

(***************************************************************************)
(* Only calls are anywhere.                                                *)
(***************************************************************************)
LEMMA OnlyCalls ==
  ASSUME TypeOK
  PROVE  \A c : OnWay(c) \/ Entered(c) => c \in Calls
<1>1. \A c : Had(c) \/ Queued(c) \/ Entered(c) => c \in Calls
  BY Typed, ContainsType DEF Had, Queued, Entered
<1>2. \A c : Going(c) => c \in Calls
  <2>1. \A m \in ToThread : m.kind = "delivery" => m.call \in Calls
    BY ToThreadKinds
  <2>. QED  BY <2>1, Typed, CarriesType DEF Going
<1>3. \A c : Recorded(c) \/ Taken(c) => c \in Calls
  <2>1. \A k \in {"take", "reply"} : \A m \in SeenHandlers : m.kind = k => m.call \in Calls
    BY DEF SeenHandlers
  <2>. QED  BY <2>1, Typed, CarriesType DEF Recorded, Taken
<1>. QED  BY <1>1, <1>2, <1>3 DEF OnWay

(***************************************************************************)
(* The ids are distinct, so that no call is issued before itself.          *)
(***************************************************************************)
LEMMA OrderIsStrict ==
  ASSUME TypeOK, Known
  PROVE  (\A c : <<c, c>> \notin IssueOrder) /\ IssueOrder \subseteq Distinct(Calls)
<1>1. Len(issued) \in Nat
  BY Typed, LenProperties
<1>2. \A m, n \in 1 .. Len(issued) : m < n => issued[m] # issued[n]
  BY <1>1 DEF Known, InOrder, Distinct
<1>. QED  BY <1>2 DEF IssueOrder, Distinct

(***************************************************************************)
(* A call on its way is with the guest, in the port, with a handler or in  *)
(* the queue, and in one of them only.                                     *)
(***************************************************************************)
LEMMA Apart ==
  ASSUME TypeOK, Lined
  PROVE  \A c :
           /\ Had(c) => ~Going(c) /\ ~Recorded(c) /\ ~Taken(c) /\ ~Queued(c)
           /\ Going(c) => ~Recorded(c) /\ ~Taken(c) /\ ~Queued(c)
           /\ Recorded(c) => ~Taken(c) /\ ~Queued(c)
           /\ Taken(c) => ~Queued(c)
<1>1. \A c : <<c, c>> \notin IssueOrder
  BY OrderIsStrict DEF Lined
<1>2. \A c : OnWay(c) => c \in Calls
  BY OnlyCalls
<1>3. \A c \in Calls : ~Before(c, c)
  BY <1>1 DEF Lined, InLine
<1>. QED  BY <1>2, <1>3 DEF Before, OnWay

(***************************************************************************)
(* The line stays in order when calls leave it.                            *)
(***************************************************************************)
LEMMA LinedLeft ==
  ASSUME Lined, UNCHANGED <<issued, handed>>, Serving(queue)',
         \A c :
           /\ Going(c)' => Going(c)
           /\ Recorded(c)' => Recorded(c)
           /\ Taken(c)' => Taken(c)
           /\ Queued(c)' => Queued(c),
         \A R :
           /\ CarriedInOrder(toThread, "delivery", R) => CarriedInOrder(toThread', "delivery", R)
           /\ \A k \in {"take", "reply"} :
                CarriedInOrder(View(resuming), k, R) => CarriedInOrder(View(resuming)', k, R)
           /\ InOrder(queue.items, R) => InOrder(queue'.items, R),
         \A c \in Calls : outcome'[c] \in {"idle", "normalizing"} => outcome[c] \in {"idle", "normalizing"}
  PROVE  Lined'
<1>1. IssueOrder' = IssueOrder /\ \A c : (Entered(c)' <=> Entered(c)) /\ (Had(c)' <=> Had(c))
  BY DEF IssueOrder, Entered, Had
<1>2. \A c, d : Before(c, d)' => Before(c, d)
  BY <1>1 DEF Before
<1>3. InLine'
  <2>1. InOrder(handed, IssueOrder)'
    BY <1>1 DEF Lined, InLine
  <2>2. /\ CarriedInOrder(toThread', "delivery", IssueOrder)
        /\ CarriedInOrder(View(resuming)', "reply", IssueOrder)
        /\ CarriedInOrder(View(resuming)', "take", IssueOrder)
        /\ InOrder(queue'.items, IssueOrder)
    BY DEF Lined, InLine
  <2>3. \A c, d \in Calls : Before(c, d)' => <<c, d>> \in IssueOrder
    BY <1>2 DEF Lined, InLine
  <2>. QED  BY <1>1, <2>1, <2>2, <2>3 DEF InLine
<1>4. Known'
  BY <1>1 DEF Lined, Known, OnWay
<1>. QED  BY <1>3, <1>4 DEF Lined

(***************************************************************************)
(* It stays when nothing on it is touched.                                 *)
(***************************************************************************)
LEMMA LineStill ==
  ASSUME UNCHANGED <<queue, resuming, toThread, handed>>
  PROVE  \A c :
           /\ Had(c)' <=> Had(c)
           /\ Going(c)' <=> Going(c)
           /\ Recorded(c)' <=> Recorded(c)
           /\ Taken(c)' <=> Taken(c)
           /\ Queued(c)' <=> Queued(c)
BY DEF Had, Going, Recorded, Taken, Queued, View

(***************************************************************************)
(* One more handler, and one handler less, in terms of its call.           *)
(***************************************************************************)
LEMMA ViewGrows ==
  ASSUME NEW s \in Seq(Handler), NEW h \in Handler, NEW k \in {"take", "reply"}
  PROVE  /\ \A c : Carries(View(Append(s, h)), k, c) <=>
                    Carries(View(s), k, c) \/ (h.at = k /\ h.msg.kind = "delivery" /\ h.msg.call = c)
         /\ \A R : /\ CarriedInOrder(View(s), k, R)
                   /\ h.at = k /\ h.msg.kind = "delivery" =>
                        \A c : Carries(View(s), k, c) => <<c, h.msg.call>> \in R
                   => CarriedInOrder(View(Append(s, h)), k, R)
<1>1. View(s) \in Seq(SeenHandlers) /\ Seen(h) \in SeenHandlers
  BY ViewType, SeenType
<1>2. /\ \A c : Carries(Append(View(s), Seen(h)), k, c) <=>
                  Carries(View(s), k, c) \/ (Seen(h).kind = k /\ Seen(h).call = c)
      /\ \A R : /\ CarriedInOrder(View(s), k, R)
                /\ Seen(h).kind = k => \A c : Carries(View(s), k, c) => <<c, Seen(h).call>> \in R
                => CarriedInOrder(Append(View(s), Seen(h)), k, R)
  BY <1>1, AppendCarries
<1>3. /\ Seen(h).kind = k <=> h.at = k /\ h.msg.kind = "delivery"
      /\ h.msg.kind = "delivery" => Seen(h).call = h.msg.call
  BY SeenType
<1>. QED  BY <1>2, <1>3, ViewAppend

(***************************************************************************)
(* The same for the handler that goes first.                               *)
(***************************************************************************)
LEMMA ViewShrinks ==
  ASSUME NEW s \in Seq(Handler), s # <<>>, NEW k \in {"take", "reply"}
  PROVE  LET h == Head(s) IN
         /\ \A c : Carries(View(s), k, c) <=>
                    Carries(View(Tail(s)), k, c) \/ (h.at = k /\ h.msg.kind = "delivery" /\ h.msg.call = c)
         /\ \A R : CarriedInOrder(View(s), k, R) =>
              /\ CarriedInOrder(View(Tail(s)), k, R)
              /\ h.at = k /\ h.msg.kind = "delivery" =>
                   \A c : Carries(View(Tail(s)), k, c) => <<h.msg.call, c>> \in R
<1>. DEFINE h == Head(s)
<1>1. /\ View(s) \in Seq(SeenHandlers) /\ View(s) # <<>> /\ Head(View(s)) = Seen(h)
      /\ View(Tail(s)) = Tail(View(s)) /\ h \in Handler
  BY ViewType, ViewTail
<1>. HIDE DEF h
<1>2. /\ \A c : Carries(View(s), k, c) <=>
                  Carries(View(Tail(s)), k, c) \/ (Seen(h).kind = k /\ Seen(h).call = c)
      /\ \A R : CarriedInOrder(View(s), k, R) =>
           /\ CarriedInOrder(View(Tail(s)), k, R)
           /\ Seen(h).kind = k => \A c : Carries(View(Tail(s)), k, c) => <<Seen(h).call, c>> \in R
  <2>1. PICK v \in Seq(SeenHandlers) : v = View(s)
    BY <1>1
  <2>2. v # <<>> /\ Head(v) = Seen(h) /\ Tail(v) = View(Tail(s))
    BY <1>1, <2>1
  <2>3. /\ \A c : Carries(v, k, c) <=> Carries(Tail(v), k, c) \/ (Head(v).kind = k /\ Head(v).call = c)
        /\ \A R : CarriedInOrder(v, k, R) =>
             /\ CarriedInOrder(Tail(v), k, R)
             /\ Head(v).kind = k => \A c : Carries(Tail(v), k, c) => <<Head(v).call, c>> \in R
    BY <2>2, TailCarries
  <2>. QED  BY <2>1, <2>2, <2>3
<1>3. /\ Seen(h).kind = k <=> h.at = k /\ h.msg.kind = "delivery"
      /\ h.msg.kind = "delivery" => Seen(h).call = h.msg.call
  BY <1>1, SeenType
<1>. QED  BY <1>2, <1>3 DEF h

-----------------------------------------------------------------------------
(* What each step does to the places. *)

(***************************************************************************)
(* A queue operation that gives nothing resumes no handler; one that gives *)
(* a call resumes one that will record it.                                 *)
(***************************************************************************)
LEMMA QueueStepGives ==
  ASSUME TypeOK, NEW step, QueueStep(step)
  PROVE  /\ queue' = step.queue
         /\ step.given = <<>> => resuming' = resuming
         /\ \A a \in Accepts, c \in Calls :
              step.given = <<[taker |-> a, item |-> c]>> =>
                resuming' = Append(resuming, Served(Delivery(a, c)))
<1>1. resuming \in Seq(Handler)
  BY DEF TypeOK
<1>2. step.given = <<>> => resuming' = resuming
  <2>1. Deliveries(<<>>) = <<>>
    BY DEF Deliveries
  <2>. QED  BY <1>1, <2>1, ConcatEmptySeq DEF QueueStep
<1>3. ASSUME NEW a \in Accepts, NEW c \in Calls, step.given = <<[taker |-> a, item |-> c]>>
      PROVE  resuming' = Append(resuming, Served(Delivery(a, c)))
  <2>1. Deliveries(<<[taker |-> a, item |-> c]>>) = <<Served(Delivery(a, c))>>
    BY DEF Deliveries
  <2>2. Served(Delivery(a, c)) \in Handler
    BY DEF Reply, Handler, Served
  <2>. QED  BY <1>1, <1>3, <2>1, <2>2, AppendIsConcat DEF QueueStep
<1>. QED  BY <1>2, <1>3 DEF QueueStep

(***************************************************************************)
(* The handler that was given a call.                                      *)
(***************************************************************************)
LEMMA GivenCall ==
  ASSUME TypeOK, NEW a \in Accepts, NEW c \in Calls,
         resuming' = Append(resuming, Served(Delivery(a, c)))
  PROVE  /\ \A d : Taken(d)' <=> Taken(d) \/ d = c
         /\ \A d : Recorded(d)' <=> Recorded(d)
         /\ \A R : CarriedInOrder(View(resuming), "reply", R) => CarriedInOrder(View(resuming)', "reply", R)
         /\ \A R : CarriedInOrder(View(resuming), "take", R) /\ (\A d : Taken(d) => <<d, c>> \in R)
                     => CarriedInOrder(View(resuming)', "take", R)
<1>. DEFINE h == Served(Delivery(a, c))
<1>1. h \in Handler /\ h.at = "take" /\ h.msg.kind = "delivery" /\ h.msg.call = c
  BY DEF Reply, Handler, Served, Delivery
<1>2. resuming \in Seq(Handler) /\ View(resuming)' = View(Append(resuming, h))
  BY Typed DEF View
<1>. HIDE DEF h
<1>. QED  BY <1>1, <1>2, ViewGrows DEF Taken, Recorded

(***************************************************************************)
(* push: the call goes to a resuming handler, or waits.                    *)
(***************************************************************************)
LEMMA PushMoves ==
  ASSUME TypeOK, Serving(queue), NEW c \in Calls, QueueStep(Push(queue, c))
  PROVE  /\ Serving(queue')
         /\ \/ /\ queue.takers # <<>> /\ queue.items = <<>> /\ queue'.items = <<>>
               /\ resuming' = Append(resuming, Served(Delivery(Head(queue.takers), c)))
               /\ Head(queue.takers) \in Accepts /\ queue'.takers = Tail(queue.takers)
            \/ /\ queue.takers = <<>> /\ queue'.takers = <<>> /\ resuming' = resuming
               /\ queue'.items = Append(queue.items, c)
<1>1. queue \in QueueOf(Calls, Accepts) /\ queue.takers \in Seq(Accepts)
  BY Typed
<1>2. queue' = Push(queue, c).queue
  BY QueueStepGives
<1>3. CASE queue.takers # <<>>
  <2>1. Head(queue.takers) \in Accepts
    BY <1>1, <1>3, HeadTailProperties
  <2>2. /\ Serving(Push(queue, c).queue) /\ queue.items = <<>> /\ Push(queue, c).queue.items = <<>>
        /\ Push(queue, c).given = <<[taker |-> Head(queue.takers), item |-> c]>>
    BY <1>1, <1>3, PushGives
  <2>3. resuming' = Append(resuming, Served(Delivery(Head(queue.takers), c)))
    BY <2>1, <2>2, QueueStepGives
  <2>4. Push(queue, c).queue.takers = Tail(queue.takers)
    BY <1>1, <1>3 DEF Push, ServeTaker, Gives, QueueOf
  <2>. QED  BY <1>2, <1>3, <2>1, <2>2, <2>3, <2>4
<1>4. CASE queue.takers = <<>>
  <2>1. /\ Push(queue, c).queue.items = Append(queue.items, c)
        /\ Push(queue, c).given = <<>> /\ Push(queue, c).queue.takers = <<>>
    BY <1>1, <1>4, PushWaits
  <2>2. resuming' = resuming
    BY <2>1, QueueStepGives
  <2>3. Serving(queue')
    BY <1>2, <2>1 DEF Serving
  <2>. QED  BY <1>2, <1>4, <2>1, <2>2, <2>3
<1>. QED  BY <1>3, <1>4

(***************************************************************************)
(* take: the acceptCall gets the first of the queue, or waits.             *)
(***************************************************************************)
LEMMA TakeMoves ==
  ASSUME TypeOK, Serving(queue), NEW a \in Accepts, QueueStep(Take(queue, a))
  PROVE  /\ Serving(queue')
         /\ \/ /\ queue.items = <<>> /\ queue'.items = <<>> /\ resuming' = resuming
               /\ queue'.takers = Append(queue.takers, a)
            \/ /\ queue.items # <<>> /\ queue'.items = Tail(queue.items)
               /\ Head(queue.items) \in Calls /\ queue'.takers = queue.takers
               /\ resuming' = Append(resuming, Served(Delivery(a, Head(queue.items))))
<1>1. queue \in QueueOf(Calls, Accepts) /\ queue.items \in Seq(Calls)
  BY Typed
<1>2. queue' = Take(queue, a).queue
  BY QueueStepGives
<1>3. CASE queue.items = <<>>
  <2>1. /\ Serving(Take(queue, a).queue) /\ Take(queue, a).queue.items = <<>>
        /\ Take(queue, a).given = <<>>
    BY <1>1, <1>3, TakeWaits
  <2>2. resuming' = resuming
    BY <2>1, QueueStepGives
  <2>3. Take(queue, a).queue.takers = Append(queue.takers, a)
    BY <1>1, <1>3 DEF Take, Nothing, QueueOf
  <2>. QED  BY <1>2, <1>3, <2>1, <2>2, <2>3
<1>4. CASE queue.items # <<>>
  <2>1. PICK x \in Calls : x = Head(queue.items)
    BY <1>1, <1>4, HeadTailProperties
  <2>2. /\ Serving(Take(queue, a).queue) /\ Take(queue, a).queue.items = Tail(queue.items)
        /\ Take(queue, a).given = <<[taker |-> a, item |-> x]>>
    BY <1>1, <1>4, <2>1, TakeGives
  <2>3. resuming' = Append(resuming, Served(Delivery(a, x)))
    BY <2>2, QueueStepGives
  <2>4. Take(queue, a).queue.takers = queue.takers
    BY <1>1, <1>4 DEF Take, Gives, QueueOf
  <2>. QED  BY <1>2, <1>4, <2>1, <2>2, <2>3, <2>4
<1>. QED  BY <1>3, <1>4

(***************************************************************************)
(* #fail leaves the handlers their calls and empties the queue.            *)
(***************************************************************************)
LEMMA FailMoves ==
  ASSUME TypeOK, Fail, ~dead
  PROVE  /\ Serving(queue)' /\ queue'.items = <<>>
         /\ \A c : (Taken(c)' <=> Taken(c)) /\ (Recorded(c)' <=> Recorded(c)) /\ ~Queued(c)'
         /\ \A R : \A k \in {"take", "reply"} :
              CarriedInOrder(View(resuming), k, R) => CarriedInOrder(View(resuming)', k, R)
         /\ inFlight' = {}
         /\ outcome' \in [Calls -> {"idle", "normalizing", "pending", "resolved", "rejected"}]
         /\ \A c \in Calls : outcome'[c] = IF Queued(c) \/ c \in inFlight THEN "rejected" ELSE outcome[c]
<1>1. resuming \in Seq(Handler) /\ queue.takers \in Seq(Accepts)
  BY Typed
<1>2. resuming' = resuming \o Refusals(queue.takers) /\ queue' = EmptyQueue
  BY DEF Fail, RejectAll
<1>3. View(resuming)' = View(resuming \o Refusals(queue.takers))
  BY <1>2 DEF View
<1>4. \A c : ~Queued(c)'
  BY <1>2 DEF Queued, EmptyQueue, Contains
<1>5. /\ outcome' = [c \in Calls |-> IF Queued(c) \/ c \in inFlight THEN "rejected" ELSE outcome[c]]
      /\ inFlight' = {}
  BY DEF Fail, IsQueued, Queued
<1>6. outcome' \in [Calls -> {"idle", "normalizing", "pending", "resolved", "rejected"}]
  BY <1>5 DEF TypeOK
<1>7. \A c : (Taken(c)' <=> Taken(c)) /\ (Recorded(c)' <=> Recorded(c))
  BY <1>1, <1>3, ViewRefusals DEF Taken, Recorded
<1>8. \A R : \A k \in {"take", "reply"} :
        CarriedInOrder(View(resuming), k, R) => CarriedInOrder(View(resuming)', k, R)
  BY <1>1, <1>3, ViewRefusals
<1>9. Serving(queue)' /\ queue'.items = <<>>
  BY <1>2 DEF Serving, EmptyQueue
<1>. QED  BY <1>4, <1>5, <1>6, <1>7, <1>8, <1>9

(***************************************************************************)
(* What the host posts is one more message, or none.                       *)
(***************************************************************************)
LEMMA EmitMoves ==
  ASSUME TypeOK, NEW m \in ToThread, Emit(m)
  PROVE  /\ \A c : Going(c)' <=> Going(c) \/ (~dead /\ m.kind = "delivery" /\ m.call = c)
         /\ \A R : /\ CarriedInOrder(toThread, "delivery", R)
                   /\ m.kind = "delivery" => \A c : Going(c) => <<c, m.call>> \in R
                   => CarriedInOrder(toThread', "delivery", R)
         /\ \A n : Contains(toThread', n) <=> Contains(toThread, n) \/ (~dead /\ n = m)
         /\ ToSet(toThread') = ToSet(toThread) \cup (IF dead THEN {} ELSE {m})
<1>1. toThread \in Seq(ToThread)
  BY Typed
<1>2. CASE dead
  BY <1>2 DEF Emit, Going
<1>3. CASE ~dead
  <2>1. toThread' = Append(toThread, m)
    BY <1>3 DEF Emit
  <2>. QED  BY <1>1, <1>3, <2>1, AppendCarries, AppendContains, AppendSet DEF Going
<1>. QED  BY <1>2, <1>3

(***************************************************************************)
(* The abort of a call takes it out of the queue or out of #inFlight, and  *)
(* in the latter case tells the thread.                                    *)
(***************************************************************************)
LEMMA AbortMoves ==
  ASSUME TypeOK, Lined, NEW c \in Signalled, AbortListener(c)
  PROVE  /\ Serving(queue)' /\ queue'.takers = queue.takers
         /\ \A d : Queued(d)' <=> Queued(d) /\ d # c
         /\ \A R : InOrder(queue.items, R) => InOrder(queue'.items, R)
         /\ \A d : Going(d)' <=> Going(d)
         /\ \A R : CarriedInOrder(toThread, "delivery", R) => CarriedInOrder(toThread', "delivery", R)
         /\ \A n : Contains(toThread', n) <=>
                    Contains(toThread, n) \/ (~dead /\ c \in inFlight /\ n = CallAbort(c))
         /\ ToSet(toThread) \subseteq ToSet(toThread')
<1>1. queue \in QueueOf(Calls, Accepts) /\ queue.items \in Seq(Calls)
  BY Typed
<1>2. queue'.items = RemoveFirst(queue.items, c) /\ queue'.takers = queue.takers
  BY <1>1 DEF AbortListener, RemoveItem, QueueOf
<1>3. /\ \A d : Queued(d)' <=> Queued(d) /\ d # c
      /\ \A R : InOrder(queue.items, R) => InOrder(queue'.items, R)
  <2>1. InOrder(queue.items, Distinct(Calls))
    BY OrderIsStrict DEF Lined, InLine, InOrder
  <2>2. CASE Contains(queue.items, c)
    BY <1>1, <1>2, <2>1, <2>2, RemoveContains DEF Queued
  <2>3. CASE ~Contains(queue.items, c)
    <3>1. queue'.items = queue.items
      BY <1>2, <2>3 DEF RemoveFirst, Contains
    <3>. QED  BY <2>3, <3>1 DEF Queued
  <2>. QED  BY <2>2, <2>3
<1>4. Serving(queue)'
  <2>1. CASE queue.items = <<>>
    <3>1. queue'.items = queue.items
      BY <1>2, <2>1 DEF RemoveFirst, Contains
    <3>. QED  BY <2>1, <3>1 DEF Serving
  <2>2. CASE queue.takers = <<>>
    BY <1>2, <2>2 DEF Serving
  <2>. QED  BY <2>1, <2>2 DEF Lined, Serving
<1>5. CallAbort(c) \in ToThread /\ CallAbort(c).kind # "delivery"
  BY DEF ToThread, CallAbort
<1>6. IF c \in inFlight THEN Emit(CallAbort(c)) ELSE toThread' = toThread
  BY DEF AbortListener
<1>7. CASE c \in inFlight
  <2>1. Emit(CallAbort(c))
    BY <1>6, <1>7
  <2>2. /\ \A d : Going(d)' <=> Going(d)
        /\ \A R : CarriedInOrder(toThread, "delivery", R) => CarriedInOrder(toThread', "delivery", R)
        /\ \A n : Contains(toThread', n) <=> Contains(toThread, n) \/ (~dead /\ n = CallAbort(c))
        /\ ToSet(toThread) \subseteq ToSet(toThread')
    BY <1>5, <2>1, EmitMoves
  <2>. QED  BY <1>2, <1>3, <1>4, <1>7, <2>2
<1>8. CASE c \notin inFlight
  BY <1>2, <1>3, <1>4, <1>6, <1>8 DEF Going
<1>. QED  BY <1>7, <1>8

(***************************************************************************)
(* A handler that resumes after take() records its call and is the last of *)
(* those that have.                                                        *)
(***************************************************************************)
LEMMA RecordMoves ==
  ASSUME TypeOK, Lined, Resume, Head(resuming).at = "take"
  PROVE  /\ UNCHANGED <<queue, toThread, handed, dead, outcome>>
         /\ inFlight' = inFlight \cup CallOf(Head(resuming).msg)
         /\ CallOf(Head(resuming).msg) \subseteq Calls
         /\ \A c \in CallOf(Head(resuming).msg) : Taken(c)
         /\ \A c :
              /\ Taken(c)' <=> Taken(c) /\ c \notin CallOf(Head(resuming).msg)
              /\ Recorded(c)' <=> Recorded(c) \/ c \in CallOf(Head(resuming).msg)
         /\ CarriedInOrder(View(resuming)', "take", IssueOrder)
         /\ CarriedInOrder(View(resuming)', "reply", IssueOrder)
         /\ \A c \in CallOf(Head(resuming).msg) : \A d : Taken(d)' => <<c, d>> \in IssueOrder
<1>. DEFINE h == Head(resuming) s == Tail(resuming) r == Replying(h.msg)
<1>1. /\ resuming \in Seq(Handler) /\ resuming # <<>>
      /\ inFlight' = inFlight \cup CallOf(h.msg)
      /\ resuming' = Append(s, r)
      /\ UNCHANGED <<queue, toThread, handed, dead, outcome>>
  BY Typed DEF Resume, callerVars, guestVars
<1>2. h \in Handler /\ s \in Seq(Handler) /\ h.at = "take"
  BY <1>1, ViewTail
<1>3. View(resuming)' = View(Append(s, r))
  BY <1>1 DEF View
<1>4. /\ \A c : Taken(c) <=> Carries(View(s), "take", c) \/ (h.msg.kind = "delivery" /\ h.msg.call = c)
      /\ \A R : CarriedInOrder(View(resuming), "take", R) =>
           /\ CarriedInOrder(View(s), "take", R)
           /\ h.msg.kind = "delivery" => \A c : Carries(View(s), "take", c) => <<h.msg.call, c>> \in R
      /\ \A c : Recorded(c) <=> Carries(View(s), "reply", c)
      /\ \A R : CarriedInOrder(View(resuming), "reply", R) => CarriedInOrder(View(s), "reply", R)
  BY <1>1, <1>2, ViewShrinks DEF Taken, Recorded
<1>. HIDE DEF h, s
<1>5. r \in Handler /\ r.at = "reply" /\ r.msg = h.msg
  BY <1>2 DEF Handler, Replying
<1>. HIDE DEF r
<1>6. /\ \A c : Taken(c)' <=> Carries(View(s), "take", c)
      /\ \A R : CarriedInOrder(View(s), "take", R) => CarriedInOrder(View(resuming)', "take", R)
      /\ \A c : Recorded(c)' <=>
                 Carries(View(s), "reply", c) \/ (h.msg.kind = "delivery" /\ h.msg.call = c)
      /\ \A R : /\ CarriedInOrder(View(s), "reply", R)
                /\ h.msg.kind = "delivery" => \A c : Carries(View(s), "reply", c) => <<c, h.msg.call>> \in R
                => CarriedInOrder(View(resuming)', "reply", R)
  BY <1>2, <1>3, <1>5, ViewGrows DEF Taken, Recorded
<1>7. \A c : c \in CallOf(h.msg) <=> h.msg.kind = "delivery" /\ h.msg.call = c
  BY DEF CallOf
<1>8. \A c : <<c, c>> \notin IssueOrder
  BY OrderIsStrict DEF Lined
<1>9. \A c : Taken(c) \/ Recorded(c) => c \in Calls
  BY OnlyCalls DEF OnWay
<1>10. /\ CarriedInOrder(View(resuming), "take", IssueOrder)
       /\ CarriedInOrder(View(resuming), "reply", IssueOrder)
       /\ \A c, d : Recorded(c) /\ Taken(d) => <<c, d>> \in IssueOrder
  BY <1>9 DEF Lined, InLine, Before
<1>11. h.msg.kind = "delivery" => \A c : Carries(View(s), "take", c) => <<h.msg.call, c>> \in IssueOrder
  BY <1>4, <1>10
<1>12. CarriedInOrder(View(resuming)', "take", IssueOrder)
  BY <1>4, <1>6, <1>10
<1>13. CarriedInOrder(View(resuming)', "reply", IssueOrder)
  BY <1>4, <1>6, <1>10
<1>14. /\ \A c \in CallOf(h.msg) : Taken(c)
       /\ \A c : Taken(c)' <=> Taken(c) /\ c \notin CallOf(h.msg)
       /\ \A c : Recorded(c)' <=> Recorded(c) \/ c \in CallOf(h.msg)
       /\ \A c \in CallOf(h.msg) : \A d : Taken(d)' => <<c, d>> \in IssueOrder
  BY <1>4, <1>6, <1>7, <1>8, <1>11
<1>15. CallOf(h.msg) \subseteq Calls
  BY <1>9, <1>14
<1>. QED  BY <1>1, <1>12, <1>13, <1>14, <1>15 DEF h

(***************************************************************************)
(* One that has returned posts its response.                               *)
(***************************************************************************)
LEMMA PostMoves ==
  ASSUME TypeOK, Lined, Resume, Head(resuming).at # "take"
  PROVE  LET m == Head(resuming).msg IN
         /\ UNCHANGED <<queue, handed, dead, outcome, inFlight>>
         /\ m \in ToThread /\ Emit(m)
         /\ \A c :
              /\ Taken(c)' <=> Taken(c)
              /\ Recorded(c)' <=> Recorded(c) /\ c \notin CallOf(m)
              /\ Going(c)' <=> Going(c) \/ (~dead /\ c \in CallOf(m))
         /\ \A c \in CallOf(m) : Recorded(c)
         /\ CarriedInOrder(View(resuming)', "take", IssueOrder)
         /\ CarriedInOrder(View(resuming)', "reply", IssueOrder)
         /\ CarriedInOrder(toThread', "delivery", IssueOrder)
         /\ \A c \in CallOf(m) : \A d : Recorded(d)' => <<c, d>> \in IssueOrder
<1>. DEFINE h == Head(resuming) s == Tail(resuming) m == h.msg
<1>1. /\ resuming \in Seq(Handler) /\ resuming # <<>>
      /\ resuming' = s /\ Emit(m)
      /\ UNCHANGED <<queue, handed, dead, outcome, inFlight>>
  BY Typed DEF Resume, callerVars, guestVars
<1>2. h \in Handler /\ s \in Seq(Handler) /\ h.at = "reply" /\ m \in ToThread
  BY <1>1, ViewTail, SeenType
<1>3. View(resuming)' = View(s)
  BY <1>1 DEF View
<1>4. /\ \A c : Recorded(c) <=> Recorded(c)' \/ (m.kind = "delivery" /\ m.call = c)
      /\ \A R : CarriedInOrder(View(resuming), "reply", R) =>
           /\ CarriedInOrder(View(resuming)', "reply", R)
           /\ m.kind = "delivery" => \A c : Recorded(c)' => <<m.call, c>> \in R
      /\ \A c : Taken(c)' <=> Taken(c)
      /\ \A R : CarriedInOrder(View(resuming), "take", R) => CarriedInOrder(View(resuming)', "take", R)
  BY <1>1, <1>2, <1>3, ViewShrinks DEF Taken, Recorded
<1>. HIDE DEF m
<1>5. \A c : c \in CallOf(m) <=> m.kind = "delivery" /\ m.call = c
  BY DEF CallOf
<1>6. \A c : <<c, c>> \notin IssueOrder
  BY OrderIsStrict DEF Lined
<1>7. \A c : Going(c) \/ Recorded(c) => c \in Calls
  BY OnlyCalls DEF OnWay
<1>8. /\ CarriedInOrder(View(resuming), "take", IssueOrder)
      /\ CarriedInOrder(View(resuming), "reply", IssueOrder)
      /\ CarriedInOrder(toThread, "delivery", IssueOrder)
      /\ \A c, d : Going(c) /\ Recorded(d) => <<c, d>> \in IssueOrder
  BY <1>7 DEF Lined, InLine, Before
<1>9. /\ \A c : Going(c)' <=> Going(c) \/ (~dead /\ m.kind = "delivery" /\ m.call = c)
      /\ \A R : /\ CarriedInOrder(toThread, "delivery", R)
                /\ m.kind = "delivery" => \A c : Going(c) => <<c, m.call>> \in R
                => CarriedInOrder(toThread', "delivery", R)
  BY <1>1, <1>2, EmitMoves
<1>10. CarriedInOrder(toThread', "delivery", IssueOrder)
  BY <1>4, <1>8, <1>9
<1>11. /\ CarriedInOrder(View(resuming)', "take", IssueOrder)
       /\ CarriedInOrder(View(resuming)', "reply", IssueOrder)
       /\ m.kind = "delivery" => \A c : Recorded(c)' => <<m.call, c>> \in IssueOrder
  BY <1>4, <1>8
<1>12. \A c :
         /\ Taken(c)' <=> Taken(c)
         /\ Recorded(c)' <=> Recorded(c) /\ c \notin CallOf(m)
         /\ Going(c)' <=> Going(c) \/ (~dead /\ c \in CallOf(m))
  BY <1>4, <1>5, <1>6, <1>9, <1>11
<1>13. \A c \in CallOf(m) : Recorded(c)
  BY <1>4, <1>5
<1>14. \A c \in CallOf(m) : \A d : Recorded(d)' => <<c, d>> \in IssueOrder
  BY <1>5, <1>11
<1>15. /\ UNCHANGED <<queue, handed, dead, outcome, inFlight>>
       /\ m \in ToThread /\ Emit(m)
       /\ CarriedInOrder(View(resuming)', "take", IssueOrder)
       /\ CarriedInOrder(View(resuming)', "reply", IssueOrder)
       /\ CarriedInOrder(toThread', "delivery", IssueOrder)
  BY <1>1, <1>2, <1>10, <1>11
<1>16. m = Head(resuming).msg
  BY DEF m
<1>. QED  BY ONLY <1>12, <1>13, <1>14, <1>15, <1>16

(***************************************************************************)
(* The thread's first message, when it is a delivery, takes its call off   *)
(* the port, and to the guest if the guest still waits.                    *)
(***************************************************************************)
LEMMA DeliveryMoves ==
  ASSUME TypeOK, Lined, ThreadReceive, OnDelivery(Head(toThread))
  PROVE  LET x == Head(toThread).call IN
         /\ x \in Calls /\ Going(x) /\ ~Had(x)
         /\ \A c : Going(c)' <=> Going(c) /\ c # x
         /\ \A c : Had(c)' <=> Had(c) \/ (c = x /\ accept[Head(toThread).acc] = "pending")
         /\ CarriedInOrder(toThread', "delivery", IssueOrder)
         /\ InOrder(handed', IssueOrder)
         /\ \A c : Going(c)' => <<x, c>> \in IssueOrder
<1>. DEFINE m == Head(toThread) x == m.call
<1>1. toThread \in Seq(ToThread) /\ toThread # <<>> /\ toThread' = Tail(toThread) /\ handed \in Seq(Calls)
  BY Typed DEF ThreadReceive
<1>2. m \in ToThread /\ m.kind = "delivery"
  BY <1>1, HeadTailProperties DEF OnDelivery
<1>. HIDE DEF m
<1>3. x \in Calls
  BY <1>2, ToThreadKinds
<1>4. /\ \A c : Going(c) <=> Going(c)' \/ c = x
      /\ \A R : CarriedInOrder(toThread, "delivery", R) =>
           CarriedInOrder(toThread', "delivery", R) /\ \A c : Going(c)' => <<x, c>> \in R
  BY <1>1, <1>2, TailCarries DEF Going, m
<1>. HIDE DEF x
<1>5. \A c : <<c, c>> \notin IssueOrder
  BY OrderIsStrict DEF Lined
<1>6. /\ CarriedInOrder(toThread', "delivery", IssueOrder)
      /\ \A c : Going(c)' => <<x, c>> \in IssueOrder
  BY <1>4 DEF Lined, InLine
<1>7. Going(x) /\ ~Had(x) /\ \A c : Going(c)' <=> Going(c) /\ c # x
  BY <1>4, <1>5, <1>6, Apart
<1>8. InOrder(handed, IssueOrder) /\ \A c : Had(c) => <<c, x>> \in IssueOrder
  BY <1>3, <1>7, OnlyCalls DEF Lined, InLine, Before, OnWay
<1>9. /\ \A c : Had(c)' <=> Had(c) \/ (c = x /\ accept[m.acc] = "pending")
      /\ InOrder(handed', IssueOrder)
  <2>1. CASE accept[m.acc] = "pending"
    <3>1. handed' = Append(handed, x)
      BY <2>1 DEF OnDelivery, m, x
    <3>. QED  BY <1>1, <1>3, <1>8, <2>1, <3>1, AppendContains DEF Had
  <2>2. CASE accept[m.acc] # "pending"
    <3>1. handed' = handed
      BY <2>2 DEF OnDelivery, m
    <3>. QED  BY <1>8, <2>2, <3>1 DEF Had
  <2>. QED  BY <2>1, <2>2
<1>10. x = Head(toThread).call /\ m = Head(toThread)
  BY DEF m, x
<1>. QED  BY ONLY <1>3, <1>6, <1>7, <1>9, <1>10

(***************************************************************************)
(* Any other message takes no call.                                        *)
(***************************************************************************)
LEMMA OtherMoves ==
  ASSUME TypeOK, ThreadReceive, OnRefusal(Head(toThread)) \/ OnCallAbort(Head(toThread))
  PROVE  /\ UNCHANGED handed
         /\ \A c : Going(c)' <=> Going(c)
         /\ \A R : CarriedInOrder(toThread, "delivery", R) => CarriedInOrder(toThread', "delivery", R)
<1>1. toThread \in Seq(ToThread) /\ toThread # <<>> /\ toThread' = Tail(toThread)
  BY Typed DEF ThreadReceive
<1>2. Head(toThread).kind # "delivery" /\ UNCHANGED handed
  BY DEF OnRefusal, OnCallAbort
<1>. QED  BY <1>1, <1>2, TailCarries DEF Going

-----------------------------------------------------------------------------
(* Each step and the line. *)

(***************************************************************************)
(* A call that gets its id comes after all those that have one.            *)
(***************************************************************************)
LEMMA IssueGrows ==
  ASSUME TypeOK, Known, NEW c \in Calls, ~Entered(c), issued' = Append(issued, c)
  PROVE  /\ IssueOrder \subseteq IssueOrder'
         /\ \A d : Entered(d)' <=> Entered(d) \/ d = c
         /\ \A d : Entered(d) => <<d, c>> \in IssueOrder'
         /\ InOrder(issued', Distinct(Calls))
<1>1. issued \in Seq(Calls) /\ Len(issued) \in Nat
  BY Typed, LenProperties
<1>2. /\ Len(issued') = Len(issued) + 1 /\ issued'[Len(issued) + 1] = c
      /\ \A i \in 1 .. Len(issued) : issued'[i] = issued[i]
  BY <1>1, AppendProperties
<1>3. IssueOrder \subseteq IssueOrder'
  BY <1>1, <1>2 DEF IssueOrder
<1>4. \A d : Entered(d)' <=> Entered(d) \/ d = c
  BY <1>1, AppendContains DEF Entered
<1>5. ASSUME NEW d, Entered(d) PROVE <<d, c>> \in IssueOrder'
  <2>1. PICK i \in 1 .. Len(issued) : issued[i] = d
    BY <1>5 DEF Entered, Contains
  <2>2. i \in 1 .. Len(issued') /\ Len(issued) + 1 \in 1 .. Len(issued') /\ i < Len(issued) + 1
    BY <1>1, <1>2
  <2>3. d \in Calls
    BY <1>5, OnlyCalls
  <2>. QED  BY <1>2, <2>1, <2>2, <2>3 DEF IssueOrder
<1>6. \A d : Entered(d) => <<d, c>> \in Distinct(Calls)
  BY OnlyCalls DEF Distinct
<1>7. InOrder(issued', Distinct(Calls))
  BY <1>1, <1>6, AppendContains DEF Known, Entered
<1>. QED  BY <1>3, <1>4, <1>5, <1>7

(***************************************************************************)
(* A call that is registered joins the line at its end.                    *)
(***************************************************************************)
LEMMA LinedRegister ==
  ASSUME TypeOK, Lined, NEW c \in Calls, Register(c)
  PROVE  /\ Lined'
         /\ \A d :
              /\ Had(d)' <=> Had(d)
              /\ Going(d)' <=> Going(d)
              /\ Recorded(d)' <=> Recorded(d)
              /\ (Taken(d)' \/ Queued(d)') <=> (Taken(d) \/ Queued(d) \/ d = c)
<1>1. /\ QueueStep(Push(queue, c)) /\ issued' = Append(issued, c)
      /\ UNCHANGED <<toThread, handed>>
      /\ outcome[c] = "normalizing" /\ outcome' = [outcome EXCEPT ![c] = "pending"]
  BY DEF Register, guestVars
<1>2. ~Entered(c) /\ Known
  BY <1>1 DEF Lined, Known
<1>3. /\ IssueOrder \subseteq IssueOrder'
      /\ \A d : Entered(d)' <=> Entered(d) \/ d = c
      /\ \A d : Entered(d) => <<d, c>> \in IssueOrder'
      /\ InOrder(issued', Distinct(Calls))
  BY <1>1, <1>2, IssueGrows
<1>4. \A d : OnWay(d) => <<d, c>> \in IssueOrder'
  BY <1>3, OnlyCalls DEF Lined, Known
<1>5. /\ InOrder(handed', IssueOrder') /\ CarriedInOrder(toThread', "delivery", IssueOrder')
      /\ CarriedInOrder(View(resuming), "reply", IssueOrder')
      /\ CarriedInOrder(View(resuming), "take", IssueOrder')
      /\ InOrder(queue.items, IssueOrder')
      /\ \A d, e \in Calls : Before(d, e) => <<d, e>> \in IssueOrder'
  BY <1>1, <1>3 DEF Lined, InLine, InOrder, CarriedInOrder
<1>6. \A d : (Had(d)' <=> Had(d)) /\ (Going(d)' <=> Going(d))
  BY <1>1 DEF Had, Going
<1>7. /\ Serving(queue')
      /\ \A d : Recorded(d)' <=> Recorded(d)
      /\ \/ /\ \A d : (Taken(d)' <=> Taken(d) \/ d = c) /\ ~Queued(d) /\ ~Queued(d)'
         \/ /\ \A d : (Queued(d)' <=> Queued(d) \/ d = c) /\ (Taken(d)' <=> Taken(d))
      /\ CarriedInOrder(View(resuming)', "reply", IssueOrder')
      /\ CarriedInOrder(View(resuming)', "take", IssueOrder')
      /\ InOrder(queue'.items, IssueOrder')
  <2>1. Serving(queue')
    BY <1>1, PushMoves DEF Lined
  <2>2. CASE queue.takers # <<>>
    <3>1. PICK a \in Accepts : resuming' = Append(resuming, Served(Delivery(a, c)))
      BY <1>1, <2>2, PushMoves DEF Lined
    <3>2. queue.items = <<>> /\ queue'.items = <<>>
      BY <1>1, <2>2, PushMoves DEF Lined
    <3>3. /\ \A d : Taken(d)' <=> Taken(d) \/ d = c
          /\ \A d : Recorded(d)' <=> Recorded(d)
          /\ CarriedInOrder(View(resuming)', "reply", IssueOrder')
      BY <1>5, <3>1, GivenCall
    <3>4. CarriedInOrder(View(resuming)', "take", IssueOrder')
      BY <1>4, <1>5, <3>1, GivenCall DEF OnWay
    <3>5. \A d : ~Queued(d) /\ ~Queued(d)'
      BY <3>2 DEF Queued, Contains
    <3>. QED  BY <1>5, <2>1, <3>2, <3>3, <3>4, <3>5
  <2>3. CASE queue.takers = <<>>
    <3>1. resuming' = resuming /\ queue'.items = Append(queue.items, c) /\ queue.items \in Seq(Calls)
      BY <1>1, <2>3, PushMoves, Typed DEF Lined
    <3>2. \A d : (Queued(d)' <=> Queued(d) \/ d = c)
      BY <3>1, AppendContains DEF Queued
    <3>3. InOrder(queue'.items, IssueOrder')
      BY <1>4, <1>5, <3>1, AppendContains DEF Queued, OnWay
    <3>4. View(resuming)' = View(resuming)
      BY <3>1 DEF View
    <3>. QED  BY <1>5, <2>1, <3>2, <3>3, <3>4 DEF Taken, Recorded
  <2>. QED  BY <2>2, <2>3
<1>8. \A d : (Taken(d)' \/ Queued(d)') <=> (Taken(d) \/ Queued(d) \/ d = c)
  BY <1>7
<1>9. \A d, e \in Calls : Before(d, e)' => <<d, e>> \in IssueOrder'
  <2>. SUFFICES ASSUME NEW d \in Calls, NEW e \in Calls, Before(d, e)' PROVE <<d, e>> \in IssueOrder'
    OBVIOUS
  <2>1. ~OnWay(c)
    BY <1>2 DEF Lined, Known
  <2>2. Before(d, e) \/ (e = c /\ OnWay(d))
    BY <1>6, <1>7, <2>1 DEF Before, OnWay
  <2>. QED  BY <1>4, <1>5, <2>2
<1>10. Known'
  <2>1. \A d \in Calls : OnWay(d)' => Entered(d)'
    BY <1>3, <1>6, <1>7, <1>8 DEF OnWay, Lined, Known
  <2>2. \A d \in Calls : Entered(d)' => outcome'[d] \notin {"idle", "normalizing"}
    BY <1>1, <1>3 DEF TypeOK, Lined, Known
  <2>. QED  BY <1>3, <2>1, <2>2 DEF Known
<1>11. InLine'
  BY <1>5, <1>7, <1>9 DEF InLine
<1>. QED  BY <1>6, <1>7, <1>8, <1>10, <1>11 DEF Lined


(***************************************************************************)
(* The oldest of the queue, given to a taker, is the last of those taken.  *)
(***************************************************************************)
LEMMA LinedTake ==
  ASSUME TypeOK, Lined, NEW a \in Accepts, QueueStep(Take(queue, a)),
         UNCHANGED <<issued, handed, toThread, outcome>>
  PROVE  /\ Lined'
         /\ \A d :
              /\ Had(d)' <=> Had(d)
              /\ Going(d)' <=> Going(d)
              /\ Recorded(d)' <=> Recorded(d)
              /\ (Taken(d)' \/ Queued(d)') <=> (Taken(d) \/ Queued(d))
<1>1. /\ IssueOrder' = IssueOrder
      /\ \A d : (Had(d)' <=> Had(d)) /\ (Going(d)' <=> Going(d)) /\ (Entered(d)' <=> Entered(d))
  BY DEF IssueOrder, Had, Going, Entered
<1>2. Serving(queue') /\ Serving(queue)'
  BY TakeMoves DEF Lined, Serving
<1>3. CASE queue.items = <<>>
  <2>1. resuming' = resuming /\ queue'.items = queue.items
    BY <1>3, TakeMoves DEF Lined
  <2>2. View(resuming)' = View(resuming)
    BY <2>1 DEF View
  <2>3. \A d : (Taken(d)' <=> Taken(d)) /\ (Recorded(d)' <=> Recorded(d)) /\ (Queued(d)' <=> Queued(d))
    BY <2>1, <2>2 DEF Taken, Recorded, Queued
  <2>4. Lined'
    BY <1>1, <1>2, <2>1, <2>2, <2>3, LinedLeft
  <2>. QED  BY <1>1, <2>3, <2>4
<1>4. CASE queue.items # <<>>
  <2>1. PICK x \in Calls : x = Head(queue.items)
    BY <1>4, TakeMoves DEF Lined
  <2>2. queue'.items = Tail(queue.items) /\ resuming' = Append(resuming, Served(Delivery(a, x)))
    BY <1>4, <2>1, TakeMoves DEF Lined
  <2>3. queue.items \in Seq(Calls)
    BY Typed
  <2>4. /\ \A d : Queued(d) <=> Queued(d)' \/ d = x
        /\ InOrder(queue'.items, IssueOrder)
        /\ \A d : Queued(d)' => <<x, d>> \in IssueOrder
    BY <1>4, <2>1, <2>2, <2>3, TailContains DEF Queued, Lined, InLine
  <2>5. \A d : Had(d) \/ Going(d) \/ Recorded(d) \/ Taken(d) => <<d, x>> \in IssueOrder
    BY <2>4, OnlyCalls DEF Lined, InLine, Before, OnWay
  <2>6. /\ \A d : Taken(d)' <=> Taken(d) \/ d = x
        /\ \A d : Recorded(d)' <=> Recorded(d)
        /\ CarriedInOrder(View(resuming)', "reply", IssueOrder)
        /\ CarriedInOrder(View(resuming)', "take", IssueOrder)
    BY <2>2, <2>5, GivenCall DEF Lined, InLine
  <2>7. \A d, e \in Calls : Before(d, e)' => <<d, e>> \in IssueOrder
    BY <1>1, <2>4, <2>5, <2>6 DEF Lined, InLine, Before
  <2>8. InLine'
    BY <1>1, <2>4, <2>6, <2>7 DEF Lined, InLine
  <2>9. \A d : (Taken(d)' \/ Queued(d)') <=> (Taken(d) \/ Queued(d))
    BY <2>4, <2>6
  <2>10. Known'
    BY <1>1, <2>6, <2>9 DEF Lined, Known, OnWay
  <2>. QED  BY <1>1, <1>2, <2>6, <2>8, <2>9, <2>10 DEF Lined
<1>. QED  BY <1>3, <1>4

(***************************************************************************)
(* A withdrawn acceptCall takes no call.                                   *)
(***************************************************************************)
LEMMA LinedWithdraw ==
  ASSUME TypeOK, Lined, NEW a \in Accepts,
         queue' = WithdrawTaker(queue, a), resuming' = resuming \o Refusals(<<a>>),
         Contains(queue.takers, a), UNCHANGED <<issued, handed, toThread, outcome>>
  PROVE  /\ Lined'
         /\ \A d :
              /\ Had(d)' <=> Had(d)
              /\ Going(d)' <=> Going(d)
              /\ Recorded(d)' <=> Recorded(d)
              /\ Taken(d)' <=> Taken(d)
              /\ Queued(d)' <=> Queued(d)
<1>1. queue.takers # <<>> /\ queue.items = <<>>
  BY DEF Lined, Serving, Contains
<1>2. queue'.items = queue.items
  BY Typed DEF WithdrawTaker, QueueOf
<1>3. /\ View(resuming)' = View(resuming \o Refusals(<<a>>))
      /\ <<a>> \in Seq(Accepts) /\ resuming \in Seq(Handler)
  BY Typed DEF View
<1>4. \A d : (Recorded(d)' <=> Recorded(d)) /\ (Taken(d)' <=> Taken(d))
  BY <1>3, ViewRefusals DEF Taken, Recorded
<1>5. \A R : \A k \in {"take", "reply"} :
        CarriedInOrder(View(resuming), k, R) => CarriedInOrder(View(resuming)', k, R)
  BY <1>3, ViewRefusals
<1>6. \A d : (Had(d)' <=> Had(d)) /\ (Going(d)' <=> Going(d)) /\ (Queued(d)' <=> Queued(d))
  BY <1>2 DEF Had, Going, Queued
<1>7. Serving(queue)'
  BY <1>1, <1>2 DEF Serving
<1>8. Lined'
  BY <1>2, <1>4, <1>5, <1>6, <1>7, LinedLeft
<1>. QED  BY <1>4, <1>6, <1>8

(***************************************************************************)
(* #fail empties the queue and leaves the rest of the line.                *)
(***************************************************************************)
LEMMA LinedFail ==
  ASSUME TypeOK, Lined, Fail, UNCHANGED <<issued, handed, toThread>>
  PROVE  Lined'
<1>1. CASE dead
  <2>1. UNCHANGED <<queue, resuming, outcome>>
    BY <1>1 DEF Fail, hostVars
  <2>2. \A c : /\ (Going(c)' <=> Going(c)) /\ (Recorded(c)' <=> Recorded(c))
               /\ (Taken(c)' <=> Taken(c)) /\ (Queued(c)' <=> Queued(c))
    BY <2>1, LineStill
  <2>3. Serving(queue)' /\ View(resuming)' = View(resuming)
    BY <2>1 DEF Lined, Serving, View
  <2>. QED  BY <2>1, <2>2, <2>3, LinedLeft
<1>2. CASE ~dead
  <2>1. /\ Serving(queue)' /\ queue'.items = <<>>
        /\ \A c : (Taken(c)' <=> Taken(c)) /\ (Recorded(c)' <=> Recorded(c)) /\ ~Queued(c)'
        /\ \A R : \A k \in {"take", "reply"} :
             CarriedInOrder(View(resuming), k, R) => CarriedInOrder(View(resuming)', k, R)
    BY <1>2, FailMoves
  <2>2. \A c \in Calls : outcome'[c] = IF Queued(c) \/ c \in inFlight THEN "rejected" ELSE outcome[c]
    BY <1>2, FailMoves
  <2>3. \A c : Going(c)' <=> Going(c)
    BY DEF Going
  <2>4. \A R : InOrder(queue'.items, R)
    BY <2>1 DEF InOrder
  <2>5. \A c \in Calls : outcome'[c] \in {"idle", "normalizing"} => outcome[c] \in {"idle", "normalizing"}
    BY <2>2
  <2>. QED  BY <2>1, <2>3, <2>4, <2>5, LinedLeft
<1>. QED  BY <1>1, <1>2

(***************************************************************************)
(* An abort takes its call out of the queue or leaves the line.            *)
(***************************************************************************)
LEMMA LinedAbort ==
  ASSUME TypeOK, Lined, NEW c \in Calls, HostAbort(c)
  PROVE  /\ Lined'
         /\ \A d :
              /\ Had(d)' <=> Had(d)
              /\ Going(d)' <=> Going(d)
              /\ Recorded(d)' <=> Recorded(d)
              /\ Taken(d)' <=> Taken(d)
              /\ Queued(d)' <=> Queued(d) /\ d # c
<1>1. c \in Signalled /\ AbortListener(c) /\ UNCHANGED <<issued, handed, resuming>> /\ outcome[c] = "pending"
  BY DEF HostAbort, guestVars
<1>2. /\ Serving(queue)'
      /\ \A d : Queued(d)' <=> Queued(d) /\ d # c
      /\ \A R : InOrder(queue.items, R) => InOrder(queue'.items, R)
      /\ \A d : Going(d)' <=> Going(d)
      /\ \A R : CarriedInOrder(toThread, "delivery", R) => CarriedInOrder(toThread', "delivery", R)
  BY <1>1, AbortMoves
<1>3. View(resuming)' = View(resuming)
  BY <1>1 DEF View
<1>4. \A d : (Had(d)' <=> Had(d)) /\ (Recorded(d)' <=> Recorded(d)) /\ (Taken(d)' <=> Taken(d))
  BY <1>1, <1>3 DEF Had, Recorded, Taken
<1>5. \A d \in Calls : outcome'[d] \in {"idle", "normalizing"} => outcome[d] \in {"idle", "normalizing"}
  BY <1>1 DEF AbortListener, TypeOK
<1>6. Lined'
  BY <1>1, <1>2, <1>3, <1>4, <1>5, LinedLeft
<1>. QED  BY <1>2, <1>4, <1>6

(***************************************************************************)
(* A handler that resumes hands its call on.                               *)
(***************************************************************************)
LEMMA LinedResume ==
  ASSUME TypeOK, Lined, Resume
  PROVE  Lined'
<1>0. /\ IssueOrder' = IssueOrder /\ UNCHANGED <<queue, handed, outcome, issued>>
      /\ \A c : (Entered(c)' <=> Entered(c)) /\ (Had(c)' <=> Had(c)) /\ (Queued(c)' <=> Queued(c))
  BY DEF Resume, callerVars, guestVars, IssueOrder, Entered, Had, Queued
<1>1. PICK C : C = CallOf(Head(resuming).msg)
  OBVIOUS
<1>2. CASE Head(resuming).at = "take"
  <2>1. /\ UNCHANGED toThread
        /\ \A c \in C : Taken(c)
        /\ \A c : (Taken(c)' <=> Taken(c) /\ c \notin C) /\ (Recorded(c)' <=> Recorded(c) \/ c \in C)
        /\ CarriedInOrder(View(resuming)', "take", IssueOrder)
        /\ CarriedInOrder(View(resuming)', "reply", IssueOrder)
        /\ \A c \in C : \A d : Taken(d)' => <<c, d>> \in IssueOrder
    BY <1>1, <1>2, RecordMoves
  <2>2. \A c : Going(c)' <=> Going(c)
    BY <2>1 DEF Going
  <2>3. ASSUME NEW c \in Calls, NEW d \in Calls, Before(c, d)' PROVE Before(c, d) \/ <<c, d>> \in IssueOrder
    BY <1>0, <2>1, <2>2, <2>3 DEF Before
  <2>4. InLine'
    BY <1>0, <2>1, <2>3 DEF Lined, InLine
  <2>5. Known'
    BY <1>0, <2>1, <2>2 DEF Lined, Known, OnWay
  <2>. QED  BY <1>0, <2>4, <2>5 DEF Lined, Serving
<1>3. CASE Head(resuming).at # "take"
  <2>1. /\ \A c :
             /\ Taken(c)' <=> Taken(c)
             /\ Recorded(c)' <=> Recorded(c) /\ c \notin C
             /\ Going(c)' <=> Going(c) \/ (~dead /\ c \in C)
        /\ \A c \in C : Recorded(c)
        /\ CarriedInOrder(View(resuming)', "take", IssueOrder)
        /\ CarriedInOrder(View(resuming)', "reply", IssueOrder)
        /\ CarriedInOrder(toThread', "delivery", IssueOrder)
        /\ \A c \in C : \A d : Recorded(d)' => <<c, d>> \in IssueOrder
    BY <1>1, <1>3, PostMoves
  <2>2. ASSUME NEW c \in Calls, NEW d \in Calls, Before(c, d)' PROVE Before(c, d) \/ <<c, d>> \in IssueOrder
    BY <1>0, <2>1, <2>2 DEF Before
  <2>3. InLine'
    BY <1>0, <2>1, <2>2 DEF Lined, InLine
  <2>4. Known'
    BY <1>0, <2>1 DEF Lined, Known, OnWay
  <2>. QED  BY <1>0, <2>3, <2>4 DEF Lined, Serving
<1>. QED  BY <1>2, <1>3

(***************************************************************************)
(* What the thread gets it gets from the front of the line.                *)
(***************************************************************************)
LEMMA LinedReceive ==
  ASSUME TypeOK, Lined, ThreadReceive
  PROVE  Lined'
<1>0. /\ IssueOrder' = IssueOrder /\ UNCHANGED <<queue, resuming, outcome, issued>>
      /\ \A c : (Entered(c)' <=> Entered(c)) /\ (Queued(c)' <=> Queued(c))
                /\ (Taken(c)' <=> Taken(c)) /\ (Recorded(c)' <=> Recorded(c))
  BY DEF ThreadReceive, guestIdle, callerVars, hostVars, IssueOrder, Entered, Queued, Taken, Recorded, View
<1>1. View(resuming)' = View(resuming) /\ Serving(queue)'
  BY <1>0 DEF View, Lined, Serving
<1>2. CASE OnDelivery(Head(toThread))
  <2>1. PICK x \in Calls :
          /\ Going(x) /\ \A c : Going(c)' <=> Going(c) /\ c # x
          /\ \A c : Had(c)' => Had(c) \/ c = x
          /\ CarriedInOrder(toThread', "delivery", IssueOrder)
          /\ InOrder(handed', IssueOrder)
          /\ \A c : Going(c)' => <<x, c>> \in IssueOrder
    BY <1>2, DeliveryMoves
  <2>2. ASSUME NEW c \in Calls, NEW d \in Calls, Before(c, d)' PROVE Before(c, d) \/ <<c, d>> \in IssueOrder
    BY <1>0, <2>1, <2>2 DEF Before
  <2>3. InLine'
    BY <1>0, <1>1, <2>1, <2>2 DEF Lined, InLine
  <2>4. Known'
    BY <1>0, <2>1 DEF Lined, Known, OnWay
  <2>. QED  BY <1>1, <2>3, <2>4 DEF Lined
<1>3. CASE OnRefusal(Head(toThread)) \/ OnCallAbort(Head(toThread))
  <2>1. /\ UNCHANGED handed
        /\ \A c : Going(c)' <=> Going(c)
        /\ \A R : CarriedInOrder(toThread, "delivery", R) => CarriedInOrder(toThread', "delivery", R)
    BY <1>3, OtherMoves
  <2>. QED  BY <1>0, <1>1, <2>1, LinedLeft
<1>. QED  BY <1>2, <1>3 DEF ThreadReceive

(***************************************************************************)
(* A step that touches nothing on the line.                                *)
(***************************************************************************)
LEMMA LinedStill ==
  ASSUME Lined, UNCHANGED <<queue, resuming, toThread, handed, issued>>,
         \A c \in Calls : outcome'[c] \in {"idle", "normalizing"} => outcome[c] \in {"idle", "normalizing"}
  PROVE  Lined'
<1>1. \A c : /\ (Going(c)' <=> Going(c)) /\ (Recorded(c)' <=> Recorded(c))
             /\ (Taken(c)' <=> Taken(c)) /\ (Queued(c)' <=> Queued(c))
  BY LineStill
<1>2. Serving(queue)' /\ View(resuming)' = View(resuming)
  BY DEF Lined, Serving, View
<1>. QED  BY <1>1, <1>2, LinedLeft

(***************************************************************************)
(* An acceptCall that the host gets has a name.                            *)
(***************************************************************************)
LEMMA HostMessage ==
  ASSUME TypeOK, HostReceive
  PROVE  /\ toHost \in Seq(ToHost) /\ toHost # <<>> /\ toHost' = Tail(toHost)
         /\ Head(toHost) \in ToHost
         /\ Head(toHost).kind \in {"call.accept", "abort"} => Head(toHost).acc \in Accepts
         /\ Head(toHost).kind = "answer" => Head(toHost).call \in Calls
         /\ UNCHANGED <<aborted, issued, late, thread, toThread, guestVars>>
<1>1. toHost \in Seq(ToHost) /\ toHost # <<>>
  BY Typed DEF HostReceive
<1>2. Head(toHost) \in ToHost
  BY <1>1, HeadTailProperties
<1>. QED  BY <1>1, <1>2 DEF HostReceive, ToHost, Accept, Withdraw, Answer, Signal

(***************************************************************************)
(* A message of the guest leaves the line in order.                        *)
(***************************************************************************)
LEMMA LinedHostReceive ==
  ASSUME TypeOK, Lined, HostReceive
  PROVE  Lined'
<1>. DEFINE m == Head(toHost)
<1>1. UNCHANGED <<issued, handed, toThread>>
  BY HostMessage DEF guestVars
<1>2. CASE OnAccept(m)
  <2>1. PICK a \in Accepts : QueueStep(Take(queue, a)) /\ UNCHANGED outcome
    BY <1>2, HostMessage DEF OnAccept
  <2>. QED  BY <1>1, <2>1, LinedTake
<1>3. CASE OnWithdraw(m)
  <2>1. PICK a \in Accepts : a = m.acc
    BY <1>3, HostMessage DEF OnWithdraw
  <2>2. UNCHANGED outcome /\ \/ /\ Contains(queue.takers, a) /\ queue' = WithdrawTaker(queue, a)
                                /\ resuming' = resuming \o Refusals(<<a>>)
                             \/ UNCHANGED <<queue, resuming>>
    BY <1>3, <2>1 DEF OnWithdraw
  <2>. QED  BY <1>1, <2>2, LinedWithdraw, LinedStill
<1>4. CASE OnAnswer(m)
  BY <1>1, <1>4, LinedStill DEF OnAnswer, TypeOK
<1>5. CASE OnReady(m)
  BY <1>1, <1>5, LinedStill DEF OnReady
<1>6. CASE OnFailed(m)
  BY <1>1, <1>6, LinedFail DEF OnFailed
<1>. QED  BY <1>2, <1>3, <1>4, <1>5, <1>6 DEF HostReceive

(***************************************************************************)
(* So every step keeps the line.                                           *)
(***************************************************************************)
LEMMA LinedStep ==
  ASSUME TypeOK, Lined, [Next]_vars
  PROVE  Lined'
<1>1. ASSUME NEW c \in Calls, HostStep(c)
      PROVE  Lined'
  <2>1. CASE Fetch(c) \/ NormalizeFails(c) \/ RegisterAborted(c) \/ AbortEarly(c)
    <3>1. UNCHANGED <<queue, resuming, toThread, handed, issued>>
      BY <2>1 DEF Fetch, NormalizeFails, RegisterAborted, AbortEarly, hostVars, guestVars
    <3>2. \A d \in Calls : outcome'[d] \in {"idle", "normalizing"} => outcome[d] \in {"idle", "normalizing"}
      BY <2>1 DEF Fetch, NormalizeFails, RegisterAborted, AbortEarly, TypeOK
    <3>. QED  BY <3>1, <3>2, LinedStill
  <2>2. CASE Register(c)
    BY <2>2, LinedRegister
  <2>3. CASE HostAbort(c)
    BY <2>3, LinedAbort
  <2>. QED  BY <1>1, <2>1, <2>2, <2>3 DEF HostStep
<1>2. CASE BootThread \/ ThreadExits
  BY <1>2, LinedStill DEF BootThread, ThreadExits, callerVars, hostVars, guestVars
<1>3. CASE BootFails \/ OnExit \/ Close
  BY <1>3, LinedFail DEF BootFails, OnExit, Close, guestVars
<1>4. CASE GuestStep
  BY <1>4, LinedStill
     DEF GuestStep, AcceptCall, AbortAccept, Respond, PostAnswer, SendSignal, guestIdle, callerVars, hostVars
<1>5. CASE UNCHANGED vars
  BY <1>5, LinedStill DEF vars, callerVars, hostVars, guestVars
<1>. QED  BY <1>1, <1>2, <1>3, <1>4, <1>5, LinedResume, LinedHostReceive, LinedReceive DEF Next

-----------------------------------------------------------------------------
(* Each step and the promises. *)

(***************************************************************************)
(* A step that leaves the queue, the handlers and #inFlight, and no        *)
(* promise of which becomes pending or is settled that was.                *)
(***************************************************************************)
LEMMA OwedStill ==
  ASSUME Owed, UNCHANGED <<queue, resuming, inFlight>>,
         \A c \in Calls : outcome'[c] = "pending" <=> outcome[c] = "pending"
  PROVE  Owed'
BY DEF Owed, Queued, Taken, View

(***************************************************************************)
(* A step that makes no promise pending leaves none unsettled by the       *)
(* failure.                                                                *)
(***************************************************************************)
LEMMA SettledStill ==
  ASSUME FailureSettles, UNCHANGED <<dead, late>>, slipped \subseteq slipped',
         \A c \in Calls : outcome'[c] = "pending" => outcome[c] = "pending"
  PROVE  FailureSettles'
BY DEF FailureSettles, Pending

(***************************************************************************)
(* fetch(): the promise is pending from when the call joins the line; and  *)
(* its abort, which settles the promises of calls that it finds.           *)
(***************************************************************************)
LEMMA OwedHostStep ==
  ASSUME TypeOK, Lined, Owed, FailureSettles, NEW c \in Calls, HostStep(c)
  PROVE  Owed' /\ FailureSettles'
<1>1. CASE Fetch(c) \/ NormalizeFails(c) \/ RegisterAborted(c) \/ AbortEarly(c)
  <2>1. UNCHANGED <<queue, resuming, inFlight, dead, late, slipped>>
    BY <1>1 DEF Fetch, NormalizeFails, RegisterAborted, AbortEarly, hostVars
  <2>2. \A d \in Calls : outcome'[d] = "pending" <=> outcome[d] = "pending"
    BY <1>1 DEF Fetch, NormalizeFails, RegisterAborted, AbortEarly, TypeOK
  <2>. QED  BY <2>1, <2>2, OwedStill, SettledStill
<1>2. CASE Register(c)
  <2>1. \A d : (Taken(d)' \/ Queued(d)') <=> (Taken(d) \/ Queued(d) \/ d = c)
    BY <1>2, LinedRegister
  <2>2. /\ outcome[c] = "normalizing" /\ outcome' = [outcome EXCEPT ![c] = "pending"]
        /\ UNCHANGED <<inFlight, dead, slipped>> /\ late' = IF dead THEN late \cup {c} ELSE late
    BY <1>2 DEF Register
  <2>3. \A d \in Calls : outcome'[d] = IF d = c THEN "pending" ELSE outcome[d]
    BY <2>2 DEF TypeOK
  <2>4. Owed'
    BY <2>1, <2>2, <2>3 DEF Owed
  <2>5. FailureSettles'
    BY <2>2, <2>3 DEF FailureSettles, Pending
  <2>. QED  BY <2>4, <2>5
<1>3. CASE HostAbort(c)
  <2>1. \A d : (Taken(d)' <=> Taken(d)) /\ (Queued(d)' <=> Queued(d) /\ d # c)
    BY <1>3, LinedAbort
  <2>2. /\ outcome' = IF Queued(c) \/ c \in inFlight THEN [outcome EXCEPT ![c] = "rejected"] ELSE outcome
        /\ inFlight' = inFlight \ {c} /\ UNCHANGED <<dead, late, slipped>>
    BY <1>3 DEF HostAbort, AbortListener, IsQueued, Queued
  <2>3. \A d \in Calls :
          outcome'[d] = IF d = c /\ (Queued(c) \/ c \in inFlight) THEN "rejected" ELSE outcome[d]
    BY <2>2 DEF TypeOK
  <2>4. Owed'
    BY <2>1, <2>2, <2>3, Apart DEF Owed
  <2>5. FailureSettles'
    BY <2>2, <2>3, SettledStill
  <2>. QED  BY <2>4, <2>5
<1>. QED  BY <1>1, <1>2, <1>3 DEF HostStep

(***************************************************************************)
(* A handler that resumes puts its call in flight as it lets it go.        *)
(***************************************************************************)
LEMMA OwedResume ==
  ASSUME TypeOK, Lined, Owed, FailureSettles, Resume
  PROVE  Owed' /\ FailureSettles'
<1>1. UNCHANGED <<queue, outcome, dead, late, slipped>> /\ \A d : Queued(d)' <=> Queued(d)
  BY DEF Resume, callerVars, Queued
<1>2. FailureSettles'
  BY <1>1, SettledStill
<1>3. PICK C : C = CallOf(Head(resuming).msg)
  OBVIOUS
<1>4. CASE Head(resuming).at = "take"
  <2>1. /\ inFlight' = inFlight \cup C /\ \A d \in C : Taken(d)
        /\ \A d : Taken(d)' <=> Taken(d) /\ d \notin C
    BY <1>3, <1>4, RecordMoves
  <2>. QED  BY <1>1, <1>2, <2>1, Apart DEF Owed
<1>5. CASE Head(resuming).at # "take"
  <2>1. UNCHANGED inFlight /\ \A d : Taken(d)' <=> Taken(d)
    BY <1>5, PostMoves
  <2>. QED  BY <1>1, <1>2, <2>1 DEF Owed
<1>. QED  BY <1>4, <1>5

(***************************************************************************)
(* #fail settles what is queued or in flight; what is in between slips.    *)
(***************************************************************************)
LEMMA OwedFail ==
  ASSUME TypeOK, Lined, Owed, FailureSettles, Fail, UNCHANGED late
  PROVE  Owed' /\ FailureSettles'
<1>1. CASE dead
  BY <1>1, OwedStill, SettledStill DEF Fail, hostVars
<1>2. CASE ~dead
  <2>1. /\ \A d : (Taken(d)' <=> Taken(d)) /\ ~Queued(d)'
        /\ inFlight' = {}
        /\ \A d \in Calls : outcome'[d] = IF Queued(d) \/ d \in inFlight THEN "rejected" ELSE outcome[d]
    BY <1>2, FailMoves
  <2>2. Owed'
    BY <2>1, Apart DEF Owed
  <2>3. slipped' = slipped \cup Between
    BY <1>2 DEF Fail
  <2>4. \A d \in Calls : outcome'[d] = "pending" => d \in slipped'
    BY <2>1, <2>3, BetweenIsTaken DEF Owed
  <2>. QED  BY <2>2, <2>4 DEF FailureSettles, Pending
<1>. QED  BY <1>1, <1>2

(***************************************************************************)
(* The guest's answer settles the promise of a call in flight.             *)
(***************************************************************************)
LEMMA OwedHostReceive ==
  ASSUME TypeOK, Lined, Owed, FailureSettles, HostReceive
  PROVE  Owed' /\ FailureSettles'
<1>. DEFINE m == Head(toHost)
<1>1. UNCHANGED <<issued, handed, toThread, late>>
  BY HostMessage DEF guestVars
<1>2. CASE OnAccept(m)
  <2>1. PICK a \in Accepts : QueueStep(Take(queue, a)) /\ UNCHANGED <<outcome, inFlight, dead, slipped>>
    BY <1>2, HostMessage DEF OnAccept
  <2>2. \A d : (Taken(d)' \/ Queued(d)') <=> (Taken(d) \/ Queued(d))
    BY <1>1, <2>1, LinedTake
  <2>3. Owed'
    BY <2>1, <2>2 DEF Owed
  <2>. QED  BY <1>1, <2>1, <2>3, SettledStill
<1>3. CASE OnWithdraw(m)
  <2>1. PICK a \in Accepts : a = m.acc
    BY <1>3, HostMessage DEF OnWithdraw
  <2>2. UNCHANGED <<outcome, inFlight, dead, slipped>>
        /\ \/ /\ Contains(queue.takers, a) /\ queue' = WithdrawTaker(queue, a)
              /\ resuming' = resuming \o Refusals(<<a>>)
           \/ UNCHANGED <<queue, resuming>>
    BY <1>3, <2>1 DEF OnWithdraw
  <2>3. \A d : (Taken(d)' <=> Taken(d)) /\ (Queued(d)' <=> Queued(d))
    BY <1>1, <2>2, LinedWithdraw, LineStill
  <2>4. Owed'
    BY <2>2, <2>3 DEF Owed
  <2>. QED  BY <1>1, <2>2, <2>4, SettledStill
<1>4. CASE OnAnswer(m)
  <2>1. PICK c \in Calls : c = m.call
    BY <1>4, HostMessage DEF OnAnswer
  <2>2. /\ UNCHANGED <<queue, resuming, dead, slipped>> /\ inFlight' = inFlight \ {c}
        /\ \A d \in Calls : outcome'[d] = IF d = c /\ c \in inFlight
                                         THEN IF m.ok THEN "resolved" ELSE "rejected" ELSE outcome[d]
    BY <1>4, <2>1 DEF OnAnswer, TypeOK
  <2>3. \A d : (Taken(d)' <=> Taken(d)) /\ (Queued(d)' <=> Queued(d))
    BY <2>2 DEF Taken, Queued, View
  <2>4. Owed'
    BY <2>2, <2>3 DEF Owed
  <2>. QED  BY <1>1, <2>2, <2>4, SettledStill
<1>5. CASE OnReady(m)
  BY <1>1, <1>5, OwedStill, SettledStill DEF OnReady
<1>6. CASE OnFailed(m)
  BY <1>1, <1>6, OwedFail DEF OnFailed
<1>. QED  BY <1>2, <1>3, <1>4, <1>5, <1>6 DEF HostReceive

(***************************************************************************)
(* The thread and the guest settle nothing.                                *)
(***************************************************************************)
LEMMA OwedStep ==
  ASSUME TypeOK, Lined, Owed, FailureSettles, [Next]_vars
  PROVE  Owed' /\ FailureSettles'
<1>1. CASE BootThread \/ ThreadExits \/ UNCHANGED vars
  BY <1>1, OwedStill, SettledStill DEF BootThread, ThreadExits, vars, callerVars, hostVars
<1>2. CASE BootFails \/ OnExit \/ Close
  BY <1>2, OwedFail DEF BootFails, OnExit, Close
<1>3. CASE GuestStep
  <2>1. UNCHANGED <<queue, resuming, inFlight, outcome, dead, late, slipped>>
    BY <1>3 DEF GuestStep, AcceptCall, AbortAccept, Respond, PostAnswer, SendSignal,
                guestIdle, callerVars, hostVars
  <2>. QED  BY <2>1, OwedStill, SettledStill
<1>4. CASE ThreadReceive
  <2>1. UNCHANGED <<queue, resuming, inFlight, outcome, dead, late>>
    BY <1>4 DEF ThreadReceive, guestIdle, callerVars, hostVars
  <2>2. slipped \subseteq slipped'
    BY <1>4 DEF ThreadReceive, OnDelivery, OnRefusal, OnCallAbort
  <2>. QED  BY <2>1, <2>2, OwedStill, SettledStill
<1>. QED  BY <1>1, <1>2, <1>3, <1>4, OwedHostStep, OwedResume, OwedHostReceive DEF Next

-----------------------------------------------------------------------------
(* Each step and the answers. *)

(***************************************************************************)
(* A step that leaves the guest's calls and posts it no new answer.        *)
(***************************************************************************)
LEMMA AnsweredStill ==
  ASSUME Answered, UNCHANGED <<handed, reading, answers, controllers, told>>,
         \A c \in Calls : Answering(c)' => Answering(c)
  PROVE  Answered'
BY DEF Answered, Had

(***************************************************************************)
(* respond() marks the call answered before its answer is read or posted.  *)
(***************************************************************************)
LEMMA AnsweredGuestStep ==
  ASSUME TypeOK, Answered, GuestStep
  PROVE  Answered'
<1>1. toHost \in Seq(ToHost) /\ reading \in Seq(Calls)
  BY Typed
<1>2. ASSUME NEW m \in ToHost, toHost' = Append(toHost, m)
      PROVE  \A c : Answering(c)' <=> Answering(c) \/ (m.kind = "answer" /\ m.call = c)
  BY <1>1, <1>2, AppendCarries DEF Answering
<1>3. ASSUME NEW m \in ToHost, m.kind # "answer", toHost' = Append(toHost, m),
             UNCHANGED <<handed, reading, answers, controllers, told>>
      PROVE  Answered'
  BY <1>2, <1>3, AnsweredStill
<1>4. ASSUME NEW a \in Accepts, AcceptCall(a) \/ AbortAccept(a)
      PROVE  Answered'
  <2>1. PICK m \in {Accept(a), Withdraw(a)} :
          toHost' = Append(toHost, m) /\ UNCHANGED <<handed, reading, answers, controllers, told>>
    BY <1>4 DEF AcceptCall, AbortAccept
  <2>2. m \in ToHost /\ m.kind # "answer"
    BY <2>1 DEF ToHost, Accept, Withdraw
  <2>. QED  BY <1>3, <2>1, <2>2
<1>5. ASSUME NEW c \in Calls, Respond(c)
      PROVE  Answered'
  <2>1. /\ Had(c) /\ answers' = [answers EXCEPT ![c] = @ + 1] /\ controllers' = controllers \ {c}
        /\ reading' = Append(reading, c) /\ UNCHANGED <<handed, told, toHost>>
    BY <1>5 DEF Respond, Had
  <2>2. \A d \in Calls : answers'[d] # 0 <=> answers[d] # 0 \/ d = c
    <3>1. answers \in [Calls -> 0 .. 2]
      BY DEF TypeOK
    <3>2. answers[c] + 1 # 0 /\ \A d \in Calls : answers'[d] = IF d = c THEN answers[c] + 1 ELSE answers[d]
      BY <2>1, <3>1
    <3>. QED  BY <3>2
  <2>3. \A d : Contains(reading', d) <=> Contains(reading, d) \/ d = c
    BY <1>1, <2>1, AppendContains
  <2>4. \A d : (Had(d)' <=> Had(d)) /\ (Answering(d)' <=> Answering(d))
    BY <2>1 DEF Had, Answering
  <2>. QED  BY <2>1, <2>2, <2>3, <2>4 DEF Answered
<1>6. ASSUME NEW i \in DOMAIN reading, NEW ok \in BOOLEAN, PostAnswer(i, ok)
      PROVE  Answered'
  <2>1. PICK c \in Calls : c = reading[i]
    BY <1>1, RemoveAtContains
  <2>2. /\ Contains(reading, c) /\ \A d : Contains(reading', d) => Contains(reading, d)
        /\ UNCHANGED <<handed, answers, controllers, told>>
    BY <1>1, <1>6, <2>1, RemoveAtContains DEF PostAnswer
  <2>3. Answer(c, ok) \in ToHost /\ Answer(c, ok).kind = "answer" /\ Answer(c, ok).call = c
    BY DEF ToHost, Answer
  <2>4. \A d : Answering(d)' <=> Answering(d) \/ d = c
    BY <1>2, <1>6, <2>1, <2>3 DEF PostAnswer
  <2>. QED  BY <2>2, <2>4 DEF Answered, Had
<1>7. ASSUME NEW s \in Signals, SendSignal(s)
      PROVE  Answered'
  <2>1. Signal(s) \in ToHost /\ Signal(s).kind # "answer"
    BY SignalsAssumption DEF ToHost, Signal
  <2>. QED  BY <1>3, <1>7, <2>1 DEF SendSignal
<1>. QED  BY <1>4, <1>5, <1>6, <1>7 DEF GuestStep

(***************************************************************************)
(* A call that is handed over has a controller, which its abort fires.     *)
(***************************************************************************)
LEMMA AnsweredReceive ==
  ASSUME TypeOK, Lined, Answered, ThreadReceive
  PROVE  Answered'
<1>1. UNCHANGED <<reading, answers, toHost>>
  BY DEF ThreadReceive
<1>2. CASE OnDelivery(Head(toThread))
  <2>1. \A c : Had(c)' <=> Had(c) \/ (c = Head(toThread).call /\ accept[Head(toThread).acc] = "pending")
    BY <1>2, DeliveryMoves
  <2>2. /\ controllers \subseteq controllers' /\ UNCHANGED told
        /\ accept[Head(toThread).acc] = "pending" => Head(toThread).call \in controllers'
    BY <1>2 DEF OnDelivery
  <2>. QED  BY <1>1, <2>1, <2>2 DEF Answered, Answering
<1>3. CASE OnRefusal(Head(toThread)) \/ OnCallAbort(Head(toThread))
  <2>1. UNCHANGED handed /\ controllers \cup told = controllers' \cup told'
    BY <1>3 DEF OnRefusal, OnCallAbort
  <2>. QED  BY <1>1, <2>1 DEF Answered, Answering, Had
<1>. QED  BY <1>2, <1>3 DEF ThreadReceive

(***************************************************************************)
(* Every step keeps what the guest has answered.                           *)
(***************************************************************************)
LEMMA AnsweredStep ==
  ASSUME TypeOK, Lined, Answered, [Next]_vars
  PROVE  Answered'
<1>1. CASE HostReceive
  <2>1. /\ toHost \in Seq(ToHost) /\ toHost # <<>> /\ toHost' = Tail(toHost)
        /\ UNCHANGED <<handed, reading, answers, controllers, told>>
    BY <1>1, HostMessage DEF guestVars
  <2>2. \A c : Answering(c)' => Answering(c)
    BY <2>1, TailCarries DEF Answering
  <2>. QED  BY <2>1, <2>2, AnsweredStill
<1>2. CASE Resume \/ (\E c \in Calls : HostStep(c)) \/ UNCHANGED vars
           \/ BootThread \/ BootFails \/ ThreadExits \/ OnExit \/ Close
  <2>1. UNCHANGED <<handed, reading, answers, controllers, told, toHost>>
    BY <1>2 DEF Resume, HostStep, Fetch, NormalizeFails, Register, RegisterAborted, AbortEarly, HostAbort,
                BootThread, BootFails, ThreadExits, OnExit, Close, guestVars, vars
  <2>. QED  BY <2>1, AnsweredStill DEF Answering
<1>. QED  BY <1>1, <1>2, AnsweredGuestStep, AnsweredReceive DEF Next

-----------------------------------------------------------------------------
(* Each step and the acceptCalls. *)

(***************************************************************************)
(* The elements of a sequence that loses its first, and of one that goes   *)
(* on with another.                                                        *)
(***************************************************************************)
LEMMA TailSet ==
  ASSUME NEW S, NEW s \in Seq(S), s # <<>>
  PROVE  ToSet(s) = ToSet(Tail(s)) \cup {Head(s)}
<1>1. Tail(s) \in Seq(S)
  BY HeadTailProperties
<1>2. /\ \A c : c \in ToSet(s) <=> Contains(s, c)
      /\ \A c : c \in ToSet(Tail(s)) <=> Contains(Tail(s), c)
  BY <1>1, SetContains
<1>3. \A c : Contains(s, c) <=> Contains(Tail(s), c) \/ c = Head(s)
  BY TailContains
<1>. QED  BY <1>2, <1>3

(***************************************************************************)
(* Going on with another sequence loses none of the first.                 *)
(***************************************************************************)
LEMMA ConcatSet ==
  ASSUME NEW S, NEW s \in Seq(S), NEW t \in Seq(S)
  PROVE  ToSet(s) \subseteq ToSet(s \o t)
<1>1. /\ Len(s) \in Nat /\ Len(t) \in Nat /\ Len(s \o t) = Len(s) + Len(t)
      /\ \A i \in 1 .. Len(s) + Len(t) : (s \o t)[i] = IF i <= Len(s) THEN s[i] ELSE t[i - Len(s)]
      /\ DOMAIN s = 1 .. Len(s) /\ DOMAIN (s \o t) = 1 .. Len(s \o t)
  BY LenProperties, ConcatProperties
<1>2. \A i \in 1 .. Len(s) : i \in 1 .. Len(s \o t) /\ (s \o t)[i] = s[i]
  BY <1>1
<1>. QED  BY <1>1, <1>2 DEF ToSet

(***************************************************************************)
(* A taker that is withdrawn leaves the others.                            *)
(***************************************************************************)
LEMMA RemoveKeeps ==
  ASSUME NEW S, NEW s \in Seq(S), NEW x, Contains(s, x)
  PROVE  \A c : Contains(s, c) /\ c # x => Contains(RemoveFirst(s, x), c)
<1>1. Len(s) \in Nat /\ DOMAIN s = 1 .. Len(s)
  BY LenProperties
<1>2. PICK k \in 1 .. Len(s) : s[k] = x /\ RemoveFirst(s, x) = SubSeq(s, 1, k - 1) \o SubSeq(s, k + 1, Len(s))
  BY <1>1, RemoveFirstAt
<1>3. RemoveFirst(s, x) = RemoveAt(s, k)
  BY <1>2 DEF RemoveAt
<1>4. k \in DOMAIN s
  BY <1>1
<1>5. \A c : Contains(s, c) /\ c # s[k] => Contains(RemoveAt(s, k), c)
  BY <1>4, RemoveAtContains
<1>. QED  BY <1>2, <1>3, <1>5

\* where the request of an acceptCall is, or its answer
InHand(a) == \E h \in ToSet(resuming) : h.msg.acc = a
Replied(a) == \E m \in ToSet(toThread) : m.kind \in {"delivery", "refusal"} /\ m.acc = a
Asked(a) == Contains(toHost, Accept(a)) \/ Contains(queue.takers, a) \/ InHand(a) \/ Replied(a)

(***************************************************************************)
(* AcceptNotLost in terms of the places.                                   *)
(***************************************************************************)
LEMMA NotLostIs == AcceptNotLost <=> \A a \in Accepts : accept[a] = "pending" /\ ~dead => Asked(a)
BY DEF AcceptNotLost, Asked, InHand, Replied

(***************************************************************************)
(* A step that loses no request of an acceptCall the guest still waits     *)
(* with.                                                                   *)
(***************************************************************************)
LEMMA StillAsked ==
  ASSUME AcceptNotLost, \A a \in Accepts : accept'[a] = "pending" => accept[a] = "pending",
         dead => dead', \A a \in Accepts : accept'[a] = "pending" /\ Asked(a) => Asked(a)'
  PROVE  AcceptNotLost'
<1>1. \A a \in Accepts : accept[a] = "pending" /\ ~dead => Asked(a)
  BY NotLostIs
<1>2. \A a \in Accepts : accept'[a] = "pending" /\ ~dead' => Asked(a)'
  BY <1>1
<1>. QED  BY <1>2 DEF AcceptNotLost, Asked, InHand, Replied

(***************************************************************************)
(* The handlers of a queue operation are among those that resume.          *)
(***************************************************************************)
LEMMA GrowsInHand ==
  ASSUME TypeOK, NEW a \in Accepts, NEW h \in Handler, h.msg.acc = a, resuming' = Append(resuming, h)
  PROVE  InHand(a)' /\ \A b : InHand(b) => InHand(b)'
<1>1. ToSet(resuming') = ToSet(resuming) \cup {h}
  BY Typed, AppendSet
<1>. QED  BY <1>1 DEF InHand

(***************************************************************************)
(* The handlers that resume name the acceptCall they answer.               *)
(***************************************************************************)
LEMMA GivenHandler ==
  ASSUME NEW a \in Accepts
  PROVE  /\ \A c \in Calls : Served(Delivery(a, c)) \in Handler /\ Served(Delivery(a, c)).msg.acc = a
         /\ Served(Refusal(a)) \in Handler /\ Served(Refusal(a)).msg.acc = a
         /\ Refusals(<<a>>) = <<Served(Refusal(a))>>
BY DEF Served, Delivery, Refusal, Reply, Handler, Refusals

(***************************************************************************)
(* push and take: a taker waits or is in hand.                             *)
(***************************************************************************)
LEMMA PushAsked ==
  ASSUME TypeOK, Lined, NEW c \in Calls, QueueStep(Push(queue, c)), UNCHANGED <<toHost, toThread>>
  PROVE  \A a \in Accepts : Asked(a) => Asked(a)'
<1>1. CASE queue.takers # <<>>
  <2>1. PICK b \in Accepts : /\ b = Head(queue.takers) /\ queue'.takers = Tail(queue.takers)
                             /\ resuming' = Append(resuming, Served(Delivery(b, c)))
    BY <1>1, PushMoves DEF Lined
  <2>2. \A a : Contains(queue.takers, a) => Contains(queue'.takers, a) \/ a = b
    BY <1>1, <2>1, Typed, TailContains
  <2>3. InHand(b)' /\ \A a : InHand(a) => InHand(a)'
    BY <2>1, GivenHandler, GrowsInHand
  <2>. QED  BY <2>2, <2>3 DEF Asked, Replied
<1>2. CASE queue.takers = <<>>
  <2>1. resuming' = resuming /\ queue'.takers = queue.takers
    BY <1>2, PushMoves DEF Lined
  <2>. QED  BY <2>1 DEF Asked, InHand, Replied
<1>. QED  BY <1>1, <1>2

(***************************************************************************)
(* take(): the acceptCall that came in waits or is in hand.                *)
(***************************************************************************)
LEMMA TakeAsked ==
  ASSUME TypeOK, Lined, NEW b \in Accepts, QueueStep(Take(queue, b)), UNCHANGED toThread,
         \A a : Contains(toHost, Accept(a)) => Contains(toHost', Accept(a)) \/ a = b
  PROVE  \A a \in Accepts : Asked(a) => Asked(a)'
<1>1. CASE queue.items = <<>>
  <2>1. resuming' = resuming /\ queue'.takers = Append(queue.takers, b)
    BY <1>1, TakeMoves DEF Lined
  <2>2. \A a : Contains(queue'.takers, a) <=> Contains(queue.takers, a) \/ a = b
    BY <2>1, Typed, AppendContains
  <2>. QED  BY <2>1, <2>2 DEF Asked, InHand, Replied
<1>2. CASE queue.items # <<>>
  <2>1. PICK x \in Calls : x = Head(queue.items)
    BY <1>2, TakeMoves DEF Lined
  <2>2. queue'.takers = queue.takers /\ resuming' = Append(resuming, Served(Delivery(b, x)))
    BY <1>2, <2>1, TakeMoves DEF Lined
  <2>3. InHand(b)' /\ \A a : InHand(a) => InHand(a)'
    BY <2>2, GivenHandler, GrowsInHand
  <2>. QED  BY <2>2, <2>3 DEF Asked, Replied
<1>. QED  BY <1>1, <1>2

(***************************************************************************)
(* A withdrawn taker is in hand, to be refused.                            *)
(***************************************************************************)
LEMMA WithdrawAsked ==
  ASSUME TypeOK, NEW b \in Accepts, Contains(queue.takers, b), queue' = WithdrawTaker(queue, b),
         resuming' = resuming \o Refusals(<<b>>), UNCHANGED toThread,
         \A a : Contains(toHost, Accept(a)) => Contains(toHost', Accept(a))
  PROVE  \A a \in Accepts : Asked(a) => Asked(a)'
<1>1. queue'.takers = RemoveFirst(queue.takers, b)
  BY Typed DEF WithdrawTaker, QueueOf
<1>2. \A a : Contains(queue.takers, a) => Contains(queue'.takers, a) \/ a = b
  BY <1>1, Typed, RemoveKeeps
<1>3. resuming' = Append(resuming, Served(Refusal(b)))
  <2>1. resuming \in Seq(Handler)
    BY Typed
  <2>2. PICK h \in Handler : h = Served(Refusal(b)) /\ Refusals(<<b>>) = <<h>>
    BY GivenHandler
  <2>3. Append(resuming, h) = resuming \o <<h>>
    BY <2>1, AppendIsConcat
  <2>. QED  BY <2>2, <2>3
<1>4. InHand(b)' /\ \A a : InHand(a) => InHand(a)'
  BY <1>3, GivenHandler, GrowsInHand
<1>. QED  BY <1>2, <1>4 DEF Asked, Replied

(***************************************************************************)
(* Every step keeps the acceptCalls the guest waits with.                  *)
(***************************************************************************)
LEMMA AskedResume ==
  ASSUME TypeOK, AcceptNotLost, Resume
  PROVE  AcceptNotLost'
<1>1. /\ resuming \in Seq(Handler) /\ resuming # <<>> /\ UNCHANGED <<queue, toHost, accept, dead>>
  BY Typed DEF Resume, guestVars
<1>2. PICK h \in Handler : h = Head(resuming)
  BY <1>1, ViewTail
<1>3. PICK s \in Seq(Handler) : s = Tail(resuming)
  BY <1>1, ViewTail
<1>4. ToSet(resuming) = ToSet(s) \cup {h}
  BY <1>1, <1>2, <1>3, TailSet
<1>5. h.msg \in Reply /\ h.msg.kind \in {"delivery", "refusal"} /\ h.msg \in ToThread
  BY SeenType
<1>6. CASE h.at = "take"
  <2>1. PICK r \in Handler : r = Replying(h.msg) /\ r.msg = h.msg
    <3>1. Replying(h.msg) \in Handler /\ Replying(h.msg).msg = h.msg
      BY <1>5 DEF Replying, Handler
    <3>. QED  BY <3>1
  <2>2. resuming' = Append(s, r) /\ UNCHANGED toThread
    BY <1>2, <1>3, <1>6, <2>1 DEF Resume
  <2>3. ToSet(resuming') = ToSet(s) \cup {r}
    BY <2>2, AppendSet
  <2>4. \A a : InHand(a) => InHand(a)'
    BY <1>4, <2>1, <2>3 DEF InHand
  <2>5. \A a \in Accepts : Asked(a) => Asked(a)'
    BY <1>1, <2>2, <2>4 DEF Asked, Replied
  <2>. QED  BY <1>1, <2>5, StillAsked
<1>7. CASE h.at # "take"
  <2>1. resuming' = s /\ Emit(h.msg)
    BY <1>2, <1>3, <1>7 DEF Resume
  <2>2. ToSet(toThread') = ToSet(toThread) \cup (IF dead THEN {} ELSE {h.msg})
    BY <1>5, <2>1, EmitMoves
  <2>3. CASE dead
    BY <1>1, <2>3 DEF AcceptNotLost
  <2>4. CASE ~dead
    <3>1. \A a : Replied(a) => Replied(a)'
      BY <2>2 DEF Replied
    <3>2. \A a : InHand(a) => InHand(a)' \/ Replied(a)'
      BY <1>4, <1>5, <2>1, <2>2, <2>4 DEF InHand, Replied
    <3>3. \A a \in Accepts : Asked(a) => Asked(a)'
      BY <1>1, <3>1, <3>2 DEF Asked
    <3>. QED  BY <1>1, <3>3, StillAsked
  <2>. QED  BY <2>3, <2>4
<1>. QED  BY <1>6, <1>7

(***************************************************************************)
(* A message of the guest: what it asks for is queued, or in hand.         *)
(***************************************************************************)
LEMMA AskedHostReceive ==
  ASSUME TypeOK, Lined, AcceptNotLost, HostReceive
  PROVE  AcceptNotLost'
<1>. DEFINE m == Head(toHost)
<1>1. /\ toHost \in Seq(ToHost) /\ toHost # <<>> /\ toHost' = Tail(toHost)
      /\ UNCHANGED <<accept, toThread>>
  BY HostMessage DEF guestVars
<1>2. \A n : Contains(toHost, n) => Contains(toHost', n) \/ n = m
  BY <1>1, TailContains
<1>3. m.kind # "call.accept" => \A a : Contains(toHost, Accept(a)) => Contains(toHost', Accept(a))
  BY <1>2 DEF Accept
<1>4. CASE OnAccept(m)
  <2>1. PICK b \in Accepts : b = m.acc /\ QueueStep(Take(queue, b)) /\ UNCHANGED dead
    BY <1>4, HostMessage DEF OnAccept
  <2>2. \A a : Contains(toHost, Accept(a)) => Contains(toHost', Accept(a)) \/ a = b
    BY <1>2, <2>1 DEF Accept
  <2>3. \A a \in Accepts : Asked(a) => Asked(a)'
    BY <1>1, <2>1, <2>2, TakeAsked
  <2>. QED  BY <1>1, <2>1, <2>3, StillAsked
<1>5. CASE OnWithdraw(m)
  <2>1. PICK b \in Accepts : b = m.acc
    BY <1>5, HostMessage DEF OnWithdraw
  <2>2. /\ \/ /\ Contains(queue.takers, b) /\ queue' = WithdrawTaker(queue, b)
              /\ resuming' = resuming \o Refusals(<<b>>)
           \/ UNCHANGED <<queue, resuming>>
        /\ UNCHANGED dead /\ m.kind # "call.accept"
    BY <1>5, <2>1 DEF OnWithdraw
  <2>3. ASSUME UNCHANGED <<queue, resuming>> PROVE \A a \in Accepts : Asked(a) => Asked(a)'
    BY <1>1, <1>3, <2>2, <2>3 DEF Asked, InHand, Replied
  <2>4. \A a \in Accepts : Asked(a) => Asked(a)'
    BY <1>1, <1>3, <2>2, <2>3, WithdrawAsked
  <2>. QED  BY <1>1, <2>2, <2>4, StillAsked
<1>6. CASE OnAnswer(m) \/ OnReady(m)
  <2>1. m.kind # "call.accept" /\ UNCHANGED <<queue, resuming, dead>>
    BY <1>6 DEF OnAnswer, OnReady
  <2>2. \A a \in Accepts : Asked(a) => Asked(a)'
    BY <1>1, <1>3, <2>1 DEF Asked, InHand, Replied
  <2>. QED  BY <1>1, <2>1, <2>2, StillAsked
<1>7. CASE OnFailed(m)
  BY <1>7 DEF OnFailed, Fail, hostVars, AcceptNotLost
<1>. QED  BY <1>4, <1>5, <1>6, <1>7 DEF HostReceive

(***************************************************************************)
(* A message to the thread: the acceptCall that it answers waits no more.  *)
(***************************************************************************)
LEMMA AskedReceive ==
  ASSUME TypeOK, AcceptNotLost, ThreadReceive
  PROVE  AcceptNotLost'
<1>1. /\ toThread \in Seq(ToThread) /\ toThread # <<>> /\ toThread' = Tail(toThread)
      /\ UNCHANGED <<queue, resuming, dead, toHost>>
  BY Typed DEF ThreadReceive, guestIdle, hostVars
<1>2. PICK m \in ToThread : m = Head(toThread)
  BY <1>1, HeadTailProperties
<1>3. ToSet(toThread) = ToSet(toThread') \cup {m}
  BY <1>1, <1>2, TailSet
<1>4. \/ m.kind \in {"delivery", "refusal"} /\ m.acc \in Accepts /\ accept' = [accept EXCEPT ![m.acc] = "free"]
      \/ m.kind = "call.abort" /\ UNCHANGED accept
  BY <1>2, ToThreadKinds DEF ThreadReceive, OnDelivery, OnRefusal, OnCallAbort
<1>5. \A a \in Accepts : accept'[a] = "pending" =>
        accept[a] = "pending" /\ ~(m.kind \in {"delivery", "refusal"} /\ m.acc = a)
  BY <1>4 DEF TypeOK
<1>6. \A a \in Accepts : accept'[a] = "pending" /\ Replied(a) => Replied(a)'
  BY <1>3, <1>5 DEF Replied
<1>7. \A a \in Accepts : accept'[a] = "pending" /\ Asked(a) => Asked(a)'
  BY <1>1, <1>6 DEF Asked, InHand
<1>. QED  BY <1>1, <1>5, <1>7, StillAsked

(***************************************************************************)
(* The guest's own steps post what they ask for.                           *)
(***************************************************************************)
LEMMA AskedGuestStep ==
  ASSUME TypeOK, AcceptNotLost, GuestStep
  PROVE  AcceptNotLost'
<1>1. toHost \in Seq(ToHost) /\ UNCHANGED <<queue, resuming, dead, toThread>>
  BY Typed DEF GuestStep, AcceptCall, AbortAccept, Respond, PostAnswer, SendSignal, guestIdle, hostVars
<1>2. ASSUME NEW m \in ToHost, toHost' = Append(toHost, m)
      PROVE  Contains(toHost', m) /\ \A a : Asked(a) => Asked(a)'
  <2>1. \A n : Contains(toHost', n) <=> Contains(toHost, n) \/ n = m
    BY <1>1, <1>2, AppendContains
  <2>. QED  BY <1>1, <2>1 DEF Asked, InHand, Replied
<1>3. ASSUME NEW b \in Accepts, AcceptCall(b)
      PROVE  AcceptNotLost'
  <2>1. Accept(b) \in ToHost
    BY DEF ToHost
  <2>2. Contains(toHost', Accept(b)) /\ \A a : Asked(a) => Asked(a)'
    BY <1>2, <1>3, <2>1 DEF AcceptCall
  <2>3. \A a \in Accepts : accept'[a] = IF a = b THEN "pending" ELSE accept[a]
    BY <1>3 DEF AcceptCall, TypeOK
  <2>4. Asked(b)'
    BY <2>2 DEF Asked
  <2>5. \A a \in Accepts : accept'[a] = "pending" /\ ~dead' => Asked(a)'
    BY <1>1, <2>2, <2>3, <2>4, NotLostIs
  <2>. QED  BY <2>5 DEF AcceptNotLost, Asked, InHand, Replied
<1>4. ASSUME NEW b \in Accepts, AbortAccept(b)
      PROVE  AcceptNotLost'
  <2>1. Withdraw(b) \in ToHost
    BY DEF ToHost
  <2>2. \A a : Asked(a) => Asked(a)'
    BY <1>2, <1>4, <2>1 DEF AbortAccept
  <2>3. \A a \in Accepts : accept'[a] = "pending" => accept[a] = "pending"
    BY <1>4 DEF AbortAccept, TypeOK
  <2>. QED  BY <1>1, <2>2, <2>3, StillAsked
<1>5. ASSUME NEW c \in Calls, Respond(c)
      PROVE  AcceptNotLost'
  <2>1. UNCHANGED <<toHost, accept>>
    BY <1>5 DEF Respond
  <2>. QED  BY <1>1, <2>1 DEF AcceptNotLost
<1>6. ASSUME NEW i \in DOMAIN reading, NEW ok \in BOOLEAN, PostAnswer(i, ok)
      PROVE  AcceptNotLost'
  <2>1. PICK c \in Calls : c = reading[i]
    BY Typed, ElementOfSeq, LenProperties
  <2>2. Answer(c, ok) \in ToHost
    BY DEF ToHost
  <2>3. (\A a : Asked(a) => Asked(a)') /\ UNCHANGED accept
    BY <1>2, <1>6, <2>1, <2>2 DEF PostAnswer
  <2>. QED  BY <1>1, <2>3, StillAsked
<1>7. ASSUME NEW s \in Signals, SendSignal(s)
      PROVE  AcceptNotLost'
  <2>1. Signal(s) \in ToHost
    BY SignalsAssumption DEF ToHost
  <2>2. (\A a : Asked(a) => Asked(a)') /\ UNCHANGED accept
    BY <1>2, <1>7, <2>1 DEF SendSignal
  <2>. QED  BY <1>1, <2>2, StillAsked
<1>. QED  BY <1>3, <1>4, <1>5, <1>6, <1>7 DEF GuestStep

(***************************************************************************)
(* Every step keeps the acceptCalls that wait.                             *)
(***************************************************************************)
LEMMA AskedStep ==
  ASSUME TypeOK, Lined, AcceptNotLost, [Next]_vars
  PROVE  AcceptNotLost'
<1>1. ASSUME NEW c \in Calls, HostStep(c)
      PROVE  AcceptNotLost'
  <2>1. CASE Register(c)
    <3>1. QueueStep(Push(queue, c)) /\ UNCHANGED <<toHost, toThread, accept, dead>>
      BY <2>1 DEF Register, guestVars
    <3>2. \A a \in Accepts : Asked(a) => Asked(a)'
      BY <3>1, PushAsked
    <3>. QED  BY <3>1, <3>2, StillAsked
  <2>2. CASE HostAbort(c)
    <3>1. c \in Signalled /\ AbortListener(c) /\ UNCHANGED <<resuming, toHost, accept, dead>>
      BY <2>2 DEF HostAbort, guestVars
    <3>2. queue'.takers = queue.takers /\ ToSet(toThread) \subseteq ToSet(toThread')
      BY <3>1, AbortMoves
    <3>3. \A a \in Accepts : Asked(a) => Asked(a)'
      BY <3>1, <3>2 DEF Asked, InHand, Replied
    <3>. QED  BY <3>1, <3>3, StillAsked
  <2>3. CASE Fetch(c) \/ NormalizeFails(c) \/ RegisterAborted(c) \/ AbortEarly(c)
    <3>1. UNCHANGED <<queue, resuming, toHost, toThread, accept, dead>>
      BY <2>3 DEF Fetch, NormalizeFails, RegisterAborted, AbortEarly, hostVars, guestVars
    <3>. QED  BY <3>1 DEF AcceptNotLost
  <2>. QED  BY <1>1, <2>1, <2>2, <2>3 DEF HostStep
<1>2. CASE BootThread \/ ThreadExits \/ UNCHANGED vars
  <2>1. UNCHANGED <<queue, resuming, toHost, toThread, accept, dead>>
    BY <1>2 DEF BootThread, ThreadExits, vars, hostVars, guestVars
  <2>. QED  BY <2>1 DEF AcceptNotLost
<1>3. CASE BootFails \/ OnExit \/ Close
  <2>1. Fail /\ UNCHANGED <<toHost, toThread, accept>>
    BY <1>3 DEF BootFails, OnExit, Close, guestVars
  <2>2. dead'
    BY <2>1 DEF Fail, hostVars
  <2>. QED  BY <2>2 DEF AcceptNotLost
<1>. QED  BY <1>1, <1>2, <1>3, AskedResume, AskedHostReceive, AskedReceive, AskedGuestStep DEF Next

-----------------------------------------------------------------------------
(* Each step and the aborts. *)

\* the abort of the call has fired its signal, or will
Follows(c) == c \in told \/ c \in inFlight \/ Contains(toThread, CallAbort(c))

(***************************************************************************)
(* A step that sends no call and loses no abort, but those it says.        *)
(***************************************************************************)
LEMMA StillFollow ==
  ASSUME AbortsFollow, dead => dead',
         \A c \in aborted' \ slipped' :
           Sent(c)' /\ answers'[c] = 0 =>
             Follows(c)' \/ (c \in aborted \ slipped /\ Sent(c) /\ answers[c] = 0 /\ (Follows(c) => Follows(c)'))
  PROVE  AbortsFollow'
<1>1. ~dead' => \A c \in aborted' \ slipped' : Sent(c)' /\ answers'[c] = 0 => Follows(c)'
  BY DEF AbortsFollow, Follows
<1>. QED  BY <1>1 DEF AbortsFollow, Follows

(***************************************************************************)
(* A step that moves neither calls nor aborts.                             *)
(***************************************************************************)
LEMMA FollowQuietly ==
  ASSUME AbortsFollow, UNCHANGED <<aborted, handed, toThread, resuming, inFlight, told, dead>>,
         slipped \subseteq slipped', \A c \in aborted : answers'[c] = 0 => answers[c] = 0
  PROVE  AbortsFollow'
<1>1. \A c : (Sent(c)' <=> Sent(c)) /\ (Follows(c)' <=> Follows(c))
  BY DEF Sent, Had, Going, Recorded, View, Follows
<1>. QED  BY <1>1, StillFollow

(***************************************************************************)
(* An abort finds its call queued or between, and then nothing is sent; or *)
(* in flight, and tells the thread.                                        *)
(***************************************************************************)
LEMMA FollowHostStep ==
  ASSUME TypeOK, Lined, Owed, AbortsFollow, NEW c \in Calls, HostStep(c)
  PROVE  AbortsFollow'
<1>1. CASE Fetch(c) \/ NormalizeFails(c) \/ RegisterAborted(c)
  <2>1. UNCHANGED <<aborted, handed, toThread, resuming, inFlight, told, dead, slipped, answers>>
    BY <1>1 DEF Fetch, NormalizeFails, RegisterAborted, hostVars, guestVars
  <2>. QED  BY <2>1, FollowQuietly
<1>2. CASE AbortEarly(c)
  <2>1. /\ aborted' = aborted \cup {c} /\ outcome[c] = "normalizing"
        /\ UNCHANGED <<handed, toThread, resuming, inFlight, told, dead, slipped, answers>>
    BY <1>2 DEF AbortEarly, hostVars, guestVars
  <2>2. ~Sent(c)
    BY <2>1 DEF Lined, Known, Sent, OnWay
  <2>3. \A d : (Sent(d)' <=> Sent(d)) /\ (Follows(d)' <=> Follows(d))
    BY <2>1 DEF Sent, Had, Going, Recorded, View, Follows
  <2>. QED  BY <2>1, <2>2, <2>3, StillFollow
<1>3. CASE Register(c)
  <2>1. UNCHANGED <<aborted, toThread, inFlight, told, dead, slipped, answers>>
    BY <1>3 DEF Register, guestVars
  <2>2. \A d : Sent(d)' <=> Sent(d)
    BY <1>3, LinedRegister DEF Sent
  <2>. QED  BY <2>1, <2>2, StillFollow DEF Follows
<1>4. CASE HostAbort(c)
  <2>1. /\ c \in Signalled /\ AbortListener(c) /\ aborted' = aborted \cup {c} /\ inFlight' = inFlight \ {c}
        /\ outcome[c] = "pending" /\ UNCHANGED <<told, dead, slipped, answers>>
    BY <1>4 DEF HostAbort, AbortListener, guestVars
  <2>2. \A d : Sent(d)' <=> Sent(d)
    BY <1>4, LinedAbort DEF Sent
  <2>3. \A n : Contains(toThread', n) <=> Contains(toThread, n) \/ (~dead /\ c \in inFlight /\ n = CallAbort(c))
    BY <2>1, AbortMoves
  <2>4. Sent(c) => c \in inFlight
    BY <2>1, Apart DEF Owed, Sent
  <2>5. CASE dead
    BY <2>1, <2>5 DEF AbortsFollow
  <2>6. CASE ~dead
    <3>1. Sent(c) => Follows(c)'
      BY <2>3, <2>4, <2>6 DEF Follows
    <3>2. \A d : d # c /\ Follows(d) => Follows(d)'
      BY <2>1, <2>3 DEF Follows
    <3>. QED  BY <2>1, <2>2, <3>1, <3>2, StillFollow
  <2>. QED  BY <2>5, <2>6
<1>. QED  BY <1>1, <1>2, <1>3, <1>4 DEF HostStep

(***************************************************************************)
(* A call is recorded in flight and then sent.                             *)
(***************************************************************************)
LEMMA FollowResume ==
  ASSUME TypeOK, Lined, AbortsFollow, Resume
  PROVE  AbortsFollow'
<1>1. UNCHANGED <<aborted, slipped, told, answers, handed, dead>> /\ \A c : Had(c)' <=> Had(c)
  BY DEF Resume, callerVars, guestVars, Had
<1>2. PICK C : C = CallOf(Head(resuming).msg)
  OBVIOUS
<1>3. CASE Head(resuming).at = "take"
  <2>1. /\ inFlight' = inFlight \cup C /\ UNCHANGED toThread
        /\ \A c : Recorded(c)' <=> Recorded(c) \/ c \in C
    BY <1>2, <1>3, RecordMoves
  <2>2. \A c : Going(c)' <=> Going(c)
    BY <2>1 DEF Going
  <2>. QED  BY <1>1, <2>1, <2>2, StillFollow DEF Sent, Follows
<1>4. CASE Head(resuming).at # "take"
  <2>1. PICK m \in ToThread : m = Head(resuming).msg /\ Emit(m)
    BY <1>4, PostMoves
  <2>2. /\ UNCHANGED inFlight
        /\ \A c : /\ Recorded(c)' <=> Recorded(c) /\ c \notin C
                  /\ Going(c)' <=> Going(c) \/ (~dead /\ c \in C)
        /\ \A c \in C : Recorded(c)
    BY <1>2, <1>4, PostMoves
  <2>3. \A n : Contains(toThread, n) => Contains(toThread', n)
    BY <2>1, EmitMoves
  <2>4. \A c : Sent(c)' => Sent(c)
    BY <1>1, <2>2 DEF Sent
  <2>5. \A c : Follows(c) => Follows(c)'
    BY <1>1, <2>2, <2>3 DEF Follows
  <2>. QED  BY <1>1, <2>4, <2>5, StillFollow
<1>. QED  BY <1>3, <1>4

(***************************************************************************)
(* What is no longer in flight because it is answered, is answered.        *)
(***************************************************************************)
LEMMA FollowHostReceive ==
  ASSUME TypeOK, Lined, Answered, AbortsFollow, HostReceive
  PROVE  AbortsFollow'
<1>. DEFINE m == Head(toHost)
<1>1. UNCHANGED <<aborted, issued, handed, toThread, told, answers>>
  BY HostMessage DEF guestVars
<1>2. CASE OnAccept(m)
  <2>1. PICK a \in Accepts : QueueStep(Take(queue, a)) /\ UNCHANGED <<outcome, inFlight, dead, slipped>>
    BY <1>2, HostMessage DEF OnAccept
  <2>2. \A d : Sent(d)' <=> Sent(d)
    BY <1>1, <2>1, LinedTake DEF Sent
  <2>. QED  BY <1>1, <2>1, <2>2, StillFollow DEF Follows
<1>3. CASE OnWithdraw(m)
  <2>1. PICK a \in Accepts : a = m.acc
    BY <1>3, HostMessage DEF OnWithdraw
  <2>2. UNCHANGED <<outcome, inFlight, dead, slipped>>
        /\ \/ /\ Contains(queue.takers, a) /\ queue' = WithdrawTaker(queue, a)
              /\ resuming' = resuming \o Refusals(<<a>>)
           \/ UNCHANGED <<queue, resuming>>
    BY <1>3, <2>1 DEF OnWithdraw
  <2>3. \A d : Sent(d)' <=> Sent(d)
    BY <1>1, <2>2, LinedWithdraw, LineStill DEF Sent
  <2>. QED  BY <1>1, <2>2, <2>3, StillFollow DEF Follows
<1>4. CASE OnAnswer(m)
  <2>1. PICK c \in Calls : c = m.call /\ m.kind = "answer"
    BY <1>4, HostMessage DEF OnAnswer
  <2>2. UNCHANGED <<queue, resuming, dead, slipped>> /\ inFlight' = inFlight \ {c}
    BY <1>4, <2>1 DEF OnAnswer
  <2>3. Answering(c)
    BY <2>1, HostMessage, TailCarries DEF Answering
  <2>4. answers[c] # 0
    BY <2>3 DEF Answered
  <2>5. \A d : Sent(d)' <=> Sent(d)
    BY <1>1, <2>2, LineStill DEF Sent
  <2>6. \A d : d # c /\ Follows(d) => Follows(d)'
    BY <1>1, <2>2 DEF Follows
  <2>. QED  BY <1>1, <2>2, <2>4, <2>5, <2>6, StillFollow
<1>5. CASE OnReady(m)
  BY <1>1, <1>5, FollowQuietly DEF OnReady
<1>6. CASE OnFailed(m)
  BY <1>6 DEF OnFailed, Fail, hostVars, AbortsFollow
<1>. QED  BY <1>2, <1>3, <1>4, <1>5, <1>6 DEF HostReceive

(***************************************************************************)
(* A delivery brings the call to the guest or lets it slip, and an abort   *)
(* that arrives fires the signal of a call the guest has, or slips.        *)
(***************************************************************************)
LEMMA FollowReceive ==
  ASSUME TypeOK, Lined, Answered, AbortsFollow, ThreadReceive
  PROVE  AbortsFollow'
<1>1. /\ toThread \in Seq(ToThread) /\ toThread # <<>> /\ toThread' = Tail(toThread)
      /\ UNCHANGED <<aborted, inFlight, answers, resuming, dead>>
  BY Typed DEF ThreadReceive, guestIdle, callerVars, hostVars
<1>2. PICK m \in ToThread : m = Head(toThread)
  BY <1>1, HeadTailProperties
<1>3. \A n : Contains(toThread, n) => Contains(toThread', n) \/ n = m
  BY <1>1, <1>2, TailContains
<1>4. \A c : Recorded(c)' <=> Recorded(c)
  BY <1>1 DEF Recorded, View
<1>5. CASE OnDelivery(m)
  <2>1. PICK x \in Calls : x = m.call
    BY <1>2, <1>5, DeliveryMoves
  <2>2. /\ Going(x) /\ \A c : Going(c)' <=> Going(c) /\ c # x
        /\ \A c : Had(c)' <=> Had(c) \/ (c = x /\ accept[m.acc] = "pending")
    BY <1>2, <1>5, <2>1, DeliveryMoves
  <2>3. UNCHANGED told /\ slipped \subseteq slipped' /\ m.kind = "delivery"
    BY <1>5 DEF OnDelivery
  <2>4. \A c : Sent(c)' => Sent(c)
    BY <1>4, <2>2 DEF Sent
  <2>5. \A c : Follows(c) => Follows(c)'
    BY <1>1, <1>3, <2>3 DEF Follows, CallAbort
  <2>. QED  BY <1>1, <2>3, <2>4, <2>5, StillFollow
<1>6. CASE OnRefusal(m)
  <2>1. UNCHANGED <<told, slipped>> /\ m.kind = "refusal"
    BY <1>6 DEF OnRefusal
  <2>2. \A c : Sent(c)' <=> Sent(c)
    BY <1>2, <1>4, <1>6, OtherMoves DEF Sent, Had
  <2>3. \A c : Follows(c) => Follows(c)'
    BY <1>1, <1>3, <2>1 DEF Follows, CallAbort
  <2>. QED  BY <1>1, <2>1, <2>2, <2>3, StillFollow
<1>7. CASE OnCallAbort(m)
  <2>1. PICK x \in Calls : x = m.call /\ m = CallAbort(x)
    BY <1>7, ToThreadKinds, CallsAssumption DEF OnCallAbort
  <2>2. \A c : Sent(c)' <=> Sent(c)
    BY <1>2, <1>4, <1>7, OtherMoves DEF Sent, Had
  <2>3. /\ told' = told \cup (controllers \cap {x}) /\ slipped \subseteq slipped'
        /\ ~Had(x) => x \in slipped'
    BY <1>7, <2>1 DEF OnCallAbort, Had
  <2>4. Had(x) /\ answers[x] = 0 => Follows(x)'
    BY <2>3 DEF Answered, Follows
  <2>5. \A c : c # x /\ Follows(c) => Follows(c)'
    BY <1>1, <1>3, <2>1, <2>3 DEF Follows, CallAbort
  <2>. QED  BY <1>1, <2>2, <2>3, <2>4, <2>5, StillFollow
<1>. QED  BY <1>2, <1>5, <1>6, <1>7 DEF ThreadReceive

(***************************************************************************)
(* Every step keeps the aborts on their way.                               *)
(***************************************************************************)
LEMMA FollowStep ==
  ASSUME TypeOK, Lined, Owed, Answered, AbortsFollow, [Next]_vars
  PROVE  AbortsFollow'
<1>1. CASE BootThread \/ ThreadExits \/ UNCHANGED vars
  BY <1>1, FollowQuietly DEF BootThread, ThreadExits, vars, callerVars, hostVars, guestVars
<1>2. CASE BootFails \/ OnExit \/ Close
  BY <1>2 DEF BootFails, OnExit, Close, Fail, hostVars, AbortsFollow
<1>3. CASE GuestStep
  <2>1. UNCHANGED <<aborted, handed, toThread, resuming, inFlight, told, dead, slipped>>
    BY <1>3 DEF GuestStep, AcceptCall, AbortAccept, Respond, PostAnswer, SendSignal,
                guestIdle, callerVars, hostVars
  <2>2. \A c \in Calls : answers'[c] = 0 => answers[c] = 0
    <3>1. CASE UNCHANGED answers
      BY <3>1
    <3>2. ASSUME NEW d \in Calls, Respond(d) PROVE \A c \in Calls : answers'[c] = 0 => answers[c] = 0
      <4>1. answers \in [Calls -> 0 .. 2] /\ answers' = [answers EXCEPT ![d] = @ + 1]
        BY <3>2 DEF Respond, TypeOK
      <4>. QED  BY <4>1
    <3>. QED  BY <1>3, <3>1, <3>2 DEF GuestStep, AcceptCall, AbortAccept, PostAnswer, SendSignal
  <2>3. aborted \subseteq Calls
    BY CallsAssumption DEF TypeOK
  <2>. QED  BY <2>1, <2>2, <2>3, FollowQuietly
<1>. QED  BY <1>1, <1>2, <1>3, FollowHostStep, FollowResume, FollowHostReceive, FollowReceive DEF Next

-----------------------------------------------------------------------------
(* The inductive invariant, and what follows from it. *)

(***************************************************************************)
(* The inductive invariant holds at first, when nothing is anywhere.       *)
(***************************************************************************)
LEMMA NodeInit == Init => NodeInv
<1>. SUFFICES ASSUME Init PROVE NodeInv
  OBVIOUS
<1>1. TypeOK
  BY TypeInit
<1>2. /\ queue.items = <<>> /\ resuming = <<>> /\ toThread = <<>> /\ toHost = <<>>
      /\ handed = <<>> /\ issued = <<>> /\ reading = <<>> /\ View(resuming) = <<>>
  BY DEF Init, EmptyQueue, View
<1>3. /\ \A c : ~OnWay(c) /\ ~Entered(c) /\ ~Answering(c) /\ ~Contains(reading, c)
      /\ \A R : InOrder(<<>>, R) /\ \A k : CarriedInOrder(<<>>, k, R)
  BY <1>2 DEF OnWay, Had, Going, Recorded, Taken, Queued, Entered, Answering, Contains, Carries,
              InOrder, CarriedInOrder
<1>4. \A c, d : ~Before(c, d)
  BY <1>3 DEF OnWay, Before
<1>5. Lined
  <2>1. InLine
    BY <1>2, <1>3, <1>4 DEF InLine
  <2>2. Known /\ Serving(queue)
    BY <1>2, <1>3 DEF Known, Serving
  <2>. QED  BY <2>1, <2>2 DEF Lined
<1>6. Owed
  BY <1>3 DEF Init, Owed, OnWay
<1>7. FailureSettles /\ AcceptNotLost /\ AbortsFollow
  BY DEF Init, FailureSettles, AcceptNotLost, AbortsFollow
<1>8. Answered
  BY <1>3 DEF Init, Answered, OnWay
<1>. QED  BY <1>1, <1>5, <1>6, <1>7, <1>8 DEF NodeInv

(***************************************************************************)
(* Every step keeps it.                                                    *)
(***************************************************************************)
LEMMA NodeInvStep == NodeInv /\ [Next]_vars => NodeInv'
<1>. SUFFICES ASSUME NodeInv, [Next]_vars PROVE NodeInv'
  OBVIOUS
<1>1. TypeOK'
  BY TypeStep DEF NodeInv
<1>2. Lined'
  BY LinedStep DEF NodeInv
<1>3. Owed' /\ FailureSettles'
  BY OwedStep DEF NodeInv
<1>4. AcceptNotLost'
  BY AskedStep DEF NodeInv
<1>5. Answered'
  BY AnsweredStep DEF NodeInv
<1>6. AbortsFollow'
  BY FollowStep DEF NodeInv
<1>. QED  BY <1>1, <1>2, <1>3, <1>4, <1>5, <1>6 DEF NodeInv

(***************************************************************************)
(* NodeInv holds always.                                                   *)
(***************************************************************************)
THEOREM NodeInvariant == Spec => []NodeInv
<1>1. Init => NodeInv
  BY NodeInit
<1>2. NodeInv /\ [Next]_vars => NodeInv'
  BY NodeInvStep
<1>. QED  BY <1>1, <1>2, PTL DEF Spec

(***************************************************************************)
(* A pending promise is in one place, and in the queue once.               *)
(***************************************************************************)
LEMMA NodeAccounts == NodeInv => Accounted
<1>. SUFFICES ASSUME NodeInv PROVE Accounted
  OBVIOUS
<1>1. /\ \A c : c \in ToSet(queue.items) <=> Queued(c)
      /\ \A c : c \in Between <=> Taken(c)
      /\ \A c : Queued(c) \/ Taken(c) => c \in Calls
      /\ inFlight \subseteq Calls
  BY Typed, SetContains, BetweenIsTaken, OnlyCalls DEF NodeInv, Queued, OnWay, TypeOK
<1>2. Pending = ToSet(queue.items) \cup Between \cup inFlight
  BY <1>1 DEF NodeInv, Owed, Pending
<1>3. ToSet(queue.items) \cap Between = {}
  BY <1>1, Apart DEF NodeInv
<1>4. inFlight \cap (ToSet(queue.items) \cup Between) = {}
  BY <1>1 DEF NodeInv, Owed
<1>5. IsInjective(queue.items)
  <2>1. DOMAIN queue.items = 1 .. Len(queue.items) /\ Len(queue.items) \in Nat
    BY Typed, LenProperties DEF NodeInv
  <2>2. \A i, j \in 1 .. Len(queue.items) : i < j => queue.items[i] # queue.items[j]
    BY OrderIsStrict DEF NodeInv, Lined, InLine, InOrder, Distinct
  <2>3. \A i, j \in 1 .. Len(queue.items) : queue.items[i] = queue.items[j] => i = j
    BY <2>1, <2>2
  <2>. QED  BY <2>1, <2>3 DEF IsInjective
<1>. QED  BY <1>2, <1>3, <1>4, <1>5 DEF Accounted

(***************************************************************************)
(* The order in which the guest gets the calls is that of their ids.       *)
(***************************************************************************)
LEMMA NodeHandsInOrder == NodeInv => HandedInOrder
<1>. SUFFICES ASSUME NodeInv, NEW i \in DOMAIN handed, NEW j \in DOMAIN handed,
                     NEW m \in DOMAIN issued, NEW n \in DOMAIN issued,
                     i < j, issued[m] = handed[i], issued[n] = handed[j]
              PROVE  m < n
  BY DEF HandedInOrder
<1>1. /\ DOMAIN handed = 1 .. Len(handed) /\ DOMAIN issued = 1 .. Len(issued) /\ Len(issued) \in Nat
  BY Typed, LenProperties DEF NodeInv
<1>2. <<handed[i], handed[j]>> \in IssueOrder
  BY <1>1 DEF NodeInv, Lined, InLine, InOrder
<1>3. PICK k, l \in 1 .. Len(issued) : k < l /\ issued[k] = handed[i] /\ issued[l] = handed[j]
  BY <1>2 DEF IssueOrder
<1>4. \A a, b \in 1 .. Len(issued) : a < b => issued[a] # issued[b]
  BY DEF NodeInv, Lined, Known, InOrder, Distinct
<1>5. k = m /\ l = n
  BY <1>1, <1>3, <1>4
<1>. QED  BY <1>3, <1>5

(***************************************************************************)
(* What the host owes each call and each taker, whatever the calls, the    *)
(* signals, and the interleaving of host, ports, thread and guest: a       *)
(* pending promise is in one place, the failure settles what it finds, the *)
(* guest gets the calls in the order of their ids, no waiting acceptCall   *)
(* is lost, and an abort reaches the guest that has the call.              *)
(***************************************************************************)
THEOREM NodeKeepsCalls == Spec => []CallsKept
<1>1. NodeInv => AbortReachesGuest
  BY DEF NodeInv, AbortsFollow, AbortReachesGuest, Sent, Had
<1>2. NodeInv => CallsKept
  BY <1>1, NodeAccounts, NodeHandsInOrder DEF NodeInv, CallsKept
<1>. QED  BY <1>2, NodeInvariant, PTL

(***************************************************************************)
(* A settled promise stays as it is, and only a call that the guest has    *)
(* resolves one.                                                           *)
(***************************************************************************)
LEMMA SettlesStep ==
  ASSUME NodeInv, Next, NEW c \in Calls
  PROVE  /\ outcome[c] \in {"resolved", "rejected"} => outcome'[c] = outcome[c]
         /\ outcome[c] = "pending" /\ outcome'[c] = "resolved" => Contains(handed, c)
<1>. DEFINE Settles == /\ outcome[c] \in {"resolved", "rejected"} => outcome'[c] = outcome[c]
                       /\ outcome[c] = "pending" /\ outcome'[c] = "resolved" => Contains(handed, c)
<1>0. TypeOK /\ Owed /\ Answered
  BY DEF NodeInv
<1>1. ASSUME UNCHANGED outcome PROVE Settles
  BY <1>1
<1>2. ASSUME NEW d \in Calls, HostStep(d) PROVE Settles
  <2>1. CASE HostAbort(d)
    <3>1. outcome[d] = "pending" /\ outcome' \in {outcome, [outcome EXCEPT ![d] = "rejected"]}
      BY <2>1 DEF HostAbort, AbortListener
    <3>. QED  BY <3>1, <1>0 DEF TypeOK
  <2>2. CASE ~HostAbort(d)
    <3>1. \/ UNCHANGED outcome
          \/ /\ outcome[d] \in {"idle", "normalizing"}
             /\ \E o \in {"rejected", "normalizing", "pending"} : outcome' = [outcome EXCEPT ![d] = o]
      BY <1>2, <2>2 DEF HostStep, Fetch, NormalizeFails, Register, RegisterAborted, AbortEarly
    <3>. QED  BY <3>1, <1>0 DEF TypeOK
  <2>. QED  BY <2>1, <2>2
<1>3. ASSUME Fail PROVE Settles
  <2>1. CASE dead
    BY <1>3, <2>1 DEF Fail
  <2>2. CASE ~dead
    <3>1. outcome'[c] = IF Queued(c) \/ c \in inFlight THEN "rejected" ELSE outcome[c]
      BY <1>0, <1>3, <2>2, FailMoves
    <3>. QED  BY <3>1, <1>0 DEF Owed
  <2>. QED  BY <2>1, <2>2
<1>4. ASSUME HostReceive, OnAnswer(Head(toHost)) PROVE Settles
  <2>1. PICK d \in Calls : d = Head(toHost).call /\ Head(toHost).kind = "answer"
    BY <1>0, <1>4, HostMessage DEF OnAnswer
  <2>2. Answering(d)
    BY <1>0, <1>4, <2>1, HostMessage, TailCarries DEF Answering
  <2>3. Contains(handed, d)
    BY <1>0, <2>2 DEF Answered, Had
  <2>4. \A e \in Calls : outcome'[e] # outcome[e] => e = d /\ d \in inFlight
    BY <1>0, <1>4, <2>1 DEF OnAnswer, TypeOK
  <2>. QED  BY <1>0, <2>3, <2>4 DEF Owed
<1>5. CASE HostReceive
  BY <1>1, <1>3, <1>4, <1>5 DEF HostReceive, OnAccept, OnWithdraw, OnReady, OnFailed
<1>6. CASE BootFails \/ OnExit \/ Close
  BY <1>3, <1>6 DEF BootFails, OnExit, Close
<1>7. CASE Resume \/ ThreadReceive \/ BootThread \/ ThreadExits \/ GuestStep
  BY <1>1, <1>7 DEF Resume, ThreadReceive, BootThread, ThreadExits, GuestStep, AcceptCall, AbortAccept,
                    Respond, PostAnswer, SendSignal, guestIdle, callerVars
<1>. QED  BY <1>2, <1>5, <1>6, <1>7 DEF Next

(***************************************************************************)
(* A promise settles once, and not before the guest has the call.          *)
(***************************************************************************)
THEOREM NodeSettlesOnce == Spec => SettlesOnce
<1>1. NodeInv /\ [Next]_vars =>
        [\A c \in Calls :
           /\ outcome[c] \in {"resolved", "rejected"} => outcome'[c] = outcome[c]
           /\ outcome[c] = "pending" /\ outcome'[c] = "resolved" => Contains(handed, c)]_vars
  BY SettlesStep
<1>. QED  BY <1>1, NodeInvariant, PTL DEF Spec, SettlesOnce

=============================================================================
