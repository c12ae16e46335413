----------------------------- MODULE OffscreenCalls -----------------------------
(***************************************************************************)
(* One OffscreenWorker of the extension harness, in the service worker,    *)
(* and the connection that serves it in the offscreen document:            *)
(*                                                                         *)
(*   sw      browser-extension-harness/src/background/OffscreenWorker.ts   *)
(*   ports   a chrome.runtime port, FIFO in each direction; whoever        *)
(*           disconnects is heard of after what it sent                    *)
(*   page    offscreen/mount.ts, serve()                                   *)
(*                                                                         *)
(* and the bodies that stream across it (BodyStream).  The worker behind   *)
(* the page is a browser harness: of its fetch() this module keeps only    *)
(* what CallService says and that it reads the request's body.  The page's *)
(* cache of workers and the boot through the provider are OffscreenHost's. *)
(*                                                                         *)
(* A definition named X_Why is X with a plausible slip, which a property   *)
(* has to notice; the specification uses none of them.                     *)
(***************************************************************************)
EXTENDS BodyStream, FiniteSets, Naturals

CONSTANTS
  Calls,       \* the fetch() calls the host makes
  Signalled,   \* the calls made with an AbortSignal
  Piece,       \* what fits one message
  Source       \* the chunks each body is read as, in pieces; empty ones are skipped

Channels == {"request", "response"}
Bodies == Channels \X Calls

ASSUME CallsAssumption == IsFiniteSet(Calls) /\ Signalled \subseteq Calls
ASSUME SourceAssumption ==
  /\ DOMAIN Source = Bodies
  /\ \A b \in Bodies : Source[b] \in Seq(Seq(Piece) \ {<<>>})

VARIABLES
  \* the service worker
  outcome,     \* each fetch() as #calls has it: pending while it is there, then how it was settled
  locked,      \* the calls that fetch() rejected itself once they were there: their stream was locked
  aborted,     \* the calls whose signal has fired
  listening,   \* the calls whose abort listener is attached
  failed,      \* #failure is set
  ready,       \* the `ready` promise
  link,        \* #port: none yet, up or down; "killed" with the service worker
  outbox,      \* #outbox
  \* the port
  toPage,
  toSw,
  \* the offscreen document
  page,        \* the connection: none, attached (an entry), detached, or gone
  worker,      \* the browser harness behind the entry
  fetching,    \* its fetch() for each call
  stopped,     \* the calls whose AbortController in the page has fired
  inFlight,    \* serve()'s inFlight
  \* both: the halves of each body; a request's sender is in the service worker
  sender,
  receiver,
  \* history
  entered,     \* the calls that were registered
  replied      \* the calls the worker's fetch() resolved

swVars == <<outcome, aborted, listening, failed, ready, link, outbox, entered, locked>>
pageVars == <<page, worker, fetching, stopped, inFlight, replied>>
vars == <<swVars, toPage, toSw, pageVars, sender, receiver>>

-----------------------------------------------------------------------------
(* Messages. *)

Boot == [kind |-> "boot"]
FetchMsg(c, stream) == [kind |-> "fetch", call |-> c, bodyStream |-> stream]
Abort(c) == [kind |-> "abort", call |-> c]
CloseMsg == [kind |-> "close"]
Disconnect == [kind |-> "disconnect"]   \* onDisconnect, after all that was sent

Ready == [kind |-> "ready"]
Failed == [kind |-> "failed"]
Response(c, ok, hasBody) == [kind |-> "response", call |-> c, ok |-> ok, hasBody |-> hasBody]

Request(c) == <<"request", c>>
ResponseBody(c) == <<"response", c>>

Pieces(b) == FlattenSeq(Source[b])

Data(b) == {End(b), Error(b)} \cup {Chunk(b, p) : p \in Piece}

ToPage ==
  {Boot, CloseMsg, Disconnect} \cup {FetchMsg(c, s) : c \in Calls, s \in BOOLEAN}
    \cup {Abort(c) : c \in Signalled}
    \cup UNION {Data(Request(c)) \cup {Pull(ResponseBody(c)), Cancel(ResponseBody(c))} : c \in Calls}

ToSw ==
  {Ready, Failed, Disconnect} \cup {Response(c, ok, s) : c \in Calls, ok, s \in BOOLEAN}
    \cup UNION {Data(ResponseBody(c)) \cup {Pull(Request(c)), Cancel(Request(c))} : c \in Calls}

SenderType == [left : Seq(Seq(Piece) \ {<<>>}), rest : Seq(Piece), reading : BOOLEAN, done : BOOLEAN]

ReceiverType ==
  [queue : Seq(Piece), got : Seq(Piece), waiting : BOOLEAN,
   state : {"none", "open", "closed", "stopped"}]

TypeOK ==
  /\ outcome \in [Calls -> {"idle", "normalizing", "pending", "resolved", "rejected"}]
  /\ aborted \subseteq Signalled /\ listening \subseteq Signalled
  /\ failed \in BOOLEAN
  /\ ready \in {"pending", "resolved", "rejected"}
  /\ link \in {"none", "up", "down", "killed"}
  /\ outbox \in Seq(ToPage) /\ toPage \in Seq(ToPage) /\ toSw \in Seq(ToSw)
  /\ page \in {"none", "attached", "detached", "gone"}
  /\ worker \in {"booting", "ready", "failed"}
  /\ fetching \in [Calls -> {"none", "running", "resolved", "rejected", "refused"}]
  /\ stopped \subseteq Signalled \cup Calls /\ inFlight \subseteq Calls
  /\ sender \in [Bodies -> SenderType] /\ receiver \in [Bodies -> ReceiverType]
  /\ entered \subseteq Calls /\ locked \subseteq entered /\ replied \subseteq Calls

Init ==
  /\ outcome = [c \in Calls |-> "idle"]
  /\ aborted = {}
  /\ listening = {}
  /\ failed = FALSE
  /\ ready = "pending"
  /\ link = "none"
  /\ outbox = <<>>
  /\ toPage = <<>>
  /\ toSw = <<>>
  /\ page = "none"
  /\ worker = "booting"
  /\ fetching = [c \in Calls |-> "none"]
  /\ stopped = {}
  /\ inFlight = {}
  /\ sender = [b \in Bodies |-> NoSender]
  /\ receiver = [b \in Bodies |-> NoReceiver]
  /\ entered = {} /\ locked = {}
  /\ replied = {}

-----------------------------------------------------------------------------
(* Sending.  Nothing arrives through a port that is down. *)

Alive == link # "killed"   \* the service worker runs

\* #send: buffered until the port exists
SwSend(ms) ==
  /\ outbox' = IF link = "none" THEN outbox \o ms ELSE outbox
  /\ toPage' = IF link = "up" /\ page # "gone" THEN toPage \o ms ELSE toPage

PageSend(ms) == toSw' = IF link = "up" /\ page = "attached" THEN toSw \o ms ELSE toSw

\* every live half of one side stops, and the messages that says so
StopSenders(ch) ==
  [b \in Bodies |-> IF b[1] = ch THEN StopSender(sender[b]) ELSE sender[b]]

StopReceivers(ch) ==
  [b \in Bodies |-> IF b[1] = ch THEN StopReceiver(b, receiver[b]).half ELSE receiver[b]]

Cancels(ch) ==
  SetToSeq({Cancel(b) : b \in {d \in Bodies : d[1] = ch /\ Live(receiver[d])}})

-----------------------------------------------------------------------------
(* The service worker. *)

SwIdle == UNCHANGED <<pageVars, toSw>>

\* the bodies stay as they are
Fail_CallsOnly ==
  IF failed
  THEN UNCHANGED <<outcome, listening, failed, ready, sender, receiver>>
  ELSE /\ failed' = TRUE
       /\ ready' = IF ready = "pending" THEN "rejected" ELSE ready
       /\ outcome' = [c \in Calls |-> IF outcome[c] = "pending" THEN "rejected" ELSE outcome[c]]
       /\ listening' = listening \ {c \in Calls : outcome[c] = "pending"}
       /\ UNCHANGED <<sender, receiver>>

(***************************************************************************)
(* #fail, one-shot: `ready` and the pending calls are rejected, every body *)
(* stops and the abort listeners go.                                       *)
(***************************************************************************)
Fail ==
  IF failed
  THEN UNCHANGED <<outcome, listening, failed, ready, sender, receiver>>
  ELSE /\ failed' = TRUE
       /\ ready' = IF ready = "pending" THEN "rejected" ELSE ready
       /\ outcome' = [c \in Calls |-> IF outcome[c] = "pending" THEN "rejected" ELSE outcome[c]]
       /\ listening' = {}
       /\ sender' = StopSenders("request")
       /\ receiver' = StopReceivers("response")

\* what the receivers #fail stops send
FailSends == IF failed THEN <<>> ELSE Cancels("response")

(***************************************************************************)
(* fetch(): the call, its abort listener, its message and the sender of    *)
(* its body.  When the stream is locked there comes no sender: its         *)
(* constructor throws, and fetch() rejects a call that is on its way.  (A  *)
(* sender that is done is one that is not there.)                          *)
(***************************************************************************)
Enter(c, stream, isLocked) ==
  /\ outcome' = [outcome EXCEPT ![c] = "pending"]
  /\ entered' = entered \cup {c}
  /\ locked' = IF isLocked THEN locked \cup {c} ELSE locked
  /\ listening' = listening \cup ({c} \cap Signalled)
  /\ SwSend(<<FetchMsg(c, stream)>>)
  /\ sender' = IF stream
               THEN [sender EXCEPT ![Request(c)] = [Sender(Source[Request(c)]) EXCEPT !.done = isLocked]]
               ELSE sender

\* fetch() that is refused: after a failure, or for a request that is not one
FetchRefused(c) ==
  /\ Alive
  /\ outcome[c] = "idle"
  /\ outcome' = [outcome EXCEPT ![c] = "rejected"]
  /\ UNCHANGED <<aborted, listening, failed, ready, link, outbox, entered, locked, toPage>>
  /\ UNCHANGED <<sender, receiver>> /\ SwIdle

\* fetch() with a streamed body has nothing to await
FetchStreamed(c) ==
  /\ Alive
  /\ outcome[c] = "idle"
  /\ ~failed
  /\ \E isLocked \in BOOLEAN : Enter(c, TRUE, isLocked)
  /\ UNCHANGED <<aborted, failed, ready, link, receiver>> /\ SwIdle

\* fetch() with a whole body, up to its await
Fetch(c) ==
  /\ Alive
  /\ outcome[c] = "idle"
  /\ ~failed
  /\ outcome' = [outcome EXCEPT ![c] = "normalizing"]
  /\ UNCHANGED <<aborted, listening, failed, ready, link, outbox, entered, locked, toPage>>
  /\ UNCHANGED <<sender, receiver>> /\ SwIdle

\* and after it, where nothing looks at #failure
Register(c) ==
  /\ Alive
  /\ outcome[c] = "normalizing"
  /\ c \notin aborted
  /\ Enter(c, FALSE, FALSE)
  /\ UNCHANGED <<aborted, failed, ready, link, receiver>> /\ SwIdle

RegisterRefused(c) ==   \* the body could not be read, or the signal has fired
  /\ Alive
  /\ outcome[c] = "normalizing"
  /\ outcome' = [outcome EXCEPT ![c] = "rejected"]
  /\ UNCHANGED <<aborted, listening, failed, ready, link, outbox, entered, locked, toPage>>
  /\ UNCHANGED <<sender, receiver>> /\ SwIdle

AbortEarly(c) ==
  /\ Alive
  /\ outcome[c] = "normalizing"
  /\ c \in Signalled \ aborted
  /\ aborted' = aborted \cup {c}
  /\ UNCHANGED <<outcome, listening, failed, ready, link, outbox, entered, locked, toPage>>
  /\ UNCHANGED <<sender, receiver>> /\ SwIdle

(***************************************************************************)
(* The abort listener, attached until the call's response body is done:    *)
(* the page is told, both bodies stop, a pending call is rejected.         *)
(***************************************************************************)
HostAbort(c) ==
  /\ Alive
  /\ c \in listening
  /\ aborted' = aborted \cup {c}
  /\ listening' = listening \ {c}
  /\ LET stop == StopReceiver(ResponseBody(c), receiver[ResponseBody(c)]) IN
       /\ SwSend(<<Abort(c)>> \o stop.out)
       /\ receiver' = [receiver EXCEPT ![ResponseBody(c)] = stop.half]
  /\ sender' = [sender EXCEPT ![Request(c)] = StopSender(@)]
  /\ outcome' = [outcome EXCEPT ![c] = IF @ = "pending" THEN "rejected" ELSE @]
  /\ UNCHANGED <<failed, ready, link, entered, locked>> /\ SwIdle

(***************************************************************************)
(* #boot to the connection: the boot message, then what was buffered.  A   *)
(* port to a document that is gone is disconnected at once.                *)
(***************************************************************************)
Connect ==
  /\ link = "none"
  /\ link' = "up"
  /\ IF page = "gone"
     THEN toSw' = <<Disconnect>> /\ UNCHANGED toPage
     ELSE toPage' = <<Boot>> \o outbox /\ UNCHANGED toSw
  /\ outbox' = <<>>
  /\ UNCHANGED <<outcome, aborted, listening, failed, ready, entered, locked>>
  /\ UNCHANGED <<sender, receiver, pageVars>>

\* an asset is missing, or there is no offscreen document: the port never comes
BootFails ==
  /\ link = "none"
  /\ link' = "down"
  /\ outbox' = <<>>
  /\ Fail
  /\ UNCHANGED <<aborted, entered, locked, toPage>> /\ SwIdle

(***************************************************************************)
(* close(): tell the page and disconnect, or have the message buffered for *)
(* a boot that goes on; and fail, which nobody hears of through the port.  *)
(***************************************************************************)
Close ==
  /\ link \in {"none", "up"}
  /\ CloseMsg \notin ToSet(outbox)   \* a second close() adds nothing
  /\ Fail
  /\ IF link = "up"
     THEN /\ link' = "down"
          /\ toPage' = IF page = "gone" THEN toPage ELSE toPage \o <<CloseMsg, Disconnect>>
          /\ toSw' = <<>>
          /\ outbox' = outbox
     ELSE /\ outbox' = Append(outbox, CloseMsg)
          /\ UNCHANGED <<link, toPage, toSw>>
  /\ UNCHANGED <<aborted, entered, locked, pageVars>>

\* Chrome ends an idle service worker: its memory is gone, its port is closed
SwKilled ==
  /\ link = "up"
  /\ link' = "killed"
  /\ toPage' = IF page = "gone" THEN toPage ELSE Append(toPage, Disconnect)
  /\ toSw' = <<>>
  /\ listening' = {}
  /\ sender' = StopSenders("request")
  /\ receiver' = StopReceivers("response")
  /\ UNCHANGED <<outcome, aborted, failed, ready, outbox, entered, locked, pageVars>>

-----------------------------------------------------------------------------
(* The service worker's message handlers. *)

OnReady(m) ==
  /\ m.kind = "ready"
  /\ ready' = IF ready = "pending" THEN "resolved" ELSE ready
  /\ UNCHANGED <<outcome, listening, failed, link, sender, receiver>> /\ SwSend(<<>>)

OnFailed(m) ==
  /\ m.kind = "failed"
  /\ Fail /\ SwSend(FailSends)
  /\ UNCHANGED link

OnDisconnect(m) ==
  /\ m.kind = "disconnect"
  /\ Fail
  /\ link' = "down"
  /\ UNCHANGED <<outbox, toPage>>

\* the promise is resolved whether or not the call is still there
OnResponse_AnyCall(m) ==
  /\ m.kind = "response" /\ m.ok
  /\ outcome' = [outcome EXCEPT ![m.call] = "resolved"]
  /\ listening' = listening \ {m.call}
  /\ SwSend(<<>>)
  /\ UNCHANGED <<failed, ready, link, sender, receiver>>

\* the headers are here, the body streams in behind them
OnResponse(m) ==
  /\ m.kind = "response" /\ m.ok
  /\ outcome[m.call] = "pending"
  /\ outcome' = [outcome EXCEPT ![m.call] = "resolved"]
  /\ IF m.hasBody
     THEN LET r == Receiver(ResponseBody(m.call)) IN
            /\ receiver' = [receiver EXCEPT ![ResponseBody(m.call)] = r.half]
            /\ SwSend(r.out)
            /\ UNCHANGED listening
     ELSE /\ listening' = listening \ {m.call}
          /\ UNCHANGED receiver /\ SwSend(<<>>)
  /\ UNCHANGED <<failed, ready, link, sender>>

OnErrorResponse(m) ==
  /\ m.kind = "response" /\ ~m.ok
  /\ outcome[m.call] = "pending"
  /\ outcome' = [outcome EXCEPT ![m.call] = "rejected"]
  /\ listening' = listening \ {m.call}
  /\ sender' = [sender EXCEPT ![Request(m.call)] = StopSender(@)]
  /\ UNCHANGED <<failed, ready, link, receiver>> /\ SwSend(<<>>)

\* aborted, or failed, before the answer arrived
OnLateResponse(m) ==
  /\ m.kind = "response"
  /\ outcome[m.call] # "pending"
  /\ UNCHANGED <<outcome, listening, failed, ready, link, sender, receiver>> /\ SwSend(<<>>)

SwOnSenderMessage(m) ==
  /\ m.kind \in {"body.pull", "body.cancel"}
  /\ LET s == sender[m.body]
         step == IF m.kind = "body.pull" THEN OnPull(m.body, s) ELSE Quiet(StopSender(s)) IN
       /\ sender' = [sender EXCEPT ![m.body] = step.half]
       /\ SwSend(step.out)
  /\ UNCHANGED <<outcome, listening, failed, ready, link, receiver>>

SwOnReceiverMessage(m) ==
  /\ m.kind \in {"body.chunk", "body.end", "body.error"}
  /\ LET step == Deliver(m.body, receiver[m.body], m) IN
       /\ receiver' = [receiver EXCEPT ![m.body] = step.half]
       /\ listening' = IF Live(step.half) THEN listening ELSE listening \ {m.body[2]}
       /\ SwSend(step.out)
  /\ UNCHANGED <<outcome, failed, ready, link, sender>>

SwReceive ==
  /\ link = "up"
  /\ toSw # <<>>
  /\ LET m == Head(toSw) IN
       \/ OnReady(m) \/ OnFailed(m) \/ OnDisconnect(m)
       \/ OnResponse(m) \/ OnErrorResponse(m) \/ OnLateResponse(m)
       \/ SwOnSenderMessage(m) \/ SwOnReceiverMessage(m)
  /\ toSw' = Tail(toSw)
  /\ UNCHANGED <<aborted, entered, locked, pageVars>>

-----------------------------------------------------------------------------
(* The streams in the service worker: the caller's request body is read,   *)
(* and the caller reads, or gives up, the response's.                      *)

\* what may come of the read a pull started
ReadOutcome(b, s) ==
  (IF s.left # <<>> THEN {ReadChunk(b, s)} ELSE {})
    \cup (IF s.left = <<>> \/ s.done THEN {ReadEnd(b, s)} ELSE {})
    \cup {ReadError(b, s)}

SwSource(c) ==
  /\ Alive
  /\ sender[Request(c)].reading
  /\ \E step \in ReadOutcome(Request(c), sender[Request(c)]) :
       /\ sender' = [sender EXCEPT ![Request(c)] = step.half]
       /\ SwSend(step.out)
  /\ UNCHANGED <<outcome, aborted, listening, failed, ready, link, entered, locked, receiver>> /\ SwIdle

HostReads(c) ==
  /\ Alive
  /\ c \notin locked   \* nobody was given that response
  /\ receiver[ResponseBody(c)].queue # <<>>
  /\ LET step == Read(ResponseBody(c), receiver[ResponseBody(c)]) IN
       /\ receiver' = [receiver EXCEPT ![ResponseBody(c)] = step.half]
       /\ SwSend(step.out)
  /\ UNCHANGED <<outcome, aborted, listening, failed, ready, link, entered, locked, sender>> /\ SwIdle

HostCancels(c) ==
  /\ Alive
  /\ c \notin locked
  /\ Live(receiver[ResponseBody(c)])
  /\ LET step == StopReceiver(ResponseBody(c), receiver[ResponseBody(c)]) IN
       /\ receiver' = [receiver EXCEPT ![ResponseBody(c)] = step.half]
       /\ SwSend(step.out)
  /\ listening' = listening \ {c}
  /\ UNCHANGED <<outcome, aborted, failed, ready, link, entered, locked, sender>> /\ SwIdle

-----------------------------------------------------------------------------
(* The offscreen document. *)

PageIdle == UNCHANGED <<swVars, toPage>>

\* the promises a failed worker rejects are seen to before the next message
Tick == worker = "failed" => \A c \in Calls : fetching[c] # "running"

OnBoot(m) ==
  /\ m.kind = "boot"
  /\ page' = "attached"
  /\ UNCHANGED <<fetching, stopped, inFlight, sender, receiver>> /\ PageSend(<<>>)

OnFetch(m) ==
  /\ m.kind = "fetch"
  /\ fetching' = [fetching EXCEPT ![m.call] = "running"]
  /\ inFlight' = inFlight \cup {m.call}
  /\ IF m.bodyStream
     THEN LET r == Receiver(Request(m.call)) IN
            receiver' = [receiver EXCEPT ![Request(m.call)] = r.half] /\ PageSend(r.out)
     ELSE UNCHANGED receiver /\ PageSend(<<>>)
  /\ UNCHANGED <<page, stopped, sender>>

\* the bodies of the call go on
OnAbort_FetchOnly(m) ==
  /\ m.kind = "abort"
  /\ stopped' = stopped \cup (inFlight \cap {m.call})
  /\ inFlight' = inFlight \ {m.call}
  /\ UNCHANGED <<page, fetching, sender, receiver>> /\ PageSend(<<>>)

OnAbort(m) ==
  /\ m.kind = "abort"
  /\ stopped' = stopped \cup (inFlight \cap {m.call})
  /\ inFlight' = inFlight \ {m.call}
  /\ sender' = [sender EXCEPT ![ResponseBody(m.call)] = StopSender(@)]
  /\ LET stop == StopReceiver(Request(m.call), receiver[Request(m.call)]) IN
       /\ receiver' = [receiver EXCEPT ![Request(m.call)] = stop.half]
       /\ PageSend(stop.out)
  /\ UNCHANGED <<page, fetching>>

\* detach, by the close message or because the service worker is gone
OnDetach(m) ==
  /\ m.kind \in {"close", "disconnect"}
  /\ page' = "detached"
  /\ stopped' = stopped \cup inFlight
  /\ inFlight' = {}
  /\ sender' = StopSenders("response")
  /\ receiver' = StopReceivers("request")
  /\ UNCHANGED <<fetching, toSw>>

PageOnSenderMessage(m) ==
  /\ m.kind \in {"body.pull", "body.cancel"}
  /\ LET s == sender[m.body]
         step == IF m.kind = "body.pull" THEN OnPull(m.body, s) ELSE Quiet(StopSender(s)) IN
       /\ sender' = [sender EXCEPT ![m.body] = step.half]
       /\ inFlight' = IF ~s.done /\ step.half.done THEN inFlight \ {m.body[2]} ELSE inFlight
       /\ PageSend(step.out)
  /\ UNCHANGED <<page, fetching, stopped, receiver>>

PageOnReceiverMessage(m) ==
  /\ m.kind \in {"body.chunk", "body.end", "body.error"}
  /\ LET step == Deliver(m.body, receiver[m.body], m) IN
       /\ receiver' = [receiver EXCEPT ![m.body] = step.half]
       /\ PageSend(step.out)
  /\ UNCHANGED <<page, fetching, stopped, inFlight, sender>>

\* after the close message, in a port that came after close() and stays: nothing is booted
OnUnbooted(m) ==
  /\ page = "detached"
  /\ IF m.kind = "fetch"
     THEN /\ fetching' = [fetching EXCEPT ![m.call] = "refused"]
          /\ toSw' = IF link = "up" THEN Append(toSw, Response(m.call, FALSE, FALSE)) ELSE toSw
     ELSE UNCHANGED <<fetching, toSw>>
  /\ UNCHANGED <<page, stopped, inFlight, sender, receiver>>

Serve(m) ==
  /\ page \in {"none", "attached"}
  /\ \/ OnBoot(m) \/ OnFetch(m) \/ OnAbort(m) \/ OnDetach(m)
     \/ PageOnSenderMessage(m) \/ PageOnReceiverMessage(m)

PageReceive ==
  /\ Tick
  /\ toPage # <<>>
  /\ Serve(Head(toPage)) \/ OnUnbooted(Head(toPage))
  /\ toPage' = Tail(toPage)
  /\ UNCHANGED <<swVars, worker, replied>>

\* the document is closed, by Chrome or by the extension
PageGone ==
  /\ page # "gone"
  /\ page' = "gone"
  /\ toPage' = <<>>
  /\ toSw' = IF link = "up" THEN Append(toSw, Disconnect) ELSE toSw
  /\ fetching' = [c \in Calls |-> IF fetching[c] = "running" THEN "rejected" ELSE fetching[c]]
  /\ inFlight' = {}
  /\ sender' = StopSenders("response")
  /\ receiver' = StopReceivers("request")
  /\ UNCHANGED <<swVars, worker, stopped, replied>>

-----------------------------------------------------------------------------
(* The worker behind the page. *)

Attached == page = "attached"

WorkerReady ==
  /\ Attached
  /\ worker = "booting"
  /\ worker' = "ready"
  /\ PageSend(<<Ready>>)
  /\ UNCHANGED <<page, fetching, stopped, inFlight, replied, sender, receiver>> /\ PageIdle

WorkerFails ==
  /\ Attached
  /\ worker # "failed"
  /\ worker' = "failed"
  /\ PageSend(IF worker = "booting" THEN <<Failed>> ELSE <<>>)
  /\ UNCHANGED <<page, fetching, stopped, inFlight, replied, sender, receiver>> /\ PageIdle

(***************************************************************************)
(* The worker's fetch() settles.  Resolved, its headers go out and its     *)
(* body follows; rejected, whatever was left of the request's body goes.   *)
(***************************************************************************)
FetchResolves(c, hasBody) ==
  /\ fetching[c] = "running"
  /\ c \notin stopped
  /\ worker # "failed"
  /\ fetching' = [fetching EXCEPT ![c] = "resolved"]
  /\ replied' = replied \cup {c}
  /\ inFlight' = IF hasBody THEN inFlight ELSE inFlight \ {c}
  /\ sender' = IF hasBody
               THEN [sender EXCEPT ![ResponseBody(c)] = Sender(Source[ResponseBody(c)])] ELSE sender
  /\ PageSend(<<Response(c, TRUE, hasBody)>>)
  /\ UNCHANGED <<page, worker, stopped, receiver>> /\ PageIdle

FetchRejects(c) ==
  /\ fetching[c] = "running"
  /\ fetching' = [fetching EXCEPT ![c] = "rejected"]
  /\ inFlight' = inFlight \ {c}
  /\ LET stop == StopReceiver(Request(c), receiver[Request(c)]) IN
       /\ receiver' = [receiver EXCEPT ![Request(c)] = stop.half]
       /\ PageSend(stop.out \o <<Response(c, FALSE, FALSE)>>)
  /\ UNCHANGED <<page, worker, stopped, replied, sender>> /\ PageIdle

\* the worker's response body is read; the body done, the call leaves inFlight
PageSource(c) ==
  /\ page # "gone"
  /\ sender[ResponseBody(c)].reading
  /\ \E step \in ReadOutcome(ResponseBody(c), sender[ResponseBody(c)]) :
       /\ sender' = [sender EXCEPT ![ResponseBody(c)] = step.half]
       /\ inFlight' = IF step.half.done THEN inFlight \ {c} ELSE inFlight
       /\ PageSend(step.out)
  /\ UNCHANGED <<page, worker, fetching, stopped, replied, receiver>> /\ PageIdle

\* the worker reads the request's body, or cancels it
WorkerReads(c) ==
  /\ Attached
  /\ receiver[Request(c)].queue # <<>>
  /\ LET step == Read(Request(c), receiver[Request(c)]) IN
       receiver' = [receiver EXCEPT ![Request(c)] = step.half] /\ PageSend(step.out)
  /\ UNCHANGED <<pageVars, sender>> /\ PageIdle

WorkerCancels(c) ==
  /\ Attached
  /\ Live(receiver[Request(c)])
  /\ LET step == StopReceiver(Request(c), receiver[Request(c)]) IN
       receiver' = [receiver EXCEPT ![Request(c)] = step.half] /\ PageSend(step.out)
  /\ UNCHANGED <<pageVars, sender>> /\ PageIdle

-----------------------------------------------------------------------------

SwStep ==
  \/ \E c \in Calls :
       \/ FetchRefused(c) \/ FetchStreamed(c) \/ Fetch(c) \/ Register(c) \/ RegisterRefused(c)
       \/ AbortEarly(c) \/ HostAbort(c)
       \/ SwSource(c) \/ HostReads(c) \/ HostCancels(c)
  \/ Connect \/ BootFails \/ Close \/ SwKilled \/ SwReceive

PageStep ==
  \/ \E c \in Calls :
       \/ FetchResolves(c, TRUE) \/ FetchResolves(c, FALSE) \/ FetchRejects(c)
       \/ PageSource(c) \/ WorkerReads(c) \/ WorkerCancels(c)
  \/ WorkerReady \/ WorkerFails \/ PageReceive \/ PageGone

Next == SwStep \/ PageStep

Spec == Init /\ [][Next]_vars

-----------------------------------------------------------------------------

\* what a consumer reads is a prefix of the body, and a body that ends is whole
EndsWhole ==
  \A b \in Bodies : LET r == receiver[b] IN
    /\ IsPrefix(r.got \o r.queue, Pieces(b))
    /\ r.state = "closed" => r.got \o r.queue = Pieces(b) \/ (b[1] = "request" /\ worker = "failed")

\* backpressure: at most one piece has left the source's side and not been read
OneAhead ==
  \A b \in Bodies :
    LET way == toPage \o toSw
        chunks == {i \in DOMAIN way : way[i].kind = "body.chunk" /\ way[i].body = b} IN
      /\ Cardinality(chunks) + Len(receiver[b].queue) <= 1
      /\ sender[b].reading /\ Live(receiver[b]) => receiver[b].waiting /\ chunks = {}

(***************************************************************************)
(* No abort, cancel, failure or close that crosses a read makes a          *)
(* truncated body look complete, nor do chunks pile up ahead of whoever    *)
(* reads them.  (A sender that is cancelled in the middle of a read does   *)
(* say body.end; its receiver is done by then, or reads on behalf of a     *)
(* worker that has failed.)                                                *)
(***************************************************************************)
BodiesWhole == TypeOK /\ EndsWhole /\ OneAhead

\* An abort listener is attached exactly while there is a call or a body to
\* stop: also a call that fetch() has rejected for its locked stream, and then
\* the body of its response, which nobody reads.
ListensWhileOpen ==
  Alive => listening = {c \in Signalled : outcome[c] = "pending" \/ Live(receiver[ResponseBody(c)])}

\* and an AbortController held in the page likewise
ControllerWhileServed ==
  Attached => inFlight = {c \in Calls : \/ fetching[c] = "running" /\ c \notin stopped
                                        \/ ~sender[ResponseBody(c)].done}

(***************************************************************************)
(* An abort of a call the page is serving has reached the worker's fetch() *)
(* or will: it is on its way, or the connection's end is.  On either side  *)
(* what an abort needs is kept for exactly as long as there is something   *)
(* for it to stop.                                                         *)
(***************************************************************************)
AbortsArrive ==
  /\ ListensWhileOpen
  /\ ControllerWhileServed
  /\ \A c \in aborted : Attached /\ fetching[c] = "running" =>
       c \in stopped \/ Abort(c) \in ToSet(toPage) \/ Disconnect \in ToSet(toPage)

(***************************************************************************)
(* Neither half of a body outlives the other for good: a source is not     *)
(* left locked, nor a reader waiting, when the other side is done.  (The   *)
(* request body of a worker that has failed has no reader any more, and    *)
(* that of a call whose stream was locked never has a sender: the worker   *)
(* waits for it until the call or the connection ends.)                    *)
(***************************************************************************)
HalfOpen(b) == sender[b].done = Live(receiver[b])

NoHalfOpenBody ==
  \A b \in Bodies :
    HalfOpen(b) ~> (~HalfOpen(b) \/ (b[1] = "request" /\ (worker = "failed" \/ b[2] \in locked)))

(***************************************************************************)
(* The host gets the service every harness promises, except that a call    *)
(* may be refused and be delivered nevertheless: one with a locked stream. *)
(***************************************************************************)
Promise == [c \in Calls |-> IF c \in locked THEN "rejected" ELSE outcome[c]]

Service == INSTANCE CallService WITH
  Late <- Calls,
  outcome <- Promise,
  reached <- {c \in Calls : fetching[c] \notin {"none", "refused"}},
  dead <- failed

ImplementsService == Service!Spec

=============================================================================
