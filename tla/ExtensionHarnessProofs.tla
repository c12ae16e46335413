------------------------ MODULE ExtensionHarnessProofs ------------------------
(***************************************************************************)
(* Theorems about ExtensionHarness, for every set of calls, of pieces, of  *)
(* options and of readers and every bound: each body comes whole, aborts   *)
(* get to the document, the offscreen worker implements CallService, a     *)
(* worker in a page hands its calls on as they were made, and its log      *)
(* loses nothing it need not.                                              *)
(*                                                                         *)
(* The inductive invariants are IInv with FreshCalls (OffscreenCalls), and *)
(* LogInv and LinkInv within PageKept (PageWorker and WorkerLogs).         *)
(***************************************************************************)
EXTENDS ExtensionHarness, CallQueueTheorems

--------------------
(* The inductive invariant. *)

\* what may become of the calls, and of what the document does for them
Outcomes == [Calls -> {"idle", "normalizing", "pending", "resolved", "rejected"}]
Fates == [Calls -> {"none", "running", "resolved", "rejected", "refused"}]
USE DEF Outcomes, Fates

\* what has been sent and is not handled yet, buffered or in the port
Sent == ToSet(outbox) \cup ToSet(toPage) \cup ToSet(toSw)

\* what a sender sends
DataKinds == {"body.chunk", "body.end", "body.error"}

\* messages of which there is never another on the way
Rivals(x, y) ==
  \/ x.kind = y.kind /\ x.kind \in {"fetch", "response"} /\ x.call = y.call
  \/ x.kind = "body.pull" /\ y.kind = "body.pull" /\ x.body = y.body
  \/ x.kind \in DataKinds /\ y.kind \in DataKinds /\ x.body = y.body

\* which message may come before which in a port
Order ==
  {p \in (ToPage \cup ToSw) \X (ToPage \cup ToSw) :
     /\ ~Rivals(p[1], p[2])
     /\ p[2].kind # "boot"
     /\ ~(p[1].kind = "abort" /\ p[2].kind = "fetch" /\ p[1].call = p[2].call)}

\* each port, and the buffer, in order
Ports == InOrder(outbox, Order) /\ InOrder(toPage, Order) /\ InOrder(toSw, Order)

\* nothing an operation sends through the port arrives
Cut == link \in {"down", "killed"}

\* ... or nothing that arrives is served
Lost == Cut \/ page \in {"detached", "gone"}

\* the service worker's port, the document's connection, and what is on the way between them
Connection ==
  /\ link = "none" => toPage = <<>> /\ toSw = <<>> /\ page \in {"none", "gone"}
  /\ link # "none" => outbox = <<>>
  /\ Boot \notin ToSet(outbox) /\ Disconnect \notin ToSet(outbox)
  /\ page = "none" => toSw = <<>>
  /\ page = "none" /\ link = "up" => toPage # <<>> /\ Head(toPage) = Boot
  /\ page = "none" /\ toPage # <<>> => Head(toPage) = Boot
  /\ Boot \in Sent => page = "none"
  /\ page = "gone" => toPage = <<>>
  /\ Cut /\ page \in {"none", "attached"} => Disconnect \in ToSet(toPage) \/ (page = "none" /\ toPage = <<>>)
  /\ Disconnect \in ToSet(toPage) => Cut
  /\ Disconnect \in ToSet(toSw) => page = "gone"
  /\ Ready \in Sent => worker # "booting"
  /\ Failed \in Sent => worker = "failed"

\* what the document does for a call
Served(c) ==
  /\ page = "none" => fetching[c] = "none"
  /\ page # "attached" => ~Live(receiver[Request(c)])
  /\ fetching[c] = "running" /\ c \notin stopped => page = "attached"

\* how far a call is on its way to the document
Asked(c) ==
  /\ outcome[c] \in {"idle", "normalizing"} =>
       c \notin entered /\ sender[Request(c)] = NoSender /\ Abort(c) \notin Sent
  /\ \A s \in BOOLEAN : FetchMsg(c, s) \in Sent =>
       /\ c \in entered /\ fetching[c] = "none"
       /\ s => sender[Request(c)].left = Source[Request(c)]
  /\ fetching[c] # "none" => c \in entered
  /\ c \in entered /\ fetching[c] = "none" => Lost \/ \E s \in BOOLEAN : FetchMsg(c, s) \in Sent
  /\ fetching[c] = "none" => receiver[Request(c)].state = "none" /\ c \notin stopped
  /\ fetching[c] \in {"rejected", "refused"} => ~Live(receiver[Request(c)])

\* and its answer on the way back
Answered(c) ==
  /\ fetching[c] # "resolved" =>
       /\ sender[ResponseBody(c)] = NoSender /\ receiver[ResponseBody(c)].state = "none"
       /\ c \notin replied
  /\ \A ok, s \in BOOLEAN : Response(c, ok, s) \in Sent =>
       /\ receiver[ResponseBody(c)].state = "none"
       /\ fetching[c] \in IF ok THEN {"resolved"} ELSE {"rejected", "refused"}
       /\ ok => c \in replied
       /\ s => sender[ResponseBody(c)].left = Source[ResponseBody(c)]
  /\ outcome[c] # "resolved" => receiver[ResponseBody(c)].state = "none"

\* an abort that still matters is on its way
Aborted(c) ==
  /\ Abort(c) \in Sent => c \in aborted /\ outcome[c] # "pending" /\ ~Live(receiver[ResponseBody(c)])
  /\ c \in aborted \cap entered /\ fetching[c] \in {"none", "running"} /\ c \notin stopped =>
       Lost \/ Abort(c) \in Sent

\* what the sender has in hand, and its source after that
Unsent(s) == s.rest \o FlattenSeq(s.left)

\* what the receiver has got, read or not
Taken(r) == r.got \o r.queue

\* the messages about a body
About(b) == {Pull(b), Cancel(b)} \cup Data(b)

\* one body: its sender s, its receiver r, and the messages M on the way
Body(b, s, r, M) ==
  /\ s.reading => s.rest = <<>>
  /\ r.state = "none" =>
       /\ r = NoReceiver /\ ~s.reading /\ s.rest = <<>>
       /\ s = NoSender \/ s.left = Source[b]
       /\ M \cap About(b) = {}
  /\ ~Live(r) => r.queue = <<>> /\ ~r.waiting
  /\ r.waiting => r.queue = <<>>
  /\ Live(r) /\ ~r.waiting => r.queue # <<>> /\ Pull(b) \notin M /\ M \cap Data(b) = {} /\ ~s.reading
  /\ Len(r.queue) <= 1
  /\ Pull(b) \in M => ~s.reading /\ M \cap Data(b) = {}
  /\ s.reading => M \cap Data(b) = {}
  /\ Cancel(b) \in M => r.state = "stopped"
  /\ Live(r) /\ (~r.waiting \/ Pull(b) \in M \/ s.reading) => Taken(r) \o Unsent(s) = Pieces(b)
  /\ \A p \in Piece : Live(r) /\ Chunk(b, p) \in M => Append(Taken(r), p) \o Unsent(s) = Pieces(b)
  /\ IsPrefix(Taken(r), Pieces(b))

\* how a request's body ends
RequestBody(c) ==
  /\ Live(receiver[Request(c)]) /\ End(Request(c)) \in Sent =>
       \/ Taken(receiver[Request(c)]) = Pieces(Request(c)) \/ worker = "failed"
       \/ Prior(toPage, Abort(c), End(Request(c)))
  /\ sender[Request(c)].done /\ sender[Request(c)].reading /\ Live(receiver[Request(c)]) =>
       Cut \/ worker = "failed" \/ Abort(c) \in Sent
  /\ receiver[Request(c)].state = "closed" =>
       Taken(receiver[Request(c)]) = Pieces(Request(c)) \/ worker = "failed"

\* how a response's body ends
AnswerBody(c) ==
  /\ Live(receiver[ResponseBody(c)]) /\ End(ResponseBody(c)) \in Sent =>
       Taken(receiver[ResponseBody(c)]) = Pieces(ResponseBody(c))
  /\ sender[ResponseBody(c)].done /\ sender[ResponseBody(c)].reading /\ Live(receiver[ResponseBody(c)]) =>
       page # "attached"
  /\ receiver[ResponseBody(c)].state = "closed" =>
       Taken(receiver[ResponseBody(c)]) = Pieces(ResponseBody(c))

\* ControllerWhileServed, before the port's first message too
Controllers ==
  page \in {"none", "attached"} =>
    inFlight = {c \in Calls :
      \/ fetching[c] = "running" /\ c \notin stopped
      \/ ~sender[ResponseBody(c)].done}

IInv ==
  /\ TypeOK /\ Ports /\ Connection
  /\ \A c \in Calls : Served(c) /\ Asked(c) /\ Answered(c) /\ Aborted(c)
  /\ \A b \in Bodies : Body(b, sender[b], receiver[b], Sent)
  /\ \A c \in Calls : RequestBody(c) /\ AnswerBody(c)
  /\ ListensWhileOpen /\ Controllers

--------------------
(* A body. *)

\* the pieces of a body are those of its chunks
LEMMA PiecesType ==
  ASSUME NEW b \in Bodies
  PROVE  Source[b] \in Seq(Seq(Piece) \ {<<>>}) /\ Pieces(b) \in Seq(Piece)
<1>1. Source[b] \in Seq(Seq(Piece) \ {<<>>})
  BY SourceAssumption
<1>2. Source[b] \in Seq(Seq(Piece))
  BY <1>1, SeqMonotonic
<1>. QED  BY <1>1, <1>2, FlattenType DEF Pieces

\* the fields of a sender and of a receiver
LEMMA HalvesType ==
  ASSUME NEW s \in SenderType, NEW r \in ReceiverType
  PROVE
    /\ s.left \in Seq(Seq(Piece) \ {<<>>}) /\ s.rest \in Seq(Piece) /\ s.reading \in BOOLEAN
    /\ s.done \in BOOLEAN
    /\ FlattenSeq(s.left) \in Seq(Piece) /\ Unsent(s) \in Seq(Piece)
    /\ r.queue \in Seq(Piece) /\ r.got \in Seq(Piece) /\ r.waiting \in BOOLEAN
    /\ r.state \in {"none", "open", "closed", "stopped"}
    /\ Taken(r) \in Seq(Piece)
<1>1. /\ s.left \in Seq(Seq(Piece) \ {<<>>}) /\ s.rest \in Seq(Piece) /\ s.reading \in BOOLEAN
      /\ s.done \in BOOLEAN
      /\ r.queue \in Seq(Piece) /\ r.got \in Seq(Piece) /\ r.waiting \in BOOLEAN
      /\ r.state \in {"none", "open", "closed", "stopped"}
  BY DEF SenderType, ReceiverType
<1>2. s.left \in Seq(Seq(Piece))
  BY <1>1, SeqMonotonic
<1>3. FlattenSeq(s.left) \in Seq(Piece)
  BY <1>2, FlattenType
<1>. QED  BY <1>1, <1>3, ConcatProperties DEF Unsent, Taken

\* The messages about a body tell what they are and which body they are
\* about.
LEMMA MessageKinds ==
  \A b, p :
    /\ Pull(b).kind = "body.pull" /\ Pull(b).body = b
    /\ Cancel(b).kind = "body.cancel" /\ Cancel(b).body = b
    /\ End(b).kind = "body.end" /\ End(b).body = b
    /\ Error(b).kind = "body.error" /\ Error(b).body = b
    /\ Chunk(b, p).kind = "body.chunk" /\ Chunk(b, p).body = b /\ Chunk(b, p).piece = p
BY DEF Pull, Cancel, End, Error, Chunk

\* A body stays in order when its sender or its receiver stops, whatever
\* messages are lost then.
LEMMA BodyStops ==
  ASSUME
    NEW b \in Bodies, NEW s \in SenderType, NEW r \in ReceiverType, NEW M, NEW N,
    Body(b, s, r, M), NEW t \in {s, StopSender(s)}, NEW q \in {r, StopReceiver(b, r).half},
    \A m \in N \cap About(b) : m \in M \/ (m = Cancel(b) /\ Live(r) /\ ~Live(q))
  PROVE  /\ t \in SenderType /\ q \in ReceiverType
         /\ Body(b, t, q, N)
<1>1. /\ t.left = s.left /\ t.rest = s.rest /\ t.reading = s.reading /\ t \in SenderType
      /\ s = NoSender => t = NoSender
      /\ Unsent(t) = Unsent(s)
  BY DEF StopSender, SenderType, NoSender, Sender, Unsent
<1>2. /\ q.got = r.got /\ q \in ReceiverType
      /\ Live(q) => q = r
      /\ q = r \/ (Live(r) /\ q.state = "stopped" /\ q.queue = <<>> /\ q.waiting = FALSE)
  <2>1. CASE q = r
    BY <2>1
  <2>2. CASE q = [r EXCEPT !.state = "stopped", !.queue = <<>>, !.waiting = FALSE] /\ Live(r)
    <3>1. q.got = r.got /\ q.state = "stopped" /\ q.queue = <<>> /\ q.waiting = FALSE
      BY <2>2 DEF ReceiverType
    <3>2. q \in ReceiverType
      BY <2>2, EmptySeq DEF ReceiverType
    <3>. QED  BY <2>2, <3>1, <3>2 DEF Live
  <2>. QED  BY <2>1, <2>2 DEF StopReceiver, Step, Quiet
<1>. HIDE DEF Unsent
<1>3. IsPrefix(Taken(q), Pieces(b))
  <2>1. CASE q = r
    BY <2>1 DEF Body
  <2>2. CASE q.queue = <<>>
    <3>1. r.got \in Seq(Piece) /\ r.queue \in Seq(Piece) /\ Taken(r) = r.got \o r.queue
      BY HalvesType DEF Taken
    <3>2. IsPrefix(r.got, Pieces(b))
      BY <3>1, PiecesType, PrefixOfConcat DEF Body
    <3>3. Taken(q) = r.got
      BY <2>2, <1>2, <3>1, ConcatEmptySeq DEF Taken
    <3>. QED  BY <3>2, <3>3
  <2>. QED  BY <2>1, <2>2, <1>2
<1>4. \A m \in N \cap Data(b) : m \in M
  BY MessageKinds DEF About, Data
<1>5. Pull(b) \in N => Pull(b) \in M
  BY MessageKinds DEF About
<1>6. Cancel(b) \in N => q.state = "stopped"
  BY <1>2 DEF About, Body, Live
<1>7. Len(q.queue) <= 1
  BY <1>2, EmptySeq DEF Body
<1>8. q.state = "none" => q = r /\ N \cap About(b) = {}
  BY <1>2 DEF Body, Live
<1>9. \A p \in Piece : Chunk(b, p) \in N => Chunk(b, p) \in M
  BY <1>4 DEF Data
<1>10. N \cap Data(b) # {} => M \cap Data(b) # {}
  BY <1>4
<1>11. CASE q = r
  BY <1>1, <1>2, <1>3, <1>5, <1>6, <1>7, <1>8, <1>9, <1>10, <1>11 DEF Body
<1>12. CASE q.state = "stopped" /\ q.queue = <<>> /\ q.waiting = FALSE
  BY <1>1, <1>2, <1>3, <1>5, <1>6, <1>7, <1>8, <1>9, <1>10, <1>12 DEF Body, Live
<1>. QED  BY <1>1, <1>2, <1>11, <1>12

\* A receiver is made of a body that nothing was read of: it asks for the
\* first piece.
LEMMA BodyOpens ==
  ASSUME
    NEW b \in Bodies, NEW s \in SenderType, NEW r \in ReceiverType, NEW M, NEW N,
    Body(b, s, r, M), r.state = "none", s.left = Source[b],
    \A m \in N \cap About(b) : m \in M \/ m = Pull(b)
  PROVE  LET q == Receiver(b).half IN
           /\ q \in ReceiverType /\ Live(q) /\ Body(b, s, q, N) /\ Receiver(b).out = <<Pull(b)>>
           /\ N \cap Data(b) = {}
<1>. DEFINE q == Receiver(b).half
<1>1. q = [queue |-> <<>>, got |-> <<>>, waiting |-> TRUE, state |-> "open"] /\ Receiver(b).out = <<Pull(b)>>
  BY DEF Receiver, Refill, NoReceiver, Step
<1>. HIDE DEF q
<1>2. q \in ReceiverType /\ Live(q)
  BY <1>1, EmptySeq DEF ReceiverType, Live
<1>3. M \cap About(b) = {} /\ ~s.reading /\ s.rest = <<>>
  BY DEF Body
<1>4. N \cap Data(b) = {} /\ Cancel(b) \notin N
  BY <1>3, MessageKinds DEF About, Data
<1>5. /\ Pieces(b) \in Seq(Piece) /\ Unsent(s) \in Seq(Piece) /\ Unsent(s) = Pieces(b)
  BY <1>3, PiecesType, HalvesType, ConcatEmptySeq DEF Unsent, Pieces
<1>6. <<>> \in Seq(Piece) /\ Len(<<>>) = 0 /\ <<>> \o Pieces(b) = Pieces(b) /\ <<>> \o <<>> = <<>>
  BY <1>5, EmptySeq, ConcatEmptySeq
<1>7. Taken(q) = <<>>
  BY <1>1, <1>6 DEF Taken
<1>8. IsPrefix(<<>>, Pieces(b))
  BY <1>5, <1>6, PrefixOfConcat
<1>9. \A p \in Piece : Chunk(b, p) \notin N
  BY <1>4 DEF Data
<1>10. Body(b, s, q, N)
  BY <1>1, <1>3, <1>4, <1>5, <1>6, <1>7, <1>8, <1>9 DEF Body, Live
<1>. QED  BY <1>1, <1>2, <1>4, <1>10 DEF q

\* a sender is made, or fails to be, of a body that no receiver was made of
LEMMA BodyStarts ==
  ASSUME NEW b \in Bodies, NEW s \in SenderType, NEW r \in ReceiverType, NEW M, NEW N,
         Body(b, s, r, M), r.state = "none", \A m \in N \cap About(b) : m \in M,
         NEW t, t.left = Source[b], t.rest = <<>>, ~t.reading
  PROVE  Body(b, t, r, N)
<1>2. M \cap About(b) = {} /\ r = NoReceiver
  BY DEF Body
<1>3. N \cap About(b) = {}
  BY <1>2
<1>4. /\ N \cap Data(b) = {} /\ Pull(b) \notin N /\ Cancel(b) \notin N
      /\ \A p \in Piece : Chunk(b, p) \notin N
  BY <1>3 DEF About, Data
<1>5. r.queue = <<>> /\ r.waiting = FALSE /\ ~Live(r)
  BY <1>2 DEF NoReceiver, Live
<1>. QED  BY <1>2, <1>3, <1>4, <1>5 DEF Body

\* OnPull: a piece in hand is sent, and otherwise the source is read
LEMMA BodyPulled ==
  ASSUME
    NEW b \in Bodies, NEW s \in SenderType, NEW r \in ReceiverType, NEW M, NEW N,
    Body(b, s, r, M), Pull(b) \in M,
    \A m \in N \cap About(b) : (m \in M /\ m # Pull(b)) \/ m \in ToSet(OnPull(b, s).out)
  PROVE  LET t == OnPull(b, s).half IN
           /\ t \in SenderType /\ t.done = s.done /\ t.left = s.left /\ (t.reading /\ t.done => s.reading)
           /\ Body(b, t, r, N) /\ ToSet(OnPull(b, s).out) \subseteq {Chunk(b, p) : p \in Piece}
           /\ OnPull(b, s).out \in {<<>>} \cup {<<Chunk(b, p)>> : p \in Piece}
<1>. DEFINE t == OnPull(b, s).half out == OnPull(b, s).out
<1>1. /\ s.left \in Seq(Seq(Piece) \ {<<>>}) /\ s.rest \in Seq(Piece) /\ s.reading \in BOOLEAN
      /\ s.done \in BOOLEAN
      /\ FlattenSeq(s.left) \in Seq(Piece) /\ Unsent(s) \in Seq(Piece) /\ Taken(r) \in Seq(Piece)
  BY HalvesType
<1>2. /\ ~s.reading /\ M \cap Data(b) = {} /\ r.state # "none" /\ (Live(r) => r.waiting)
      /\ Live(r) => Taken(r) \o Unsent(s) = Pieces(b)
  BY DEF Body, About, Live
<1>3. CASE s.done
  <2>1. t = s /\ out = <<>>
    BY <1>3 DEF OnPull, Quiet, Step
  <2>. HIDE DEF t, out
  <2>2. \A m \in N \cap About(b) : m \in M
    BY <2>1, OneMember DEF out
  <2>3. Body(b, s, r, N)
    BY <2>2, BodyStops
  <2>. QED  BY <2>1, <2>3, OneMember DEF t, out
<1>4. CASE ~s.done /\ s.rest # <<>>
  <2>. DEFINE h == Head(s.rest)
  <2>1. t = [s EXCEPT !.rest = Tail(s.rest)] /\ out = <<Chunk(b, h)>>
    BY <1>4 DEF OnPull, Step
  <2>2. h \in Piece /\ Tail(s.rest) \in Seq(Piece)
    BY <1>1, <1>4, HeadTailProperties
  <2>. HIDE DEF t, out
  <2>3. /\ t.rest = Tail(s.rest) /\ t.left = s.left /\ t.reading = s.reading /\ t.done = s.done
        /\ t \in SenderType
    BY <2>1, <2>2 DEF SenderType
  <2>4. Append(Taken(r), h) \o Unsent(t) = Taken(r) \o Unsent(s)
    <3>1. PICK x \in Seq(Piece), y \in Seq(Piece), z \in Seq(Piece) :
            x = Taken(r) /\ y = s.rest /\ z = FlattenSeq(s.left)
      BY <1>1
    <3>2. x \o (y \o z) = Append(x, Head(y)) \o (Tail(y) \o z)
      <4>1. y # <<>>
        BY <1>4, <3>1
      <4>. QED  BY <4>1, AheadMoves, SMTT(20)
    <3>. QED  BY <2>3, <3>1, <3>2 DEF Unsent
  <2>. HIDE DEF h
  <2>5. \A m \in N \cap About(b) : (m \in M /\ m # Pull(b)) \/ m = Chunk(b, h)
    BY <2>1, OneMember DEF out
  <2>6. Pull(b) \notin N /\ (Cancel(b) \in N => Cancel(b) \in M)
    BY <2>5, MessageKinds DEF About
  <2>7. \A p \in Piece : Chunk(b, p) \in N => p = h
    <3>1. \A p \in Piece : Chunk(b, p) \in Data(b) /\ Chunk(b, p) \in About(b)
      BY DEF Data, About
    <3>. QED  BY <3>1, <2>5, <1>2, MessageKinds
  <2>8. Body(b, t, r, N)
    BY <1>2, <2>3, <2>4, <2>6, <2>7 DEF Body
  <2>9. ToSet(out) \subseteq {Chunk(b, p) : p \in Piece} /\ out \in {<<Chunk(b, p)>> : p \in Piece}
    <3>1. \A y : y \in ToSet(out) <=> y = Chunk(b, h)
      BY <2>1, OneMember, Zenon
    <3>. QED  BY <2>1, <2>2, <3>1
  <2>. QED  BY <2>3, <2>8, <2>9, <1>2 DEF t, out
<1>5. CASE ~s.done /\ s.rest = <<>>
  <2>1. t = [s EXCEPT !.reading = TRUE] /\ out = <<>>
    BY <1>5 DEF OnPull, Step, Quiet
  <2>. HIDE DEF t, out
  <2>2. /\ t.rest = s.rest /\ t.left = s.left /\ t.reading = TRUE /\ t.done = s.done /\ t \in SenderType
    BY <2>1 DEF SenderType
  <2>3. Unsent(t) = Unsent(s)
    BY <2>2 DEF Unsent
  <2>4. \A m \in N \cap About(b) : m \in M /\ m # Pull(b)
    BY <2>1, OneMember DEF out
  <2>5. Pull(b) \notin N /\ (Cancel(b) \in N => Cancel(b) \in M) /\ N \cap Data(b) = {}
    BY <2>4, <1>2 DEF About
  <2>6. \A p \in Piece : Chunk(b, p) \notin N
    BY <2>5 DEF Data
  <2>7. Body(b, t, r, N)
    BY <1>2, <1>5, <2>2, <2>3, <2>5, <2>6 DEF Body
  <2>. QED  BY <2>1, <2>2, <2>7, <1>5, OneMember DEF t, out
<1>. QED  BY <1>3, <1>4, <1>5

\* what a sender's message leads to: q is the receiver, out its answer
DeliverySafe(b, s, r, M, m, q, out) ==
  /\ q \in ReceiverType /\ (Live(q) => Live(r)) /\ r.state # "none" /\ q.state # "none"
  /\ out \in {<<>>, <<Cancel(b)>>}
  /\ q.state = "closed" => r.state = "closed" \/ (Live(r) /\ m = End(b))
  /\ q.state = "closed" => Taken(q) = Taken(r)
  /\ Cancel(b) \in ToSet(out) => Live(r)
  /\ \A N : (\A n \in N \cap About(b) : (n \in M /\ n \notin Data(b)) \/ n \in ToSet(out)) => Body(b, s, q, N)

\* onChunk, onEnd and onError: the piece is taken, or the body is over, or
\* the receiver was stopped and says so.
LEMMA DeliveryIsSafe ==
  ASSUME NEW b \in Bodies, NEW s \in SenderType, NEW r \in ReceiverType, NEW M,
         Body(b, s, r, M), NEW m \in M \cap Data(b)
  PROVE  DeliverySafe(b, s, r, M, m, Deliver(b, r, m).half, Deliver(b, r, m).out)
<1>. DEFINE q == Deliver(b, r, m).half out == Deliver(b, r, m).out
<1>1. ASSUME NEW N, \A n \in N \cap About(b) : (n \in M /\ n \notin Data(b)) \/ n \in ToSet(out)
      PROVE
        /\ q \in ReceiverType /\ (Live(q) => Live(r)) /\ r.state # "none" /\ q.state # "none"
        /\ Body(b, s, q, N) /\ out \in {<<>>, <<Cancel(b)>>}
        /\ q.state = "closed" => r.state = "closed" \/ (Live(r) /\ m = End(b))
        /\ q.state = "closed" => Taken(q) = Taken(r)
        /\ Cancel(b) \in ToSet(out) => Live(r)
  <2>. USE <1>1 DEF q, out
  <2>1. /\ r.queue \in Seq(Piece) /\ r.got \in Seq(Piece) /\ Taken(r) \in Seq(Piece)
        /\ r.waiting \in BOOLEAN /\ r.state \in {"none", "open", "closed", "stopped"}
    BY HalvesType
  <2>2. ~s.reading /\ Pull(b) \notin M /\ r.state # "none" /\ (Live(r) => r.waiting /\ r.queue = <<>>)
    BY DEF Body, About
  <2>3. CASE ~Live(r)
    <3>1. q = r /\ out = <<>>
      BY <2>3 DEF Deliver, Quiet, Step
    <3>2. \A n \in N \cap About(b) : n \in M
      BY <3>1, OneMember
    <3>3. Body(b, s, r, N)
      BY <3>2, BodyStops
    <3>4. Cancel(b) \notin ToSet(out)
      BY <3>1, OneMember
    <3>. QED  BY <2>2, <2>3, <3>1, <3>3, <3>4
  <2>4. CASE Live(r) /\ m.kind = "body.chunk"
    <3>1. PICK p \in Piece : m = Chunk(b, p)
      BY <2>4, MessageKinds DEF Data
    <3>2. m.piece = p
      BY <3>1, MessageKinds
    <3>. DEFINE w == [r EXCEPT !.queue = Append(@, p), !.waiting = FALSE]
    <3>3. Append(r.queue, p) = <<p>> /\ <<p>> # <<>> /\ <<p>> \in Seq(Piece) /\ Len(<<p>>) = 1
      <4>1. r.queue = <<>>
        BY <2>2, <2>4
      <4>2. Append(<<>>, p) = <<p>> /\ <<p>> # <<>> /\ <<p>> \in Seq(Piece) /\ Len(<<p>>) = 1
        OBVIOUS
      <4>. QED  BY <4>1, <4>2
    <3>4. /\ w.queue = <<p>> /\ w.got = r.got /\ w.waiting = FALSE /\ w.state = "open" /\ w \in ReceiverType
      BY <2>4, <3>3 DEF ReceiverType, Live
    <3>5. q = w /\ out = <<>>
      <4>1. Refill(b, w) = Quiet(w)
        BY <3>3, <3>4 DEF Refill
      <4>2. Deliver(b, r, m) = Refill(b, w)
        BY <2>4, <3>2 DEF Deliver
      <4>. QED  BY <4>1, <4>2 DEF Quiet, Step
    <3>6. \A n \in N \cap About(b) : n \in M /\ n \notin Data(b)
      BY <3>5, OneMember
    <3>. HIDE DEF w
    <3>7. N \cap Data(b) = {} /\ Pull(b) \notin N /\ Cancel(b) \notin N
      BY <2>2, <2>4, <3>6 DEF About, Body, Live
    <3>8. \A e \in Piece : Chunk(b, e) \notin N
      BY <3>7 DEF Data
    <3>9. /\ Taken(r) = r.got /\ Taken(w) = Append(Taken(r), p) /\ Taken(w) \in Seq(Piece)
          /\ Unsent(s) \in Seq(Piece)
      <4>1. Taken(r) = r.got
        BY <2>1, <2>2, <2>4, ConcatEmptySeq DEF Taken
      <4>2. Append(r.got, p) = r.got \o <<p>>
        BY <2>1, AppendIsConcat
      <4>. QED  BY <3>4, <4>1, <4>2, HalvesType DEF Taken
    <3>10. Taken(w) \o Unsent(s) = Pieces(b)
      BY <2>4, <3>1, <3>9 DEF Body
    <3>11. IsPrefix(Taken(w), Pieces(b))
      BY <3>9, <3>10, PiecesType, PrefixOfConcat
    <3>12. Body(b, s, w, N)
      BY <2>2, <3>3, <3>4, <3>7, <3>8, <3>10, <3>11 DEF Body, Live
    <3>13. Cancel(b) \notin ToSet(out)
      BY <3>5, OneMember
    <3>. QED  BY <2>2, <2>4, <3>4, <3>5, <3>12, <3>13
  <2>5. CASE Live(r) /\ m.kind = "body.end"
    <3>. DEFINE w == [r EXCEPT !.state = "closed", !.waiting = FALSE]
    <3>1. /\ w.queue = <<>> /\ w.got = r.got /\ w.queue = r.queue /\ w.waiting = FALSE /\ w.state = "closed"
          /\ w \in ReceiverType
      BY <2>2, <2>5 DEF ReceiverType
    <3>2. q = w /\ out = <<>>
      BY <2>5 DEF Deliver, Quiet, Step
    <3>3. m = End(b)
      BY <2>5, MessageKinds DEF Data
    <3>4. \A n \in N \cap About(b) : n \in M /\ n \notin Data(b)
      BY <3>2, OneMember
    <3>. HIDE DEF w
    <3>5. N \cap Data(b) = {} /\ Pull(b) \notin N /\ Cancel(b) \notin N
      BY <2>2, <2>5, <3>4 DEF About, Body, Live
    <3>6. \A e \in Piece : Chunk(b, e) \notin N
      BY <3>5 DEF Data
    <3>7. Taken(w) = Taken(r) /\ IsPrefix(Taken(w), Pieces(b)) /\ Len(w.queue) <= 1
      BY <3>1 DEF Taken, Body
    <3>8. Body(b, s, w, N)
      BY <2>2, <3>1, <3>5, <3>6, <3>7 DEF Body, Live
    <3>9. Cancel(b) \notin ToSet(out)
      BY <3>2, OneMember
    <3>. QED  BY <2>2, <2>5, <3>1, <3>2, <3>3, <3>7, <3>8, <3>9 DEF Live
  <2>6. CASE Live(r) /\ m.kind \notin {"body.chunk", "body.end"}
    <3>1. q = StopReceiver(b, r).half /\ out = <<Cancel(b)>>
      BY <2>6 DEF Deliver, StopReceiver, Step
    <3>2. q.state = "stopped"
      BY <2>6 DEF Deliver, StopReceiver, Step, ReceiverType
    <3>3. \A n \in N \cap About(b) : n \in M \/ (n = Cancel(b) /\ Live(r) /\ ~Live(q))
      BY <2>6, <3>1, <3>2, OneMember DEF Live
    <3>4. q \in ReceiverType /\ Body(b, s, q, N)
      BY <3>1, <3>3, BodyStops
    <3>. QED  BY <2>2, <2>6, <3>1, <3>2, <3>4 DEF Live
  <2>. QED  BY <2>3, <2>4, <2>5, <2>6
<1>2. \A n \in {} \cap About(b) : (n \in M /\ n \notin Data(b)) \/ n \in ToSet(out)
  OBVIOUS
<1>. HIDE DEF q, out
<1>. QED  BY <1>1, <1>2 DEF DeliverySafe, q, out

\* The source has answered: a chunk is cut into pieces and the first is
\* sent, or the end or the error is.
LEMMA BodySourced ==
  ASSUME
    NEW b \in Bodies, NEW s \in SenderType, NEW r \in ReceiverType, NEW M, NEW N,
    Body(b, s, r, M), s.reading, NEW step \in ReadOutcome(b, s),
    \A m \in N \cap About(b) : m \in M \/ m \in ToSet(step.out)
  PROVE  LET t == step.half IN
           /\ t \in SenderType /\ ~t.reading /\ (s.done => t.done)
           /\ Body(b, t, r, N) /\ r.state # "none" /\ M \cap Data(b) = {}
           /\ step.out \in {<<>>} \cup {<<d>> : d \in Data(b)}
           /\ End(b) \in ToSet(step.out) => s.done \/ (Live(r) => Taken(r) = Pieces(b))
<1>. DEFINE t == step.half out == step.out
<1>1. /\ s.left \in Seq(Seq(Piece) \ {<<>>}) /\ s.rest \in Seq(Piece) /\ s.reading \in BOOLEAN
      /\ s.done \in BOOLEAN
      /\ FlattenSeq(s.left) \in Seq(Piece) /\ Unsent(s) \in Seq(Piece) /\ Taken(r) \in Seq(Piece)
  BY HalvesType
<1>2. /\ M \cap Data(b) = {} /\ Pull(b) \notin M /\ r.state # "none" /\ s.rest = <<>>
      /\ Live(r) => r.waiting /\ Taken(r) \o Unsent(s) = Pieces(b)
  BY DEF Body
<1>moves. \A y, z \in Seq(Piece) :
            y # <<>> => Taken(r) \o (y \o z) = Append(Taken(r), Head(y)) \o (Tail(y) \o z)
  <2>1. Taken(r) \in Seq(Piece)
    BY <1>1
  <2>2. PICK x \in Seq(Piece) : x = Taken(r)
    BY <2>1
  <2>3. \A y, z \in Seq(Piece) : y # <<>> => x \o (y \o z) = Append(x, Head(y)) \o (Tail(y) \o z)
    BY AheadMovesAny, SMTT(20)
  <2>. QED  BY <2>2, <2>3
<1>3. Unsent(s) = FlattenSeq(s.left)
  BY <1>1, <1>2, ConcatEmptySeq DEF Unsent
<1>4. CASE s.left # <<>> /\ step = ReadChunk(b, s)
  <2>. DEFINE h == Head(s.left) p == Head(h)
  <2>1. h \in Seq(Piece) /\ h # <<>> /\ Tail(s.left) \in Seq(Seq(Piece) \ {<<>>})
    BY <1>1, <1>4, HeadTailProperties
  <2>2. p \in Piece /\ Tail(h) \in Seq(Piece)
    BY <2>1, HeadTailProperties
  <2>3. t = [s EXCEPT !.left = Tail(@), !.reading = FALSE, !.rest = Tail(h)]
        /\ out = IF s.done THEN <<>> ELSE <<Chunk(b, p)>>
    BY <1>4 DEF ReadChunk, Step
  <2>. HIDE DEF t, out
  <2>4. /\ t.left = Tail(s.left) /\ t.reading = FALSE /\ t.rest = Tail(h) /\ t.done = s.done
        /\ t \in SenderType
    BY <2>1, <2>2, <2>3 DEF SenderType
  <2>5. s.left \in Seq(Seq(Piece)) /\ Tail(s.left) \in Seq(Seq(Piece))
    BY <1>1, <2>1, SeqMonotonic
  <2>6. FlattenSeq(s.left) = h \o FlattenSeq(Tail(s.left)) /\ FlattenSeq(Tail(s.left)) \in Seq(Piece)
    BY <1>4, <2>5, FlattenCons, FlattenType
  <2>7. Append(Taken(r), p) \o Unsent(t) = Taken(r) \o Unsent(s)
    <3>1. Taken(r) \o (h \o FlattenSeq(Tail(s.left))) = Append(Taken(r),
               p) \o (Tail(h) \o FlattenSeq(Tail(s.left)))
      BY <1>moves, <2>1, <2>6
    <3>. QED  BY <1>3, <2>4, <2>6, <3>1 DEF Unsent
  <2>. HIDE DEF h, p
  <2>8. \A m \in N \cap About(b) : m \in M \/ (~s.done /\ m = Chunk(b, p))
    BY <2>3, OneMember DEF out
  <2>9. Pull(b) \notin N /\ (Cancel(b) \in N => Cancel(b) \in M)
    BY <1>2, <2>8, MessageKinds DEF About
  <2>10. \A e \in Piece : Chunk(b, e) \in N => e = p
    <3>1. \A e \in Piece : Chunk(b, e) \in Data(b) /\ Chunk(b, e) \in About(b)
      BY DEF Data, About
    <3>. QED  BY <3>1, <2>8, <1>2, MessageKinds
  <2>11. Body(b, t, r, N)
    BY <1>2, <2>4, <2>7, <2>9, <2>10 DEF Body
  <2>12. out \in {<<>>} \cup {<<d>> : d \in Data(b)} /\ End(b) \notin ToSet(out)
    <3>1. Chunk(b, p) \in Data(b) /\ Chunk(b, p) # End(b)
      BY <2>2, MessageKinds DEF Data
    <3>. QED  BY <2>3, <3>1, OneMember
  <2>. QED  BY <1>2, <2>4, <2>11, <2>12 DEF t, out
<1>5. CASE step \in {ReadEnd(b, s), ReadError(b, s)} /\ (step = ReadEnd(b, s) => s.left = <<>> \/ s.done)
  <2>1. t = [s EXCEPT !.reading = FALSE, !.done = TRUE] /\ out \in {<<>>, <<End(b)>>, <<Error(b)>>}
    BY <1>5 DEF ReadEnd, ReadError, Step
  <2>2. out = <<End(b)>> => s.left = <<>> \/ s.done
    <3>1. CASE step = ReadEnd(b, s)
      BY <1>5, <3>1
    <3>2. CASE step = ReadError(b, s)
      <4>1. out = IF s.done THEN <<>> ELSE <<Error(b)>>
        BY <3>2 DEF ReadError, Step
      <4>2. End(b) # Error(b)
        BY MessageKinds
      <4>. QED  BY <4>1, <4>2
    <3>. QED  BY <1>5, <3>1, <3>2
  <2>. HIDE DEF t, out
  <2>3. /\ t.left = s.left /\ t.reading = FALSE /\ t.rest = <<>> /\ t.done = TRUE /\ t \in SenderType
    BY <1>2, <2>1 DEF SenderType
  <2>4. \A m \in N \cap About(b) : m \in M \/ m = End(b) \/ m = Error(b)
    BY <2>1, OneMember DEF out
  <2>5. Pull(b) \notin N /\ (Cancel(b) \in N => Cancel(b) \in M)
    BY <1>2, <2>4, MessageKinds DEF About
  <2>6. \A e \in Piece : Chunk(b, e) \notin N
    <3>1. \A e \in Piece : Chunk(b, e) \in Data(b) /\ Chunk(b, e) \in About(b)
      BY DEF Data, About
    <3>. QED  BY <3>1, <2>4, <1>2, MessageKinds
  <2>7. Body(b, t, r, N)
    BY <1>2, <2>3, <2>5, <2>6 DEF Body
  <2>8. End(b) \in ToSet(out) => s.done \/ (Live(r) => Taken(r) = Pieces(b))
    <3>. SUFFICES ASSUME End(b) \in ToSet(out), ~s.done, Live(r) PROVE Taken(r) = Pieces(b)
      OBVIOUS
    <3>1. out = <<End(b)>>
      <4>1. ~(End(b) \in ToSet(<<>>)) /\ (End(b) \in ToSet(<<Error(b)>>) => End(b) = Error(b))
        BY OneMember
      <4>2. End(b) # Error(b)
        BY MessageKinds
      <4>. QED  BY <2>1, <4>1, <4>2
    <3>2. Unsent(s) = <<>>
      BY <1>3, <2>2, <3>1 DEF FlattenSeq
    <3>. QED  BY <1>1, <1>2, <3>2, ConcatEmptySeq
  <2>9. out \in {<<>>} \cup {<<d>> : d \in Data(b)}
    BY <2>1 DEF Data
  <2>. QED  BY <1>2, <2>3, <2>7, <2>8, <2>9 DEF t, out
<1>6. \/ s.left # <<>> /\ step = ReadChunk(b, s)
      \/ step \in {ReadEnd(b, s), ReadError(b, s)} /\ (step = ReadEnd(b, s) => s.left = <<>> \/ s.done)
  <2>1. ReadEnd(b, s) = ReadError(b, s) => s.left = <<>> \/ s.done
    <3>1. s.done \/ (ReadEnd(b, s).out = <<End(b)>> /\ ReadError(b, s).out = <<Error(b)>>)
      BY DEF ReadEnd, ReadError, Step
    <3>2. <<End(b)>> # <<Error(b)>>
      BY MessageKinds
    <3>. QED  BY <3>1, <3>2
  <2>2. step \in (IF s.left # <<>> THEN {ReadChunk(b, s)} ELSE {})
        \/ step \in (IF s.left = <<>> \/ s.done THEN {ReadEnd(b, s)} ELSE {}) \/ step = ReadError(b, s)
    BY DEF ReadOutcome
  <2>. QED  BY <2>1, <2>2
<1>. QED  BY <1>4, <1>5, <1>6

\* the queued piece is read, and the next one asked for
LEMMA BodyRead ==
  ASSUME
    NEW b \in Bodies, NEW s \in SenderType, NEW r \in ReceiverType, NEW M, NEW N,
    Body(b, s, r, M), r.queue # <<>>,
    \A m \in N \cap About(b) : m \in M \/ m \in ToSet(Read(b, r).out)
  PROVE  LET q == Read(b, r).half IN
           /\ q \in ReceiverType /\ Live(r) /\ Live(q) /\ Taken(q) = Taken(r)
           /\ Body(b, s, q, N) /\ Read(b, r).out = <<Pull(b)>>
           /\ Pull(b) \notin M /\ M \cap Data(b) = {}
<1>. DEFINE q == Read(b, r).half out == Read(b, r).out
            w == [r EXCEPT !.queue = Tail(@), !.got = Append(@, Head(r.queue))]
<1>1. /\ r.queue \in Seq(Piece) /\ r.got \in Seq(Piece) /\ Taken(r) \in Seq(Piece) /\ Unsent(s) \in Seq(Piece)
      /\ r.waiting \in BOOLEAN /\ r.state \in {"none", "open", "closed", "stopped"}
  BY HalvesType
<1>2. /\ Live(r) /\ ~r.waiting /\ ~s.reading /\ M \cap Data(b) = {} /\ Pull(b) \notin M
      /\ Len(r.queue) <= 1 /\ Taken(r) \o Unsent(s) = Pieces(b) /\ IsPrefix(Taken(r), Pieces(b))
  BY DEF Body
<1>3. /\ Append(r.got, Head(r.queue)) \in Seq(Piece) /\ Tail(r.queue) \in Seq(Piece)
      /\ Append(r.got, Head(r.queue)) \o Tail(r.queue) = r.got \o r.queue
  <2>1. \A x, y \in Seq(Piece) : y # <<>> =>
          Append(x, Head(y)) \o Tail(y) = x \o y /\ Append(x, Head(y)) \in Seq(Piece)
            /\ Tail(y) \in Seq(Piece)
    BY HeadMoves
  <2>. QED  BY <1>1, <2>1
<1>4. Tail(r.queue) = <<>>
  <2>1. Len(Tail(r.queue)) = Len(r.queue) - 1 /\ Len(r.queue) \in Nat /\ Len(r.queue) # 0
    BY <1>1, HeadTailProperties, LenProperties, EmptySeq
  <2>2. Len(Tail(r.queue)) = 0
    <3>1. PICK n \in Nat : n = Len(r.queue)
      BY <2>1
    <3>2. n <= 1 /\ n # 0
      BY <1>2, <2>1, <3>1
    <3>3. n = 1
      BY <3>2
    <3>. QED  BY <2>1, <3>1, <3>3
  <2>. QED  BY <1>3, <2>2, EmptySeq
<1>5. /\ w.queue = <<>> /\ w.got = Append(r.got, Head(r.queue)) /\ w.waiting = FALSE /\ w.state = "open"
      /\ w \in ReceiverType
  BY <1>2, <1>3, <1>4 DEF ReceiverType, Live
<1>6. q = [w EXCEPT !.waiting = TRUE] /\ out = <<Pull(b)>>
  BY <1>5 DEF Read, Refill, Step
<1>. HIDE DEF w, q, out
<1>7. /\ q.queue = <<>> /\ q.got = w.got /\ q.waiting = TRUE /\ q.state = "open" /\ q \in ReceiverType
  BY <1>5, <1>6 DEF ReceiverType
<1>8. Taken(q) = Taken(r)
  BY <1>3, <1>4, <1>5, <1>7 DEF Taken
<1>9. \A m \in N \cap About(b) : m \in M \/ m = Pull(b)
  BY <1>6, OneMember DEF out
<1>10. N \cap Data(b) = {} /\ (Cancel(b) \in N => Cancel(b) \in M)
  BY <1>2, <1>9, MessageKinds DEF About, Data
<1>11. \A e \in Piece : Chunk(b, e) \notin N
  BY <1>10 DEF Data
<1>12. Len(q.queue) <= 1
  BY <1>7
<1>13. Body(b, s, q, N)
  BY <1>2, <1>7, <1>8, <1>10, <1>11, <1>12 DEF Body, Live
<1>. QED  BY <1>2, <1>6, <1>7, <1>8, <1>13 DEF q, out, Live

--------------------
(* Ports. *)

\* what a port carries
Message == ToPage \cup ToSw

\* what the messages carry
LEMMA MessageFields ==
  /\ Boot.kind = "boot" /\ CloseMsg.kind = "close" /\ Disconnect.kind = "disconnect"
  /\ Ready.kind = "ready" /\ Failed.kind = "failed"
  /\ \A c : Abort(c).kind = "abort" /\ Abort(c).call = c
  /\ \A c, s : FetchMsg(c, s).kind = "fetch" /\ FetchMsg(c, s).call = c /\ FetchMsg(c, s).bodyStream = s
  /\ \A c, ok, s :
    /\ Response(c, ok, s).kind = "response" /\ Response(c, ok, s).call = c
    /\ Response(c, ok, s).ok = ok /\ Response(c, ok, s).hasBody = s
BY DEF Boot, CloseMsg, Disconnect, Ready, Failed, Abort, FetchMsg, Response

\* each body is the request's or the response's of one call
LEMMA BodiesOf ==
  /\ \A c \in Calls : Request(c) \in Bodies /\ ResponseBody(c) \in Bodies
  /\ \A c, d :
    /\ Request(c) = Request(d) <=> c = d
    /\ ResponseBody(c) = ResponseBody(d) <=> c = d
    /\ Request(c) # ResponseBody(d)
  /\ \A c : /\ Request(c)[1] = "request" /\ Request(c)[2] = c
            /\ ResponseBody(c)[1] = "response" /\ ResponseBody(c)[2] = c
  /\ \A b \in Bodies : \E c \in Calls : b = Request(c) \/ b = ResponseBody(c)
BY DEF Request, ResponseBody, Bodies, Channels

\* the messages of each direction by their kinds
LEMMA KindsToPage ==
  ASSUME NEW m \in ToPage
  PROVE
    \/ m = Boot \/ m = CloseMsg \/ m = Disconnect
    \/ \E c \in Calls, s \in BOOLEAN : m = FetchMsg(c, s)
    \/ \E c \in Signalled : m = Abort(c)
    \/ \E c \in Calls : m \in Data(Request(c)) \/ m = Pull(ResponseBody(c))
         \/ m = Cancel(ResponseBody(c))
BY DEF ToPage

\* what the document sends
LEMMA KindsToSw ==
  ASSUME NEW m \in ToSw
  PROVE  \/ m = Ready \/ m = Failed \/ m = Disconnect
         \/ \E c \in Calls, ok, s \in BOOLEAN : m = Response(c, ok, s)
         \/ \E c \in Calls : m \in Data(ResponseBody(c)) \/ m = Pull(Request(c)) \/ m = Cancel(Request(c))
BY DEF ToSw

\* a message is known by its kind and what it carries
LEMMA KindIs ==
  ASSUME NEW m \in Message
  PROVE
    /\ m.kind = "boot" => m = Boot
    /\ m.kind = "close" => m = CloseMsg
    /\ m.kind = "disconnect" => m = Disconnect
    /\ m.kind = "ready" => m = Ready
    /\ m.kind = "failed" => m = Failed
    /\ m.kind = "fetch" => m.call \in Calls /\ m.bodyStream \in BOOLEAN
         /\ m = FetchMsg(m.call, m.bodyStream)
    /\ m.kind = "abort" => m.call \in Signalled /\ m = Abort(m.call)
    /\ m.kind = "response" => m.call \in Calls /\ m.ok \in BOOLEAN /\ m.hasBody \in BOOLEAN
           /\ m = Response(m.call, m.ok, m.hasBody)
    /\ m.kind = "body.pull" => m.body \in Bodies /\ m = Pull(m.body)
    /\ m.kind = "body.cancel" => m.body \in Bodies /\ m = Cancel(m.body)
    /\ m.kind \in DataKinds => m.body \in Bodies /\ m \in Data(m.body)
<1>0. \A b : \A d \in Data(b) : d.kind \in DataKinds /\ d.body = b
  BY MessageKinds DEF Data, DataKinds
<1>1. CASE m \in {Boot, CloseMsg, Disconnect, Ready, Failed}
  BY <1>1, MessageFields DEF DataKinds
<1>2. CASE \E c \in Calls, s \in BOOLEAN : m = FetchMsg(c, s)
  BY <1>2, MessageFields DEF DataKinds
<1>3. CASE \E c \in Signalled : m = Abort(c)
  BY <1>3, MessageFields DEF DataKinds
<1>4. CASE \E c \in Calls, ok, s \in BOOLEAN : m = Response(c, ok, s)
  BY <1>4, MessageFields DEF DataKinds
<1>5. CASE \E b \in Bodies : m \in Data(b) \/ m = Pull(b) \/ m = Cancel(b)
  BY <1>0, <1>5, MessageKinds DEF DataKinds
<1>. QED  BY <1>1, <1>2, <1>3, <1>4, <1>5, KindsToPage, KindsToSw, BodiesOf DEF Message

\* the kinds of what a sender sends
LEMMA DataKind ==
  \A b : \A d \in Data(b) : d.kind \in DataKinds /\ d.body = b
BY MessageKinds DEF Data, DataKinds

\* the kinds of the messages about a body
LEMMA AboutKinds ==
  \A b : \A m \in About(b) : m.kind \in DataKinds \cup {"body.pull", "body.cancel"} /\ m.body = b
BY MessageKinds, DataKind DEF About

\* Any two messages may follow each other but rivals, a boot, and a fetch
\* after its abort.
LEMMA Fits ==
  ASSUME NEW x \in Message, NEW y \in Message, ~Rivals(x, y), y.kind # "boot",
         ~(x.kind = "abort" /\ y.kind = "fetch" /\ x.call = y.call)
  PROVE  <<x, y>> \in Order
BY DEF Order, Message

\* messages that have no rival may follow anything
LEMMA FitsFreely ==
  ASSUME NEW x \in Message, NEW y \in Message,
         y.kind \in {"close", "disconnect", "ready", "failed", "abort", "body.cancel"}
  PROVE  <<x, y>> \in Order
<1>1. ~Rivals(x, y) /\ y.kind # "boot" /\ y.kind # "fetch"
  BY DEF Rivals, DataKinds
<1>. QED  BY <1>1, Fits

\* a fetch may follow what has neither another nor its abort
LEMMA FitsFetch ==
  ASSUME NEW x \in Message, NEW c \in Calls, NEW s \in BOOLEAN,
         x # Abort(c), \A t \in BOOLEAN : x # FetchMsg(c, t)
  PROVE  <<x, FetchMsg(c, s)>> \in Order
<1>1. FetchMsg(c, s) \in Message
  BY DEF Message, ToPage
<1>2. ~Rivals(x, FetchMsg(c, s)) /\ ~(x.kind = "abort" /\ x.call = c)
  BY KindIs, MessageFields DEF Rivals, DataKinds
<1>. QED  BY <1>1, <1>2, Fits, MessageFields

\* a response may follow what has no other of its call
LEMMA FitsResponse ==
  ASSUME NEW x \in Message, NEW c \in Calls, NEW ok \in BOOLEAN, NEW s \in BOOLEAN,
         \A o, t \in BOOLEAN : x # Response(c, o, t)
  PROVE  <<x, Response(c, ok, s)>> \in Order
<1>1. Response(c, ok, s) \in Message
  BY DEF Message, ToSw
<1>2. ~Rivals(x, Response(c, ok, s))
  BY KindIs, MessageFields DEF Rivals, DataKinds
<1>. QED  BY <1>1, <1>2, Fits, MessageFields

\* which messages about a body go which way
LEMMA AboutTyped ==
  ASSUME NEW c \in Calls
  PROVE  /\ Data(Request(c)) \cup {Pull(ResponseBody(c)), Cancel(ResponseBody(c))} \subseteq ToPage
         /\ Data(ResponseBody(c)) \cup {Pull(Request(c)), Cancel(Request(c))} \subseteq ToSw
BY DEF ToPage, ToSw

\* a pull may follow what has no other of its body
LEMMA FitsPull ==
  ASSUME NEW x \in Message, NEW b \in Bodies, x # Pull(b)
  PROVE  <<x, Pull(b)>> \in Order
<1>1. Pull(b) \in Message
  BY AboutTyped, BodiesOf DEF Message
<1>2. ~Rivals(x, Pull(b))
  BY KindIs, MessageKinds DEF Rivals, DataKinds
<1>. QED  BY <1>1, <1>2, Fits, MessageKinds

\* a piece, an end or an error may follow what has no other of its body
LEMMA FitsData ==
  ASSUME NEW x \in Message, NEW b \in Bodies, NEW d \in Data(b), x \notin Data(b)
  PROVE  <<x, d>> \in Order
<1>1. d \in Message
  BY AboutTyped, BodiesOf DEF Message
<1>2. d.kind \in DataKinds /\ d.body = b
  BY DataKind
<1>3. ~(x.kind \in DataKinds /\ x.body = b)
  BY KindIs
<1>4. ~Rivals(x, d) /\ d.kind \notin {"boot", "fetch"}
  BY <1>2, <1>3 DEF Rivals, DataKinds
<1>. QED  BY <1>1, <1>4, Fits

--------------------
(* Sending. *)

\* on the way to the document
Up == ToSet(outbox) \cup ToSet(toPage)

\* SwSend: the buffer or the port takes the messages, or nobody does
LEMMA SwSends ==
  ASSUME TypeOK, Ports, Connection, NEW ms \in Seq(ToPage), SwSend(ms), InOrder(ms, Order),
         \A x \in Up, y \in ToSet(ms) : <<x, y>> \in Order
  PROVE
    /\ outbox' \in Seq(ToPage) /\ toPage' \in Seq(ToPage)
    /\ InOrder(outbox', Order) /\ InOrder(toPage', Order)
    /\ ToSet(outbox) \subseteq ToSet(outbox') /\ ToSet(toPage) \subseteq ToSet(toPage')
    /\ ToSet(outbox') \subseteq ToSet(outbox) \cup ToSet(ms)
    /\ ToSet(toPage') \subseteq ToSet(toPage) \cup ToSet(ms)
    /\ link # "none" => outbox' = outbox
    /\ link \in {"down", "killed"} \/ page = "gone" \/ link = "none" => toPage' = toPage
    /\ Lost \/ ToSet(ms) \subseteq Up'
    /\ toPage # <<>> => toPage' # <<>> /\ Head(toPage') = Head(toPage)
    /\ \A x, y : Prior(toPage, x, y) /\ (y \notin ToSet(ms) \/ x \in ToSet(toPage)) => Prior(toPage', x, y)
<1>1. /\ outbox \in Seq(ToPage) /\ toPage \in Seq(ToPage) /\ link \in {"none", "up", "down", "killed"}
      /\ page \in {"none", "attached", "detached", "gone"}
  BY DEF TypeOK
<1>2. InOrder(outbox, Order) /\ InOrder(toPage, Order)
  BY DEF Ports
<1>3. /\ outbox \o ms \in Seq(ToPage) /\ ToSet(outbox \o ms) = ToSet(outbox) \cup ToSet(ms)
      /\ InOrder(outbox \o ms, Order)
  BY <1>1, <1>2, ConcatOrder DEF Up
<1>4. /\ toPage \o ms \in Seq(ToPage) /\ ToSet(toPage \o ms) = ToSet(toPage) \cup ToSet(ms)
      /\ InOrder(toPage \o ms, Order)
      /\ \A x, y : Prior(toPage, x, y) /\ (y \notin ToSet(ms) \/ x \in ToSet(toPage))
           => Prior(toPage \o ms, x, y)
  BY <1>1, <1>2, ConcatOrder DEF Up
<1>5. toPage # <<>> => toPage \o ms # <<>> /\ Head(toPage \o ms) = Head(toPage)
  <2>. SUFFICES ASSUME toPage # <<>> PROVE toPage \o ms # <<>> /\ Head(toPage \o ms) = Head(toPage)
    OBVIOUS
  <2>1. Len(toPage) \in Nat /\ Len(toPage) # 0 /\ Len(ms) \in Nat
    BY <1>1, LenProperties, EmptySeq
  <2>2. Len(toPage \o ms) = Len(toPage) + Len(ms) /\ (toPage \o ms)[1] = toPage[1]
    BY <1>1, <2>1, ConcatProperties
  <2>3. Len(toPage \o ms) # 0
    BY <2>1, <2>2
  <2>4. toPage \o ms # <<>>
    BY <2>3, EmptySeq
  <2>. QED  BY <1>1, <1>4, <2>2, <2>4
<1>6. CASE link = "none"
  <2>1. outbox' = outbox \o ms /\ toPage' = toPage
    BY <1>6 DEF SwSend
  <2>. QED  BY <1>1, <1>2, <1>3, <1>6, <2>1 DEF Up
<1>7. CASE link = "up" /\ page # "gone"
  <2>1. outbox' = outbox /\ toPage' = toPage \o ms
    BY <1>7 DEF SwSend
  <2>. QED  BY <1>1, <1>2, <1>4, <1>5, <1>7, <2>1 DEF Up
<1>8. CASE link # "none" /\ (link # "up" \/ page = "gone")
  <2>1. outbox' = outbox /\ toPage' = toPage
    BY <1>8 DEF SwSend
  <2>2. Lost
    BY <1>1, <1>8 DEF Lost, Cut
  <2>. QED  BY <1>1, <1>2, <1>8, <2>1, <2>2 DEF Up
<1>. QED  BY <1>1, <1>6, <1>7, <1>8

\* PageSend: the port takes the messages, or nobody does
LEMMA PageSends ==
  ASSUME TypeOK, Ports, NEW ms \in Seq(ToSw), PageSend(ms), InOrder(ms, Order),
         \A x \in ToSet(toSw), y \in ToSet(ms) : <<x, y>> \in Order
  PROVE
    /\ toSw' \in Seq(ToSw) /\ InOrder(toSw', Order)
    /\ ToSet(toSw) \subseteq ToSet(toSw')
    /\ ToSet(toSw') \subseteq ToSet(toSw) \cup ToSet(ms)
    /\ page # "attached" \/ link # "up" => toSw' = toSw
<1>1. toSw \in Seq(ToSw) /\ InOrder(toSw, Order)
  BY DEF TypeOK, Ports
<1>2. toSw \o ms \in Seq(ToSw) /\ ToSet(toSw \o ms) = ToSet(toSw) \cup ToSet(ms) /\ InOrder(toSw \o ms, Order)
  BY <1>1, ConcatOrder
<1>. QED  BY <1>1, <1>2 DEF PageSend

\* to send nothing
LEMMA Sends0 ==
  /\ \A ms : SwSend(ms) /\ ms = <<>> /\ TypeOK => outbox' = outbox /\ toPage' = toPage
  /\ \A ms : PageSend(ms) /\ ms = <<>> /\ TypeOK => toSw' = toSw
<1>1. TypeOK => outbox \o <<>> = outbox /\ toPage \o <<>> = toPage /\ toSw \o <<>> = toSw
  BY ConcatEmptySeq DEF TypeOK
<1>. QED  BY <1>1 DEF SwSend, PageSend

--------------------
(* What a step leaves alone. *)

\* to stop a half that was never made changes nothing
LEMMA StopsNone ==
  /\ StopSender(NoSender) = NoSender
  /\ \A s \in SenderType : StopSender(s).left = s.left
BY DEF StopSender, NoSender, Sender, SenderType

\* what keeps Asked
LEMMA AskedStays ==
  ASSUME
    NEW c \in Calls, Asked(c), sender[Request(c)] \in SenderType,
    outcome'[c] = outcome[c] \/ outcome[c] \in {"idle", "normalizing"}
      \/ outcome'[c] \notin {"idle", "normalizing"},
    c \in entered' <=> c \in entered,
    sender'[Request(c)] \in {sender[Request(c)], StopSender(sender[Request(c)])}
      \/ receiver[Request(c)].state # "none",
    receiver'[Request(c)].state = "none" <=> receiver[Request(c)].state = "none",
    Live(receiver'[Request(c)]) => Live(receiver[Request(c)]),
    \/ fetching'[c] = fetching[c]
    \/ fetching[c] # "none" /\ fetching'[c] # "none"
         /\ (fetching'[c] \in {"rejected", "refused"} => ~Live(receiver'[Request(c)])),
    c \in stopped' /\ fetching[c] = "none" => c \in stopped,
    \A s \in BOOLEAN : FetchMsg(c, s) \in Sent' => FetchMsg(c, s) \in Sent,
    Lost' \/ (~Lost /\ \A s \in BOOLEAN : FetchMsg(c, s) \in Sent => FetchMsg(c, s) \in Sent'),
    Abort(c) \in Sent' => Abort(c) \in Sent \/ outcome'[c] \notin {"idle", "normalizing"}
  PROVE  Asked(c)'
<1>1. receiver[Request(c)].state # "none" => fetching[c] # "none" /\ c \in entered
  BY DEF Asked
<1>2. outcome[c] \in {"idle", "normalizing"} => receiver[Request(c)].state = "none"
  BY <1>1 DEF Asked
<1>3. outcome'[c] \in {"idle", "normalizing"} => outcome[c] \in {"idle", "normalizing"}
  OBVIOUS
<1>4. outcome'[c] \in {"idle", "normalizing"}
        => c \notin entered' /\ sender'[Request(c)] = NoSender /\ Abort(c) \notin Sent'
  BY <1>2, <1>3, StopsNone DEF Asked
<1>5. \A s \in BOOLEAN : FetchMsg(c, s) \in Sent' =>
       /\ c \in entered' /\ fetching'[c] = "none"
       /\ s => sender'[Request(c)].left = Source[Request(c)]
  BY <1>1, StopsNone DEF Asked
<1>6. fetching'[c] # "none" => c \in entered'
  BY DEF Asked
<1>7. c \in entered' /\ fetching'[c] = "none" => Lost' \/ \E s \in BOOLEAN : FetchMsg(c, s) \in Sent'
  BY DEF Asked
<1>8. fetching'[c] = "none" => receiver'[Request(c)].state = "none" /\ c \notin stopped'
  BY DEF Asked
<1>9. fetching'[c] \in {"rejected", "refused"} => ~Live(receiver'[Request(c)])
  BY DEF Asked
<1>. QED  BY <1>4, <1>5, <1>6, <1>7, <1>8, <1>9 DEF Asked

\* what keeps Answered
LEMMA AnsweredStays ==
  ASSUME
    NEW c \in Calls, Answered(c), sender[ResponseBody(c)] \in SenderType,
    outcome'[c] = outcome[c] \/ outcome[c] # "resolved",
    c \in replied' <=> c \in replied,
    fetching'[c] = fetching[c]
      \/ <<fetching[c], fetching'[c]>> \in {<<"none", "running">>, <<"running", "rejected">>},
    sender'[ResponseBody(c)] \in {sender[ResponseBody(c)], StopSender(sender[ResponseBody(c)])}
      \/ receiver[ResponseBody(c)].state # "none",
    receiver'[ResponseBody(c)].state = "none" <=> receiver[ResponseBody(c)].state = "none",
    \A ok, s \in BOOLEAN : Response(c, ok, s) \in Sent' => Response(c, ok, s) \in Sent
  PROVE  Answered(c)'
<1>1. fetching'[c] # "resolved" =>
       /\ sender'[ResponseBody(c)] = NoSender /\ receiver'[ResponseBody(c)].state = "none"
       /\ c \notin replied'
  BY StopsNone DEF Answered
<1>2. \A ok, s \in BOOLEAN : Response(c, ok, s) \in Sent' =>
       /\ receiver'[ResponseBody(c)].state = "none"
       /\ fetching'[c] \in IF ok THEN {"resolved"} ELSE {"rejected", "refused"}
       /\ ok => c \in replied'
       /\ s => sender'[ResponseBody(c)].left = Source[ResponseBody(c)]
  BY StopsNone DEF Answered
<1>3. outcome'[c] # "resolved" => receiver'[ResponseBody(c)].state = "none"
  BY DEF Answered
<1>. QED  BY <1>1, <1>2, <1>3 DEF Answered

\* what keeps Aborted
LEMMA AbortedStays ==
  ASSUME
    NEW c \in Calls, Aborted(c),
    Abort(c) \in Sent' => Abort(c) \in Sent,
    c \in aborted => c \in aborted', c \in aborted' => c \in aborted \/ c \notin entered',
    outcome'[c] = "pending" => outcome[c] = "pending",
    Live(receiver'[ResponseBody(c)]) => Live(receiver[ResponseBody(c)]),
    c \in entered' => c \in entered,
    fetching'[c] \in {"none", "running"} => fetching[c] \in {"none", "running"},
    c \in stopped => c \in stopped',
    Lost' \/ (~Lost /\ (Abort(c) \in Sent => Abort(c) \in Sent'))
  PROVE  Aborted(c)'
BY DEF Aborted

\* what keeps Served
LEMMA ServedStays ==
  ASSUME
    NEW c \in Calls, Served(c),
    page' = page \/ (page # "none" /\ page' # "none" /\ ~Live(receiver'[Request(c)])
        /\ (fetching'[c] = "running" => c \in stopped')),
    fetching'[c] = fetching[c] \/ (page # "none" /\ (fetching'[c] = "running" => page = "attached")),
    Live(receiver'[Request(c)]) => Live(receiver[Request(c)]),
    c \in stopped => c \in stopped'
  PROVE  Served(c)'
BY DEF Served

\* Body keeps when no message about the body is added
LEMMA BodyKept ==
  ASSUME NEW b \in Bodies, NEW s \in SenderType, NEW r \in ReceiverType, NEW M, NEW N,
         Body(b, s, r, M), \A m \in N \cap About(b) : m \in M
  PROVE  Body(b, s, r, N)
BY BodyStops

\* What the invariant says of one call and of its two bodies.
CallInv(c) == Served(c) /\ Asked(c) /\ Answered(c) /\ Aborted(c) /\ RequestBody(c) /\ AnswerBody(c)

\* the invariant, part by part
LEMMA InvParts ==
  IInv <=>
    /\ TypeOK /\ Ports /\ Connection
    /\ \A c \in Calls : CallInv(c)
    /\ \A b \in Bodies : Body(b, sender[b], receiver[b], Sent)
    /\ ListensWhileOpen /\ Controllers
BY DEF IInv, CallInv

\* what TypeOK says of one call and of one body
LEMMA TypedParts ==
  ASSUME TypeOK, NEW b \in Bodies
  PROVE  /\ sender[b] \in SenderType /\ receiver[b] \in ReceiverType
         /\ DOMAIN sender = Bodies /\ DOMAIN receiver = Bodies
BY DEF TypeOK

\* a step of one body
LEMMA BodyMoves ==
  ASSUME
    IInv, NEW b \in Bodies, NEW t \in SenderType, NEW q \in ReceiverType,
    UNCHANGED <<outcome, aborted, link, entered, locked, page, worker, fetching, stopped, replied>>,
    sender' = [sender EXCEPT ![b] = t], receiver' = [receiver EXCEPT ![b] = q],
    receiver[b].state # "none", q.state # "none", Live(q) => Live(receiver[b]),
    Body(b, t, q, Sent'),
    \A m \in Sent' : m \in Sent \/ m \in About(b),
    \A m \in Sent : m \in Sent' \/ m \in About(b) \/ Lost,
    \A c \in Calls : Request(c) # b /\ Prior(toPage, Abort(c), End(Request(c)))
      => Prior(toPage, Abort(c), End(Request(c)))',
    \A c \in Calls : b = Request(c) => RequestBody(c)',
    \A c \in Calls : b = ResponseBody(c) => AnswerBody(c)'
  PROVE  /\ \A c \in Calls : CallInv(c)'
         /\ \A d \in Bodies : Body(d, sender'[d], receiver'[d], Sent')
<1>1. \A d \in Bodies :
    /\ sender'[d] = IF d = b THEN t ELSE sender[d]
    /\ receiver'[d] = IF d = b THEN q ELSE receiver[d]
    /\ sender[d] \in SenderType /\ receiver[d] \in ReceiverType
  BY TypedParts DEF IInv
<1>2. \A m \in About(b) : m.kind \in DataKinds \cup {"body.pull", "body.cancel"} /\ m.body = b
  BY AboutKinds
<1>3. \A m : m \notin About(b) => (m \in Sent' => m \in Sent) /\ (m \in Sent => m \in Sent' \/ Lost)
  OBVIOUS
<1>4. \A c : /\ Abort(c) \notin About(b) /\ \A s : FetchMsg(c, s) \notin About(b)
             /\ \A ok, s : Response(c, ok, s) \notin About(b)
  BY <1>2, MessageFields DEF DataKinds
<1>5. Lost' <=> Lost
  BY DEF Lost, Cut
<1>6. ASSUME NEW c \in Calls PROVE Served(c)' /\ Asked(c)' /\ Answered(c)' /\ Aborted(c)'
  <2>1. Request(c) \in Bodies /\ ResponseBody(c) \in Bodies
    BY BodiesOf
  <2>2. CallInv(c)
    BY InvParts
  <2>3. /\ Abort(c) \in Sent' => Abort(c) \in Sent
        /\ Lost \/ (Abort(c) \in Sent => Abort(c) \in Sent')
        /\ \A s \in BOOLEAN : (FetchMsg(c, s) \in Sent' => FetchMsg(c, s) \in Sent)
        /\ Lost \/ \A s \in BOOLEAN : FetchMsg(c, s) \in Sent => FetchMsg(c, s) \in Sent'
        /\ \A ok, s \in BOOLEAN : Response(c, ok, s) \in Sent' => Response(c, ok, s) \in Sent
    BY <1>3, <1>4
  <2>4. \A d \in {Request(c), ResponseBody(c)} :
          /\ sender'[d] \in {sender[d], StopSender(sender[d])} \/ receiver[d].state # "none"
          /\ receiver'[d].state = "none" <=> receiver[d].state = "none"
          /\ Live(receiver'[d]) => Live(receiver[d])
          /\ sender[d] \in SenderType
    BY <1>1, <2>1
  <2>5. Asked(c)'
    BY <1>5, <2>2, <2>3, <2>4, AskedStays DEF CallInv
  <2>6. Answered(c)'
    BY <2>2, <2>3, <2>4, AnsweredStays DEF CallInv
  <2>7. Aborted(c)'
    BY <1>5, <2>2, <2>3, <2>4, AbortedStays DEF CallInv
  <2>8. Served(c)'
    BY <2>2, <2>4, ServedStays DEF CallInv
  <2>. QED  BY <2>5, <2>6, <2>7, <2>8
<1>7. ASSUME NEW d \in Bodies PROVE Body(d, sender'[d], receiver'[d], Sent')
  <2>1. CASE d = b
    BY <1>1, <2>1
  <2>2. CASE d # b
    <3>1. \A m \in About(d) : m \notin About(b)
      BY <2>2, AboutKinds
    <3>2. Body(d, sender[d], receiver[d], Sent)
      BY DEF IInv
    <3>3. Body(d, sender[d], receiver[d], Sent')
      BY <1>1, <1>3, <3>1, <3>2, BodyKept
    <3>. QED  BY <1>1, <2>2, <3>3
  <2>. QED  BY <2>1, <2>2
<1>8. ASSUME NEW c \in Calls PROVE RequestBody(c)' /\ AnswerBody(c)'
  <2>1. Request(c) \in Bodies /\ ResponseBody(c) \in Bodies
    BY BodiesOf
  <2>2. CallInv(c)
    BY InvParts
  <2>3. \A d \in Bodies : End(d) \in About(d)
    BY DEF About, Data
  <2>4. ASSUME Request(c) # b PROVE RequestBody(c)'
    <3>1. sender'[Request(c)] = sender[Request(c)] /\ receiver'[Request(c)] = receiver[Request(c)]
      BY <1>1, <2>1, <2>4
    <3>2. End(Request(c)) \notin About(b)
      BY <2>4, AboutKinds, MessageKinds
    <3>3. /\ End(Request(c)) \in Sent' => End(Request(c)) \in Sent
          /\ Abort(c) \in Sent => Abort(c) \in Sent' \/ Lost
      BY <1>3, <1>4, <3>2
    <3>4. Live(receiver[Request(c)]) => page = "attached"
      BY <2>2 DEF CallInv, Served
    <3>5. Cut' <=> Cut
      BY DEF Cut
    <3>6. /\ worker' = worker /\ (Prior(toPage, Abort(c), End(Request(c)))
                 => Prior(toPage, Abort(c), End(Request(c)))')
      BY <2>4
    <3>7. Lost /\ page = "attached" => Cut
      BY DEF Lost
    <3>8. RequestBody(c)
      BY <2>2 DEF CallInv
    <3>9. RequestBody(c)'
      BY <3>1, <3>3, <3>4, <3>5, <3>6, <3>7, <3>8 DEF RequestBody
    <3>. QED  BY <3>9
  <2>5. ASSUME ResponseBody(c) # b PROVE AnswerBody(c)'
    <3>1. /\ sender'[ResponseBody(c)] = sender[ResponseBody(c)]
          /\ receiver'[ResponseBody(c)] = receiver[ResponseBody(c)]
      BY <1>1, <2>1, <2>5
    <3>2. End(ResponseBody(c)) \notin About(b)
      BY <2>5, AboutKinds, MessageKinds
    <3>3. End(ResponseBody(c)) \in Sent' => End(ResponseBody(c)) \in Sent
      BY <1>3, <3>2
    <3>4. AnswerBody(c) /\ page' = page
      BY <2>2 DEF CallInv
    <3>. QED  BY <3>1, <3>3, <3>4 DEF AnswerBody
  <2>6. b = Request(c) => RequestBody(c)'
    OBVIOUS
  <2>7. b = ResponseBody(c) => AnswerBody(c)'
    OBVIOUS
  <2>. QED  BY <2>4, <2>5, <2>6, <2>7
<1>. QED  BY <1>6, <1>7, <1>8 DEF CallInv

--------------------
(* What a step sends, and what it has taken from a port. *)

\* Which messages about a body go to the page, and which to the service
\* worker.
LEMMA Directions ==
  /\ Ready \notin ToPage /\ Failed \notin ToPage /\ Boot \notin ToSw /\ CloseMsg \notin ToSw
  /\ \A c \in Calls :
       /\ \A s \in BOOLEAN : FetchMsg(c, s) \notin ToSw
       /\ Abort(c) \notin ToSw
       /\ \A ok, s \in BOOLEAN : Response(c, ok, s) \notin ToPage
       /\ Pull(Request(c)) \notin ToPage /\ Cancel(Request(c)) \notin ToPage
       /\ Pull(ResponseBody(c)) \notin ToSw /\ Cancel(ResponseBody(c)) \notin ToSw
       /\ \A d \in Data(Request(c)) : d \notin ToSw
       /\ \A d \in Data(ResponseBody(c)) : d \notin ToPage
<1>1. ASSUME NEW m \in ToPage
      PROVE  /\ m.kind \notin {"ready", "failed", "response"}
             /\ m.kind \in {"body.pull", "body.cancel"} => m.body[1] = "response"
             /\ m.kind \in DataKinds => m.body[1] = "request"
  BY KindsToPage, MessageFields, MessageKinds, DataKind, BodiesOf DEF DataKinds
<1>2. ASSUME NEW m \in ToSw
      PROVE  /\ m.kind \notin {"boot", "close", "fetch", "abort"}
             /\ m.kind \in {"body.pull", "body.cancel"} => m.body[1] = "request"
             /\ m.kind \in DataKinds => m.body[1] = "response"
  BY KindsToSw, MessageFields, MessageKinds, DataKind, BodiesOf DEF DataKinds
<1>3. /\ Ready \notin ToPage /\ Failed \notin ToPage /\ Boot \notin ToSw /\ CloseMsg \notin ToSw
      /\ \A c \in Calls :
           /\ \A s \in BOOLEAN : FetchMsg(c, s) \notin ToSw
           /\ Abort(c) \notin ToSw
           /\ \A ok, s \in BOOLEAN : Response(c, ok, s) \notin ToPage
  BY <1>1, <1>2, MessageFields
<1>4. ASSUME NEW c \in Calls
      PROVE
        /\ Pull(Request(c)) \notin ToPage /\ Cancel(Request(c)) \notin ToPage
        /\ Pull(ResponseBody(c)) \notin ToSw /\ Cancel(ResponseBody(c)) \notin ToSw
        /\ \A d \in Data(Request(c)) : d \notin ToSw
        /\ \A d \in Data(ResponseBody(c)) : d \notin ToPage
  BY <1>1, <1>2, MessageKinds, DataKind, BodiesOf
<1>. QED  BY <1>3, <1>4

\* the message at the head of a port, taken: another like it is not behind it
LEMMA Popped ==
  ASSUME NEW S \in SUBSET Message, NEW s \in Seq(S), s # <<>>, InOrder(s, Order)
  PROVE
    /\ Head(s) \in S
    /\ \A y \in ToSet(Tail(s)) :
         /\ ~Rivals(Head(s), y) /\ y.kind # "boot"
         /\ ~(Head(s).kind = "abort" /\ y.kind = "fetch" /\ y.call = Head(s).call)
    /\ Head(s).kind \in {"fetch", "response", "body.pull"} \cup DataKinds => Head(s) \notin ToSet(Tail(s))
<1>1. Head(s) \in S /\ \A y \in ToSet(Tail(s)) : <<Head(s), y>> \in Order
  BY TailOrder
<1>2. \A y \in ToSet(Tail(s)) :
              /\ ~Rivals(Head(s), y) /\ y.kind # "boot"
              /\ ~(Head(s).kind = "abort" /\ y.kind = "fetch" /\ y.call = Head(s).call)
  BY <1>1 DEF Order
<1>3. Head(s).kind \in {"fetch", "response", "body.pull"} \cup DataKinds => Rivals(Head(s), Head(s))
  BY DEF Rivals
<1>. QED  BY <1>1, <1>2, <1>3

\* a message in the service worker's port was handled, and it sent some
LEMMA SwPorts ==
  ASSUME
    TypeOK, Ports, Connection, NEW ms \in Seq(ToPage), SwSend(ms), InOrder(ms, Order),
    \A x \in Up, y \in ToSet(ms) : <<x, y>> \in Order,
    Boot \notin ToSet(ms), Disconnect \notin ToSet(ms),
    Pops(toSw, toSw'), UNCHANGED <<link, page, worker>>
  PROVE
    /\ outbox' \in Seq(ToPage) /\ toPage' \in Seq(ToPage) /\ toSw' \in Seq(ToSw)
    /\ Ports' /\ Connection'
    /\ Sent' \subseteq Sent \cup ToSet(ms)
    /\ \A m \in Sent' : m \in Up \/ m \in ToSet(ms) \/ m \in ToSet(toSw')
    /\ Up \subseteq Up'
    /\ \A m \in Sent : m \in Sent' \/ (toSw' = Tail(toSw) /\ toSw # <<>> /\ m = Head(toSw))
    /\ Lost \/ ToSet(ms) \subseteq Sent'
    /\ Cut => Sent' \subseteq Sent
    /\ (Lost' <=> Lost) /\ (Cut' <=> Cut)
    /\ \A x, y : Prior(toPage, x, y) /\ (y \notin ToSet(ms) \/ x \in ToSet(toPage)) => Prior(toPage', x, y)
<1>1.
    /\ outbox' \in Seq(ToPage) /\ toPage' \in Seq(ToPage)
    /\ InOrder(outbox', Order) /\ InOrder(toPage', Order)
    /\ ToSet(outbox) \subseteq ToSet(outbox') /\ ToSet(toPage) \subseteq ToSet(toPage')
    /\ ToSet(outbox') \subseteq ToSet(outbox) \cup ToSet(ms)
    /\ ToSet(toPage') \subseteq ToSet(toPage) \cup ToSet(ms)
    /\ link # "none" => outbox' = outbox
    /\ link \in {"down", "killed"} \/ page = "gone" \/ link = "none" => toPage' = toPage
    /\ Lost \/ ToSet(ms) \subseteq Up'
    /\ toPage # <<>> => toPage' # <<>> /\ Head(toPage') = Head(toPage)
    /\ \A x, y : Prior(toPage, x, y) /\ (y \notin ToSet(ms) \/ x \in ToSet(toPage)) => Prior(toPage', x, y)
  BY SwSends
<1>2. /\ toSw' \in Seq(ToSw) /\ InOrder(toSw', Order) /\ ToSet(toSw') \subseteq ToSet(toSw)
      /\ \A x \in ToSet(toSw) : x \in ToSet(toSw') \/ (toSw # <<>> /\ toSw' = Tail(toSw) /\ x = Head(toSw))
  <2>1. toSw \in Seq(ToSw) /\ InOrder(toSw, Order)
    BY DEF TypeOK, Ports
  <2>. QED  BY <2>1, Taking
<1>3. Ports'
  BY <1>1, <1>2 DEF Ports
<1>4. link \in {"none", "up", "down", "killed"} /\ link' = link /\ page' = page /\ worker' = worker
  BY DEF TypeOK
<1>5. (Lost' <=> Lost) /\ (Cut' <=> Cut)
  BY <1>4 DEF Lost, Cut
<1>6. Ready \notin ToSet(ms) /\ Failed \notin ToSet(ms)
  <2>1. ToSet(ms) \subseteq ToPage
    BY ToSetIn
  <2>. QED  BY <2>1, Directions
<1>7. Sent' \subseteq Sent \cup ToSet(ms)
  BY <1>1, <1>2 DEF Sent
<1>8. Connection'
  <2>1. toSw = <<>> => toSw' = <<>>
    BY DEF Pops
  <2>2. link = "none" => toPage' = <<>> /\ toSw' = <<>> /\ page \in {"none", "gone"}
    BY <1>1, <2>1 DEF Connection
  <2>3. (link # "none" => outbox' = <<>>) /\ Boot \notin ToSet(outbox') /\ Disconnect \notin ToSet(outbox')
    BY <1>1 DEF Connection
  <2>4. /\ page = "none" => toSw' = <<>>
        /\ page = "none" /\ link = "up" => toPage' # <<>> /\ Head(toPage') = Boot
        /\ page = "gone" => toPage' = <<>>
    BY <1>1, <2>1 DEF Connection
  <2>5. page = "none" /\ toPage' # <<>> => Head(toPage') = Boot
    BY <1>1, <1>4 DEF Connection
  <2>6. Boot \in Sent' => page = "none"
    BY <1>7 DEF Connection
  <2>7. /\ Cut /\ page \in {"none", "attached"}
             => Disconnect \in ToSet(toPage') \/ (page = "none" /\ toPage' = <<>>)
        /\ Disconnect \in ToSet(toPage') => Cut
        /\ Disconnect \in ToSet(toSw') => page = "gone"
    <3>1. Cut => toPage' = toPage
      BY <1>1 DEF Cut
    <3>. QED  BY <1>1, <1>2, <3>1 DEF Connection
  <2>8. (Ready \in Sent' => worker # "booting") /\ (Failed \in Sent' => worker = "failed")
    BY <1>6, <1>7 DEF Connection
  <2>. QED  BY <1>4, <1>5, <2>2, <2>3, <2>4, <2>5, <2>6, <2>7, <2>8 DEF Connection
<1>9. /\ \A m \in Sent' : m \in Up \/ m \in ToSet(ms) \/ m \in ToSet(toSw')
      /\ Up \subseteq Up'
      /\ \A m \in Sent : m \in Sent' \/ (toSw' = Tail(toSw) /\ toSw # <<>> /\ m = Head(toSw))
      /\ Lost \/ ToSet(ms) \subseteq Sent'
  BY <1>1, <1>2 DEF Sent, Up
<1>10. Cut => Sent' \subseteq Sent
  BY <1>1, <1>2 DEF Sent, Cut
<1>. QED  BY <1>1, <1>2, <1>3, <1>5, <1>7, <1>8, <1>9, <1>10

\* A step of the document that takes at most one message and sends others
\* keeps the ports in order and the connection.
LEMMA PagePorts ==
  ASSUME
    TypeOK, Ports, Connection, NEW ms \in Seq(ToSw), PageSend(ms), InOrder(ms, Order),
    \A x \in ToSet(toSw), y \in ToSet(ms) : <<x, y>> \in Order,
    Disconnect \notin ToSet(ms),
    Pops(toPage, toPage'), toPage' = toPage \/ (page = "attached" /\ Head(toPage) # Disconnect),
    UNCHANGED <<link, page, outbox>>,
    worker' = worker \/ (worker' # "booting" /\ (worker = "failed" => worker' = "failed")),
    Ready \in ToSet(ms) => worker' # "booting", Failed \in ToSet(ms) => worker' = "failed"
  PROVE
    /\ outbox' \in Seq(ToPage) /\ toPage' \in Seq(ToPage) /\ toSw' \in Seq(ToSw)
    /\ Ports' /\ Connection'
    /\ Sent' \subseteq Sent \cup ToSet(ms)
    /\ \A m \in Sent' : m \in ToSet(outbox) \/ m \in ToSet(toPage') \/ m \in ToSet(toSw)
         \/ m \in ToSet(ms)
    /\ toPage' # toPage => outbox = <<>>
    /\ page # "attached" \/ link # "up" => Sent' \subseteq Sent
    /\ \A m \in Sent : m \in Sent' \/ (toPage' = Tail(toPage) /\ toPage # <<>> /\ m = Head(toPage))
    /\ (Lost' <=> Lost) /\ (Cut' <=> Cut)
<1>0. /\ outbox \in Seq(ToPage) /\ toPage \in Seq(ToPage) /\ InOrder(toPage, Order) /\ InOrder(outbox, Order)
      /\ link \in {"none", "up", "down", "killed"} /\ link' = link /\ page' = page
      /\ outbox' = outbox
  BY DEF TypeOK, Ports
<1>1. /\ toSw' \in Seq(ToSw) /\ InOrder(toSw', Order)
      /\ ToSet(toSw) \subseteq ToSet(toSw')
      /\ ToSet(toSw') \subseteq ToSet(toSw) \cup ToSet(ms)
      /\ page # "attached" \/ link # "up" => toSw' = toSw
  BY PageSends
<1>2. /\ toPage' \in Seq(ToPage) /\ InOrder(toPage', Order) /\ ToSet(toPage') \subseteq ToSet(toPage)
      /\ \A x \in ToSet(toPage) : x \in ToSet(toPage')
           \/ (toPage' # toPage /\ toPage # <<>> /\ toPage' = Tail(toPage) /\ x = Head(toPage))
  BY <1>0, Taking
<1>3. Ports'
  BY <1>0, <1>1, <1>2 DEF Ports
<1>5. (Lost' <=> Lost) /\ (Cut' <=> Cut)
  BY <1>0 DEF Lost, Cut
<1>7. Sent' \subseteq Sent \cup ToSet(ms)
  BY <1>0, <1>1, <1>2 DEF Sent
<1>8. Connection'
  <2>1. toPage = <<>> => toPage' = <<>>
    BY DEF Pops
  <2>2. link = "none" => toPage' = <<>> /\ toSw' = <<>> /\ page \in {"none", "gone"}
    BY <1>1, <2>1 DEF Connection
  <2>3. (link # "none" => outbox = <<>>) /\ Boot \notin ToSet(outbox) /\ Disconnect \notin ToSet(outbox)
    BY DEF Connection
  <2>4. /\ page = "none" => toSw' = <<>>
        /\ page = "none" /\ link = "up" => toPage' # <<>> /\ Head(toPage') = Boot
        /\ page = "none" /\ toPage' # <<>> => Head(toPage') = Boot
        /\ page = "gone" => toPage' = <<>>
    BY <1>1, <2>1 DEF Connection
  <2>6. Boot \in Sent' => page = "none"
    <3>1. Boot \notin ToSet(ms)
      <4>1. ToSet(ms) \subseteq ToSw
        BY ToSetIn
      <4>. QED  BY <4>1, Directions
    <3>. QED  BY <1>7, <3>1 DEF Connection
  <2>7. /\ Cut /\ page \in {"none", "attached"}
             => Disconnect \in ToSet(toPage') \/ (page = "none" /\ toPage' = <<>>)
        /\ Disconnect \in ToSet(toPage') => Cut
        /\ Disconnect \in ToSet(toSw') => page = "gone"
    BY <1>1, <1>2 DEF Connection
  <2>8. (Ready \in Sent' => worker' # "booting") /\ (Failed \in Sent' => worker' = "failed")
    BY <1>7 DEF Connection
  <2>. QED  BY <1>0, <1>5, <2>2, <2>3, <2>4, <2>6, <2>7, <2>8 DEF Connection
<1>9. /\ \A m \in Sent' : m \in ToSet(outbox) \/ m \in ToSet(toPage') \/ m \in ToSet(toSw) \/ m \in ToSet(ms)
      /\ \A m \in Sent : m \in Sent' \/ (toPage' = Tail(toPage) /\ toPage # <<>> /\ m = Head(toPage))
  BY <1>0, <1>1, <1>2 DEF Sent
<1>10. toPage' # toPage => outbox = <<>>
  <2>1. toPage' # toPage => toPage # <<>>
    BY DEF Pops
  <2>. QED  BY <2>1 DEF Connection
<1>11. page # "attached" \/ link # "up" => Sent' \subseteq Sent
  BY <1>0, <1>1, <1>2 DEF Sent
<1>. QED  BY <1>0, <1>1, <1>2, <1>3, <1>5, <1>7, <1>8, <1>9, <1>10, <1>11

\* a half that is left alone
LEMMA Untouched ==
  ASSUME TypeOK, NEW b \in Bodies
  PROVE  /\ \A f : f = sender => f = [sender EXCEPT ![b] = sender[b]]
         /\ \A f : f = receiver => f = [receiver EXCEPT ![b] = receiver[b]]
BY DEF TypeOK

\* a step of the service worker on one body keeps the invariant
LEMMA SwBodyStep ==
  ASSUME
    IInv, NEW b \in Bodies, NEW t \in SenderType, NEW q \in ReceiverType,
    NEW ms \in Seq(ToPage), SwSend(ms),
    ms = <<>> \/ \E d \in ToPage : d \in About(b) /\ ms = <<d>> /\ \A x \in Up : <<x, d>> \in Order,
    Pops(toSw, toSw'), toSw' = toSw \/ Head(toSw) \in About(b),
    UNCHANGED <<outcome, aborted, failed, ready, link, entered, locked, pageVars>>,
    listening' \subseteq Signalled, ListensWhileOpen',
    sender' = [sender EXCEPT ![b] = t], receiver' = [receiver EXCEPT ![b] = q],
    receiver[b].state # "none", q.state # "none", Live(q) => Live(receiver[b]),
    Body(b, t, q, Sent'),
    \A c \in Calls : b = Request(c) => RequestBody(c)',
    \A c \in Calls : b = ResponseBody(c) => AnswerBody(c)' /\ t = sender[b]
  PROVE  IInv'
<1>1. TypeOK /\ Ports /\ Connection /\ Controllers
  BY DEF IInv
<1>2. \A d \in ToSet(ms) : d \in About(b)
  BY OneMember
<1>3. InOrder(ms, Order) /\ \A x \in Up, y \in ToSet(ms) : <<x, y>> \in Order
  BY OneOrder
<1>4. Boot \notin ToSet(ms) /\ Disconnect \notin ToSet(ms)
  BY <1>2, AboutKinds, MessageFields DEF DataKinds
<1>5. UNCHANGED <<link, page, worker>>
  BY DEF pageVars
<1>6. /\ outbox' \in Seq(ToPage) /\ toPage' \in Seq(ToPage) /\ toSw' \in Seq(ToSw)
      /\ Ports' /\ Connection'
      /\ Sent' \subseteq Sent \cup ToSet(ms)
      /\ \A m \in Sent : m \in Sent' \/ (toSw' = Tail(toSw) /\ toSw # <<>> /\ m = Head(toSw))
      /\ \A x, y : Prior(toPage, x, y) /\ (y \notin ToSet(ms) \/ x \in ToSet(toPage)) => Prior(toPage', x, y)
  BY <1>1, <1>3, <1>4, <1>5, SwPorts
<1>7. /\ \A m \in Sent' : m \in Sent \/ m \in About(b)
      /\ \A m \in Sent : m \in Sent' \/ m \in About(b)
  <2>1. toSw \in Seq(ToSw) /\ (toSw # <<>> /\ toSw' = toSw => Tail(toSw) # toSw)
    BY <1>1, LenProperties, HeadTailProperties, EmptySeq DEF TypeOK
  <2>. QED  BY <1>2, <1>6, <2>1
<1>8. \A c \in Calls : Request(c) # b /\ Prior(toPage, Abort(c), End(Request(c)))
        => Prior(toPage, Abort(c), End(Request(c)))'
  <2>. SUFFICES ASSUME NEW c \in Calls, Request(c) # b, Prior(toPage, Abort(c), End(Request(c)))
                PROVE  Prior(toPage', Abort(c), End(Request(c)))
    OBVIOUS
  <2>1. End(Request(c)) \notin ToSet(ms)
    BY <1>2, AboutKinds, MessageKinds
  <2>. QED  BY <1>6, <2>1
<1>9. TypeOK'
  BY <1>1, <1>6 DEF TypeOK, pageVars
<1>10. /\ \A c \in Calls : CallInv(c)'
       /\ \A d \in Bodies : Body(d, sender'[d], receiver'[d], Sent')
  BY <1>7, <1>8, BodyMoves DEF pageVars
<1>11. Controllers'
  <2>1. \A c \in Calls : sender'[ResponseBody(c)] = sender[ResponseBody(c)]
    BY <1>1, TypedParts, BodiesOf
  <2>. QED  BY <1>1, <2>1 DEF Controllers, pageVars
<1>. QED  BY <1>6, <1>9, <1>10, <1>11 DEF IInv, CallInv

\* a step of the document on one body keeps the invariant
LEMMA PageBodyStep ==
  ASSUME
    IInv, NEW b \in Bodies, NEW t \in SenderType, NEW q \in ReceiverType,
    NEW ms \in Seq(ToSw), PageSend(ms),
    ms = <<>> \/ \E d \in ToSw : d \in About(b) /\ ms = <<d>>
      /\ \A x \in ToSet(toSw) : <<x, d>> \in Order,
    Pops(toPage, toPage'), toPage' = toPage \/ (page = "attached" /\ Head(toPage) \in About(b)),
    UNCHANGED <<swVars, page, worker, fetching, stopped, replied>>,
    inFlight' \subseteq Calls, Controllers',
    sender' = [sender EXCEPT ![b] = t], receiver' = [receiver EXCEPT ![b] = q],
    receiver[b].state # "none", q.state # "none", Live(q) => Live(receiver[b]),
    Body(b, t, q, Sent'),
    \A c \in Calls : b = Request(c) => RequestBody(c)',
    \A c \in Calls : b = ResponseBody(c) => AnswerBody(c)' /\ q = receiver[b]
  PROVE  IInv'
<1>1. TypeOK /\ Ports /\ Connection /\ ListensWhileOpen
  BY DEF IInv
<1>2. \A d \in ToSet(ms) : d \in About(b)
  BY OneMember
<1>3. InOrder(ms, Order) /\ \A x \in ToSet(toSw), y \in ToSet(ms) : <<x, y>> \in Order
  BY OneOrder
<1>4. /\ Disconnect \notin ToSet(ms) /\ Ready \notin ToSet(ms) /\ Failed \notin ToSet(ms)
      /\ Disconnect \notin About(b)
  BY <1>2, AboutKinds, MessageFields DEF DataKinds
<1>5. UNCHANGED <<link, page, outbox>> /\ worker' = worker
  BY DEF swVars
<1>6. /\ outbox' \in Seq(ToPage) /\ toPage' \in Seq(ToPage) /\ toSw' \in Seq(ToSw)
      /\ Ports' /\ Connection'
      /\ Sent' \subseteq Sent \cup ToSet(ms)
      /\ \A m \in Sent : m \in Sent' \/ (toPage' = Tail(toPage) /\ toPage # <<>> /\ m = Head(toPage))
  BY <1>1, <1>3, <1>4, <1>5, PagePorts
<1>0. toPage \in Seq(ToPage) /\ (toPage # <<>> /\ toPage' = toPage => Tail(toPage) # toPage)
  BY <1>1, LenProperties, HeadTailProperties, EmptySeq DEF TypeOK
<1>7. /\ \A m \in Sent' : m \in Sent \/ m \in About(b)
      /\ \A m \in Sent : m \in Sent' \/ m \in About(b)
  BY <1>2, <1>6, <1>0
<1>8. \A c \in Calls : Request(c) # b /\ Prior(toPage, Abort(c), End(Request(c)))
        => Prior(toPage, Abort(c), End(Request(c)))'
  <2>. SUFFICES ASSUME NEW c \in Calls, Request(c) # b, Prior(toPage, Abort(c), End(Request(c)))
                PROVE  Prior(toPage', Abort(c), End(Request(c)))
    OBVIOUS
  <2>1. Abort(c) \notin About(b)
    BY AboutKinds, MessageFields DEF DataKinds
  <2>2. CASE toPage' = toPage
    BY <2>2
  <2>3. CASE toPage # <<>> /\ toPage' = Tail(toPage) /\ Head(toPage) \in About(b)
    BY <1>0, <2>1, <2>3, TailOrder
  <2>. QED  BY <2>2, <2>3 DEF Pops
<1>9. TypeOK'
  BY <1>1, <1>6 DEF TypeOK, swVars
<1>10. /\ \A c \in Calls : CallInv(c)'
       /\ \A d \in Bodies : Body(d, sender'[d], receiver'[d], Sent')
  BY <1>7, <1>8, BodyMoves DEF swVars
<1>11. ListensWhileOpen'
  <2>1. \A c \in Calls : receiver'[ResponseBody(c)] = receiver[ResponseBody(c)]
    BY <1>1, TypedParts, BodiesOf
  <2>2. Alive' <=> Alive
    BY DEF Alive, swVars
  <2>3. \A c \in Signalled : c \in Calls
    BY CallsAssumption
  <2>. QED  BY <1>1, <2>1, <2>2, <2>3 DEF ListensWhileOpen, swVars
<1>. QED  BY <1>6, <1>9, <1>10, <1>11 DEF IInv, CallInv

--------------------
(* The steps of one body. *)

\* while the worker reads the request's body the document serves the call
LEMMA RequestServed ==
  ASSUME TypeOK, Connection, NEW c \in Calls, CallInv(c), Live(receiver[Request(c)])
  PROVE  page = "attached" /\ link # "none" /\ outbox = <<>>
BY DEF CallInv, Served, Connection

\* the service worker reads a chunk of a request's body
LEMMA PreservedBySwSource ==
  ASSUME IInv, NEW c \in Calls, SwSource(c)
  PROVE  IInv'
<1>. DEFINE b == Request(c) s == sender[b] r == receiver[b]
<1>1. PICK step \in ReadOutcome(b, s) : sender' = [sender EXCEPT ![b] = step.half] /\ SwSend(step.out)
  BY DEF SwSource
<1>2. /\ s.reading
      /\ UNCHANGED <<outcome, aborted, listening, failed, ready, link, entered, locked, receiver, pageVars, toSw>>
  BY DEF SwSource, SwIdle
<1>3. b \in Bodies /\ (\A d \in Calls : b = Request(d) => d = c) /\ (\A d \in Calls : b # ResponseBody(d))
  BY BodiesOf
<1>4. /\ s \in SenderType /\ r \in ReceiverType /\ TypeOK /\ Ports /\ Connection /\ CallInv(c)
      /\ ListensWhileOpen
  BY <1>3, TypedParts DEF IInv, CallInv
<1>5. Body(b, s, r, Sent)
  BY <1>3 DEF IInv
<1>. HIDE DEF b, s, r
<1>6. \A N : (\A m \in N \cap About(b) : m \in Sent \/ m \in ToSet(step.out)) =>
           /\ step.half \in SenderType /\ ~step.half.reading /\ (s.done => step.half.done)
           /\ Body(b, step.half, r, N) /\ r.state # "none" /\ Sent \cap Data(b) = {}
           /\ step.out \in {<<>>} \cup {<<d>> : d \in Data(b)}
           /\ End(b) \in ToSet(step.out) => s.done \/ (Live(r) => Taken(r) = Pieces(b))
  BY <1>2, <1>3, <1>4, <1>5, BodySourced
<1>7. /\ step.half \in SenderType /\ ~step.half.reading /\ (s.done => step.half.done)
      /\ r.state # "none" /\ Sent \cap Data(b) = {}
      /\ step.out \in {<<>>} \cup {<<d>> : d \in Data(b)}
      /\ End(b) \in ToSet(step.out) => s.done \/ (Live(r) => Taken(r) = Pieces(b))
  BY <1>6 DEF About
<1>8. \A x \in Up, d \in Data(b) : <<x, d>> \in Order
  <2>1. Up \subseteq Message /\ Up \subseteq Sent
    BY <1>4, ToSetIn DEF Up, Message, TypeOK, Sent
  <2>. QED  BY <1>3, <1>7, <2>1, FitsData
<1>9. Data(b) \subseteq ToPage /\ Data(b) \subseteq About(b)
  BY AboutTyped DEF About, b
<1>10. /\ step.out \in Seq(ToPage)
       /\ step.out = <<>> \/ \E d \in ToPage : d \in About(b) /\ step.out = <<d>>
            /\ \A x \in Up : <<x, d>> \in Order
  <2>1. CASE step.out = <<>>
    BY <2>1, EmptySeq
  <2>2. CASE \E d \in Data(b) : step.out = <<d>>
    BY <2>2, <1>8, <1>9
  <2>. QED  BY <1>7, <2>1, <2>2
<1>11. InOrder(step.out, Order) /\ \A x \in Up, y \in ToSet(step.out) : <<x, y>> \in Order
  BY <1>10, OneOrder
<1>12. \A y \in ToSet(step.out) : y \in Data(b)
  BY <1>7, OneOf
<1>13. Boot \notin ToSet(step.out) /\ Disconnect \notin ToSet(step.out)
  BY <1>12, DataKind, MessageFields DEF DataKinds
<1>14. Pops(toSw, toSw') /\ UNCHANGED <<link, page, worker>>
  BY <1>2 DEF Pops, pageVars
<1>15.
    /\ Sent' \subseteq Sent \cup ToSet(step.out)
    /\ Cut => Sent' \subseteq Sent
    /\ \A x, y : Prior(toPage, x, y) /\ (y \notin ToSet(step.out) \/ x \in ToSet(toPage))
         => Prior(toPage', x, y)
    /\ Cut' <=> Cut
  BY <1>1, <1>4, <1>10, <1>11, <1>13, <1>14, SwPorts
<1>16. Body(b, step.half, r, Sent')
  BY <1>6, <1>15
<1>17. receiver'[b] = r /\ sender'[b] = step.half /\ receiver' = [receiver EXCEPT ![b] = r]
  BY <1>1, <1>2, <1>3, <1>4, Untouched, TypedParts DEF r
<1>18. RequestBody(c)'
  <2>1. RequestBody(c) /\ End(b) \in Data(b)
    BY <1>4 DEF CallInv, Data
  <2>2. ASSUME Live(r), End(b) \in Sent'
        PROVE  Taken(r) = Pieces(b) \/ worker = "failed" \/ Prior(toPage', Abort(c), End(b))
    <3>1. End(b) \in ToSet(step.out) /\ End(b) \notin Sent /\ ~Cut
      BY <1>7, <1>15, <2>1, <2>2
    <3>2. CASE Taken(r) = Pieces(b)
      BY <3>2
    <3>3. CASE s.done
      <4>1. worker = "failed" \/ Abort(c) \in Sent
        BY <1>2, <2>1, <2>2, <3>1, <3>3 DEF RequestBody, b, s, r
      <4>2. Abort(c) \in Sent => Abort(c) \in ToSet(toPage)
        <5>1. outbox = <<>>
          BY <1>4, <2>2, RequestServed DEF b, r
        <5>2. Abort(c) \notin ToSet(toSw)
          BY <1>4, ToSetIn, Directions DEF TypeOK
        <5>. QED  BY <5>1, <5>2, OneMember DEF Sent
      <4>3. Prior(toPage, Abort(c), End(b))
        <5>1. toPage \in Seq(ToPage) /\ End(b) \notin ToSet(toPage)
          BY <1>4, <3>1 DEF TypeOK, Sent
        <5>. QED  BY <5>1, LenProperties DEF Prior, ToSet
      <4>. QED  BY <1>15, <4>1, <4>2, <4>3
    <3>. QED  BY <1>7, <2>2, <3>1, <3>2, <3>3
  <2>3. r.state = "closed" => Taken(r) = Pieces(b) \/ worker = "failed"
    BY <2>1 DEF RequestBody, b, r
  <2>4. worker' = worker
    BY <1>14
  <2>. QED  BY <1>7, <1>17, <2>2, <2>3, <2>4 DEF RequestBody, b
<1>19. ListensWhileOpen' /\ listening' \subseteq Signalled
  BY <1>2, <1>4 DEF ListensWhileOpen, Alive, TypeOK
<1>20. UNCHANGED <<outcome, aborted, failed, ready, link, entered, locked, pageVars>> /\ toSw' = toSw
  BY <1>2
<1>. QED
  BY <1>1, <1>3, <1>4, <1>7, <1>10, <1>14, <1>16, <1>17, <1>18, <1>19, <1>20, SwBodyStep DEF r

\* what is on the way after a step of the service worker on one body
LEMMA SwBodyPorts ==
  ASSUME
    IInv, NEW b \in Bodies, NEW ms \in Seq(ToPage), SwSend(ms),
    ms = <<>> \/ \E d \in ToPage : d \in About(b) /\ ms = <<d>> /\ \A x \in Up : <<x, d>> \in Order,
    Pops(toSw, toSw'), UNCHANGED <<link, page, worker>>
  PROVE
    /\ Sent' \subseteq Sent \cup ToSet(ms)
    /\ \A m \in Sent' : m \in Up \/ m \in ToSet(ms) \/ m \in ToSet(toSw')
    /\ Cut => Sent' \subseteq Sent
    /\ \A x, y : Prior(toPage, x, y) /\ (y \notin ToSet(ms) \/ x \in ToSet(toPage)) => Prior(toPage', x, y)
    /\ Cut' <=> Cut
<1>1. TypeOK /\ Ports /\ Connection
  BY DEF IInv
<1>2. ms \in {<<>>} \cup {<<d>> : d \in About(b)}
  OBVIOUS
<1>3. \A d \in ToSet(ms) : d \in About(b)
  BY <1>2, OneOf
<1>4. InOrder(ms, Order) /\ \A x \in Up, y \in ToSet(ms) : <<x, y>> \in Order
  BY OneOrder
<1>5. Boot \notin ToSet(ms) /\ Disconnect \notin ToSet(ms)
  BY <1>3, AboutKinds, MessageFields DEF DataKinds
<1>. QED  BY <1>1, <1>4, <1>5, SwPorts

\* what is on the way after a step of the document on one body
LEMMA PageBodyPorts ==
  ASSUME
    IInv, NEW b \in Bodies, NEW ms \in Seq(ToSw), PageSend(ms),
    ms = <<>> \/ \E d \in ToSw : d \in About(b) /\ ms = <<d>>
      /\ \A x \in ToSet(toSw) : <<x, d>> \in Order,
    Pops(toPage, toPage'), toPage' = toPage \/ (page = "attached" /\ Head(toPage) \in About(b)),
    UNCHANGED <<link, page, outbox, worker>>
  PROVE
    /\ Sent' \subseteq Sent \cup ToSet(ms)
    /\ \A m \in Sent' : m \in ToSet(outbox) \/ m \in ToSet(toPage') \/ m \in ToSet(toSw)
         \/ m \in ToSet(ms)
    /\ toPage' # toPage => outbox = <<>>
    /\ page # "attached" \/ link # "up" => Sent' \subseteq Sent
    /\ Cut' <=> Cut
<1>1. TypeOK /\ Ports /\ Connection
  BY DEF IInv
<1>2. ms \in {<<>>} \cup {<<d>> : d \in About(b)}
  OBVIOUS
<1>3. \A d \in ToSet(ms) : d \in About(b)
  BY <1>2, OneOf
<1>4. InOrder(ms, Order) /\ \A x \in ToSet(toSw), y \in ToSet(ms) : <<x, y>> \in Order
  BY OneOrder
<1>5. /\ Disconnect \notin ToSet(ms) /\ Ready \notin ToSet(ms) /\ Failed \notin ToSet(ms)
      /\ Disconnect \notin About(b)
  BY <1>3, AboutKinds, MessageFields DEF DataKinds
<1>. QED  BY <1>1, <1>4, <1>5, PagePorts

\* what is on the way, typed
LEMMA UpSent ==
  ASSUME TypeOK
  PROVE
    /\ Up \subseteq ToPage /\ Up \subseteq Sent /\ ToSet(toSw) \subseteq ToSw
    /\ ToSet(toSw) \subseteq Sent
    /\ ToSet(toPage) \subseteq ToPage /\ ToSet(outbox) \subseteq ToPage
    /\ Sent \subseteq Message
BY ToSetIn DEF Up, Sent, TypeOK, Message

\* the message a handler takes
LEMMA SwTaken ==
  ASSUME TypeOK, Ports, toSw # <<>>, toSw' = Tail(toSw)
  PROVE
    /\ Head(toSw) \in ToSw /\ Head(toSw) \in Message /\ Head(toSw) \in Sent /\ Head(toSw) \in ToSet(toSw)
    /\ Pops(toSw, toSw')
    /\ \A y \in ToSet(toSw') : ~Rivals(Head(toSw), y)
    /\ Head(toSw).kind \in {"fetch", "response", "body.pull"} \cup DataKinds
         => Head(toSw) \notin ToSet(toSw')
<1>1. toSw \in Seq(ToSw) /\ InOrder(toSw, Order) /\ ToSw \subseteq Message
  BY DEF TypeOK, Ports, Message
<1>2. Head(toSw) \in ToSet(toSw)
  BY <1>1, TailOrder
<1>3. /\ Head(toSw) \in ToSw
      /\ \A y \in ToSet(toSw') : ~Rivals(Head(toSw), y)
      /\ Head(toSw).kind \in {"fetch", "response", "body.pull"} \cup DataKinds
           => Head(toSw) \notin ToSet(toSw')
  BY <1>1, Popped
<1>. QED  BY <1>1, <1>2, <1>3 DEF Pops, Sent

\* the message the document takes, and what is left
LEMMA PageTaken ==
  ASSUME TypeOK, Ports, Connection, page \in {"none", "attached"}, toPage # <<>>, toPage' = Tail(toPage)
  PROVE
    /\ Head(toPage) \in ToPage /\ Head(toPage) \in Message /\ Head(toPage) \in Sent
    /\ Head(toPage) \in ToSet(toPage)
    /\ Pops(toPage, toPage') /\ outbox = <<>> /\ link # "none"
    /\ \A y \in ToSet(toPage') :
         /\ ~Rivals(Head(toPage), y)
         /\ ~(Head(toPage).kind = "abort" /\ y.kind = "fetch" /\ y.call = Head(toPage).call)
    /\ Head(toPage).kind \in {"fetch", "response", "body.pull"} \cup DataKinds
         => Head(toPage) \notin ToSet(toPage')
    /\ Head(toPage).kind # "boot" => page = "attached"
    /\ \A x, y : Prior(toPage, x, y) => Head(toPage) # y /\ (Head(toPage) # x => Prior(toPage', x, y))
<1>1. toPage \in Seq(ToPage) /\ InOrder(toPage, Order) /\ ToPage \subseteq Message
  BY DEF TypeOK, Ports, Message
<1>2. /\ Head(toPage) \in ToSet(toPage)
      /\ \A x, y : Prior(toPage, x, y) => Head(toPage) # y /\ (Head(toPage) # x => Prior(toPage', x, y))
  BY <1>1, TailOrder
<1>3. /\ Head(toPage) \in ToPage
      /\ \A y \in ToSet(toPage') :
           /\ ~Rivals(Head(toPage), y)
           /\ ~(Head(toPage).kind = "abort" /\ y.kind = "fetch" /\ y.call = Head(toPage).call)
      /\ Head(toPage).kind \in {"fetch", "response", "body.pull"} \cup DataKinds
           => Head(toPage) \notin ToSet(toPage')
  BY <1>1, Popped
<1>4. /\ Head(toPage).kind # "boot" => page = "attached"
      /\ outbox = <<>> /\ link # "none"
  BY MessageFields DEF Connection
<1>. QED  BY <1>1, <1>2, <1>3, <1>4 DEF Pops, Sent

\* the messages about a body
LEMMA InBody ==
  ASSUME NEW b \in Bodies
  PROVE
    /\ End(b) \in Data(b) /\ End(b) \in About(b) /\ Error(b) \in Data(b) /\ Data(b) \subseteq About(b)
    /\ Pull(b) \in About(b) /\ Cancel(b) \in About(b) /\ Pull(b) \notin Data(b)
    /\ Cancel(b) \notin Data(b)
    /\ Pull(b) # Cancel(b)
BY DataKind, MessageKinds DEF Data, About, DataKinds

\* which body a message is about
LEMMA BodyMessage ==
  /\ \A m \in ToSw : m.kind \in {"body.pull", "body.cancel"} => \E c \in Calls : m.body = Request(c)
  /\ \A m \in ToSw : m.kind \in DataKinds => \E c \in Calls : m.body = ResponseBody(c)
  /\ \A m \in ToPage : m.kind \in {"body.pull", "body.cancel"} => \E c \in Calls : m.body = ResponseBody(c)
  /\ \A m \in ToPage : m.kind \in DataKinds => \E c \in Calls : m.body = Request(c)
<1>1. \A m \in ToSw : m.kind \in {"body.pull", "body.cancel"} => \E c \in Calls : m.body = Request(c)
  BY KindsToSw, MessageFields, MessageKinds, DataKind DEF DataKinds
<1>2. \A m \in ToSw : m.kind \in DataKinds => \E c \in Calls : m.body = ResponseBody(c)
  BY KindsToSw, MessageFields, MessageKinds, DataKind DEF DataKinds
<1>3. \A m \in ToPage : m.kind \in {"body.pull", "body.cancel"} => \E c \in Calls : m.body = ResponseBody(c)
  BY KindsToPage, MessageFields, MessageKinds, DataKind DEF DataKinds
<1>4. \A m \in ToPage : m.kind \in DataKinds => \E c \in Calls : m.body = Request(c)
  BY KindsToPage, MessageFields, MessageKinds, DataKind DEF DataKinds
<1>. QED  BY <1>1, <1>2, <1>3, <1>4

\* the service worker hears a pull or a cancel of a request's body
LEMMA PreservedBySwOnSenderMessage ==
  ASSUME IInv, link = "up", toSw # <<>>, toSw' = Tail(toSw), UNCHANGED <<aborted, entered, locked, pageVars>>,
         SwOnSenderMessage(Head(toSw))
  PROVE  IInv'
<1>0. TypeOK /\ Ports /\ Connection /\ ListensWhileOpen
  BY DEF IInv
<1>. DEFINE m == Head(toSw) b == m.body s == sender[b] r == receiver[b]
            step == IF m.kind = "body.pull" THEN OnPull(b, s) ELSE Quiet(StopSender(s))
<1>1. /\ m \in ToSw /\ m \in Message /\ m \in Sent /\ Pops(toSw, toSw') /\ m \in ToSet(toSw)
      /\ m.kind = "body.pull" => m \notin ToSet(toSw')
  BY <1>0, SwTaken
<1>2. /\ m.kind \in {"body.pull", "body.cancel"}
      /\ sender' = [sender EXCEPT ![b] = step.half] /\ SwSend(step.out)
      /\ UNCHANGED <<outcome, listening, failed, ready, link, receiver>>
  BY DEF SwOnSenderMessage
<1>3. PICK c \in Calls : b = Request(c)
  BY <1>1, <1>2, BodyMessage
<1>4. b \in Bodies /\ (\A d \in Calls : b = Request(d) => d = c) /\ (\A d \in Calls : b # ResponseBody(d))
  BY <1>3, BodiesOf
<1>5. s \in SenderType /\ r \in ReceiverType /\ CallInv(c) /\ Body(b, s, r, Sent)
  BY <1>0, <1>4, TypedParts DEF IInv, CallInv
<1>6. (m.kind = "body.pull" => m = Pull(b)) /\ (m.kind = "body.cancel" => m = Cancel(b))
  BY <1>1, KindIs
<1>7. Pull(b) \notin ToPage /\ UNCHANGED <<link, page, worker>>
  BY <1>2, <1>3, Directions DEF pageVars
<1>. HIDE DEF b, s, r, step, m
<1>8.
    /\ step.half \in SenderType /\ r.state # "none"
    /\ step.half.reading /\ step.half.done => s.reading \/ ~Live(r)
    /\ step.out \in {<<>>} \cup {<<Chunk(b, p)>> : p \in Piece}
    /\ step.out # <<>> => Pull(b) \in Sent
    /\ Live(r) => Sent \cap Data(b) = {} /\ ~s.reading
    /\ \A N : (\A n \in N \cap About(b) : (n \in Sent /\ (Pull(b) = m => n # Pull(b)))
           \/ n \in ToSet(step.out)) => Body(b, step.half, r, N)
  <2>1. CASE m.kind = "body.pull"
    <3>1. Pull(b) \in Sent /\ step = OnPull(b, s) /\ Pull(b) = m
      BY <1>1, <1>6, <2>1 DEF step
    <3>2. \A N : (\A n \in N \cap About(b) : (n \in Sent /\ n # Pull(b)) \/ n \in ToSet(step.out)) =>
             /\ step.half \in SenderType /\ (step.half.reading /\ step.half.done => s.reading)
             /\ Body(b, step.half, r, N)
             /\ step.out \in {<<>>} \cup {<<Chunk(b, p)>> : p \in Piece}
      BY <1>4, <1>5, <3>1, BodyPulled
    <3>3. Sent \cap Data(b) = {} /\ ~s.reading /\ r.state # "none"
      BY <1>5, <3>1 DEF Body, About
    <3>4. /\ step.half \in SenderType /\ (step.half.reading /\ step.half.done => s.reading)
          /\ step.out \in {<<>>} \cup {<<Chunk(b, p)>> : p \in Piece}
      BY <3>2
    <3>. QED  BY <3>1, <3>2, <3>3, <3>4
  <2>2. CASE m.kind = "body.cancel"
    <3>1. step.half = StopSender(s) /\ step.out = <<>> /\ Cancel(b) \in Sent
      BY <1>1, <1>6, <2>2 DEF step, Quiet, Step
    <3>2. r.state = "stopped" /\ ~Live(r)
      BY <1>5, <3>1 DEF Body, Live
    <3>3. m # Pull(b)
      BY <2>2, MessageKinds
    <3>4. \A N : (\A n \in N \cap About(b) : n \in Sent) =>
             step.half \in SenderType /\ Body(b, step.half, r, N)
      <4>1. \A N : (\A n \in N \cap About(b) : n \in Sent) =>
               StopSender(s) \in SenderType /\ Body(b, StopSender(s), r, N)
        BY <1>4, <1>5, BodyStops
      <4>. QED  BY <3>1, <4>1
    <3>5. ToSet(step.out) = {}
      BY <3>1 DEF ToSet
    <3>6. step.half \in SenderType
      BY <3>4
    <3>. QED  BY <3>1, <3>2, <3>3, <3>4, <3>5, <3>6
  <2>. QED  BY <1>2, <2>1, <2>2
<1>9. \A x \in Up, p \in Piece : Pull(b) \in Sent => <<x, Chunk(b, p)>> \in Order
  <2>. SUFFICES ASSUME NEW x \in Up, NEW p \in Piece, Pull(b) \in Sent PROVE <<x, Chunk(b, p)>> \in Order
    OBVIOUS
  <2>1. x \notin Data(b) /\ x \in Message
    BY <1>0, <1>5, UpSent DEF Body
  <2>. QED  BY <1>4, <2>1, FitsData DEF Data
<1>10. \A p \in Piece : Chunk(b, p) \in ToPage /\ Chunk(b, p) \in About(b) /\ Chunk(b, p) \in Data(b)
  BY <1>3, AboutTyped DEF About, Data
<1>11. /\ step.out \in Seq(ToPage)
       /\ step.out = <<>> \/ \E d \in ToPage : d \in About(b) /\ step.out = <<d>>
            /\ \A x \in Up : <<x, d>> \in Order
  <2>1. CASE step.out = <<>>
    BY <2>1, EmptySeq
  <2>2. ASSUME NEW p \in Piece, step.out = <<Chunk(b, p)>>
        PROVE /\ step.out \in Seq(ToPage)
              /\ \E d \in ToPage : d \in About(b) /\ step.out = <<d>> /\ \A x \in Up : <<x, d>> \in Order
    <3>1. Pull(b) \in Sent
      BY <1>8, <2>2
    <3>. QED  BY <3>1, <2>2, <1>9, <1>10
  <2>. QED  BY <1>8, <2>1, <2>2
<1>12. /\ Sent' \subseteq Sent \cup ToSet(step.out)
       /\ \A n \in Sent' : n \in Up \/ n \in ToSet(step.out) \/ n \in ToSet(toSw')
       /\ Cut' <=> Cut
  BY <1>1, <1>2, <1>4, <1>7, <1>11, SwBodyPorts DEF m
<1>13. Body(b, step.half, r, Sent')
  <2>1. \A n \in Sent' \cap About(b) : (n \in Sent /\ (Pull(b) = m => n # Pull(b))) \/ n \in ToSet(step.out)
    BY <1>0, <1>1, <1>7, <1>12, UpSent, MessageKinds
  <2>. QED  BY <1>8, <2>1
<1>14. receiver'[b] = r /\ sender'[b] = step.half /\ receiver' = [receiver EXCEPT ![b] = r]
  BY <1>0, <1>2, <1>4, Untouched, TypedParts DEF r
<1>15. RequestBody(c)'
  <2>1. Live(r) => End(b) \notin Sent'
    <3>1. \A n \in ToSet(step.out) : n \in {Chunk(b, p) : p \in Piece}
      <4>1. step.out \in {<<>>} \cup {<<d>> : d \in {Chunk(b, p) : p \in Piece}}
        BY <1>8
      <4>. QED  BY <4>1, OneOf
    <3>2. End(b) \notin ToSet(step.out)
      BY <3>1, MessageKinds
    <3>. QED  BY <1>4, <1>8, <1>12, <3>2, InBody
  <2>2. r.state = "closed" => Taken(r) = Pieces(b) \/ worker = "failed"
    BY <1>3, <1>5 DEF CallInv, RequestBody, r
  <2>3. Live(r) /\ step.half.done => ~step.half.reading
    BY <1>8
  <2>. QED  BY <1>3, <1>7, <1>14, <2>1, <2>2, <2>3 DEF RequestBody
<1>16. ListensWhileOpen' /\ listening' \subseteq Signalled
  BY <1>0, <1>2 DEF ListensWhileOpen, Alive, TypeOK
<1>17. UNCHANGED <<outcome, aborted, failed, ready, link, entered, locked, pageVars>>
  BY <1>2
<1>18. toSw' = toSw \/ Head(toSw) \in About(b)
  BY <1>2, <1>4, <1>6, InBody DEF m
<1>19. /\ \A d \in Calls : b = Request(d) => RequestBody(d)'
       /\ \A d \in Calls : b # ResponseBody(d)
  BY <1>4, <1>15
<1>20. receiver[b] = r /\ (Live(r) => Live(receiver[b])) /\ receiver[b].state # "none" /\ r.state # "none"
  BY <1>8 DEF r
<1>21. /\ sender' = [sender EXCEPT ![b] = step.half] /\ SwSend(step.out) /\ Pops(toSw, toSw')
       /\ step.half \in SenderType
  BY <1>1, <1>2, <1>8
<1>. QED
  BY <1>4, <1>5, <1>11, <1>13, <1>14, <1>16, <1>17, <1>18, <1>19, <1>20, <1>21, SwBodyStep

\* the abort listener of a call whose response body has started
LEMMA ListensStill ==
  ASSUME
    TypeOK, ListensWhileOpen, NEW c \in Calls, Answered(c), NEW q \in ReceiverType,
    receiver[ResponseBody(c)].state # "none", receiver' = [receiver EXCEPT ![ResponseBody(c)] = q],
    UNCHANGED <<outcome, link>>,
    listening' = IF Live(q) THEN listening ELSE listening \ {c},
    Live(q) => Live(receiver[ResponseBody(c)])
  PROVE  ListensWhileOpen' /\ listening' \subseteq Signalled
<1>1. outcome[c] = "resolved"
  BY DEF Answered
<1>2. \A d \in Calls : receiver'[ResponseBody(d)] = IF d = c THEN q ELSE receiver[ResponseBody(d)]
  BY TypedParts, BodiesOf
<1>3. Signalled \subseteq Calls /\ listening \subseteq Signalled
  BY CallsAssumption DEF TypeOK
<1>4. Alive' <=> Alive
  BY DEF Alive
<1>5. ASSUME Alive
      PROVE  listening' = {d \in Signalled : outcome[d] = "pending" \/ Live(receiver'[ResponseBody(d)])}
  <2>1. listening = {d \in Signalled : outcome[d] = "pending" \/ Live(receiver[ResponseBody(d)])}
    BY <1>5 DEF ListensWhileOpen
  <2>. QED  BY <1>1, <1>2, <1>3, <2>1
<1>. QED  BY <1>3, <1>4, <1>5 DEF ListensWhileOpen

\* The service worker hears a piece, the end or the error of a response's
\* body.
LEMMA PreservedBySwOnReceiverMessage ==
  ASSUME IInv, link = "up", toSw # <<>>, toSw' = Tail(toSw), UNCHANGED <<aborted, entered, locked, pageVars>>,
         SwOnReceiverMessage(Head(toSw))
  PROVE  IInv'
<1>0. TypeOK /\ Ports /\ Connection /\ ListensWhileOpen
  BY DEF IInv
<1>. DEFINE m == Head(toSw) b == m.body s == sender[b] r == receiver[b] step == Deliver(b, r, m)
<1>1. /\ m \in ToSw /\ m \in Message /\ m \in Sent /\ Pops(toSw, toSw') /\ m \in ToSet(toSw)
      /\ \A y \in ToSet(toSw') : ~Rivals(m, y)
  BY <1>0, SwTaken
<1>2. /\ m.kind \in DataKinds
      /\ receiver' = [receiver EXCEPT ![b] = step.half] /\ SwSend(step.out)
      /\ listening' = IF Live(step.half) THEN listening ELSE listening \ {b[2]}
      /\ UNCHANGED <<outcome, failed, ready, link, sender>>
  BY DEF SwOnReceiverMessage, DataKinds
<1>3. PICK c \in Calls : b = ResponseBody(c)
  BY <1>1, <1>2, BodyMessage
<1>4. /\ b \in Bodies /\ (\A d \in Calls : b = ResponseBody(d) => d = c) /\ (\A d \in Calls : b # Request(d))
      /\ b[2] = c
  BY <1>3, BodiesOf
<1>5. s \in SenderType /\ r \in ReceiverType /\ CallInv(c) /\ Body(b, s, r, Sent)
  BY <1>0, <1>4, TypedParts DEF IInv, CallInv
<1>6. m \in Data(b) /\ m \in Sent
  BY <1>1, <1>2, KindIs
<1>7. UNCHANGED <<link, page, worker>> /\ \A d \in Data(b) : d \notin ToPage
  BY <1>2, <1>3, Directions DEF pageVars
<1>. HIDE DEF b, s, r, step, m
<1>8. \A N : (\A n \in N \cap About(b) : (n \in Sent /\ n \notin Data(b)) \/ n \in ToSet(step.out)) =>
           /\ step.half \in ReceiverType /\ (Live(step.half) => Live(r)) /\ r.state # "none"
           /\ step.half.state # "none"
           /\ Body(b, s, step.half, N) /\ step.out \in {<<>>, <<Cancel(b)>>}
           /\ step.half.state = "closed" => r.state = "closed" \/ (Live(r) /\ m = End(b))
           /\ step.half.state = "closed" => Taken(step.half) = Taken(r)
  <2>1. m \in Sent \cap Data(b)
    BY <1>6
  <2>2. DeliverySafe(b, s, r, Sent, m, Deliver(b, r, m).half, Deliver(b, r, m).out)
    BY <1>4, <1>5, <2>1, DeliveryIsSafe
  <2>. QED  BY <2>2 DEF DeliverySafe, step
<1>9. /\ step.half \in ReceiverType /\ (Live(step.half) => Live(r)) /\ r.state # "none"
      /\ step.half.state # "none"
      /\ step.out \in {<<>>, <<Cancel(b)>>}
      /\ step.half.state = "closed" => r.state = "closed" \/ (Live(r) /\ m = End(b))
      /\ step.half.state = "closed" => Taken(step.half) = Taken(r)
  <2>1. \A n \in {} \cap About(b) : (n \in Sent /\ n \notin Data(b)) \/ n \in ToSet(step.out)
    OBVIOUS
  <2>. QED  BY <1>8, <2>1
<1>10. Cancel(b) \in ToPage /\ Cancel(b) \in About(b) /\ \A x \in Up : <<x, Cancel(b)>> \in Order
  <2>1. Cancel(b) \in ToPage /\ Cancel(b) \in About(b)
    BY <1>3, AboutTyped DEF About
  <2>. QED  BY <1>0, <2>1, UpSent, FitsFreely, MessageKinds DEF Message
<1>11. /\ step.out \in Seq(ToPage)
       /\ step.out = <<>> \/ \E d \in ToPage : d \in About(b) /\ step.out = <<d>>
            /\ \A x \in Up : <<x, d>> \in Order
  <2>1. CASE step.out = <<>>
    BY <2>1, EmptySeq
  <2>2. CASE step.out = <<Cancel(b)>>
    BY <2>2, <1>10
  <2>. QED  BY <1>9, <2>1, <2>2
<1>12. /\ \A n \in Sent' : n \in Up \/ n \in ToSet(step.out) \/ n \in ToSet(toSw')
       /\ Sent' \subseteq Sent \cup ToSet(step.out)
  BY <1>1, <1>2, <1>4, <1>7, <1>11, SwBodyPorts DEF m
<1>13. \A n \in Sent' \cap About(b) : (n \in Sent /\ n \notin Data(b)) \/ n \in ToSet(step.out)
  <2>. SUFFICES ASSUME NEW n \in Sent', n \in About(b), n \notin ToSet(step.out)
                PROVE  n \in Sent /\ n \notin Data(b)
    OBVIOUS
  <2>1. CASE n \in Up
    BY <1>0, <1>7, <1>12, <2>1, UpSent
  <2>2. CASE n \in ToSet(toSw')
    <3>1. ~Rivals(m, n)
      BY <1>1, <2>2
    <3>2. m.kind \in DataKinds /\ m.body = b
      BY <1>6, DataKind
    <3>3. n \in Data(b) => n.kind \in DataKinds /\ n.body = b
      BY DataKind
    <3>. QED  BY <1>12, <3>1, <3>2, <3>3 DEF Rivals
  <2>. QED  BY <1>12, <2>1, <2>2
<1>14. Body(b, s, step.half, Sent')
  BY <1>8, <1>13
<1>15. receiver'[b] = step.half /\ sender'[b] = s /\ sender' = [sender EXCEPT ![b] = s]
  BY <1>0, <1>2, <1>4, Untouched, TypedParts DEF s
<1>16. AnswerBody(c)'
  <2>1. End(b) \notin Sent'
    <3>1. End(b) \notin ToSet(step.out)
      <4>1. step.out \in {<<>>} \cup {<<d>> : d \in {Cancel(b)}}
        BY <1>9
      <4>2. \A d \in ToSet(step.out) : d \in {Cancel(b)}
        BY <4>1, OneOf
      <4>. QED  BY <4>2, MessageKinds
    <3>. QED  BY <1>4, <1>13, <3>1, InBody
  <2>2. step.half.state = "closed" => Taken(step.half) = Pieces(b)
    <3>1. /\ r.state = "closed" => Taken(r) = Pieces(b)
          /\ Live(r) /\ End(b) \in Sent => Taken(r) = Pieces(b)
      BY <1>3, <1>5 DEF CallInv, AnswerBody, r
    <3>. QED  BY <1>6, <1>9, <3>1
  <2>3. ~s.reading
    BY <1>5, <1>6 DEF Body
  <2>. QED  BY <1>3, <1>15, <2>1, <2>2, <2>3 DEF AnswerBody
<1>17. receiver[b] = r /\ sender[b] = s
  BY DEF r, s
<1>18. ListensWhileOpen' /\ listening' \subseteq Signalled
  <2>1. /\ Answered(c) /\ receiver[ResponseBody(c)] = r
        /\ receiver' = [receiver EXCEPT ![ResponseBody(c)] = step.half]
    BY <1>2, <1>3, <1>5, <1>17 DEF CallInv
  <2>2. listening' = IF Live(step.half) THEN listening ELSE listening \ {c}
    BY <1>2, <1>4
  <2>3. UNCHANGED <<outcome, link>>
    BY <1>2
  <2>. QED  BY <1>0, <1>9, <2>1, <2>2, <2>3, ListensStill
<1>19. /\ \A d \in Calls : b = ResponseBody(d) => AnswerBody(d)'
       /\ \A d \in Calls : b # Request(d)
  BY <1>4, <1>16
<1>20. toSw' = toSw \/ Head(toSw) \in About(b)
  BY <1>4, <1>6, InBody DEF m
<1>21. UNCHANGED <<outcome, aborted, failed, ready, link, entered, locked, pageVars>>
  BY <1>2
<1>22. receiver' = [receiver EXCEPT ![b] = step.half] /\ SwSend(step.out) /\ Pops(toSw, toSw')
  BY <1>1, <1>2
<1>. QED
  BY <1>4, <1>5, <1>9, <1>11, <1>14, <1>15, <1>17, <1>18, <1>19, <1>20, <1>21, <1>22, SwBodyStep

\* the host reads the response's body
LEMMA PreservedByHostReads ==
  ASSUME IInv, NEW c \in Calls, HostReads(c)
  PROVE  IInv'
<1>0. TypeOK /\ Ports /\ Connection /\ ListensWhileOpen
  BY DEF IInv
<1>. DEFINE b == ResponseBody(c) s == sender[b] r == receiver[b] step == Read(b, r)
<1>2. /\ r.queue # <<>>
      /\ receiver' = [receiver EXCEPT ![b] = step.half] /\ SwSend(step.out)
      /\ UNCHANGED <<outcome, aborted, listening, failed, ready, link, entered, locked, sender, pageVars, toSw>>
  BY DEF HostReads, SwIdle
<1>4. b \in Bodies /\ (\A d \in Calls : b = ResponseBody(d) => d = c) /\ (\A d \in Calls : b # Request(d))
  BY BodiesOf
<1>5. s \in SenderType /\ r \in ReceiverType /\ CallInv(c) /\ Body(b, s, r, Sent)
  BY <1>0, <1>4, TypedParts DEF IInv, CallInv
<1>6. Pull(b) \in ToPage /\ Pull(b) \in About(b)
  BY AboutTyped DEF About
<1>. HIDE DEF b, s, r, step
<1>8. \A N : (\A n \in N \cap About(b) : n \in Sent \/ n \in ToSet(step.out)) =>
           /\ step.half \in ReceiverType /\ Live(r) /\ Live(step.half)
           /\ Body(b, s, step.half, N) /\ step.out = <<Pull(b)>>
           /\ Pull(b) \notin Sent /\ Sent \cap Data(b) = {}
  BY <1>2, <1>4, <1>5, BodyRead DEF step
<1>9. /\ step.half \in ReceiverType /\ Live(r) /\ Live(step.half) /\ step.out = <<Pull(b)>>
      /\ Pull(b) \notin Sent /\ Sent \cap Data(b) = {}
  <2>1. \A n \in {} \cap About(b) : n \in Sent \/ n \in ToSet(step.out)
    OBVIOUS
  <2>. QED  BY <1>8, <2>1
<1>10. \A x \in Up : <<x, Pull(b)>> \in Order
  BY <1>0, <1>4, <1>9, UpSent, FitsPull
<1>11. /\ step.out \in Seq(ToPage)
       /\ step.out = <<>> \/ \E d \in ToPage : d \in About(b) /\ step.out = <<d>>
            /\ \A x \in Up : <<x, d>> \in Order
  BY <1>6, <1>9, <1>10
<1>12. Pops(toSw, toSw') /\ UNCHANGED <<link, page, worker>>
  BY <1>2 DEF Pops, pageVars
<1>13. Sent' \subseteq Sent \cup ToSet(step.out)
  BY <1>2, <1>4, <1>11, <1>12, SwBodyPorts
<1>14. Body(b, s, step.half, Sent')
  BY <1>8, <1>13
<1>15. receiver'[b] = step.half /\ sender'[b] = s /\ sender' = [sender EXCEPT ![b] = s]
  BY <1>0, <1>2, <1>4, Untouched, TypedParts DEF s
<1>16. AnswerBody(c)'
  <2>1. End(b) \notin Sent'
    <3>1. \A n \in ToSet(step.out) : n = Pull(b)
      BY <1>9, OneMember
    <3>. QED  BY <1>4, <1>9, <1>13, <3>1, InBody
  <2>2. AnswerBody(c) /\ page' = page
    BY <1>5, <1>12 DEF CallInv
  <2>. QED  BY <1>9, <1>15, <2>1, <2>2 DEF AnswerBody, Live, b, s, r
<1>17. receiver[b] = r /\ sender[b] = s
  BY DEF r, s
<1>18. ListensWhileOpen' /\ listening' \subseteq Signalled
  <2>1. /\ Answered(c) /\ receiver[ResponseBody(c)] = r
        /\ receiver' = [receiver EXCEPT ![ResponseBody(c)] = step.half]
    BY <1>2, <1>5, <1>17 DEF CallInv, b
  <2>2. listening' = IF Live(step.half) THEN listening ELSE listening \ {c}
    BY <1>2, <1>9
  <2>3. UNCHANGED <<outcome, link>> /\ r.state # "none"
    BY <1>2, <1>9 DEF Live
  <2>. QED  BY <1>0, <1>9, <2>1, <2>2, <2>3, ListensStill
<1>19. /\ \A d \in Calls : b = ResponseBody(d) => AnswerBody(d)'
       /\ \A d \in Calls : b # Request(d)
  BY <1>4, <1>16
<1>20. receiver[b].state # "none" /\ step.half.state # "none" /\ Live(receiver[b])
  BY <1>9, <1>17 DEF Live
<1>21. UNCHANGED <<outcome, aborted, failed, ready, link, entered, locked, pageVars>> /\ toSw' = toSw
  BY <1>2
<1>22. receiver' = [receiver EXCEPT ![b] = step.half] /\ SwSend(step.out)
  BY <1>2
<1>. QED
  BY <1>4, <1>5, <1>9, <1>11, <1>12, <1>14, <1>15, <1>17, <1>18, <1>19, <1>20, <1>21, <1>22, SwBodyStep, ZenonT(60)

\* what stopping a live receiver does
LEMMA Stopping ==
  ASSUME NEW b \in Bodies, NEW r \in ReceiverType, Live(r)
  PROVE  /\ StopReceiver(b, r).out = <<Cancel(b)>>
         /\ StopReceiver(b, r).half.state = "stopped" /\ ~Live(StopReceiver(b, r).half)
         /\ StopReceiver(b, r).half \in ReceiverType
<1>. DEFINE q == StopReceiver(b, r).half
<1>1. /\ q = [r EXCEPT !.state = "stopped", !.queue = <<>>, !.waiting = FALSE]
      /\ StopReceiver(b, r).out = <<Cancel(b)>>
  BY DEF StopReceiver, Step
<1>. HIDE DEF q
<1>2. q.state = "stopped" /\ q \in ReceiverType
  BY <1>1, EmptySeq DEF ReceiverType
<1>. QED  BY <1>1, <1>2 DEF Live, q

\* the host cancels the response's body
LEMMA PreservedByHostCancels ==
  ASSUME IInv, NEW c \in Calls, HostCancels(c)
  PROVE  IInv'
<1>0. TypeOK /\ Ports /\ Connection /\ ListensWhileOpen
  BY DEF IInv
<1>. DEFINE b == ResponseBody(c) s == sender[b] r == receiver[b] step == StopReceiver(b, r)
<1>2. /\ Live(r)
      /\ receiver' = [receiver EXCEPT ![b] = step.half] /\ SwSend(step.out) /\ listening' = listening \ {c}
      /\ UNCHANGED <<outcome, aborted, failed, ready, link, entered, locked, sender, pageVars, toSw>>
  BY DEF HostCancels, SwIdle
<1>4. b \in Bodies /\ (\A d \in Calls : b = ResponseBody(d) => d = c) /\ (\A d \in Calls : b # Request(d))
  BY BodiesOf
<1>5. s \in SenderType /\ r \in ReceiverType /\ CallInv(c) /\ Body(b, s, r, Sent)
  BY <1>0, <1>4, TypedParts DEF IInv, CallInv
<1>6. Cancel(b) \in ToPage /\ Cancel(b) \in About(b)
  BY AboutTyped DEF About
<1>. HIDE DEF b, s, r, step
<1>9. /\ step.out = <<Cancel(b)>> /\ step.half.state = "stopped" /\ ~Live(step.half)
      /\ step.half \in ReceiverType
  BY <1>2, <1>4, <1>5, Stopping DEF step
<1>10. \A x \in Up : <<x, Cancel(b)>> \in Order
  BY <1>0, <1>6, UpSent, FitsFreely, MessageKinds DEF Message
<1>11. /\ step.out \in Seq(ToPage)
       /\ step.out = <<>> \/ \E d \in ToPage : d \in About(b) /\ step.out = <<d>>
            /\ \A x \in Up : <<x, d>> \in Order
  BY <1>6, <1>9, <1>10
<1>12. Pops(toSw, toSw') /\ UNCHANGED <<link, page, worker>>
  BY <1>2 DEF Pops, pageVars
<1>13. Sent' \subseteq Sent \cup ToSet(step.out)
  BY <1>2, <1>4, <1>11, <1>12, SwBodyPorts
<1>14. Body(b, s, step.half, Sent')
  <2>1. \A n \in Sent' \cap About(b) : n \in Sent \/ (n = Cancel(b) /\ Live(r) /\ ~Live(step.half))
    BY <1>2, <1>9, <1>13, OneMember
  <2>. QED  BY <1>4, <1>5, <2>1, BodyStops DEF step
<1>15. receiver'[b] = step.half /\ sender'[b] = s /\ sender' = [sender EXCEPT ![b] = s]
  BY <1>0, <1>2, <1>4, Untouched, TypedParts DEF s
<1>16. AnswerBody(c)'
  BY <1>9, <1>15 DEF AnswerBody, b
<1>17. receiver[b] = r /\ sender[b] = s
  BY DEF r, s
<1>18. ListensWhileOpen' /\ listening' \subseteq Signalled
  <2>1. /\ Answered(c) /\ receiver[ResponseBody(c)] = r
        /\ receiver' = [receiver EXCEPT ![ResponseBody(c)] = step.half]
    BY <1>2, <1>5, <1>17 DEF CallInv, b
  <2>2. listening' = IF Live(step.half) THEN listening ELSE listening \ {c}
    BY <1>2, <1>9
  <2>3. UNCHANGED <<outcome, link>> /\ r.state # "none"
    BY <1>2 DEF Live
  <2>. QED  BY <1>0, <1>9, <2>1, <2>2, <2>3, ListensStill
<1>19. /\ \A d \in Calls : b = ResponseBody(d) => AnswerBody(d)'
       /\ \A d \in Calls : b # Request(d)
  BY <1>4, <1>16
<1>20. receiver[b].state # "none" /\ step.half.state # "none" /\ Live(receiver[b])
  BY <1>2, <1>9, <1>17 DEF Live
<1>21. UNCHANGED <<outcome, aborted, failed, ready, link, entered, locked, pageVars>> /\ toSw' = toSw
  BY <1>2
<1>22. receiver' = [receiver EXCEPT ![b] = step.half] /\ SwSend(step.out)
  BY <1>2
<1>. QED
  BY <1>4, <1>5, <1>9, <1>11, <1>12, <1>14, <1>15, <1>17, <1>18, <1>19, <1>20, <1>21, <1>22, SwBodyStep

\* a call is in flight while its response's body is being sent
LEMMA ControllerStill ==
  ASSUME
    TypeOK, Controllers, NEW c \in Calls, Answered(c), NEW t \in SenderType,
    receiver[ResponseBody(c)].state # "none", sender' = [sender EXCEPT ![ResponseBody(c)] = t],
    UNCHANGED <<page, fetching, stopped>>, sender[ResponseBody(c)].done => t.done,
    inFlight' \in {inFlight, inFlight \ {c}}, ~t.done => inFlight' = inFlight,
    ~sender[ResponseBody(c)].done /\ t.done => inFlight' = inFlight \ {c}
  PROVE  Controllers' /\ inFlight' \subseteq Calls
<1>1. fetching[c] = "resolved"
  BY DEF Answered
<1>2. \A d \in Calls : sender'[ResponseBody(d)] = IF d = c THEN t ELSE sender[ResponseBody(d)]
  BY TypedParts, BodiesOf
<1>3. inFlight \subseteq Calls
  BY DEF TypeOK
<1>5. ASSUME page \in {"none", "attached"}
      PROVE inFlight' = {d \in Calls :
        \/ fetching[d] = "running" /\ d \notin stopped
        \/ ~sender'[ResponseBody(d)].done}
  <2>1. inFlight = {d \in Calls :
      \/ fetching[d] = "running" /\ d \notin stopped
      \/ ~sender[ResponseBody(d)].done}
    BY <1>5 DEF Controllers
  <2>. QED  BY <1>1, <1>2, <1>3, <2>1
<1>. QED  BY <1>3, <1>5 DEF Controllers

\* the document reads a chunk of a response's body
LEMMA PreservedByPageSource ==
  ASSUME IInv, NEW c \in Calls, PageSource(c)
  PROVE  IInv'
<1>. DEFINE b == ResponseBody(c) s == sender[b] r == receiver[b]
<1>1. PICK step \in ReadOutcome(b, s) :
         /\ sender' = [sender EXCEPT ![b] = step.half] /\ PageSend(step.out)
         /\ inFlight' = IF step.half.done THEN inFlight \ {c} ELSE inFlight
  BY DEF PageSource
<1>2. /\ s.reading
      /\ UNCHANGED <<page, worker, fetching, stopped, replied, receiver, swVars, toPage>>
  BY DEF PageSource, PageIdle
<1>3. b \in Bodies /\ (\A d \in Calls : b = ResponseBody(d) => d = c) /\ (\A d \in Calls : b # Request(d))
  BY BodiesOf
<1>4. s \in SenderType /\ r \in ReceiverType /\ TypeOK /\ Ports /\ Connection /\ CallInv(c) /\ Controllers
  BY <1>3, TypedParts DEF IInv, CallInv
<1>5. Body(b, s, r, Sent)
  BY <1>3 DEF IInv
<1>. HIDE DEF b, s, r
<1>6. \A N : (\A m \in N \cap About(b) : m \in Sent \/ m \in ToSet(step.out)) =>
           /\ step.half \in SenderType /\ ~step.half.reading /\ (s.done => step.half.done)
           /\ Body(b, step.half, r, N) /\ r.state # "none" /\ Sent \cap Data(b) = {}
           /\ step.out \in {<<>>} \cup {<<d>> : d \in Data(b)}
           /\ End(b) \in ToSet(step.out) => s.done \/ (Live(r) => Taken(r) = Pieces(b))
  BY <1>2, <1>3, <1>4, <1>5, BodySourced
<1>7. /\ step.half \in SenderType /\ ~step.half.reading /\ (s.done => step.half.done)
      /\ r.state # "none" /\ Sent \cap Data(b) = {}
      /\ step.out \in {<<>>} \cup {<<d>> : d \in Data(b)}
      /\ End(b) \in ToSet(step.out) => s.done \/ (Live(r) => Taken(r) = Pieces(b))
  BY <1>6 DEF About
<1>8. \A x \in ToSet(toSw), d \in Data(b) : <<x, d>> \in Order
  <2>1. ToSet(toSw) \subseteq Message /\ ToSet(toSw) \subseteq Sent
    BY <1>4, UpSent DEF Message
  <2>. QED  BY <1>3, <1>7, <2>1, FitsData
<1>9. Data(b) \subseteq ToSw /\ Data(b) \subseteq About(b)
  BY AboutTyped DEF About, b
<1>10. /\ step.out \in Seq(ToSw)
       /\ step.out = <<>> \/ \E d \in ToSw : d \in About(b) /\ step.out = <<d>>
            /\ \A x \in ToSet(toSw) : <<x, d>> \in Order
  <2>1. CASE step.out = <<>>
    BY <2>1, EmptySeq
  <2>2. CASE \E d \in Data(b) : step.out = <<d>>
    BY <2>2, <1>8, <1>9
  <2>. QED  BY <1>7, <2>1, <2>2
<1>14. Pops(toPage, toPage') /\ UNCHANGED <<link, page, outbox, worker>> /\ toPage' = toPage
  BY <1>2 DEF Pops, swVars
<1>15. /\ Sent' \subseteq Sent \cup ToSet(step.out)
       /\ page # "attached" \/ link # "up" => Sent' \subseteq Sent
  BY <1>1, <1>3, <1>10, <1>14, PageBodyPorts
<1>16. Body(b, step.half, r, Sent')
  BY <1>6, <1>15
<1>17. /\ receiver'[b] = r /\ sender'[b] = step.half /\ receiver' = [receiver EXCEPT ![b] = r]
       /\ sender[b] = s /\ receiver[b] = r
  BY <1>1, <1>2, <1>3, <1>4, Untouched, TypedParts DEF r, s
<1>18. AnswerBody(c)'
  <2>1. AnswerBody(c) /\ End(b) \in Data(b)
    BY <1>3, <1>4, InBody DEF CallInv
  <2>2. ASSUME Live(r), End(b) \in Sent'
        PROVE  Taken(r) = Pieces(b)
    <3>1. End(b) \in ToSet(step.out) /\ End(b) \notin Sent /\ page = "attached"
      BY <1>7, <1>15, <2>1, <2>2
    <3>2. ~s.done
      BY <1>2, <2>1, <2>2, <3>1 DEF AnswerBody, b, s, r
    <3>. QED  BY <1>7, <2>2, <3>1, <3>2
  <2>3. r.state = "closed" => Taken(r) = Pieces(b)
    BY <2>1 DEF AnswerBody, b, r
  <2>. QED  BY <1>7, <1>17, <2>2, <2>3 DEF AnswerBody, b
<1>19. Controllers' /\ inFlight' \subseteq Calls
  <2>1. /\ Answered(c) /\ receiver[ResponseBody(c)].state # "none"
        /\ sender' = [sender EXCEPT ![ResponseBody(c)] = step.half]
        /\ (sender[ResponseBody(c)].done => step.half.done)
    BY <1>1, <1>4, <1>7, <1>17 DEF CallInv, b
  <2>2. UNCHANGED <<page, fetching, stopped>>
    BY <1>2
  <2>. QED  BY <1>1, <1>4, <1>7, <2>1, <2>2, ControllerStill
<1>20. UNCHANGED <<swVars, page, worker, fetching, stopped, replied>>
  BY <1>2
<1>21. /\ \A d \in Calls : b = ResponseBody(d) => AnswerBody(d)' /\ r = receiver[b]
       /\ \A d \in Calls : b # Request(d)
  BY <1>3, <1>17, <1>18
<1>22. receiver[b].state # "none" /\ r.state # "none" /\ (Live(r) => Live(receiver[b]))
  BY <1>7, <1>17
<1>23. sender' = [sender EXCEPT ![b] = step.half] /\ PageSend(step.out) /\ step.half \in SenderType
  BY <1>1, <1>7
<1>. QED
  BY <1>3, <1>4, <1>10, <1>14, <1>16, <1>17, <1>19, <1>20, <1>21, <1>22, <1>23, PageBodyStep

\* the document hears a pull or a cancel of a response's body
LEMMA PreservedByPageOnSenderMessage ==
  ASSUME
    IInv, page \in {"none", "attached"}, toPage # <<>>, toPage' = Tail(toPage),
    UNCHANGED <<swVars, worker, replied>>,
    PageOnSenderMessage(Head(toPage))
  PROVE  IInv'
<1>0. TypeOK /\ Ports /\ Connection /\ Controllers
  BY DEF IInv
<1>. DEFINE m == Head(toPage) b == m.body s == sender[b] r == receiver[b]
            step == IF m.kind = "body.pull" THEN OnPull(b, s) ELSE Quiet(StopSender(s))
<1>1. /\ m \in ToPage /\ m \in Message /\ m \in Sent /\ Pops(toPage, toPage') /\ m \in ToSet(toPage)
      /\ m.kind = "body.pull" => m \notin ToSet(toPage')
      /\ m.kind # "boot" => page = "attached"
      /\ outbox = <<>>
  BY <1>0, PageTaken
<1>2. /\ m.kind \in {"body.pull", "body.cancel"}
      /\ sender' = [sender EXCEPT ![b] = step.half] /\ PageSend(step.out)
      /\ inFlight' = IF ~s.done /\ step.half.done THEN inFlight \ {b[2]} ELSE inFlight
      /\ UNCHANGED <<page, fetching, stopped, receiver>>
  BY DEF PageOnSenderMessage
<1>3. PICK c \in Calls : b = ResponseBody(c)
  BY <1>1, <1>2, BodyMessage
<1>4. /\ b \in Bodies /\ (\A d \in Calls : b = ResponseBody(d) => d = c) /\ (\A d \in Calls : b # Request(d))
      /\ b[2] = c
  BY <1>3, BodiesOf
<1>5. s \in SenderType /\ r \in ReceiverType /\ CallInv(c) /\ Body(b, s, r, Sent)
  BY <1>0, <1>4, TypedParts DEF IInv, CallInv
<1>6. (m.kind = "body.pull" => m = Pull(b)) /\ (m.kind = "body.cancel" => m = Cancel(b))
  BY <1>1, KindIs
<1>7. Pull(b) \notin ToSw /\ UNCHANGED <<link, page, outbox, worker>>
  BY <1>2, <1>3, Directions DEF swVars
<1>. HIDE DEF b, s, r, step, m
<1>8.
    /\ step.half \in SenderType /\ r.state # "none" /\ (s.done => step.half.done)
    /\ step.half.reading /\ step.half.done => s.reading \/ ~Live(r)
    /\ step.out \in {<<>>} \cup {<<Chunk(b, p)>> : p \in Piece}
    /\ step.out # <<>> => Pull(b) \in Sent
    /\ Live(r) => Sent \cap Data(b) = {} /\ ~s.reading
    /\ \A N : (\A n \in N \cap About(b) : (n \in Sent /\ (Pull(b) = m => n # Pull(b)))
           \/ n \in ToSet(step.out)) => Body(b, step.half, r, N)
  <2>1. CASE m.kind = "body.pull"
    <3>1. Pull(b) \in Sent /\ step = OnPull(b, s) /\ Pull(b) = m
      BY <1>1, <1>6, <2>1 DEF step
    <3>2. \A N : (\A n \in N \cap About(b) : (n \in Sent /\ n # Pull(b)) \/ n \in ToSet(step.out)) =>
             /\ step.half \in SenderType /\ (step.half.reading /\ step.half.done => s.reading)
             /\ step.half.done = s.done
             /\ Body(b, step.half, r, N)
             /\ step.out \in {<<>>} \cup {<<Chunk(b, p)>> : p \in Piece}
      BY <1>4, <1>5, <3>1, BodyPulled
    <3>3. Sent \cap Data(b) = {} /\ ~s.reading /\ r.state # "none"
      BY <1>5, <3>1 DEF Body, About
    <3>4. /\ step.half \in SenderType /\ (step.half.reading /\ step.half.done => s.reading)
          /\ step.half.done = s.done
          /\ step.out \in {<<>>} \cup {<<Chunk(b, p)>> : p \in Piece}
      BY <3>2
    <3>. QED  BY <3>1, <3>2, <3>3, <3>4
  <2>2. CASE m.kind = "body.cancel"
    <3>1. step.half = StopSender(s) /\ step.out = <<>> /\ Cancel(b) \in Sent
      BY <1>1, <1>6, <2>2 DEF step, Quiet, Step
    <3>2. r.state = "stopped" /\ ~Live(r)
      BY <1>5, <3>1 DEF Body, Live
    <3>3. m # Pull(b)
      BY <2>2, MessageKinds
    <3>4. \A N : (\A n \in N \cap About(b) : n \in Sent) =>
             step.half \in SenderType /\ Body(b, step.half, r, N)
      <4>1. \A N : (\A n \in N \cap About(b) : n \in Sent) =>
               StopSender(s) \in SenderType /\ Body(b, StopSender(s), r, N)
        BY <1>4, <1>5, BodyStops
      <4>. QED  BY <3>1, <4>1
    <3>5. ToSet(step.out) = {}
      BY <3>1 DEF ToSet
    <3>6. step.half \in SenderType
      BY <3>4
    <3>7. step.half.done
      BY <1>5, <3>1 DEF StopSender, SenderType
    <3>. QED  BY <3>1, <3>2, <3>3, <3>4, <3>5, <3>6, <3>7
  <2>. QED  BY <1>2, <2>1, <2>2
<1>9. \A x \in ToSet(toSw), p \in Piece : Pull(b) \in Sent => <<x, Chunk(b, p)>> \in Order
  <2>. SUFFICES ASSUME NEW x \in ToSet(toSw), NEW p \in Piece, Pull(b) \in Sent
                PROVE  <<x, Chunk(b, p)>> \in Order
    OBVIOUS
  <2>1. x \notin Data(b) /\ x \in Message
    BY <1>0, <1>5, UpSent DEF Body, Message
  <2>. QED  BY <1>4, <2>1, FitsData DEF Data
<1>10. \A p \in Piece : Chunk(b, p) \in ToSw /\ Chunk(b, p) \in About(b) /\ Chunk(b, p) \in Data(b)
  BY <1>3, AboutTyped DEF About, Data
<1>11. /\ step.out \in Seq(ToSw)
       /\ step.out = <<>> \/ \E d \in ToSw : d \in About(b) /\ step.out = <<d>>
            /\ \A x \in ToSet(toSw) : <<x, d>> \in Order
  <2>1. CASE step.out = <<>>
    BY <2>1, EmptySeq
  <2>2. ASSUME NEW p \in Piece, step.out = <<Chunk(b, p)>>
        PROVE /\ step.out \in Seq(ToSw)
              /\ \E d \in ToSw : d \in About(b) /\ step.out = <<d>>
                   /\ \A x \in ToSet(toSw) : <<x, d>> \in Order
    <3>1. Pull(b) \in Sent
      BY <1>8, <2>2
    <3>. QED  BY <3>1, <2>2, <1>9, <1>10
  <2>. QED  BY <1>8, <2>1, <2>2
<1>20. toPage' = toPage \/ (page = "attached" /\ Head(toPage) \in About(b))
  BY <1>1, <1>2, <1>4, <1>6, InBody DEF m
<1>12. /\ Sent' \subseteq Sent \cup ToSet(step.out)
       /\ \A n \in Sent' : n \in ToSet(outbox) \/ n \in ToSet(toPage') \/ n \in ToSet(toSw)
            \/ n \in ToSet(step.out)
  BY <1>1, <1>2, <1>4, <1>7, <1>11, <1>20, PageBodyPorts
<1>13. Body(b, step.half, r, Sent')
  <2>1. \A n \in Sent' \cap About(b) : (n \in Sent /\ (Pull(b) = m => n # Pull(b))) \/ n \in ToSet(step.out)
    <3>1. \A n : n \notin ToSet(outbox)
      BY <1>1, OneMember, Zenon
    <3>. QED  BY <1>0, <1>1, <1>7, <1>12, <3>1, UpSent, MessageKinds
  <2>. QED  BY <1>8, <2>1
<1>14. /\ receiver'[b] = r /\ sender'[b] = step.half /\ receiver' = [receiver EXCEPT ![b] = r]
       /\ receiver[b] = r /\ sender[b] = s
  BY <1>0, <1>2, <1>4, Untouched, TypedParts DEF r, s
<1>15. AnswerBody(c)'
  <2>1. Live(r) => End(b) \notin Sent'
    <3>1. \A n \in ToSet(step.out) : n \in {Chunk(b, p) : p \in Piece}
      <4>1. step.out \in {<<>>} \cup {<<d>> : d \in {Chunk(b, p) : p \in Piece}}
        BY <1>8
      <4>. QED  BY <4>1, OneOf
    <3>2. End(b) \notin ToSet(step.out)
      BY <3>1, MessageKinds
    <3>. QED  BY <1>4, <1>8, <1>12, <3>2, InBody
  <2>2. r.state = "closed" => Taken(r) = Pieces(b)
    BY <1>3, <1>5 DEF CallInv, AnswerBody, r
  <2>3. Live(r) /\ step.half.done => ~step.half.reading
    BY <1>8
  <2>. QED  BY <1>3, <1>7, <1>14, <2>1, <2>2, <2>3 DEF AnswerBody
<1>16. Controllers' /\ inFlight' \subseteq Calls
  <2>1. /\ Answered(c) /\ receiver[ResponseBody(c)].state # "none"
        /\ sender' = [sender EXCEPT ![ResponseBody(c)] = step.half]
        /\ (sender[ResponseBody(c)].done => step.half.done)
    BY <1>2, <1>3, <1>5, <1>8, <1>14 DEF CallInv
  <2>2. UNCHANGED <<page, fetching, stopped>>
    BY <1>2
  <2>3. inFlight' = IF ~sender[ResponseBody(c)].done /\ step.half.done THEN inFlight \ {c} ELSE inFlight
    BY <1>2, <1>3, <1>4, <1>14
  <2>4. /\ inFlight' \in {inFlight, inFlight \ {c}} /\ (~step.half.done => inFlight' = inFlight)
        /\ ~sender[ResponseBody(c)].done /\ step.half.done => inFlight' = inFlight \ {c}
    BY <2>3
  <2>. QED  BY <1>0, <1>8, <2>1, <2>2, <2>4, ControllerStill
<1>17. UNCHANGED <<swVars, page, worker, fetching, stopped, replied>>
  BY <1>2
<1>18. /\ \A d \in Calls : b = ResponseBody(d) => AnswerBody(d)' /\ r = receiver[b]
       /\ \A d \in Calls : b # Request(d)
  BY <1>4, <1>14, <1>15
<1>19. receiver[b].state # "none" /\ r.state # "none" /\ (Live(r) => Live(receiver[b]))
  BY <1>8, <1>14
<1>21. /\ sender' = [sender EXCEPT ![b] = step.half] /\ PageSend(step.out) /\ step.half \in SenderType
       /\ Pops(toPage, toPage')
  BY <1>1, <1>2, <1>8
<1>. QED
  BY <1>4, <1>5, <1>11, <1>13, <1>14, <1>16, <1>17, <1>18, <1>19, <1>20, <1>21, PageBodyStep

\* the document hears a piece, the end or the error of a request's body
LEMMA PreservedByPageOnReceiverMessage ==
  ASSUME
    IInv, page \in {"none", "attached"}, toPage # <<>>, toPage' = Tail(toPage),
    UNCHANGED <<swVars, worker, replied>>,
    PageOnReceiverMessage(Head(toPage))
  PROVE  IInv'
<1>0. TypeOK /\ Ports /\ Connection /\ Controllers
  BY DEF IInv
<1>. DEFINE m == Head(toPage) b == m.body s == sender[b] r == receiver[b] step == Deliver(b, r, m)
<1>1. /\ m \in ToPage /\ m \in Message /\ m \in Sent /\ Pops(toPage, toPage') /\ m \in ToSet(toPage)
      /\ \A y \in ToSet(toPage') : ~Rivals(m, y)
      /\ m.kind # "boot" => page = "attached"
      /\ outbox = <<>>
      /\ \A x, y : Prior(toPage, x, y) => m # y
  BY <1>0, PageTaken
<1>2. /\ m.kind \in DataKinds
      /\ receiver' = [receiver EXCEPT ![b] = step.half] /\ PageSend(step.out)
      /\ UNCHANGED <<page, fetching, stopped, inFlight, sender>>
  BY DEF PageOnReceiverMessage, DataKinds
<1>3. PICK c \in Calls : b = Request(c)
  BY <1>1, <1>2, BodyMessage
<1>4. b \in Bodies /\ (\A d \in Calls : b = Request(d) => d = c) /\ (\A d \in Calls : b # ResponseBody(d))
  BY <1>3, BodiesOf
<1>5. s \in SenderType /\ r \in ReceiverType /\ CallInv(c) /\ Body(b, s, r, Sent)
  BY <1>0, <1>4, TypedParts DEF IInv, CallInv
<1>6. m \in Data(b) /\ m \in Sent
  BY <1>1, <1>2, KindIs
<1>7. UNCHANGED <<link, page, outbox, worker>> /\ \A d \in Data(b) : d \notin ToSw
  BY <1>2, <1>3, Directions DEF swVars
<1>. HIDE DEF b, s, r, step, m
<1>8. \A N : (\A n \in N \cap About(b) : (n \in Sent /\ n \notin Data(b)) \/ n \in ToSet(step.out))
        => Body(b, s, step.half, N)
  <2>1. m \in Sent \cap Data(b)
    BY <1>6
  <2>2. DeliverySafe(b, s, r, Sent, m, Deliver(b, r, m).half, Deliver(b, r, m).out)
    BY <1>4, <1>5, <2>1, DeliveryIsSafe
  <2>. QED  BY <2>2 DEF DeliverySafe, step
<1>9. /\ step.half \in ReceiverType /\ (Live(step.half) => Live(r)) /\ r.state # "none"
      /\ step.half.state # "none"
      /\ step.out \in {<<>>, <<Cancel(b)>>}
      /\ step.half.state = "closed" => r.state = "closed" \/ (Live(r) /\ m = End(b))
      /\ step.half.state = "closed" => Taken(step.half) = Taken(r)
  <2>1. m \in Sent \cap Data(b)
    BY <1>6
  <2>2. DeliverySafe(b, s, r, Sent, m, Deliver(b, r, m).half, Deliver(b, r, m).out)
    BY <1>4, <1>5, <2>1, DeliveryIsSafe
  <2>. QED  BY <2>2 DEF DeliverySafe, step
<1>10. Cancel(b) \in ToSw /\ Cancel(b) \in About(b) /\ \A x \in ToSet(toSw) : <<x, Cancel(b)>> \in Order
  <2>1. Cancel(b) \in ToSw /\ Cancel(b) \in About(b)
    BY <1>3, AboutTyped DEF About
  <2>. QED  BY <1>0, <2>1, UpSent, FitsFreely, MessageKinds DEF Message
<1>11. /\ step.out \in Seq(ToSw)
       /\ step.out = <<>> \/ \E d \in ToSw : d \in About(b) /\ step.out = <<d>>
            /\ \A x \in ToSet(toSw) : <<x, d>> \in Order
  <2>1. CASE step.out = <<>>
    BY <2>1, EmptySeq
  <2>2. CASE step.out = <<Cancel(b)>>
    BY <2>2, <1>10
  <2>. QED  BY <1>9, <2>1, <2>2
<1>20. page = "attached" /\ Head(toPage) \in About(b)
  BY <1>1, <1>2, <1>4, <1>6, InBody DEF m, DataKinds
<1>12. /\ Sent' \subseteq Sent \cup ToSet(step.out)
       /\ \A n \in Sent' : n \in ToSet(outbox) \/ n \in ToSet(toPage') \/ n \in ToSet(toSw)
            \/ n \in ToSet(step.out)
  BY <1>1, <1>2, <1>4, <1>7, <1>11, <1>20, PageBodyPorts
<1>13. \A n \in Sent' \cap About(b) : (n \in Sent /\ n \notin Data(b)) \/ n \in ToSet(step.out)
  <2>. SUFFICES ASSUME NEW n \in Sent', n \in About(b), n \notin ToSet(step.out)
                PROVE  n \in Sent /\ n \notin Data(b)
    OBVIOUS
  <2>0. n \notin ToSet(outbox)
    BY <1>1, OneMember, Zenon
  <2>1. CASE n \in ToSet(toSw)
    BY <1>0, <1>7, <1>12, <2>1, UpSent
  <2>2. CASE n \in ToSet(toPage')
    <3>1. ~Rivals(m, n)
      BY <1>1, <2>2
    <3>2. m.kind \in DataKinds /\ m.body = b
      BY <1>6, DataKind
    <3>3. n \in Data(b) => n.kind \in DataKinds /\ n.body = b
      BY DataKind
    <3>. QED  BY <1>12, <3>1, <3>2, <3>3 DEF Rivals
  <2>. QED  BY <1>12, <2>0, <2>1, <2>2
<1>14. Body(b, s, step.half, Sent')
  BY <1>8, <1>13
<1>15. receiver'[b] = step.half /\ sender'[b] = s /\ sender' = [sender EXCEPT ![b] = s]
  BY <1>0, <1>2, <1>4, Untouched, TypedParts DEF s
<1>16. RequestBody(c)'
  <2>1. End(b) \notin Sent'
    <3>1. End(b) \notin ToSet(step.out)
      <4>1. step.out \in {<<>>} \cup {<<d>> : d \in {Cancel(b)}}
        BY <1>9
      <4>2. \A d \in ToSet(step.out) : d \in {Cancel(b)}
        BY <4>1, OneOf
      <4>. QED  BY <4>2, MessageKinds
    <3>. QED  BY <1>4, <1>13, <3>1, InBody
  <2>2. step.half.state = "closed" => Taken(step.half) = Pieces(b) \/ worker = "failed"
    <3>1. /\ r.state = "closed" => Taken(r) = Pieces(b) \/ worker = "failed"
          /\ Live(r) /\ End(b) \in Sent
               => Taken(r) = Pieces(b) \/ worker = "failed" \/ Prior(toPage, Abort(c), End(b))
      BY <1>3, <1>5 DEF CallInv, RequestBody, r
    <3>. QED  BY <1>1, <1>6, <1>9, <3>1
  <2>3. ~s.reading
    BY <1>5, <1>6 DEF Body
  <2>. QED  BY <1>3, <1>7, <1>15, <2>1, <2>2, <2>3 DEF RequestBody
<1>17. receiver[b] = r /\ sender[b] = s
  BY DEF r, s
<1>18. Controllers' /\ inFlight' \subseteq Calls
  BY <1>0, <1>2 DEF Controllers, TypeOK
<1>19. /\ \A d \in Calls : b = Request(d) => RequestBody(d)'
       /\ \A d \in Calls : b # ResponseBody(d)
  BY <1>4, <1>16
<1>21. UNCHANGED <<swVars, page, worker, fetching, stopped, replied>>
  BY <1>2
<1>22. receiver' = [receiver EXCEPT ![b] = step.half] /\ PageSend(step.out) /\ Pops(toPage, toPage')
  BY <1>1, <1>2
<1>. QED
  BY <1>4, <1>5, <1>9, <1>11, <1>14, <1>15, <1>17, <1>18, <1>19, <1>20, <1>21, <1>22, PageBodyStep

\* the worker reads the request's body
LEMMA PreservedByWorkerReads ==
  ASSUME IInv, NEW c \in Calls, WorkerReads(c)
  PROVE  IInv'
<1>0. TypeOK /\ Ports /\ Connection /\ Controllers
  BY DEF IInv
<1>. DEFINE b == Request(c) s == sender[b] r == receiver[b] step == Read(b, r)
<1>2. /\ r.queue # <<>>
      /\ receiver' = [receiver EXCEPT ![b] = step.half] /\ PageSend(step.out)
      /\ UNCHANGED <<pageVars, sender, swVars, toPage>>
  BY DEF WorkerReads, PageIdle
<1>4. b \in Bodies /\ (\A d \in Calls : b = Request(d) => d = c) /\ (\A d \in Calls : b # ResponseBody(d))
  BY BodiesOf
<1>5. s \in SenderType /\ r \in ReceiverType /\ CallInv(c) /\ Body(b, s, r, Sent)
  BY <1>0, <1>4, TypedParts DEF IInv, CallInv
<1>6. Pull(b) \in ToSw /\ Pull(b) \in About(b)
  BY AboutTyped DEF About
<1>. HIDE DEF b, s, r, step
<1>8. \A N : (\A n \in N \cap About(b) : n \in Sent \/ n \in ToSet(step.out)) =>
           /\ step.half \in ReceiverType /\ Live(r) /\ Live(step.half)
           /\ Body(b, s, step.half, N) /\ step.out = <<Pull(b)>>
           /\ Pull(b) \notin Sent /\ Sent \cap Data(b) = {}
  BY <1>2, <1>4, <1>5, BodyRead DEF step
<1>9. /\ step.half \in ReceiverType /\ Live(r) /\ Live(step.half) /\ step.out = <<Pull(b)>>
      /\ Pull(b) \notin Sent /\ Sent \cap Data(b) = {}
  <2>1. \A n \in {} \cap About(b) : n \in Sent \/ n \in ToSet(step.out)
    OBVIOUS
  <2>. QED  BY <1>8, <2>1
<1>10. \A x \in ToSet(toSw) : <<x, Pull(b)>> \in Order
  BY <1>0, <1>4, <1>9, UpSent, FitsPull DEF Message
<1>11. /\ step.out \in Seq(ToSw)
       /\ step.out = <<>> \/ \E d \in ToSw : d \in About(b) /\ step.out = <<d>>
            /\ \A x \in ToSet(toSw) : <<x, d>> \in Order
  BY <1>6, <1>9, <1>10
<1>12. Pops(toPage, toPage') /\ UNCHANGED <<link, page, outbox, worker>> /\ toPage' = toPage
  BY <1>2 DEF Pops, pageVars, swVars
<1>13. Sent' \subseteq Sent \cup ToSet(step.out) /\ (Cut' <=> Cut)
  BY <1>2, <1>4, <1>11, <1>12, PageBodyPorts
<1>14. Body(b, s, step.half, Sent')
  BY <1>8, <1>13
<1>15. receiver'[b] = step.half /\ sender'[b] = s /\ sender' = [sender EXCEPT ![b] = s]
  BY <1>0, <1>2, <1>4, Untouched, TypedParts DEF s
<1>17. receiver[b] = r /\ sender[b] = s
  BY DEF r, s
<1>16. RequestBody(c)'
  <2>1. End(b) \notin Sent'
    <3>1. \A n \in ToSet(step.out) : n = Pull(b)
      BY <1>9, OneMember
    <3>. QED  BY <1>4, <1>9, <1>13, <3>1, InBody
  <2>2. ~s.reading
    BY <1>2, <1>4, <1>5, <1>9 DEF Body
  <2>. QED  BY <1>9, <1>15, <2>1, <2>2 DEF RequestBody, Live, b
<1>18. Controllers' /\ inFlight' \subseteq Calls
  BY <1>0, <1>2 DEF Controllers, TypeOK, pageVars
<1>19. /\ \A d \in Calls : b = Request(d) => RequestBody(d)'
       /\ \A d \in Calls : b # ResponseBody(d)
  BY <1>4, <1>16
<1>20. receiver[b].state # "none" /\ step.half.state # "none" /\ Live(receiver[b])
  BY <1>9, <1>17 DEF Live
<1>21. UNCHANGED <<swVars, page, worker, fetching, stopped, replied>>
  BY <1>2 DEF pageVars
<1>22. receiver' = [receiver EXCEPT ![b] = step.half] /\ PageSend(step.out)
  BY <1>2
<1>. QED
  BY <1>4, <1>5, <1>9, <1>11, <1>12, <1>14, <1>15, <1>17, <1>18, <1>19, <1>20, <1>21, <1>22, PageBodyStep

\* the worker cancels the request's body
LEMMA PreservedByWorkerCancels ==
  ASSUME IInv, NEW c \in Calls, WorkerCancels(c)
  PROVE  IInv'
<1>0. TypeOK /\ Ports /\ Connection /\ Controllers
  BY DEF IInv
<1>. DEFINE b == Request(c) s == sender[b] r == receiver[b] step == StopReceiver(b, r)
<1>2. /\ Live(r)
      /\ receiver' = [receiver EXCEPT ![b] = step.half] /\ PageSend(step.out)
      /\ UNCHANGED <<pageVars, sender, swVars, toPage>>
  BY DEF WorkerCancels, PageIdle
<1>4. b \in Bodies /\ (\A d \in Calls : b = Request(d) => d = c) /\ (\A d \in Calls : b # ResponseBody(d))
  BY BodiesOf
<1>5. s \in SenderType /\ r \in ReceiverType /\ CallInv(c) /\ Body(b, s, r, Sent)
  BY <1>0, <1>4, TypedParts DEF IInv, CallInv
<1>6. Cancel(b) \in ToSw /\ Cancel(b) \in About(b)
  BY AboutTyped DEF About
<1>. HIDE DEF b, s, r, step
<1>9. /\ step.out = <<Cancel(b)>> /\ step.half.state = "stopped" /\ ~Live(step.half)
      /\ step.half \in ReceiverType
  BY <1>2, <1>4, <1>5, Stopping DEF step
<1>10. \A x \in ToSet(toSw) : <<x, Cancel(b)>> \in Order
  BY <1>0, <1>6, UpSent, FitsFreely, MessageKinds DEF Message
<1>11. /\ step.out \in Seq(ToSw)
       /\ step.out = <<>> \/ \E d \in ToSw : d \in About(b) /\ step.out = <<d>>
            /\ \A x \in ToSet(toSw) : <<x, d>> \in Order
  BY <1>6, <1>9, <1>10
<1>12. Pops(toPage, toPage') /\ UNCHANGED <<link, page, outbox, worker>> /\ toPage' = toPage
  BY <1>2 DEF Pops, pageVars, swVars
<1>13. Sent' \subseteq Sent \cup ToSet(step.out)
  BY <1>2, <1>4, <1>11, <1>12, PageBodyPorts
<1>14. Body(b, s, step.half, Sent')
  <2>1. \A n \in Sent' \cap About(b) : n \in Sent \/ (n = Cancel(b) /\ Live(r) /\ ~Live(step.half))
    BY <1>2, <1>9, <1>13, OneMember
  <2>. QED  BY <1>4, <1>5, <2>1, BodyStops DEF step
<1>15. receiver'[b] = step.half /\ sender'[b] = s /\ sender' = [sender EXCEPT ![b] = s]
  BY <1>0, <1>2, <1>4, Untouched, TypedParts DEF s
<1>16. RequestBody(c)'
  BY <1>9, <1>15 DEF RequestBody, b
<1>17. receiver[b] = r /\ sender[b] = s
  BY DEF r, s
<1>18. Controllers' /\ inFlight' \subseteq Calls
  BY <1>0, <1>2 DEF Controllers, TypeOK, pageVars
<1>19. /\ \A d \in Calls : b = Request(d) => RequestBody(d)'
       /\ \A d \in Calls : b # ResponseBody(d)
  BY <1>4, <1>16
<1>20. receiver[b].state # "none" /\ step.half.state # "none" /\ Live(receiver[b])
  BY <1>2, <1>9, <1>17 DEF Live
<1>21. UNCHANGED <<swVars, page, worker, fetching, stopped, replied>>
  BY <1>2 DEF pageVars
<1>22. receiver' = [receiver EXCEPT ![b] = step.half] /\ PageSend(step.out)
  BY <1>2
<1>. QED
  BY <1>4, <1>5, <1>9, <1>11, <1>12, <1>14, <1>15, <1>17, <1>18, <1>19, <1>20, <1>21, <1>22, PageBodyStep

--------------------
(* Steps that stop bodies. *)

\* Bodies stop, messages get lost, calls are rejected: what is left of the
\* calls and the bodies is as the invariant says.
LEMMA Halting ==
  ASSUME
    IInv,
    \A b \in Bodies :
      /\ sender'[b] \in {sender[b], StopSender(sender[b])}
      /\ receiver'[b] \in {receiver[b], StopReceiver(b, receiver[b]).half},
    \A b \in Bodies : \A m \in Sent' \cap About(b) :
      m \in Sent \/ (m = Cancel(b) /\ Live(receiver[b]) /\ ~Live(receiver'[b])),
    UNCHANGED <<entered, locked, replied>>,
    \A c \in Calls :
      \/ outcome'[c] = outcome[c]
      \/ outcome[c] # "resolved" /\ outcome'[c] = "rejected"
      \/ outcome[c] = "idle" /\ outcome'[c] = "normalizing",
    \A c \in Calls :
      \/ fetching'[c] = fetching[c]
      \/ fetching[c] = "running" /\ fetching'[c] = "rejected"
           /\ ~Live(receiver'[Request(c)]),
    \A c \in Calls : c \in stopped' /\ fetching[c] = "none" => c \in stopped,
    \A c \in Calls :
      /\ \A s \in BOOLEAN : FetchMsg(c, s) \in Sent' => FetchMsg(c, s) \in Sent
      /\ Abort(c) \in Sent' => Abort(c) \in Sent
           \/ outcome'[c] \notin {"idle", "normalizing"},
    Lost' \/ (~Lost /\ \A c \in Calls, s \in BOOLEAN : FetchMsg(c, s) \in Sent => FetchMsg(c, s) \in Sent'),
    \A c \in Calls : (\A ok, s \in BOOLEAN : Response(c, ok, s) \in Sent'
        => Response(c, ok, s) \in Sent) \/ Answered(c)',
    \A c \in Calls : Live(receiver'[Request(c)]) =>
      /\ Prior(toPage, Abort(c), End(Request(c))) => Prior(toPage, Abort(c), End(Request(c)))'
      /\ sender'[Request(c)] # sender[Request(c)] => Cut' \/ worker' = "failed" \/ Abort(c) \in Sent'
      /\ Abort(c) \in Sent => Abort(c) \in Sent' \/ Cut'
      /\ Cut => Cut',
    worker = "failed" => worker' = "failed",
    \A c \in Calls : Live(receiver'[ResponseBody(c)]) =>
      /\ page # "attached" => page' # "attached"
      /\ sender'[ResponseBody(c)] # sender[ResponseBody(c)] => page' # "attached"
  PROVE
    /\ \A c \in Calls : Asked(c)' /\ Answered(c)' /\ RequestBody(c)' /\ AnswerBody(c)'
    /\ \A b \in Bodies :
      /\ Body(b, sender'[b], receiver'[b], Sent')
      /\ sender'[b] \in SenderType /\ receiver'[b] \in ReceiverType
      /\ receiver'[b].state = "none" <=> receiver[b].state = "none"
      /\ Live(receiver'[b]) => receiver'[b] = receiver[b]
<1>0. TypeOK
  BY DEF IInv
<1>1. ASSUME NEW b \in Bodies
      PROVE
        /\ Body(b, sender'[b], receiver'[b], Sent')
        /\ sender'[b] \in SenderType /\ receiver'[b] \in ReceiverType
        /\ sender[b] \in SenderType /\ receiver[b] \in ReceiverType
        /\ receiver'[b].state = "none" <=> receiver[b].state = "none"
        /\ Live(receiver'[b]) => receiver'[b] = receiver[b]
        /\ receiver'[b].state = "closed" => receiver'[b] = receiver[b]
        /\ sender'[b].reading = sender[b].reading
        /\ sender'[b].done /\ sender'[b] = sender[b] => sender[b].done
  <2>1. sender[b] \in SenderType /\ receiver[b] \in ReceiverType /\ Body(b, sender[b], receiver[b], Sent)
    BY <1>0, TypedParts DEF IInv
  <2>2. /\ Body(b, sender'[b], receiver'[b], Sent')
        /\ sender'[b] \in SenderType /\ receiver'[b] \in ReceiverType
    <3>1. PICK s, r, t, q, M, N :
        /\ s = sender[b] /\ r = receiver[b] /\ t = sender'[b] /\ q = receiver'[b]
        /\ M = Sent /\ N = Sent'
    OBVIOUS
    <3>2. /\ t \in {s, StopSender(s)} /\ q \in {r, StopReceiver(b, r).half}
          /\ \A m \in N \cap About(b) : m \in M \/ (m = Cancel(b) /\ Live(r) /\ ~Live(q))
          /\ s \in SenderType /\ r \in ReceiverType /\ Body(b, s, r, M)
      BY <2>1, <3>1
    <3>3. t \in SenderType /\ q \in ReceiverType /\ Body(b, t, q, N)
      BY <3>2, BodyStops, SMTT(60)
    <3>. QED  BY <3>1, <3>3
  <2>3. /\ receiver'[b] = receiver[b] \/ (Live(receiver[b]) /\ receiver'[b].state = "stopped")
    <3>1. CASE Live(receiver[b])
      BY <2>1, <3>1, Stopping
    <3>2. CASE ~Live(receiver[b])
      BY <3>2 DEF StopReceiver, Quiet, Step
    <3>. QED  BY <3>1, <3>2
  <2>4. sender'[b].reading = sender[b].reading
    BY <2>1 DEF StopSender, SenderType
  <2>. QED  BY <2>1, <2>2, <2>3, <2>4 DEF Live
<1>2. ASSUME NEW c \in Calls PROVE Asked(c)'
  <2>1. Request(c) \in Bodies /\ CallInv(c) /\ Asked(c)
    BY BodiesOf, InvParts DEF CallInv
  <2>2. /\ sender[Request(c)] \in SenderType
        /\ sender'[Request(c)] \in {sender[Request(c)], StopSender(sender[Request(c)])}
        /\ receiver'[Request(c)].state = "none" <=> receiver[Request(c)].state = "none"
        /\ Live(receiver'[Request(c)]) => Live(receiver[Request(c)])
    BY <1>1, <2>1
  <2>3. /\ outcome'[c] = outcome[c] \/ outcome[c] \in {"idle", "normalizing"}
             \/ outcome'[c] \notin {"idle", "normalizing"}
        /\ c \in entered' <=> c \in entered
        /\ \/ fetching'[c] = fetching[c]
           \/ fetching[c] # "none" /\ fetching'[c] # "none"
                /\ (fetching'[c] = "rejected" => ~Live(receiver'[Request(c)]))
        /\ c \in stopped' /\ fetching[c] = "none" => c \in stopped
        /\ \A s \in BOOLEAN : FetchMsg(c, s) \in Sent' => FetchMsg(c, s) \in Sent
        /\ Lost' \/ (~Lost /\ \A s \in BOOLEAN : FetchMsg(c, s) \in Sent => FetchMsg(c, s) \in Sent')
        /\ Abort(c) \in Sent' => Abort(c) \in Sent \/ outcome'[c] \notin {"idle", "normalizing"}
    OBVIOUS
  <2>. QED  BY <2>1, <2>2, <2>3, AskedStays
<1>3. ASSUME NEW c \in Calls PROVE Answered(c)'
  <2>1. ResponseBody(c) \in Bodies /\ Answered(c)
    BY BodiesOf, InvParts DEF CallInv
  <2>2. /\ sender[ResponseBody(c)] \in SenderType
        /\ sender'[ResponseBody(c)] \in {sender[ResponseBody(c)], StopSender(sender[ResponseBody(c)])}
        /\ receiver'[ResponseBody(c)].state = "none" <=> receiver[ResponseBody(c)].state = "none"
    BY <1>1, <2>1
  <2>3. /\ outcome'[c] = outcome[c] \/ outcome[c] # "resolved"
        /\ c \in replied' <=> c \in replied
        /\ fetching'[c] = fetching[c]
             \/ <<fetching[c], fetching'[c]>> \in {<<"none", "running">>, <<"running", "rejected">>}
    OBVIOUS
  <2>4. CASE \A ok, s \in BOOLEAN : Response(c, ok, s) \in Sent' => Response(c, ok, s) \in Sent
    BY <2>1, <2>2, <2>3, <2>4, AnsweredStays
  <2>. QED  BY <2>4
<1>4. ASSUME NEW c \in Calls PROVE RequestBody(c)'
  <2>1. Request(c) \in Bodies /\ RequestBody(c) /\ Served(c)
    BY BodiesOf, InvParts DEF CallInv
  <2>2. End(Request(c)) \in Sent' => End(Request(c)) \in Sent
    BY <2>1, InBody, MessageKinds
  <2>3. /\ Live(receiver'[Request(c)]) => receiver'[Request(c)] = receiver[Request(c)]
        /\ receiver'[Request(c)].state = "closed" => receiver'[Request(c)] = receiver[Request(c)]
        /\ sender'[Request(c)].reading = sender[Request(c)].reading
        /\ sender'[Request(c)].done /\ sender'[Request(c)] = sender[Request(c)] => sender[Request(c)].done
    BY <1>1, <2>1
  <2>4. Live(receiver'[Request(c)]) /\ End(Request(c)) \in Sent' =>
          \/ Taken(receiver'[Request(c)]) = Pieces(Request(c)) \/ worker' = "failed"
          \/ Prior(toPage', Abort(c), End(Request(c)))
    BY <2>1, <2>2, <2>3 DEF RequestBody
  <2>5. sender'[Request(c)].done /\ sender'[Request(c)].reading /\ Live(receiver'[Request(c)]) =>
          Cut' \/ worker' = "failed" \/ Abort(c) \in Sent'
    BY <2>1, <2>3 DEF RequestBody
  <2>6. receiver'[Request(c)].state = "closed" =>
          Taken(receiver'[Request(c)]) = Pieces(Request(c)) \/ worker' = "failed"
    BY <2>1, <2>3 DEF RequestBody
  <2>. QED  BY <2>4, <2>5, <2>6 DEF RequestBody
<1>5. ASSUME NEW c \in Calls PROVE AnswerBody(c)'
  <2>1. ResponseBody(c) \in Bodies /\ AnswerBody(c)
    BY BodiesOf, InvParts DEF CallInv
  <2>2. End(ResponseBody(c)) \in Sent' => End(ResponseBody(c)) \in Sent
    BY <2>1, InBody, MessageKinds
  <2>3. /\ Live(receiver'[ResponseBody(c)]) => receiver'[ResponseBody(c)] = receiver[ResponseBody(c)]
        /\ receiver'[ResponseBody(c)].state = "closed"
             => receiver'[ResponseBody(c)] = receiver[ResponseBody(c)]
        /\ sender'[ResponseBody(c)].reading = sender[ResponseBody(c)].reading
        /\ sender'[ResponseBody(c)].done /\ sender'[ResponseBody(c)] = sender[ResponseBody(c)]
             => sender[ResponseBody(c)].done
    BY <1>1, <2>1
  <2>4. Live(receiver'[ResponseBody(c)]) /\ End(ResponseBody(c)) \in Sent' =>
          Taken(receiver'[ResponseBody(c)]) = Pieces(ResponseBody(c))
    BY <2>1, <2>2, <2>3 DEF AnswerBody
  <2>5. sender'[ResponseBody(c)].done /\ sender'[ResponseBody(c)].reading /\ Live(receiver'[ResponseBody(c)])
          => page' # "attached"
    BY <2>1, <2>3 DEF AnswerBody
  <2>6. receiver'[ResponseBody(c)].state = "closed"
          => Taken(receiver'[ResponseBody(c)]) = Pieces(ResponseBody(c))
    BY <2>1, <2>3 DEF AnswerBody
  <2>. QED  BY <2>4, <2>5, <2>6 DEF AnswerBody
<1>. QED  BY <1>1, <1>2, <1>3, <1>4, <1>5

\* the message taken is not one of those that go the other way
LEMMA SwKeeps ==
  ASSUME TypeOK, toSw # <<>>, NEW c \in Calls
  PROVE  Head(toSw) # Abort(c) /\ \A s \in BOOLEAN : Head(toSw) # FetchMsg(c, s)
<1>1. Head(toSw) \in ToSw
  BY TailOrder DEF TypeOK
<1>. QED  BY <1>1, Directions

\* A step of the service worker that stops bodies and rejects calls, and
\* says so, keeps the invariant.
LEMMA SwHalts ==
  ASSUME
    IInv, NEW ms \in Seq(ToPage), SwSend(ms), Pops(toSw, toSw'), UNCHANGED <<link, entered, locked, pageVars>>,
    \A m \in ToSet(ms) :
      \/ \E c \in Calls :
        /\ m = Cancel(ResponseBody(c))
        /\ Live(receiver[ResponseBody(c)]) /\ ~Live(receiver'[ResponseBody(c)])
      \/ \E c \in Signalled :
        /\ m = Abort(c) /\ c \in aborted'
        /\ outcome'[c] \notin {"idle", "normalizing", "pending"}
        /\ ~Live(receiver'[ResponseBody(c)]),
    sender' \in [Bodies -> SenderType], receiver' \in [Bodies -> ReceiverType],
    \A c \in Calls :
      /\ sender'[Request(c)] \in {sender[Request(c)], StopSender(sender[Request(c)])}
      /\ sender'[ResponseBody(c)] = sender[ResponseBody(c)]
      /\ receiver'[Request(c)] = receiver[Request(c)]
      /\ receiver'[ResponseBody(c)] \in {receiver[ResponseBody(c)],
           StopReceiver(ResponseBody(c), receiver[ResponseBody(c)]).half}
      /\ sender'[Request(c)] # sender[Request(c)] /\ Live(receiver[Request(c)]) =>
           Cut \/ worker = "failed" \/ Abort(c) \in ToSet(ms),
    outcome' \in Outcomes,
    \A c \in Calls :
      \/ outcome'[c] = outcome[c]
      \/ outcome[c] # "resolved" /\ outcome'[c] = "rejected"
      \/ outcome[c] = "idle" /\ outcome'[c] = "normalizing",
    aborted \subseteq aborted', aborted' \subseteq Signalled,
    \A c \in aborted' : c \in aborted \/ c \notin entered \/ Abort(c) \in ToSet(ms),
    failed' \in BOOLEAN, ready' \in {"pending", "resolved", "rejected"}, listening' \subseteq Signalled,
    ListensWhileOpen'
  PROVE  IInv'
<1>0. TypeOK /\ Ports /\ Connection /\ Controllers
  BY DEF IInv
<1>1. \A m \in ToSet(ms) : m \in ToPage /\ m.kind \in {"abort", "body.cancel"} /\ m \in Message
  BY ToSetIn, MessageFields, MessageKinds DEF Message
<1>2. InOrder(ms, Order) /\ \A x \in Up, y \in ToSet(ms) : <<x, y>> \in Order
  <2>1. \A x, y \in ToSet(ms) : <<x, y>> \in Order
    BY <1>1, FitsFreely
  <2>2. InOrder(ms, Order)
    BY <2>1, AnyOrder
  <2>. QED  BY <1>0, <1>1, <2>2, UpSent, FitsFreely
<1>3. Boot \notin ToSet(ms) /\ Disconnect \notin ToSet(ms)
  BY <1>1, MessageFields
<1>4. UNCHANGED <<link, page, worker, fetching, stopped, inFlight, replied>>
  BY DEF pageVars
<1>5.
    /\ outbox' \in Seq(ToPage) /\ toPage' \in Seq(ToPage) /\ toSw' \in Seq(ToSw)
    /\ Ports' /\ Connection'
    /\ Sent' \subseteq Sent \cup ToSet(ms)
    /\ \A m \in Sent : m \in Sent' \/ (toSw' = Tail(toSw) /\ toSw # <<>> /\ m = Head(toSw))
    /\ Lost \/ ToSet(ms) \subseteq Sent'
    /\ (Lost' <=> Lost) /\ (Cut' <=> Cut)
    /\ \A x, y : Prior(toPage, x, y) /\ (y \notin ToSet(ms) \/ x \in ToSet(toPage)) => Prior(toPage', x, y)
  BY <1>0, <1>2, <1>3, <1>4, SwPorts
<1>6. TypeOK'
  BY <1>0, <1>4, <1>5 DEF TypeOK
<1>7. \A b \in Bodies : \E c \in Calls : b = Request(c) \/ b = ResponseBody(c)
  BY BodiesOf
<1>8. \A b \in Bodies :
    /\ sender'[b] \in {sender[b], StopSender(sender[b])}
    /\ receiver'[b] \in {receiver[b], StopReceiver(b, receiver[b]).half}
  BY <1>7
<1>9. \A b \in Bodies : \A m \in Sent' \cap About(b) :
        m \in Sent \/ (m = Cancel(b) /\ Live(receiver[b]) /\ ~Live(receiver'[b]))
  <2>. SUFFICES ASSUME NEW b \in Bodies, NEW m \in Sent' \cap About(b), m \notin Sent
                PROVE  m = Cancel(b) /\ Live(receiver[b]) /\ ~Live(receiver'[b])
    OBVIOUS
  <2>1. m \in ToSet(ms) /\ m.kind # "abort" /\ m.body = b
    BY <1>5, AboutKinds DEF DataKinds
  <2>2. PICK c \in Calls : m = Cancel(ResponseBody(c)) /\ Live(receiver[ResponseBody(c)])
                             /\ ~Live(receiver'[ResponseBody(c)])
    BY <2>1, MessageFields
  <2>. QED  BY <2>1, <2>2, MessageKinds
<1>10. ASSUME NEW c \in Calls
       PROVE
         /\ \A s \in BOOLEAN : FetchMsg(c, s) \in Sent' <=> FetchMsg(c, s) \in Sent
         /\ Abort(c) \in Sent => Abort(c) \in Sent'
         /\ Abort(c) \in Sent' =>
              \/ Abort(c) \in Sent
              \/ c \in aborted' /\ outcome'[c] \notin {"idle", "normalizing", "pending"}
                   /\ ~Live(receiver'[ResponseBody(c)])
         /\ \A ok, s \in BOOLEAN : Response(c, ok, s) \in Sent' => Response(c, ok, s) \in Sent
         /\ End(Request(c)) \notin ToSet(ms)
  <2>1. \A s \in BOOLEAN : FetchMsg(c, s) \notin ToSet(ms)
    BY <1>1, MessageFields
  <2>2. \A ok, s \in BOOLEAN : Response(c, ok, s) \notin ToSet(ms)
    BY <1>1, MessageFields
  <2>3. End(Request(c)) \notin ToSet(ms)
    BY <1>1, MessageKinds
  <2>4. Abort(c) \in ToSet(ms) =>
          /\ c \in aborted' /\ outcome'[c] \notin {"idle", "normalizing", "pending"}
          /\ ~Live(receiver'[ResponseBody(c)])
    BY MessageFields, MessageKinds
  <2>5. toSw # <<>> => Head(toSw) # Abort(c) /\ \A s \in BOOLEAN : Head(toSw) # FetchMsg(c, s)
    BY <1>0, SwKeeps
  <2>6. Abort(c) \in Sent => Abort(c) \in Sent'
    BY <1>5, <2>5
  <2>7. \A s \in BOOLEAN : FetchMsg(c, s) \in Sent' <=> FetchMsg(c, s) \in Sent
    BY <1>5, <2>1, <2>5
  <2>. QED  BY <1>5, <2>2, <2>3, <2>4, <2>6, <2>7
<1>11. ASSUME NEW c \in Calls, Live(receiver'[Request(c)])
       PROVE  /\ Prior(toPage, Abort(c), End(Request(c))) => Prior(toPage, Abort(c), End(Request(c)))'
              /\ sender'[Request(c)] # sender[Request(c)] => Cut' \/ worker' = "failed" \/ Abort(c) \in Sent'
              /\ Abort(c) \in Sent => Abort(c) \in Sent' \/ Cut'
              /\ Cut => Cut'
  <2>1. Live(receiver[Request(c)]) /\ CallInv(c)
    BY <1>11, InvParts
  <2>2. page = "attached"
    BY <1>0, <2>1, RequestServed
  <2>3. Lost => Cut
    BY <2>2 DEF Lost
  <2>. QED  BY <1>4, <1>5, <1>10, <2>1, <2>3
<1>12. \A c \in Calls : Live(receiver'[ResponseBody(c)]) =>
           /\ page # "attached" => page' # "attached"
           /\ sender'[ResponseBody(c)] # sender[ResponseBody(c)] => page' # "attached"
  BY <1>4
<1>13. /\ \A c \in Calls : Asked(c)' /\ Answered(c)' /\ RequestBody(c)' /\ AnswerBody(c)'
       /\ \A b \in Bodies :
         /\ Body(b, sender'[b], receiver'[b], Sent')
         /\ Live(receiver'[b]) => receiver'[b] = receiver[b]
  <2>1. UNCHANGED <<entered, locked, replied>>
    BY <1>4
  <2>2. \A c \in Calls :
      \/ fetching'[c] = fetching[c]
      \/ fetching[c] = "running" /\ fetching'[c] = "rejected"
           /\ ~Live(receiver'[Request(c)])
    BY <1>4
  <2>3. \A c \in Calls : c \in stopped' /\ fetching[c] = "none" => c \in stopped
    BY <1>4
  <2>4. \A c \in Calls :
      /\ \A s \in BOOLEAN : FetchMsg(c, s) \in Sent' => FetchMsg(c, s) \in Sent
      /\ Abort(c) \in Sent' => Abort(c) \in Sent
           \/ outcome'[c] \notin {"idle", "normalizing"}
    BY <1>10
  <2>5. Lost' \/ (~Lost /\ \A c \in Calls, s \in BOOLEAN : FetchMsg(c, s) \in Sent
            => FetchMsg(c, s) \in Sent')
    BY <1>5, <1>10
  <2>6. \A c \in Calls : (\A ok, s \in BOOLEAN : Response(c, ok, s) \in Sent' => Response(c, ok, s) \in Sent)
          \/ Answered(c)'
    BY <1>10
  <2>7. worker = "failed" => worker' = "failed"
    BY <1>4
  <2>. QED  BY <1>8, <1>9, <1>11, <1>12, <2>1, <2>2, <2>3, <2>4, <2>5, <2>6, <2>7, Halting
<1>14. ASSUME NEW c \in Calls PROVE Aborted(c)' /\ Served(c)'
  <2>1. ResponseBody(c) \in Bodies /\ Aborted(c) /\ Served(c)
    BY BodiesOf, InvParts DEF CallInv
  <2>2. Live(receiver'[ResponseBody(c)]) => Live(receiver[ResponseBody(c)])
    BY <1>13, <2>1
  <2>3. Abort(c) \in Sent' => c \in aborted' /\ outcome'[c] # "pending" /\ ~Live(receiver'[ResponseBody(c)])
    BY <1>10, <2>1, <2>2 DEF Aborted
  <2>4. c \in aborted' \cap entered /\ fetching[c] \in {"none", "running"} /\ c \notin stopped
          => Lost \/ Abort(c) \in Sent'
    BY <1>5, <1>10, <2>1 DEF Aborted
  <2>. QED  BY <1>4, <1>5, <2>1, <2>3, <2>4 DEF Aborted, Served
<1>15. Controllers'
  BY <1>0, <1>4 DEF Controllers
<1>. QED  BY <1>5, <1>6, <1>13, <1>14, <1>15 DEF IInv

\* to send nothing changes neither the buffer nor the port
LEMMA NoneSent ==
  ASSUME TypeOK, UNCHANGED <<outbox, toPage>>
  PROVE  SwSend(<<>>)
BY ConcatEmptySeq DEF SwSend, TypeOK

\* a call is rejected, or set up
Settles(c, new) ==
  \/ new = outcome[c]
  \/ outcome[c] # "resolved" /\ new = "rejected"
  \/ outcome[c] = "idle" /\ new = "normalizing"

\* a step of the service worker that sends nothing keeps the invariant
LEMMA SwQuietly ==
  ASSUME
    IInv, SwSend(<<>>), Pops(toSw, toSw'), UNCHANGED <<link, entered, locked, pageVars, receiver>>,
    sender' = sender \/ \E c \in Calls : /\ sender' = [sender EXCEPT ![Request(c)] = StopSender(@)]
                                         /\ ~Live(receiver[Request(c)]),
    outcome' \in Outcomes,
    \A c \in Calls : Settles(c, outcome'[c]),
    aborted \subseteq aborted', aborted' \subseteq Signalled,
    \A c \in aborted' : c \in aborted \/ c \notin entered,
    failed' \in BOOLEAN, ready' \in {"pending", "resolved", "rejected"}, listening' \subseteq Signalled,
    ListensWhileOpen'
  PROVE  IInv'
<1>0. TypeOK
  BY DEF IInv
<1>1. <<>> \in Seq(ToPage) /\ \A y : ~(y \in ToSet(<<>>))
  BY EmptySeq, OneMember
<1>2. sender' \in [Bodies -> SenderType] /\ receiver' \in [Bodies -> ReceiverType]
  <2>1. ASSUME NEW c \in Calls, sender' = [sender EXCEPT ![Request(c)] = StopSender(@)]
        PROVE  sender' \in [Bodies -> SenderType]
    <3>1. Request(c) \in Bodies /\ sender[Request(c)] \in SenderType
      BY <1>0, BodiesOf, TypedParts
    <3>2. StopSender(sender[Request(c)]) \in SenderType
      BY <3>1 DEF StopSender, SenderType
    <3>. QED  BY <1>0, <2>1, <3>2 DEF TypeOK
  <2>. QED  BY <1>0, <2>1 DEF TypeOK
<1>3. \A c \in Calls :
        /\ sender'[Request(c)] \in {sender[Request(c)], StopSender(sender[Request(c)])}
        /\ sender'[ResponseBody(c)] = sender[ResponseBody(c)]
        /\ receiver'[Request(c)] = receiver[Request(c)]
        /\ receiver'[ResponseBody(c)] \in {receiver[ResponseBody(c)],
             StopReceiver(ResponseBody(c), receiver[ResponseBody(c)]).half}
        /\ sender'[Request(c)] # sender[Request(c)] /\ Live(receiver[Request(c)]) =>
             Cut \/ worker = "failed" \/ Abort(c) \in ToSet(<<>>)
  <2>. SUFFICES ASSUME NEW c \in Calls
                PROVE  /\ sender'[Request(c)] \in {sender[Request(c)], StopSender(sender[Request(c)])}
                       /\ sender'[ResponseBody(c)] = sender[ResponseBody(c)]
                       /\ sender'[Request(c)] # sender[Request(c)] => ~Live(receiver[Request(c)])
    OBVIOUS
  <2>1. CASE sender' = sender
    BY <2>1
  <2>2. ASSUME NEW d \in Calls, sender' = [sender EXCEPT ![Request(d)] = StopSender(@)],
               ~Live(receiver[Request(d)])
        PROVE  /\ sender'[Request(c)] \in {sender[Request(c)], StopSender(sender[Request(c)])}
               /\ sender'[ResponseBody(c)] = sender[ResponseBody(c)]
               /\ sender'[Request(c)] # sender[Request(c)] => ~Live(receiver[Request(c)])
    <3>1. /\ Request(c) \in Bodies /\ ResponseBody(c) \in Bodies /\ DOMAIN sender = Bodies
          /\ Request(c) = Request(d) <=> c = d
          /\ Request(d) # ResponseBody(c)
      BY <1>0, BodiesOf, TypedParts
    <3>. QED  BY <2>2, <3>1
  <2>. QED  BY <2>1, <2>2
<1>4. \A c \in Calls :
    \/ outcome'[c] = outcome[c]
    \/ outcome[c] # "resolved" /\ outcome'[c] = "rejected"
    \/ outcome[c] = "idle" /\ outcome'[c] = "normalizing"
  BY DEF Settles
<1>. QED  BY <1>1, <1>2, <1>3, <1>4, SwHalts

\* fetch() on a worker that is closed or has failed
LEMMA PreservedByFetchRefused ==
  ASSUME IInv, NEW c \in Calls, FetchRefused(c)
  PROVE  IInv'
<1>0. TypeOK /\ ListensWhileOpen
  BY DEF IInv
<1>1. SwSend(<<>>) /\ Pops(toSw, toSw')
  BY <1>0, NoneSent DEF FetchRefused, SwIdle, Pops
<1>2. ListensWhileOpen'
  BY <1>0, CallsAssumption DEF FetchRefused, ListensWhileOpen, Alive, TypeOK
<1>3. UNCHANGED <<link, entered, locked, pageVars, receiver, sender, aborted, failed, ready, listening>>
  BY DEF FetchRefused, SwIdle
<1>4. /\ outcome' \in Outcomes
      /\ \A d \in Calls : Settles(d, outcome'[d])
  BY <1>0 DEF FetchRefused, TypeOK, Settles
<1>5. /\ aborted' \subseteq Signalled /\ failed' \in BOOLEAN
      /\ ready' \in {"pending", "resolved", "rejected"} /\ listening' \subseteq Signalled
  BY <1>0, <1>3 DEF TypeOK
<1>. QED  BY <1>1, <1>2, <1>3, <1>4, <1>5, SwQuietly

\* fetch() whose body is read before it is sent
LEMMA PreservedByFetch ==
  ASSUME IInv, NEW c \in Calls, Fetch(c)
  PROVE  IInv'
<1>0. TypeOK /\ ListensWhileOpen
  BY DEF IInv
<1>1. SwSend(<<>>) /\ Pops(toSw, toSw')
  BY <1>0, NoneSent DEF Fetch, SwIdle, Pops
<1>2. ListensWhileOpen'
  BY <1>0, CallsAssumption DEF Fetch, ListensWhileOpen, Alive, TypeOK
<1>3. UNCHANGED <<link, entered, locked, pageVars, receiver, sender, aborted, failed, ready, listening>>
  BY DEF Fetch, SwIdle
<1>4. /\ outcome' \in Outcomes
      /\ \A d \in Calls : Settles(d, outcome'[d])
  BY <1>0 DEF Fetch, TypeOK, Settles
<1>5. /\ aborted' \subseteq Signalled /\ failed' \in BOOLEAN
      /\ ready' \in {"pending", "resolved", "rejected"} /\ listening' \subseteq Signalled
  BY <1>0, <1>3 DEF TypeOK
<1>. QED  BY <1>1, <1>2, <1>3, <1>4, <1>5, SwQuietly

\* The body was read, and the worker is closed or has failed meanwhile, or
\* the body could not be read.
LEMMA PreservedByRegisterRefused ==
  ASSUME IInv, NEW c \in Calls, RegisterRefused(c)
  PROVE  IInv'
<1>0. TypeOK /\ ListensWhileOpen
  BY DEF IInv
<1>1. SwSend(<<>>) /\ Pops(toSw, toSw')
  BY <1>0, NoneSent DEF RegisterRefused, SwIdle, Pops
<1>2. ListensWhileOpen'
  BY <1>0, CallsAssumption DEF RegisterRefused, ListensWhileOpen, Alive, TypeOK
<1>3. UNCHANGED <<link, entered, locked, pageVars, receiver, sender, aborted, failed, ready, listening>>
  BY DEF RegisterRefused, SwIdle
<1>4. /\ outcome' \in Outcomes
      /\ \A d \in Calls : Settles(d, outcome'[d])
  BY <1>0 DEF RegisterRefused, TypeOK, Settles
<1>5. /\ aborted' \subseteq Signalled /\ failed' \in BOOLEAN
      /\ ready' \in {"pending", "resolved", "rejected"} /\ listening' \subseteq Signalled
  BY <1>0, <1>3 DEF TypeOK
<1>. QED  BY <1>1, <1>2, <1>3, <1>4, <1>5, SwQuietly

\* the signal fires before there is a call
LEMMA PreservedByAbortEarly ==
  ASSUME IInv, NEW c \in Calls, AbortEarly(c)
  PROVE  IInv'
<1>0. TypeOK /\ ListensWhileOpen /\ CallInv(c)
  BY InvParts
<1>1. SwSend(<<>>) /\ Pops(toSw, toSw')
  BY <1>0, NoneSent DEF AbortEarly, SwIdle, Pops
<1>2. ListensWhileOpen'
  BY <1>0 DEF AbortEarly, ListensWhileOpen, Alive
<1>3. UNCHANGED <<link, entered, locked, pageVars, receiver, sender, outcome, failed, ready, listening>>
        /\ aborted' = aborted \cup {c}
      /\ c \in Signalled
  BY DEF AbortEarly, SwIdle
<1>4. /\ outcome' \in Outcomes
      /\ \A d \in Calls : Settles(d, outcome'[d])
  BY <1>0, <1>3 DEF TypeOK, Settles
<1>5. /\ aborted' \subseteq Signalled /\ failed' \in BOOLEAN
      /\ ready' \in {"pending", "resolved", "rejected"} /\ listening' \subseteq Signalled
  BY <1>0, <1>3 DEF TypeOK
<1>6. c \notin entered
  BY <1>0 DEF CallInv, Asked, AbortEarly
<1>. QED  BY <1>1, <1>2, <1>3, <1>4, <1>5, <1>6, SwQuietly

\* the boot's ready message
LEMMA PreservedByOnReady ==
  ASSUME IInv, toSw # <<>>, toSw' = Tail(toSw), UNCHANGED <<aborted, entered, locked, pageVars>>, OnReady(Head(toSw))
  PROVE  IInv'
<1>0. TypeOK /\ ListensWhileOpen
  BY DEF IInv
<1>1. SwSend(<<>>) /\ Pops(toSw, toSw')
  BY DEF OnReady, Pops
<1>2. ListensWhileOpen'
  BY <1>0 DEF OnReady, ListensWhileOpen, Alive
<1>3. UNCHANGED <<link, entered, locked, pageVars, receiver, sender, outcome, failed, listening, aborted>>
  BY DEF OnReady
<1>4. /\ outcome' \in Outcomes
      /\ \A d \in Calls : Settles(d, outcome'[d])
  BY <1>0, <1>3 DEF TypeOK, Settles
<1>5. /\ aborted' \subseteq Signalled /\ failed' \in BOOLEAN
      /\ ready' \in {"pending", "resolved", "rejected"} /\ listening' \subseteq Signalled
  BY <1>0, <1>3 DEF TypeOK, OnReady
<1>. QED  BY <1>1, <1>2, <1>3, <1>4, <1>5, SwQuietly

\* the response to a call that was aborted
LEMMA PreservedByOnLateResponse ==
  ASSUME IInv, toSw # <<>>, toSw' = Tail(toSw), UNCHANGED <<aborted, entered, locked, pageVars>>,
         OnLateResponse(Head(toSw))
  PROVE  IInv'
<1>0. TypeOK /\ ListensWhileOpen
  BY DEF IInv
<1>1. SwSend(<<>>) /\ Pops(toSw, toSw')
  BY DEF OnLateResponse, Pops
<1>2. ListensWhileOpen'
  BY <1>0 DEF OnLateResponse, ListensWhileOpen, Alive
<1>3. UNCHANGED <<link, entered, locked, pageVars, receiver, sender, outcome, failed, ready, listening, aborted>>
  BY DEF OnLateResponse
<1>4. /\ outcome' \in Outcomes
      /\ \A d \in Calls : Settles(d, outcome'[d])
  BY <1>0, <1>3 DEF TypeOK, Settles
<1>5. /\ aborted' \subseteq Signalled /\ failed' \in BOOLEAN
      /\ ready' \in {"pending", "resolved", "rejected"} /\ listening' \subseteq Signalled
  BY <1>0, <1>3 DEF TypeOK
<1>. QED  BY <1>1, <1>2, <1>3, <1>4, <1>5, SwQuietly

\* the response that rejects a call
LEMMA PreservedByOnErrorResponse ==
  ASSUME IInv, toSw # <<>>, toSw' = Tail(toSw), UNCHANGED <<aborted, entered, locked, pageVars>>,
         OnErrorResponse(Head(toSw))
  PROVE  IInv'
<1>0. TypeOK /\ Ports /\ ListensWhileOpen
  BY DEF IInv
<1>. DEFINE m == Head(toSw) c == m.call
<1>1. m \in Message /\ m \in Sent
  BY <1>0, SwTaken
<1>2. m.kind = "response" /\ ~m.ok /\ outcome[c] = "pending"
  BY DEF OnErrorResponse
<1>3. c \in Calls /\ m = Response(c, m.ok, m.hasBody) /\ m.hasBody \in BOOLEAN /\ m.ok \in BOOLEAN
  BY <1>1, <1>2, KindIs
<1>4. SwSend(<<>>) /\ Pops(toSw, toSw')
  BY DEF OnErrorResponse, Pops
<1>5. /\ UNCHANGED <<link, entered, locked, pageVars, receiver, failed, ready, aborted>>
      /\ outcome' = [outcome EXCEPT ![c] = "rejected"]
      /\ listening' = listening \ {c}
      /\ sender' = [sender EXCEPT ![Request(c)] = StopSender(@)]
  BY DEF OnErrorResponse
<1>. HIDE DEF m, c
<1>6. CallInv(c)
  BY <1>3, InvParts
<1>7. ~Live(receiver[ResponseBody(c)])
  BY <1>2, <1>6 DEF CallInv, Answered, Live
<1>8. ~Live(receiver[Request(c)])
  <2>1. Response(c, FALSE, m.hasBody) \in Sent
    BY <1>1, <1>2, <1>3
  <2>2. fetching[c] \in {"rejected", "refused"}
    BY <1>3, <1>6, <2>1 DEF CallInv, Answered
  <2>. QED  BY <1>6, <2>2 DEF CallInv, Asked
<1>9. ListensWhileOpen'
  <2>1. \A d \in Calls : outcome'[d] = IF d = c THEN "rejected" ELSE outcome[d]
    BY <1>0, <1>5 DEF TypeOK
  <2>. QED  BY <1>0, <1>3, <1>5, <1>7, <2>1, CallsAssumption DEF ListensWhileOpen, Alive, TypeOK
<1>10. /\ outcome' \in Outcomes
       /\ \A d \in Calls : Settles(d, outcome'[d])
  BY <1>0, <1>2, <1>5 DEF TypeOK, Settles
<1>11. /\ aborted' \subseteq Signalled /\ failed' \in BOOLEAN
       /\ ready' \in {"pending", "resolved", "rejected"} /\ listening' \subseteq Signalled
  BY <1>0, <1>5 DEF TypeOK
<1>. QED  BY <1>3, <1>4, <1>5, <1>8, <1>9, <1>10, <1>11, SwQuietly

\* Cancels: of every open response's body
LEMMA CancelsSent ==
  /\ Cancels("response") \in Seq(ToPage)
  /\ \A m \in ToSet(Cancels("response")) : \E c \in Calls : m = Cancel(ResponseBody(c))
       /\ Live(receiver[ResponseBody(c)])
<1>. DEFINE open == {d \in Bodies : d[1] = "response" /\ Live(receiver[d])} ms == {Cancel(b) : b \in open}
            f == [b \in open |-> Cancel(b)]
<1>1. IsFiniteSet(Bodies)
  <2>1. IsFiniteSet(Channels)
    <3>1. IsFiniteSet({"request"})
      BY FS_Singleton
    <3>2. IsFiniteSet({"request"} \cup {"response"})
      BY <3>1, FS_AddElement
    <3>3. Channels = {"request"} \cup {"response"}
      BY DEF Channels
    <3>. QED  BY <3>2, <3>3
  <2>. QED  BY <2>1, CallsAssumption, FS_Product DEF Bodies
<1>2. IsFiniteSet(open)
  BY <1>1, FS_Subset
<1>3. f \in Surjection(open, ms)
  BY DEF Surjection
<1>4. IsFiniteSet(ms)
  BY <1>2, <1>3, FS_Surjection
<1>5. \A b \in open : \E c \in Calls : b = ResponseBody(c)
  BY DEF Bodies, Channels, ResponseBody
<1>6. \A m \in ms : \E c \in Calls : m = Cancel(ResponseBody(c)) /\ Live(receiver[ResponseBody(c)])
  BY <1>5
<1>7. ms \subseteq ToPage
  BY <1>6, AboutTyped
<1>8. SetToSeq(ms) \in Seq(ms)
  BY <1>4, SequenceOfSet
<1>9. SetToSeq(ms) \in Seq(ToPage)
  BY <1>7, <1>8, SeqMonotonic
<1>10. ToSet(SetToSeq(ms)) \subseteq ms
  BY <1>8, ToSetIn
<1>. QED  BY <1>6, <1>9, <1>10 DEF Cancels

\* StopSenders and StopReceivers stop the bodies of one channel
LEMMA AllStopped ==
  ASSUME TypeOK
  PROVE  /\ \A ch : StopSenders(ch) \in [Bodies -> SenderType]
              /\ StopReceivers(ch) \in [Bodies -> ReceiverType]
         /\ \A ch, b : b \in Bodies =>
              /\ StopSenders(ch)[b] = IF b[1] = ch THEN StopSender(sender[b]) ELSE sender[b]
              /\ StopReceivers(ch)[b] = IF b[1] = ch THEN StopReceiver(b, receiver[b]).half ELSE receiver[b]
              /\ StopReceiver(b, receiver[b]).half \in ReceiverType
              /\ ~Live(StopReceiver(b, receiver[b]).half)
<1>1. ASSUME NEW b \in Bodies
      PROVE  /\ StopSender(sender[b]) \in SenderType /\ sender[b] \in SenderType
             /\ receiver[b] \in ReceiverType
             /\ StopReceiver(b, receiver[b]).half \in ReceiverType /\ ~Live(StopReceiver(b, receiver[b]).half)
  <2>1. sender[b] \in SenderType /\ receiver[b] \in ReceiverType
    BY TypedParts
  <2>2. StopSender(sender[b]) \in SenderType
    BY <2>1 DEF StopSender, SenderType
  <2>3. CASE Live(receiver[b])
    BY <2>1, <2>2, <2>3, Stopping
  <2>4. CASE ~Live(receiver[b])
    BY <2>1, <2>2, <2>4 DEF StopReceiver, Quiet, Step
  <2>. QED  BY <2>3, <2>4
<1>. QED  BY <1>1 DEF StopSenders, StopReceivers

\* what a failure does to the calls and their bodies
FailsSafely ==
  /\ sender' \in [Bodies -> SenderType] /\ receiver' \in [Bodies -> ReceiverType]
  /\ \A c \in Calls :
       /\ sender'[Request(c)] \in {sender[Request(c)], StopSender(sender[Request(c)])}
       /\ sender'[ResponseBody(c)] = sender[ResponseBody(c)]
       /\ receiver'[Request(c)] = receiver[Request(c)]
       /\ receiver'[ResponseBody(c)] \in {receiver[ResponseBody(c)],
            StopReceiver(ResponseBody(c), receiver[ResponseBody(c)]).half}
  /\ outcome' \in Outcomes
  /\ \A c \in Calls : Settles(c, outcome'[c])
  /\ failed' \in BOOLEAN /\ ready' \in {"pending", "resolved", "rejected"} /\ listening' \subseteq Signalled
  /\ (Alive' => Alive) => ListensWhileOpen'
  /\ ~failed => \A c \in Calls : outcome'[c] # "pending" /\ ~Live(receiver'[ResponseBody(c)])

\* #fail: the calls are rejected, the bodies stop and nobody listens
LEMMA FailIsSafe ==
  ASSUME TypeOK, ListensWhileOpen, Fail
  PROVE  FailsSafely
<1>1. CASE failed
  <2>1. UNCHANGED <<outcome, listening, failed, ready, sender, receiver>>
    BY <1>1 DEF Fail
  <2>2. (Alive' => Alive) => ListensWhileOpen'
    BY <2>1 DEF ListensWhileOpen
  <2>. QED  BY <1>1, <2>1, <2>2 DEF FailsSafely, Settles, TypeOK
<1>2. CASE ~failed
  <2>1. /\ failed' = TRUE
        /\ ready' = IF ready = "pending" THEN "rejected" ELSE ready
        /\ outcome' = [c \in Calls |-> IF outcome[c] = "pending" THEN "rejected" ELSE outcome[c]]
        /\ listening' = {}
        /\ sender' = StopSenders("request")
        /\ receiver' = StopReceivers("response")
    BY <1>2 DEF Fail
  <2>2. sender' \in [Bodies -> SenderType] /\ receiver' \in [Bodies -> ReceiverType]
    BY <2>1, AllStopped
  <2>3. ASSUME NEW c \in Calls
        PROVE
          /\ sender'[Request(c)] = StopSender(sender[Request(c)])
          /\ sender'[ResponseBody(c)] = sender[ResponseBody(c)]
          /\ receiver'[Request(c)] = receiver[Request(c)]
          /\ receiver'[ResponseBody(c)] = StopReceiver(ResponseBody(c), receiver[ResponseBody(c)]).half
          /\ ~Live(receiver'[ResponseBody(c)])
    <3>1. /\ Request(c) \in Bodies /\ ResponseBody(c) \in Bodies /\ Request(c)[1] = "request"
          /\ ResponseBody(c)[1] = "response"
      BY BodiesOf
    <3>. QED  BY <2>1, <3>1, AllStopped
  <2>4. /\ outcome' \in Outcomes
        /\ \A c \in Calls : Settles(c, outcome'[c]) /\ outcome'[c] # "pending"
    BY <2>1 DEF TypeOK, Settles
  <2>5. ListensWhileOpen'
    <3>1. \A c \in Signalled : c \in Calls
      BY CallsAssumption
    <3>. QED  BY <2>1, <2>3, <2>4, <3>1 DEF ListensWhileOpen
  <2>6. /\ failed' \in BOOLEAN /\ ready' \in {"pending", "resolved", "rejected"}
        /\ listening' \subseteq Signalled
    BY <2>1 DEF TypeOK
  <2>. QED  BY <2>2, <2>3, <2>4, <2>5, <2>6 DEF FailsSafely
<1>. QED  BY <1>1, <1>2

\* the boot's failed message
LEMMA PreservedByOnFailed ==
  ASSUME IInv, toSw # <<>>, toSw' = Tail(toSw), UNCHANGED <<aborted, entered, locked, pageVars>>, OnFailed(Head(toSw))
  PROVE  IInv'
<1>0. TypeOK /\ Ports /\ Connection /\ ListensWhileOpen
  BY DEF IInv
<1>. DEFINE ms == FailSends
<1>1. Head(toSw) \in Message /\ Head(toSw) \in Sent /\ Pops(toSw, toSw')
  BY <1>0, SwTaken
<1>2. Failed \in Sent
  BY <1>1, KindIs DEF OnFailed
<1>3. worker = "failed"
  BY <1>0, <1>2 DEF Connection
<1>4. Fail /\ SwSend(ms) /\ UNCHANGED link
  BY DEF OnFailed
<1>5. FailsSafely
  BY <1>0, <1>4, FailIsSafe
<1>6. ms \in Seq(ToPage) /\ \A m \in ToSet(ms) : ~failed /\ m \in ToSet(Cancels("response"))
  BY CancelsSent, EmptySeq, OneMember DEF FailSends
<1>7. \A m \in ToSet(ms) :
        \/ \E c \in Calls :
          /\ m = Cancel(ResponseBody(c))
          /\ Live(receiver[ResponseBody(c)]) /\ ~Live(receiver'[ResponseBody(c)])
        \/ \E c \in Signalled :
          /\ m = Abort(c) /\ c \in aborted'
          /\ outcome'[c] \notin {"idle", "normalizing", "pending"}
          /\ ~Live(receiver'[ResponseBody(c)])
  BY <1>5, <1>6, CancelsSent DEF FailsSafely
<1>. HIDE DEF ms
<1>8. Alive' <=> Alive
  BY <1>4 DEF Alive
<1>9. \A c \in Calls :
        /\ sender'[Request(c)] \in {sender[Request(c)], StopSender(sender[Request(c)])}
        /\ sender'[ResponseBody(c)] = sender[ResponseBody(c)]
        /\ receiver'[Request(c)] = receiver[Request(c)]
        /\ receiver'[ResponseBody(c)] \in {receiver[ResponseBody(c)],
             StopReceiver(ResponseBody(c), receiver[ResponseBody(c)]).half}
        /\ sender'[Request(c)] # sender[Request(c)] /\ Live(receiver[Request(c)]) =>
             Cut \/ worker = "failed" \/ Abort(c) \in ToSet(ms)
  BY <1>3, <1>5 DEF FailsSafely
<1>10.
    /\ sender' \in [Bodies -> SenderType] /\ receiver' \in [Bodies -> ReceiverType]
    /\ outcome' \in Outcomes
    /\ failed' \in BOOLEAN /\ ready' \in {"pending", "resolved", "rejected"}
    /\ listening' \subseteq Signalled
    /\ ListensWhileOpen'
  BY <1>5, <1>8 DEF FailsSafely
<1>11. \A c \in Calls :
    \/ outcome'[c] = outcome[c]
    \/ outcome[c] # "resolved" /\ outcome'[c] = "rejected"
    \/ outcome[c] = "idle" /\ outcome'[c] = "normalizing"
  BY <1>5 DEF FailsSafely, Settles
<1>12. /\ aborted \subseteq aborted' /\ aborted' \subseteq Signalled
       /\ \A c \in aborted' : c \in aborted \/ c \notin entered \/ Abort(c) \in ToSet(ms)
  BY <1>0 DEF TypeOK
<1>. QED  BY <1>1, <1>4, <1>6, <1>7, <1>9, <1>10, <1>11, <1>12, SwHalts

\* the host's signal fires
LEMMA PreservedByHostAbort ==
  ASSUME IInv, NEW c \in Calls, HostAbort(c)
  PROVE  IInv'
<1>0. TypeOK /\ Ports /\ Connection /\ ListensWhileOpen /\ CallInv(c)
  BY InvParts
<1>. DEFINE b == ResponseBody(c) stop == StopReceiver(b, receiver[b]) ms == <<Abort(c)>> \o stop.out
<1>1. /\ Alive /\ c \in listening /\ aborted' = aborted \cup {c} /\ listening' = listening \ {c}
      /\ SwSend(ms) /\ receiver' = [receiver EXCEPT ![b] = stop.half]
      /\ sender' = [sender EXCEPT ![Request(c)] = StopSender(@)]
      /\ outcome' = [outcome EXCEPT ![c] = IF @ = "pending" THEN "rejected" ELSE @]
      /\ UNCHANGED <<failed, ready, link, entered, locked, toSw>> /\ UNCHANGED pageVars
  BY DEF HostAbort, SwIdle
<1>2. /\ b \in Bodies /\ Request(c) \in Bodies /\ Request(c) # b
      /\ \A d \in Calls : b # Request(d) /\ ResponseBody(d) # Request(c)
  BY BodiesOf
<1>3. /\ sender[Request(c)] \in SenderType /\ receiver[b] \in ReceiverType /\ DOMAIN sender = Bodies
      /\ DOMAIN receiver = Bodies
      /\ stop.half \in ReceiverType /\ ~Live(stop.half)
  BY <1>0, <1>2, TypedParts, AllStopped
<1>4. \/ stop.out = <<>>
      \/ stop.out = <<Cancel(b)>> /\ Live(receiver[b])
  BY DEF StopReceiver, Quiet, Step
<1>. HIDE DEF stop
<1>5. c \in Signalled /\ (outcome[c] = "pending" \/ Live(receiver[b]))
  BY <1>0, <1>1 DEF ListensWhileOpen
<1>6. outcome[c] \in {"pending", "resolved"}
  BY <1>0, <1>5 DEF CallInv, Answered, Live
<1>7. Abort(c) \in ToPage /\ Cancel(b) \in ToPage
  BY <1>5, AboutTyped DEF ToPage
<1>8. ms \in Seq(ToPage) /\ Abort(c) \in ToSet(ms) /\ \A m \in ToSet(ms) : m = Abort(c)
        \/ (m = Cancel(b) /\ Live(receiver[b]))
  <2>1. <<Abort(c)>> \in Seq(ToPage) /\ ToSet(<<Abort(c)>>) = {Abort(c)}
    BY <1>7, SingleOrder
  <2>2. stop.out \in Seq(ToPage) /\ \A m \in ToSet(stop.out) : m = Cancel(b) /\ Live(receiver[b])
    <3>1. <<Cancel(b)>> \in Seq(ToPage) /\ <<>> \in Seq(ToPage)
      BY <1>7, SingleOrder, EmptySeq
    <3>. QED  BY <1>4, <3>1, OneMember
  <2>3. ms \in Seq(ToPage) /\ ToSet(ms) = ToSet(<<Abort(c)>>) \cup ToSet(stop.out)
    BY <2>1, <2>2, ConcatOrder
  <2>. QED  BY <2>1, <2>2, <2>3
<1>. HIDE DEF ms
<1>9. \A d \in Calls :
    /\ outcome'[d] = outcome[d] \/ (outcome[d] = "pending" /\ outcome'[d] = "rejected")
    /\ outcome'[c] \in {"rejected", "resolved"}
    /\ d # c => outcome'[d] = outcome[d]
  BY <1>0, <1>1, <1>6 DEF TypeOK
<1>10. \A d \in Calls : receiver'[ResponseBody(d)] = IF d = c THEN stop.half ELSE receiver[ResponseBody(d)]
  <2>1. \A d \in Calls : ResponseBody(d) \in Bodies /\ (ResponseBody(d) = b <=> d = c)
    BY BodiesOf
  <2>. QED  BY <1>1, <1>3, <2>1
<1>11. ListensWhileOpen'
  <2>1. listening = {d \in Signalled : outcome[d] = "pending" \/ Live(receiver[ResponseBody(d)])}
    BY <1>0, <1>1 DEF ListensWhileOpen
  <2>2. listening' = {d \in Signalled : outcome'[d] = "pending" \/ Live(receiver'[ResponseBody(d)])}
    BY <1>1, <1>3, <1>9, <1>10, <2>1, CallsAssumption
  <2>. QED  BY <2>2 DEF ListensWhileOpen
<1>12. \A m \in ToSet(ms) :
        \/ \E d \in Calls :
          /\ m = Cancel(ResponseBody(d))
          /\ Live(receiver[ResponseBody(d)]) /\ ~Live(receiver'[ResponseBody(d)])
        \/ \E d \in Signalled :
          /\ m = Abort(d) /\ d \in aborted'
          /\ outcome'[d] \notin {"idle", "normalizing", "pending"}
          /\ ~Live(receiver'[ResponseBody(d)])
  BY <1>1, <1>3, <1>5, <1>8, <1>9, <1>10
<1>13. sender' \in [Bodies -> SenderType] /\ receiver' \in [Bodies -> ReceiverType]
  <2>1. StopSender(sender[Request(c)]) \in SenderType
    BY <1>3 DEF StopSender, SenderType
  <2>. QED  BY <1>0, <1>1, <1>3, <2>1 DEF TypeOK
<1>14. \A d \in Calls :
        /\ sender'[Request(d)] \in {sender[Request(d)], StopSender(sender[Request(d)])}
        /\ sender'[ResponseBody(d)] = sender[ResponseBody(d)]
        /\ receiver'[Request(d)] = receiver[Request(d)]
        /\ receiver'[ResponseBody(d)] \in {receiver[ResponseBody(d)],
             StopReceiver(ResponseBody(d), receiver[ResponseBody(d)]).half}
        /\ sender'[Request(d)] # sender[Request(d)] /\ Live(receiver[Request(d)]) =>
             Cut \/ worker = "failed" \/ Abort(d) \in ToSet(ms)
  <2>. SUFFICES ASSUME NEW d \in Calls
                PROVE
                  /\ sender'[Request(d)] \in {sender[Request(d)], StopSender(sender[Request(d)])}
                  /\ sender'[ResponseBody(d)] = sender[ResponseBody(d)]
                  /\ receiver'[Request(d)] = receiver[Request(d)]
                  /\ receiver'[ResponseBody(d)] \in {receiver[ResponseBody(d)],
                       StopReceiver(ResponseBody(d), receiver[ResponseBody(d)]).half}
                  /\ sender'[Request(d)] # sender[Request(d)] => d = c
    BY <1>8
  <2>1. Request(d) \in Bodies /\ ResponseBody(d) \in Bodies /\ (Request(d) = Request(c) <=> d = c)
    BY BodiesOf
  <2>2. receiver'[ResponseBody(d)] \in {receiver[ResponseBody(d)],
             StopReceiver(ResponseBody(d), receiver[ResponseBody(d)]).half}
    BY <1>10 DEF stop
  <2>. QED  BY <1>1, <1>2, <1>3, <2>1, <2>2
<1>15. outcome' \in Outcomes
  BY <1>0, <1>1 DEF TypeOK
<1>16. \A d \in Calls :
    \/ outcome'[d] = outcome[d]
    \/ outcome[d] # "resolved" /\ outcome'[d] = "rejected"
    \/ outcome[d] = "idle" /\ outcome'[d] = "normalizing"
  BY <1>9
<1>17. /\ aborted \subseteq aborted' /\ aborted' \subseteq Signalled
       /\ \A d \in aborted' : d \in aborted \/ d \notin entered \/ Abort(d) \in ToSet(ms)
       /\ failed' \in BOOLEAN /\ ready' \in {"pending", "resolved", "rejected"}
       /\ listening' \subseteq Signalled
  BY <1>0, <1>1, <1>5, <1>8 DEF TypeOK
<1>18. Pops(toSw, toSw') /\ UNCHANGED <<link, entered, locked, pageVars>>
  BY <1>1 DEF Pops
<1>. QED  BY <1>1, <1>8, <1>11, <1>12, <1>13, <1>14, <1>15, <1>16, <1>17, <1>18, SwHalts

\* each body goes on or stops, on the service worker's side
BodiesHalt ==
  /\ sender' \in [Bodies -> SenderType] /\ receiver' \in [Bodies -> ReceiverType]
  /\ \A c \in Calls :
       /\ sender'[Request(c)] \in {sender[Request(c)], StopSender(sender[Request(c)])}
       /\ sender'[ResponseBody(c)] = sender[ResponseBody(c)]
       /\ receiver'[Request(c)] = receiver[Request(c)]
       /\ receiver'[ResponseBody(c)] \in {receiver[ResponseBody(c)],
            StopReceiver(ResponseBody(c), receiver[ResponseBody(c)]).half}

\* A step of the service worker that ends or makes the connection keeps
\* the invariant.
LEMMA LinkHalts ==
  ASSUME
    IInv, UNCHANGED <<entered, locked, aborted, pageVars>>, BodiesHalt,
    outcome' \in Outcomes,
    \A c \in Calls : Settles(c, outcome'[c]),
    outbox' \in Seq(ToPage), toPage' \in Seq(ToPage), toSw' \in Seq(ToSw), Ports', Connection',
    \A m \in Sent' : m \in Sent \/ m.kind \in {"boot", "close", "disconnect"},
    Lost' \/ (~Lost /\ Sent \subseteq Sent'),
    page = "attached" => Cut' /\ \A c \in Calls : Prior(toPage, Abort(c), End(Request(c)))
      => Prior(toPage', Abort(c), End(Request(c))),
    link' \in {"none", "up", "down", "killed"},
    failed' \in BOOLEAN, ready' \in {"pending", "resolved", "rejected"}, listening' \subseteq Signalled,
    ListensWhileOpen'
  PROVE  IInv'
<1>0. TypeOK /\ Ports /\ Connection /\ Controllers
  BY DEF IInv
<1>1. UNCHANGED <<page, worker, fetching, stopped, inFlight, replied, entered, locked, aborted>>
  BY DEF pageVars
<1>2. TypeOK'
  BY <1>0, <1>1 DEF TypeOK, BodiesHalt
<1>3. \A b \in Bodies : \E c \in Calls : b = Request(c) \/ b = ResponseBody(c)
  BY BodiesOf
<1>4. \A b \in Bodies :
    /\ sender'[b] \in {sender[b], StopSender(sender[b])}
    /\ receiver'[b] \in {receiver[b], StopReceiver(b, receiver[b]).half}
  BY <1>3 DEF BodiesHalt
<1>5. \A m \in Sent' : m.kind \notin {"boot", "close", "disconnect"} => m \in Sent
  OBVIOUS
<1>6. \A b \in Bodies : \A m \in Sent' \cap About(b) :
        m \in Sent \/ (m = Cancel(b) /\ Live(receiver[b]) /\ ~Live(receiver'[b]))
  BY <1>5, AboutKinds DEF DataKinds
<1>7. ASSUME NEW c \in Calls
      PROVE  /\ \A s \in BOOLEAN : FetchMsg(c, s) \in Sent' => FetchMsg(c, s) \in Sent
             /\ Abort(c) \in Sent' => Abort(c) \in Sent
             /\ \A ok, s \in BOOLEAN : Response(c, ok, s) \in Sent' => Response(c, ok, s) \in Sent
  BY <1>5, MessageFields
<1>8. ASSUME NEW c \in Calls, Live(receiver'[Request(c)])
      PROVE  /\ Cut'
             /\ Prior(toPage, Abort(c), End(Request(c))) => Prior(toPage, Abort(c), End(Request(c)))'
  <2>1. Live(receiver[Request(c)]) /\ CallInv(c)
    BY <1>8, InvParts DEF BodiesHalt
  <2>2. page = "attached"
    BY <1>0, <2>1, RequestServed
  <2>. QED  BY <2>2
<1>9. /\ \A c \in Calls : Asked(c)' /\ Answered(c)' /\ RequestBody(c)' /\ AnswerBody(c)'
      /\ \A b \in Bodies :
        /\ Body(b, sender'[b], receiver'[b], Sent')
        /\ Live(receiver'[b]) => receiver'[b] = receiver[b]
  <2>1. UNCHANGED <<entered, locked, replied>>
    BY <1>1
  <2>2. \A c \in Calls :
      \/ fetching'[c] = fetching[c]
      \/ fetching[c] = "running" /\ fetching'[c] = "rejected"
           /\ ~Live(receiver'[Request(c)])
    BY <1>1
  <2>3. \A c \in Calls : c \in stopped' /\ fetching[c] = "none" => c \in stopped
    BY <1>1
  <2>4. \A c \in Calls :
      /\ \A s \in BOOLEAN : FetchMsg(c, s) \in Sent' => FetchMsg(c, s) \in Sent
      /\ Abort(c) \in Sent' => Abort(c) \in Sent
           \/ outcome'[c] \notin {"idle", "normalizing"}
    BY <1>7
  <2>5. Lost' \/ (~Lost /\ \A c \in Calls, s \in BOOLEAN : FetchMsg(c, s) \in Sent
            => FetchMsg(c, s) \in Sent')
    OBVIOUS
  <2>6. \A c \in Calls : (\A ok, s \in BOOLEAN : Response(c, ok, s) \in Sent' => Response(c, ok, s) \in Sent)
          \/ Answered(c)'
    BY <1>7
  <2>7. worker = "failed" => worker' = "failed"
    BY <1>1
  <2>8. \A c \in Calls :
      \/ outcome'[c] = outcome[c]
      \/ outcome[c] # "resolved" /\ outcome'[c] = "rejected"
      \/ outcome[c] = "idle" /\ outcome'[c] = "normalizing"
    BY DEF Settles
  <2>9. \A c \in Calls : Live(receiver'[Request(c)]) =>
           /\ Prior(toPage, Abort(c), End(Request(c))) => Prior(toPage, Abort(c), End(Request(c)))'
           /\ sender'[Request(c)] # sender[Request(c)] => Cut' \/ worker' = "failed" \/ Abort(c) \in Sent'
           /\ Abort(c) \in Sent => Abort(c) \in Sent' \/ Cut'
           /\ Cut => Cut'
    BY <1>8
  <2>10. \A c \in Calls : Live(receiver'[ResponseBody(c)]) =>
           /\ page # "attached" => page' # "attached"
           /\ sender'[ResponseBody(c)] # sender[ResponseBody(c)] => page' # "attached"
    BY <1>1 DEF BodiesHalt
  <2>. QED  BY <1>4, <1>6, <2>1, <2>2, <2>3, <2>4, <2>5, <2>6, <2>7, <2>8, <2>9, <2>10, Halting
<1>10. ASSUME NEW c \in Calls PROVE Aborted(c)' /\ Served(c)'
  <2>1. ResponseBody(c) \in Bodies /\ Aborted(c) /\ Served(c)
    BY BodiesOf, InvParts DEF CallInv
  <2>2. Live(receiver'[ResponseBody(c)]) => Live(receiver[ResponseBody(c)])
    BY <1>9, <2>1
  <2>3. Abort(c) \in Sent' => Abort(c) \in Sent
    BY <1>7
  <2>4. outcome'[c] = "pending" => outcome[c] = "pending"
    BY DEF Settles
  <2>5. Lost' \/ (~Lost /\ (Abort(c) \in Sent => Abort(c) \in Sent'))
    OBVIOUS
  <2>6. /\ c \in aborted => c \in aborted'
        /\ c \in aborted' => c \in aborted \/ c \notin entered'
        /\ c \in entered' => c \in entered
        /\ fetching'[c] \in {"none", "running"} => fetching[c] \in {"none", "running"}
        /\ c \in stopped => c \in stopped'
    BY <1>1
  <2>7. Aborted(c)'
    BY <2>1, <2>2, <2>3, <2>4, <2>5, <2>6, AbortedStays
  <2>8. receiver'[Request(c)] = receiver[Request(c)]
    BY DEF BodiesHalt
  <2>. QED  BY <1>1, <2>1, <2>7, <2>8 DEF Served
<1>11. Controllers'
  BY <1>0, <1>1 DEF Controllers, BodiesHalt
<1>. QED  BY <1>2, <1>9, <1>10, <1>11 DEF IInv

\* the offscreen document cannot be had
LEMMA PreservedByBootFails ==
  ASSUME IInv, BootFails
  PROVE  IInv'
<1>0. TypeOK /\ Ports /\ Connection /\ ListensWhileOpen
  BY DEF IInv
<1>1. /\ link = "none" /\ link' = "down" /\ outbox' = <<>> /\ Fail
      /\ UNCHANGED <<aborted, entered, locked, toPage, toSw>> /\ UNCHANGED pageVars
  BY DEF BootFails, SwIdle
<1>2. FailsSafely
  BY <1>0, <1>1, FailIsSafe
<1>3. Alive' /\ Alive /\ Cut' /\ Lost'
  BY <1>1 DEF Alive, Cut, Lost
<1>4. /\ BodiesHalt /\ ListensWhileOpen' /\ listening' \subseteq Signalled
      /\ outcome' \in Outcomes
      /\ \A c \in Calls : Settles(c, outcome'[c])
      /\ failed' \in BOOLEAN /\ ready' \in {"pending", "resolved", "rejected"}
  BY <1>2, <1>3 DEF FailsSafely, BodiesHalt
<1>5. UNCHANGED <<page, worker>>
  BY <1>1 DEF pageVars
<1>6. toPage = <<>> /\ toSw = <<>> /\ page \in {"none", "gone"}
  BY <1>0, <1>1 DEF Connection
<1>7. \A y : ~(y \in ToSet(<<>>))
  BY OneMember
<1>8. Sent' = {}
  BY <1>1, <1>6, <1>7 DEF Sent
<1>9. InOrder(<<>>, Order) /\ <<>> \in Seq(ToPage) /\ <<>> \in Seq(ToSw)
  BY EmptySeq DEF InOrder
<1>10. Ports'
  BY <1>1, <1>6, <1>9 DEF Ports
<1>11. Connection'
  BY <1>1, <1>3, <1>5, <1>6, <1>7, <1>8 DEF Connection
<1>12. /\ \A m \in Sent' : m \in Sent \/ m.kind \in {"boot", "close", "disconnect"}
       /\ page # "attached"
  BY <1>6, <1>8
<1>. QED  BY <1>1, <1>3, <1>4, <1>6, <1>9, <1>10, <1>11, <1>12, LinkHalts

\* the port is opened, and takes what was buffered
LEMMA PreservedByConnect ==
  ASSUME IInv, Connect
  PROVE  IInv'
<1>0. TypeOK /\ Ports /\ Connection /\ ListensWhileOpen
  BY DEF IInv
<1>1. /\ link = "none" /\ link' = "up" /\ outbox' = <<>>
      /\ UNCHANGED <<outcome, aborted, listening, failed, ready, entered, locked, sender, receiver>>
      /\ UNCHANGED pageVars
  BY DEF Connect
<1>2. UNCHANGED <<page, worker>>
  BY <1>1 DEF pageVars
<1>3. toPage = <<>> /\ toSw = <<>> /\ page \in {"none", "gone"}
  BY <1>0, <1>1 DEF Connection
<1>4. /\ BodiesHalt /\ ListensWhileOpen' /\ listening' \subseteq Signalled
      /\ outcome' \in Outcomes
      /\ \A c \in Calls : Settles(c, outcome'[c])
      /\ failed' \in BOOLEAN /\ ready' \in {"pending", "resolved", "rejected"}
  BY <1>0, <1>1 DEF TypeOK, BodiesHalt, Settles, ListensWhileOpen, Alive
<1>5. \A y : ~(y \in ToSet(<<>>))
  BY OneMember
<1>6. InOrder(<<>>, Order) /\ <<>> \in Seq(ToPage) /\ <<>> \in Seq(ToSw)
  BY EmptySeq DEF InOrder
<1>7. /\ Boot \in ToPage /\ Disconnect \in ToSw /\ Boot # Disconnect /\ Boot # Ready /\ Boot # Failed
      /\ Disconnect # Ready /\ Disconnect # Failed
  BY MessageFields DEF ToPage, ToSw
<1>8. CASE page = "gone"
  <2>1. toSw' = <<Disconnect>> /\ toPage' = <<>>
    BY <1>1, <1>3, <1>8 DEF Connect
  <2>2. <<Disconnect>> \in Seq(ToSw) /\ ToSet(<<Disconnect>>) = {Disconnect} /\ InOrder(<<Disconnect>>, Order)
    BY <1>7, SingleOrder
  <2>3. Sent' = {Disconnect}
    BY <1>1, <1>5, <2>1, <2>2 DEF Sent
  <2>4. Ports'
    BY <1>1, <1>6, <2>1, <2>2 DEF Ports
  <2>5. Connection'
    BY <1>1, <1>2, <1>5, <1>7, <1>8, <2>1, <2>3 DEF Connection, Cut
  <2>6. Lost'
    BY <1>2, <1>8 DEF Lost
  <2>7. \A m \in Sent' : m \in Sent \/ m.kind \in {"boot", "close", "disconnect"}
    BY <2>3, MessageFields
  <2>. QED  BY <1>1, <1>4, <1>6, <1>8, <2>1, <2>2, <2>4, <2>5, <2>6, <2>7, LinkHalts
<1>9. CASE page = "none"
  <2>1. toPage' = <<Boot>> \o outbox /\ toSw' = <<>>
    BY <1>1, <1>3, <1>9 DEF Connect
  <2>2. <<Boot>> \in Seq(ToPage) /\ ToSet(<<Boot>>) = {Boot} /\ InOrder(<<Boot>>, Order)
    BY <1>7, SingleOrder
  <2>3. outbox \in Seq(ToPage) /\ ToSet(outbox) \subseteq ToPage /\ InOrder(outbox, Order)
    BY <1>0, ToSetIn DEF TypeOK, Ports
  <2>4. \A x \in ToSet(<<Boot>>), y \in ToSet(outbox) : <<x, y>> \in Order
    <3>. SUFFICES ASSUME NEW y \in ToSet(outbox) PROVE <<Boot, y>> \in Order
      BY <2>2
    <3>1. y # Boot /\ y \in Message /\ Boot \in Message
      BY <1>0, <1>7, <2>3 DEF Connection, Message
    <3>2. y.kind # "boot"
      BY <3>1, KindIs
    <3>3. ~Rivals(Boot, y) /\ Boot.kind # "abort"
      BY MessageFields DEF Rivals, DataKinds
    <3>. QED  BY <3>1, <3>2, <3>3, Fits
  <2>5. /\ toPage' \in Seq(ToPage) /\ ToSet(toPage') = {Boot} \cup ToSet(outbox) /\ InOrder(toPage', Order)
    <3>1. /\ <<Boot>> \o outbox \in Seq(ToPage)
          /\ ToSet(<<Boot>> \o outbox) = ToSet(<<Boot>>) \cup ToSet(outbox)
          /\ InOrder(<<Boot>> \o outbox, Order)
      BY <2>2, <2>3, <2>4, ConcatOrder
    <3>. QED  BY <2>1, <2>2, <3>1
  <2>6. toPage' # <<>> /\ Head(toPage') = Boot
    BY <2>1, <2>3, ConcatProperties
  <2>7. Sent' = Sent \cup {Boot}
    BY <1>1, <1>3, <1>5, <2>1, <2>5 DEF Sent
  <2>8. Ports'
    BY <1>1, <1>6, <2>1, <2>5 DEF Ports
  <2>9. Connection'
    BY <1>0, <1>1, <1>2, <1>5, <1>7, <1>9, <2>1, <2>5, <2>6, <2>7 DEF Connection, Cut
  <2>10. ~Lost /\ Sent \subseteq Sent'
    BY <1>1, <1>9, <2>7 DEF Lost, Cut
  <2>11. \A m \in Sent' : m \in Sent \/ m.kind \in {"boot", "close", "disconnect"}
    BY <2>7, MessageFields
  <2>. QED  BY <1>1, <1>4, <1>6, <1>9, <2>1, <2>5, <2>8, <2>9, <2>10, <2>11, LinkHalts
<1>. QED  BY <1>3, <1>8, <1>9

\* what ends a connection arrives after all that was sent
LEMMA EndOfPort ==
  ASSUME NEW s \in Seq(ToPage), InOrder(s, Order),
         NEW t \in {<<Disconnect>>, <<CloseMsg>>, <<CloseMsg, Disconnect>>}
  PROVE
    /\ s \o t \in Seq(ToPage) /\ InOrder(s \o t, Order)
    /\ ToSet(s \o t) = ToSet(s) \cup ToSet(t)
    /\ t # <<CloseMsg>> => Disconnect \in ToSet(s \o t)
    /\ \A m \in ToSet(t) : m = CloseMsg \/ (t # <<CloseMsg>> /\ m = Disconnect)
    /\ \A c : Prior(s, Abort(c), End(Request(c))) => Prior(s \o t, Abort(c), End(Request(c)))
    /\ s # <<>> => s \o t # <<>> /\ Head(s \o t) = Head(s)
<1>1. CloseMsg \in ToPage /\ Disconnect \in ToPage /\ CloseMsg # Disconnect /\ ToPage \subseteq Message
  BY MessageFields DEF ToPage, Message
<1>2. /\ t \in Seq(ToPage)
      /\ \A m \in ToSet(t) : m = CloseMsg \/ (t # <<CloseMsg>> /\ m = Disconnect)
      /\ t # <<CloseMsg>> => Disconnect \in ToSet(t)
  <2>1. CASE t = <<Disconnect>>
    <3>1. t \in Seq(ToPage) /\ ToSet(t) = {Disconnect} /\ t # <<CloseMsg>>
      BY <1>1, <2>1, SingleOrder
    <3>. QED  BY <3>1
  <2>2. CASE t = <<CloseMsg>>
    <3>1. t \in Seq(ToPage) /\ ToSet(t) = {CloseMsg}
      BY <1>1, <2>2, SingleOrder
    <3>. QED  BY <2>2, <3>1
  <2>3. CASE t = <<CloseMsg, Disconnect>>
    <3>1. t \in Seq(ToPage) /\ t # <<CloseMsg>> /\ Len(t) = 2 /\ t[1] = CloseMsg /\ t[2] = Disconnect
      BY <1>1, <2>3
    <3>2. \A m : m \in ToSet(t) <=> m = CloseMsg \/ m = Disconnect
      BY <3>1 DEF ToSet
    <3>. QED  BY <3>1, <3>2
  <2>. QED  BY <2>1, <2>2, <2>3
<1>3. \A y \in ToSet(t) : y.kind \in {"close", "disconnect"} /\ y \in Message
  BY <1>1, <1>2, MessageFields
<1>4. \A x \in Message, y \in ToSet(t) : <<x, y>> \in Order
  BY <1>3, FitsFreely
<1>5. InOrder(t, Order)
  BY <1>2, <1>3, <1>4, AnyOrder
<1>6. ToSet(s) \subseteq Message
  BY <1>1, ToSetIn
<1>7. \A c : End(Request(c)) \notin ToSet(t)
  BY <1>3, MessageKinds
<1>8. /\ s \o t \in Seq(ToPage) /\ ToSet(s \o t) = ToSet(s) \cup ToSet(t)
      /\ \A R : InOrder(s, R) /\ InOrder(t, R) /\ (\A x \in ToSet(s), y \in ToSet(t) : <<x, y>> \in R)
           => InOrder(s \o t, R)
      /\ \A x, y : Prior(s, x, y) /\ (x \in ToSet(s) \/ y \notin ToSet(t)) => Prior(s \o t, x, y)
  BY <1>2, ConcatOrder
<1>9. InOrder(s \o t, Order)
  BY <1>4, <1>5, <1>6, <1>8
<1>10. s # <<>> => s \o t # <<>> /\ Head(s \o t) = Head(s)
  BY <1>2, ConcatProperties
<1>. QED  BY <1>2, <1>7, <1>8, <1>9, <1>10

\* the port is disconnected by the service worker
LEMMA PortEnds ==
  ASSUME
    IInv, UNCHANGED <<entered, locked, aborted, pageVars, outbox>>, BodiesHalt,
    outcome' \in Outcomes,
    \A c \in Calls : Settles(c, outcome'[c]), link = "up",
    NEW t \in {<<Disconnect>>, <<CloseMsg, Disconnect>>},
    toPage' = IF page = "gone" THEN toPage ELSE toPage \o t, toSw' = <<>>,
    link' \in {"down", "killed"},
    failed' \in BOOLEAN, ready' \in {"pending", "resolved", "rejected"}, listening' \subseteq Signalled,
    ListensWhileOpen'
  PROVE  IInv'
<1>0. TypeOK /\ Ports /\ Connection
  BY DEF IInv
<1>1. Cut' /\ Lost' /\ UNCHANGED <<page, worker>>
  BY DEF Cut, Lost, pageVars
<1>2. toPage \in Seq(ToPage) /\ InOrder(toPage, Order) /\ outbox \in Seq(ToPage) /\ InOrder(outbox, Order)
  BY <1>0 DEF TypeOK, Ports
<1>. DEFINE s == toPage \o t
<1>3. /\ s \in Seq(ToPage) /\ InOrder(s, Order) /\ ToSet(s) = ToSet(toPage) \cup ToSet(t)
      /\ Disconnect \in ToSet(s)
      /\ \A m \in ToSet(t) : m = CloseMsg \/ m = Disconnect
      /\ \A c : Prior(toPage, Abort(c), End(Request(c))) => Prior(s, Abort(c), End(Request(c)))
      /\ toPage # <<>> => s # <<>> /\ Head(s) = Head(toPage)
  <2>1. t # <<CloseMsg>> /\ t \in {<<Disconnect>>, <<CloseMsg>>, <<CloseMsg, Disconnect>>}
    <3>1. CloseMsg # Disconnect
      BY MessageFields
    <3>2. <<Disconnect>>[1] # <<CloseMsg>>[1] /\ Len(<<CloseMsg, Disconnect>>) # Len(<<CloseMsg>>)
      BY <3>1
    <3>. QED  BY <3>2
  <2>. QED  BY <1>2, <2>1, EndOfPort
<1>. HIDE DEF s
<1>4. toPage' = IF page = "gone" THEN toPage ELSE s
  BY DEF s
<1>5. /\ toPage' \in Seq(ToPage) /\ InOrder(toPage', Order)
      /\ \A m \in ToSet(toPage') : m \in ToSet(toPage) \/ m = CloseMsg \/ m = Disconnect
      /\ toPage # <<>> => toPage' # <<>> /\ Head(toPage') = Head(toPage)
      /\ page # "gone" => Disconnect \in ToSet(toPage')
      /\ \A c : Prior(toPage, Abort(c), End(Request(c))) => Prior(toPage', Abort(c), End(Request(c)))
  BY <1>2, <1>3, <1>4
<1>6. \A y : ~(y \in ToSet(<<>>))
  BY OneMember
<1>7. InOrder(<<>>, Order) /\ <<>> \in Seq(ToSw)
  BY EmptySeq DEF InOrder
<1>8. Ports'
  BY <1>2, <1>5, <1>7 DEF Ports
<1>9. \A m \in Sent' : m \in Sent \/ m = CloseMsg \/ m = Disconnect
  BY <1>5, <1>6 DEF Sent
<1>10. /\ CloseMsg # Boot /\ Disconnect # Boot /\ CloseMsg # Ready /\ CloseMsg # Failed /\ Disconnect # Ready
       /\ Disconnect # Failed
  BY MessageFields
<1>11. /\ outbox = <<>> /\ (page = "gone" => toPage = <<>>)
       /\ (page = "none" => toPage # <<>> /\ Head(toPage) = Boot)
       /\ (Boot \in Sent => page = "none") /\ (Ready \in Sent => worker # "booting")
       /\ (Failed \in Sent => worker = "failed")
  BY <1>0 DEF Connection
<1>12. Connection'
  <2>1. Boot \notin ToSet(outbox') /\ Disconnect \notin ToSet(outbox')
    BY <1>6, <1>11
  <2>2. page' = "none" => toPage' # <<>> /\ Head(toPage') = Boot
    BY <1>1, <1>5, <1>11
  <2>3. /\ Boot \in Sent' => page' = "none"
        /\ Ready \in Sent' => worker' # "booting"
        /\ Failed \in Sent' => worker' = "failed"
    BY <1>1, <1>9, <1>10, <1>11
  <2>4. page' = "gone" => toPage' = <<>>
    BY <1>1, <1>4, <1>11
  <2>5. /\ link' # "none" /\ outbox' = <<>> /\ Cut'
        /\ (page' \in {"none", "attached"} => Disconnect \in ToSet(toPage'))
    BY <1>1, <1>5, <1>11
  <2>. QED  BY <1>6, <2>1, <2>2, <2>3, <2>4, <2>5 DEF Connection
<1>13. \A m \in Sent' : m \in Sent \/ m.kind \in {"boot", "close", "disconnect"}
  BY <1>9, MessageFields
<1>. QED  BY <1>1, <1>2, <1>5, <1>7, <1>8, <1>12, <1>13, LinkHalts

\* the service worker is killed
LEMMA PreservedBySwKilled ==
  ASSUME IInv, SwKilled
  PROVE  IInv'
<1>0. TypeOK /\ Ports /\ Connection
  BY DEF IInv
<1>1. /\ link = "up" /\ link' = "killed" /\ toSw' = <<>> /\ listening' = {}
      /\ toPage' = IF page = "gone" THEN toPage ELSE Append(toPage, Disconnect)
      /\ sender' = StopSenders("request") /\ receiver' = StopReceivers("response")
      /\ UNCHANGED <<outcome, aborted, failed, ready, outbox, entered, locked, pageVars>>
  BY DEF SwKilled
<1>2. toPage' = IF page = "gone" THEN toPage ELSE toPage \o <<Disconnect>>
  <2>1. toPage \in Seq(ToPage) /\ Disconnect \in ToPage
    BY <1>0 DEF TypeOK, ToPage
  <2>2. Append(toPage, Disconnect) = toPage \o <<Disconnect>>
    BY <2>1, AppendIsConcat
  <2>. QED  BY <1>1, <2>2
<1>3. BodiesHalt
  <2>1. sender' \in [Bodies -> SenderType] /\ receiver' \in [Bodies -> ReceiverType]
    BY <1>0, <1>1, AllStopped
  <2>2. ASSUME NEW c \in Calls
        PROVE  /\ sender'[Request(c)] = StopSender(sender[Request(c)])
               /\ sender'[ResponseBody(c)] = sender[ResponseBody(c)]
               /\ receiver'[Request(c)] = receiver[Request(c)]
               /\ receiver'[ResponseBody(c)] = StopReceiver(ResponseBody(c), receiver[ResponseBody(c)]).half
    <3>1. /\ Request(c) \in Bodies /\ ResponseBody(c) \in Bodies /\ Request(c)[1] = "request"
          /\ ResponseBody(c)[1] = "response"
      BY BodiesOf
    <3>. QED  BY <1>0, <1>1, <3>1, AllStopped
  <2>. QED  BY <2>1, <2>2 DEF BodiesHalt
<1>4. /\ outcome' \in Outcomes
      /\ \A c \in Calls : Settles(c, outcome'[c])
      /\ failed' \in BOOLEAN /\ ready' \in {"pending", "resolved", "rejected"}
      /\ listening' \subseteq Signalled
  BY <1>0, <1>1 DEF TypeOK, Settles
<1>5. ListensWhileOpen'
  BY <1>1 DEF ListensWhileOpen, Alive
<1>. QED  BY <1>1, <1>2, <1>3, <1>4, <1>5, PortEnds

\* close()
LEMMA PreservedByClose ==
  ASSUME IInv, Close
  PROVE  IInv'
<1>0. TypeOK /\ Ports /\ Connection /\ ListensWhileOpen
  BY DEF IInv
<1>1. link \in {"none", "up"} /\ Fail /\ UNCHANGED <<aborted, entered, locked, pageVars>>
  BY DEF Close
<1>2. FailsSafely
  BY <1>0, <1>1, FailIsSafe
<1>3. Alive /\ UNCHANGED <<page, worker>>
  BY <1>1 DEF Alive, pageVars
<1>4. /\ BodiesHalt /\ ListensWhileOpen' /\ listening' \subseteq Signalled
      /\ outcome' \in Outcomes
      /\ \A c \in Calls : Settles(c, outcome'[c])
      /\ failed' \in BOOLEAN /\ ready' \in {"pending", "resolved", "rejected"}
  BY <1>2, <1>3 DEF FailsSafely, BodiesHalt
<1>5. CASE link = "up"
  <2>1. /\ link' = "down" /\ toSw' = <<>> /\ outbox' = outbox
        /\ toPage' = IF page = "gone" THEN toPage ELSE toPage \o <<CloseMsg, Disconnect>>
    BY <1>5 DEF Close
  <2>. QED  BY <1>1, <1>4, <1>5, <2>1, PortEnds
<1>6. CASE link = "none"
  <2>1. outbox' = Append(outbox, CloseMsg) /\ UNCHANGED <<link, toPage, toSw>>
    BY <1>6 DEF Close
  <2>2. outbox \in Seq(ToPage) /\ CloseMsg \in ToPage /\ InOrder(outbox, Order)
    BY <1>0 DEF TypeOK, ToPage, Ports
  <2>3. outbox' = outbox \o <<CloseMsg>>
    BY <2>1, <2>2, AppendIsConcat
  <2>4. /\ outbox' \in Seq(ToPage) /\ InOrder(outbox', Order) /\ ToSet(outbox) \subseteq ToSet(outbox')
        /\ \A m \in ToSet(outbox') : m \in ToSet(outbox) \/ m = CloseMsg
    <3>1. /\ outbox \o <<CloseMsg>> \in Seq(ToPage) /\ InOrder(outbox \o <<CloseMsg>>, Order)
          /\ ToSet(outbox \o <<CloseMsg>>) = ToSet(outbox) \cup ToSet(<<CloseMsg>>)
          /\ \A m \in ToSet(<<CloseMsg>>) : m = CloseMsg \/ (<<CloseMsg>> # <<CloseMsg>> /\ m = Disconnect)
      BY <2>2, EndOfPort
    <3>. QED  BY <2>3, <3>1
  <2>5. toPage' \in Seq(ToPage) /\ toSw' \in Seq(ToSw) /\ Ports'
    BY <1>0, <2>1, <2>4 DEF TypeOK, Ports
  <2>6. Sent \subseteq Sent' /\ \A m \in Sent' : m \in Sent \/ m = CloseMsg
    BY <2>1, <2>4 DEF Sent
  <2>7. /\ CloseMsg # Boot /\ CloseMsg # Disconnect /\ CloseMsg # Ready /\ CloseMsg # Failed
        /\ CloseMsg.kind = "close"
    BY MessageFields
  <2>8. Connection'
    BY <1>0, <1>3, <1>6, <2>1, <2>4, <2>6, <2>7 DEF Connection, Cut
  <2>9. (Lost' <=> Lost) /\ page # "attached" /\ link' \in {"none", "up", "down", "killed"}
    BY <1>0, <1>3, <1>6, <2>1 DEF Lost, Cut, Connection
  <2>10. \A m \in Sent' : m \in Sent \/ m.kind \in {"boot", "close", "disconnect"}
    BY <2>6, <2>7
  <2>. QED  BY <1>1, <1>4, <2>4, <2>5, <2>6, <2>8, <2>9, <2>10, LinkHalts
<1>. QED  BY <1>1, <1>5, <1>6

\* the document has gone, and the port with it
LEMMA PreservedByOnDisconnect ==
  ASSUME IInv, link = "up", toSw # <<>>, toSw' = Tail(toSw), UNCHANGED <<aborted, entered, locked, pageVars>>,
         OnDisconnect(Head(toSw))
  PROVE  IInv'
<1>0. TypeOK /\ Ports /\ Connection /\ ListensWhileOpen
  BY DEF IInv
<1>1. Head(toSw) \in Message /\ Head(toSw) \in Sent /\ Head(toSw) \in ToSet(toSw)
  BY <1>0, SwTaken
<1>2. Disconnect \in ToSet(toSw)
  BY <1>1, KindIs DEF OnDisconnect
<1>3. Fail /\ link' = "down" /\ UNCHANGED <<outbox, toPage>>
  BY DEF OnDisconnect
<1>4. FailsSafely
  BY <1>0, <1>3, FailIsSafe
<1>5. Alive /\ UNCHANGED <<page, worker>> /\ Cut' /\ Lost'
  BY <1>3 DEF Alive, pageVars, Cut, Lost
<1>6. /\ BodiesHalt /\ ListensWhileOpen' /\ listening' \subseteq Signalled
      /\ outcome' \in Outcomes
      /\ \A c \in Calls : Settles(c, outcome'[c])
      /\ failed' \in BOOLEAN /\ ready' \in {"pending", "resolved", "rejected"}
  BY <1>4, <1>5 DEF FailsSafely, BodiesHalt
<1>7. page = "gone" /\ toPage = <<>> /\ outbox = <<>>
  BY <1>0, <1>2 DEF Connection
<1>8. toSw' \in Seq(ToSw) /\ InOrder(toSw', Order) /\ ToSet(toSw') \subseteq ToSet(toSw)
  BY <1>0, TailOrder DEF TypeOK, Ports
<1>9. Ports' /\ toPage' \in Seq(ToPage) /\ outbox' \in Seq(ToPage)
  BY <1>0, <1>3, <1>8 DEF Ports, TypeOK
<1>10. Sent' \subseteq Sent
  BY <1>3, <1>8 DEF Sent
<1>11. Connection'
  BY <1>0, <1>3, <1>5, <1>7, <1>8, <1>10 DEF Connection
<1>. QED  BY <1>3, <1>5, <1>6, <1>7, <1>8, <1>9, <1>10, <1>11, LinkHalts

\* the message taken is not one of those that go the other way
LEMMA PageKeeps ==
  ASSUME TypeOK, toPage # <<>>, Head(toPage).kind = "abort", NEW c \in Calls
  PROVE  \A s \in BOOLEAN : Head(toPage) # FetchMsg(c, s)
BY MessageFields

\* an error response
Rejection(c) == Response(c, FALSE, FALSE)

\* the response that rejects a call
LEMMA ErrorFields ==
  \A c : Rejection(c).kind = "response" /\ Rejection(c).call = c
BY DEF Response, Rejection

LEMMA RejectionTyped == \A c \in Calls : Rejection(c) \in ToSw
<1>. SUFFICES ASSUME NEW c \in Calls PROVE Rejection(c) \in ToSw
  OBVIOUS
<1>1. PICK no \in BOOLEAN : no = FALSE
  OBVIOUS
<1>2. Rejection(c) = Response(c, no, no)
  BY <1>1 DEF Rejection
<1>. QED  BY <1>2 DEF ToSw

\* A step of the document that stops bodies and rejects calls, and says
\* so, keeps the invariant.
LEMMA PageHalts ==
  ASSUME
    IInv, NEW ms \in Seq(ToSw), PageSend(ms), Pops(toPage, toPage'),
    toPage' = toPage \/ (page = "attached" /\ Head(toPage).kind = "abort"),
    UNCHANGED <<swVars, page, replied>>,
    worker' \in {"booting", "ready", "failed"},
    worker' = worker \/ (worker' # "booting" /\ (worker = "failed" => worker' = "failed")),
    InOrder(ms, Order), \A x \in ToSet(toSw), y \in ToSet(ms) : <<x, y>> \in Order,
    \A m \in ToSet(ms) :
      \/ m = Ready /\ worker' # "booting"
      \/ m = Failed /\ worker' = "failed"
      \/ \E c \in Calls :
        /\ m = Cancel(Request(c))
        /\ Live(receiver[Request(c)]) /\ ~Live(receiver'[Request(c)])
      \/ \E c \in Calls : m = Rejection(c) /\ (Sent' \subseteq Sent \cup ToSet(ms) => Answered(c)'),
    sender' \in [Bodies -> SenderType], receiver' \in [Bodies -> ReceiverType],
    \A c \in Calls :
      /\ sender'[Request(c)] = sender[Request(c)]
      /\ sender'[ResponseBody(c)] \in {sender[ResponseBody(c)], StopSender(sender[ResponseBody(c)])}
      /\ receiver'[ResponseBody(c)] = receiver[ResponseBody(c)]
      /\ receiver'[Request(c)] \in {receiver[Request(c)],
           StopReceiver(Request(c), receiver[Request(c)]).half}
      /\ sender'[ResponseBody(c)] # sender[ResponseBody(c)] => ~Live(receiver[ResponseBody(c)]),
    fetching' \in Fates,
    \A c \in Calls :
      \/ fetching'[c] = fetching[c]
      \/ fetching[c] = "running" /\ fetching'[c] = "rejected"
           /\ ~Live(receiver'[Request(c)]),
    stopped \subseteq stopped', stopped' \subseteq Signalled \cup Calls,
    \A c \in Calls : c \in stopped' /\ fetching[c] = "none" => c \in stopped,
    \A c \in Calls : toPage' # toPage /\ Head(toPage) = Abort(c) =>
      /\ ~Live(receiver'[Request(c)])
      /\ c \in entered /\ fetching'[c] \in {"none", "running"} => c \in stopped' \/ Lost,
    inFlight' \subseteq Calls, Controllers'
  PROVE  IInv'
<1>0. TypeOK /\ Ports /\ Connection /\ ListensWhileOpen
  BY DEF IInv
<1>1. UNCHANGED <<outcome, aborted, listening, failed, ready, link, outbox, entered, locked, page, replied>>
  BY DEF swVars
<1>2. \A m \in ToSet(ms) : m # Disconnect /\ m.kind \in {"ready", "failed", "body.cancel", "response"}
  BY MessageFields, MessageKinds, ErrorFields
<1>3. /\ Ready \in ToSet(ms) => worker' # "booting"
      /\ Failed \in ToSet(ms) => worker' = "failed"
  <2>1. Ready # Failed /\ \A c : Ready # Cancel(Request(c)) /\ Failed # Cancel(Request(c))
    BY MessageFields, MessageKinds
  <2>2. \A c : Ready # Rejection(c) /\ Failed # Rejection(c)
    BY MessageFields, ErrorFields
  <2>. QED  BY <2>1, <2>2
<1>4. toPage' = toPage \/ (page = "attached" /\ Head(toPage) # Disconnect)
  BY MessageFields
<1>5. /\ outbox' \in Seq(ToPage) /\ toPage' \in Seq(ToPage) /\ toSw' \in Seq(ToSw)
      /\ Ports' /\ Connection'
      /\ Sent' \subseteq Sent \cup ToSet(ms)
      /\ \A m \in Sent : m \in Sent' \/ (toPage' = Tail(toPage) /\ toPage # <<>> /\ m = Head(toPage))
      /\ (Lost' <=> Lost) /\ (Cut' <=> Cut)
  BY <1>0, <1>1, <1>2, <1>3, <1>4, PagePorts
<1>6. TypeOK'
  BY <1>0, <1>1, <1>5 DEF TypeOK
<1>7. \A m \in Sent : m \in Sent' \/ (toPage' # toPage /\ m = Head(toPage) /\ m.kind = "abort")
  <2>1. toPage # <<>> /\ toPage' = Tail(toPage) => toPage' # toPage
    <3>1. toPage \in Seq(ToPage)
      BY <1>0 DEF TypeOK
    <3>2. toPage # <<>> => Len(Tail(toPage)) = Len(toPage) - 1 /\ Len(toPage) \in Nat
      BY <3>1, HeadTailProperties, LenProperties
    <3>3. toPage # <<>> => Tail(toPage) # toPage
      BY <3>2
    <3>. QED  BY <3>3
  <2>. QED  BY <1>5, <2>1
<1>8. \A b \in Bodies :
    /\ sender'[b] \in {sender[b], StopSender(sender[b])}
    /\ receiver'[b] \in {receiver[b], StopReceiver(b, receiver[b]).half}
  <2>1. \A b \in Bodies : \E c \in Calls : b = Request(c) \/ b = ResponseBody(c)
    BY BodiesOf
  <2>. QED  BY <2>1
<1>9. \A b \in Bodies : \A m \in Sent' \cap About(b) :
        m \in Sent \/ (m = Cancel(b) /\ Live(receiver[b]) /\ ~Live(receiver'[b]))
  <2>. SUFFICES ASSUME NEW b \in Bodies, NEW m \in Sent' \cap About(b), m \notin Sent
                PROVE  m = Cancel(b) /\ Live(receiver[b]) /\ ~Live(receiver'[b])
    OBVIOUS
  <2>1. m \in ToSet(ms) /\ m.kind \notin {"ready", "failed", "response"} /\ m.body = b
    BY <1>5, AboutKinds DEF DataKinds
  <2>2. PICK c \in Calls : m = Cancel(Request(c)) /\ Live(receiver[Request(c)])
                             /\ ~Live(receiver'[Request(c)])
    BY <2>1, MessageFields, ErrorFields
  <2>. QED  BY <2>1, <2>2, MessageKinds
<1>10. ASSUME NEW c \in Calls
       PROVE
         /\ \A s \in BOOLEAN : FetchMsg(c, s) \in Sent' <=> FetchMsg(c, s) \in Sent
         /\ Abort(c) \in Sent' => Abort(c) \in Sent
         /\ Abort(c) \in Sent => Abort(c) \in Sent' \/ (toPage' # toPage /\ Head(toPage) = Abort(c))
         /\ (\A ok, s \in BOOLEAN : Response(c, ok, s) \in Sent' => Response(c, ok, s) \in Sent)
              \/ Answered(c)'
  <2>1. Abort(c) \notin ToSet(ms) /\ \A s \in BOOLEAN : FetchMsg(c, s) \notin ToSet(ms)
    BY <1>2, MessageFields
  <2>2. \A s \in BOOLEAN : FetchMsg(c, s) \in Sent => FetchMsg(c, s) \in Sent'
    BY <1>7, MessageFields
  <2>3. (\A ok, s \in BOOLEAN : Response(c, ok, s) \notin ToSet(ms)) \/ Answered(c)'
    <3>. SUFFICES ASSUME NEW ok \in BOOLEAN, NEW s \in BOOLEAN, Response(c, ok, s) \in ToSet(ms)
                  PROVE  Answered(c)'
    OBVIOUS
    <3>1. PICK d \in Calls : Response(c, ok, s) = Rejection(d)
                               /\ (Sent' \subseteq Sent \cup ToSet(ms) => Answered(d)')
      <4>1. /\ Response(c, ok, s) # Ready /\ Response(c, ok, s) # Failed
            /\ \A d : Response(c, ok, s) # Cancel(Request(d))
        BY MessageFields, MessageKinds
      <4>. QED  BY <4>1
    <3>2. d = c
      BY <3>1, MessageFields, ErrorFields
    <3>. QED  BY <1>5, <3>1, <3>2
  <2>. QED  BY <1>5, <1>7, <2>1, <2>2, <2>3
<1>11. ASSUME NEW c \in Calls, Live(receiver'[Request(c)])
       PROVE  /\ Prior(toPage, Abort(c), End(Request(c))) => Prior(toPage, Abort(c), End(Request(c)))'
              /\ sender'[Request(c)] # sender[Request(c)] => Cut' \/ worker' = "failed" \/ Abort(c) \in Sent'
              /\ Abort(c) \in Sent => Abort(c) \in Sent' \/ Cut'
              /\ Cut => Cut'
  <2>1. Abort(c) \in Sent => Abort(c) \in Sent'
    BY <1>10, <1>11
  <2>2. Prior(toPage, Abort(c), End(Request(c))) => Prior(toPage', Abort(c), End(Request(c)))
    <3>1. CASE toPage' = toPage
      BY <3>1
    <3>2. CASE toPage' # toPage
      <4>1. toPage # <<>> /\ toPage' = Tail(toPage) /\ page \in {"none", "attached"}
        BY <3>2 DEF Pops
      <4>2. Head(toPage) # Abort(c)
        BY <3>2, <1>11
      <4>. QED  BY <1>0, <4>1, <4>2, PageTaken
    <3>. QED  BY <3>1, <3>2
  <2>. QED  BY <1>5, <2>1, <2>2
<1>12. \A c \in Calls : Live(receiver'[ResponseBody(c)]) =>
           /\ page # "attached" => page' # "attached"
           /\ sender'[ResponseBody(c)] # sender[ResponseBody(c)] => page' # "attached"
  BY <1>1
<1>13. /\ \A c \in Calls : Asked(c)' /\ Answered(c)' /\ RequestBody(c)' /\ AnswerBody(c)'
       /\ \A b \in Bodies :
         /\ Body(b, sender'[b], receiver'[b], Sent')
         /\ Live(receiver'[b]) => receiver'[b] = receiver[b]
  <2>1. UNCHANGED <<entered, locked, replied>>
    BY <1>1
  <2>2. \A c \in Calls :
      \/ outcome'[c] = outcome[c]
      \/ outcome[c] # "resolved" /\ outcome'[c] = "rejected"
      \/ outcome[c] = "idle" /\ outcome'[c] = "normalizing"
    BY <1>1
  <2>4. \A c \in Calls :
      /\ \A s \in BOOLEAN : FetchMsg(c, s) \in Sent' => FetchMsg(c, s) \in Sent
      /\ Abort(c) \in Sent' => Abort(c) \in Sent
           \/ outcome'[c] \notin {"idle", "normalizing"}
    BY <1>10
  <2>5. Lost' \/ (~Lost /\ \A c \in Calls, s \in BOOLEAN : FetchMsg(c, s) \in Sent
            => FetchMsg(c, s) \in Sent')
    BY <1>5, <1>10
  <2>6. \A c \in Calls : (\A ok, s \in BOOLEAN : Response(c, ok, s) \in Sent' => Response(c, ok, s) \in Sent)
          \/ Answered(c)'
    BY <1>10
  <2>7. worker = "failed" => worker' = "failed"
    OBVIOUS
  <2>8. \A c \in Calls : Live(receiver'[Request(c)]) =>
           /\ Prior(toPage, Abort(c), End(Request(c))) => Prior(toPage, Abort(c), End(Request(c)))'
           /\ sender'[Request(c)] # sender[Request(c)] => Cut' \/ worker' = "failed" \/ Abort(c) \in Sent'
           /\ Abort(c) \in Sent => Abort(c) \in Sent' \/ Cut'
           /\ Cut => Cut'
    BY <1>11
  <2>. QED  BY <1>8, <1>9, <1>12, <2>1, <2>2, <2>4, <2>5, <2>6, <2>7, <2>8, Halting
<1>14. ASSUME NEW c \in Calls PROVE Aborted(c)' /\ Served(c)'
  <2>1. Request(c) \in Bodies /\ Aborted(c) /\ Served(c)
    BY BodiesOf, InvParts DEF CallInv
  <2>2. Live(receiver'[Request(c)]) => Live(receiver[Request(c)])
    BY <1>13, <2>1
  <2>3. receiver'[ResponseBody(c)] = receiver[ResponseBody(c)]
    OBVIOUS
  <2>4. Abort(c) \in Sent' => c \in aborted' /\ outcome'[c] # "pending" /\ ~Live(receiver'[ResponseBody(c)])
    BY <1>1, <1>10, <2>1, <2>3 DEF Aborted
  <2>5. c \in aborted' \cap entered' /\ fetching'[c] \in {"none", "running"} /\ c \notin stopped'
          => Lost' \/ Abort(c) \in Sent'
    BY <1>1, <1>5, <1>10, <2>1 DEF Aborted
  <2>6. fetching'[c] \in {"none", "running"} => fetching'[c] = fetching[c]
    OBVIOUS
  <2>7. page = "none" => fetching'[c] = "none"
    BY <2>1 DEF Served
  <2>. QED  BY <1>1, <1>5, <2>1, <2>2, <2>4, <2>5, <2>6, <2>7 DEF Aborted, Served
<1>15. ListensWhileOpen'
  <2>1. \A c \in Signalled : c \in Calls
    BY CallsAssumption
  <2>. QED  BY <1>0, <1>1, <2>1 DEF ListensWhileOpen, Alive
<1>. QED  BY <1>5, <1>6, <1>13, <1>14, <1>15 DEF IInv

\* the worker behind the document is ready
LEMMA PreservedByWorkerReady ==
  ASSUME IInv, WorkerReady
  PROVE  IInv'
<1>0. TypeOK /\ Controllers
  BY DEF IInv
<1>1. /\ page = "attached" /\ worker = "booting" /\ worker' = "ready" /\ PageSend(<<Ready>>)
      /\ UNCHANGED <<page, fetching, stopped, inFlight, replied, sender, receiver, toPage>>
      /\ UNCHANGED swVars
  BY DEF WorkerReady, PageIdle, Attached
<1>2. <<Ready>> \in Seq(ToSw) /\ ToSet(<<Ready>>) = {Ready} /\ InOrder(<<Ready>>, Order)
  <2>1. Ready \in ToSw
    BY DEF ToSw
  <2>. QED  BY <2>1, SingleOrder
<1>3. \A x \in ToSet(toSw), y \in ToSet(<<Ready>>) : <<x, y>> \in Order
  <2>1. ToSet(toSw) \subseteq Message /\ Ready \in Message /\ Ready.kind = "ready"
    BY <1>0, UpSent, MessageFields DEF Message, ToSw
  <2>. QED  BY <1>2, <2>1, FitsFreely
<1>4. Controllers'
  BY <1>0, <1>1 DEF Controllers
<1>5. /\ sender' \in [Bodies -> SenderType] /\ receiver' \in [Bodies -> ReceiverType]
      /\ fetching' \in Fates
      /\ stopped' \subseteq Signalled \cup Calls /\ inFlight' \subseteq Calls
  BY <1>0, <1>1 DEF TypeOK
<1>6. Pops(toPage, toPage') /\ UNCHANGED <<swVars, page, replied>>
  BY <1>1 DEF Pops
<1>7. \A m \in ToSet(<<Ready>>) : m = Ready /\ worker' # "booting"
  BY <1>1, <1>2
<1>. QED  BY <1>1, <1>2, <1>3, <1>4, <1>5, <1>6, <1>7, PageHalts

\* the worker behind the document fails
LEMMA PreservedByWorkerFails ==
  ASSUME IInv, WorkerFails
  PROVE  IInv'
<1>0. TypeOK /\ Controllers
  BY DEF IInv
<1>. DEFINE ms == IF worker = "booting" THEN <<Failed>> ELSE <<>>
<1>1. /\ page = "attached" /\ worker' = "failed" /\ PageSend(ms)
      /\ UNCHANGED <<page, fetching, stopped, inFlight, replied, sender, receiver, toPage>>
      /\ UNCHANGED swVars
  BY DEF WorkerFails, PageIdle, Attached
<1>2. ms \in Seq(ToSw) /\ InOrder(ms, Order) /\ \A m \in ToSet(ms) : m = Failed
  <2>1. <<Failed>> \in Seq(ToSw) /\ ToSet(<<Failed>>) = {Failed} /\ InOrder(<<Failed>>, Order)
    <3>1. Failed \in ToSw
      BY DEF ToSw
    <3>. QED  BY <3>1, SingleOrder
  <2>2. <<>> \in Seq(ToSw) /\ InOrder(<<>>, Order)
    BY EmptySeq DEF InOrder
  <2>. QED  BY <2>1, <2>2, OneMember
<1>. HIDE DEF ms
<1>3. \A x \in ToSet(toSw), y \in ToSet(ms) : <<x, y>> \in Order
  <2>1. ToSet(toSw) \subseteq Message /\ Failed \in Message /\ Failed.kind = "failed"
    BY <1>0, UpSent, MessageFields DEF Message, ToSw
  <2>. QED  BY <1>2, <2>1, FitsFreely
<1>4. Controllers'
  BY <1>0, <1>1 DEF Controllers
<1>5. /\ sender' \in [Bodies -> SenderType] /\ receiver' \in [Bodies -> ReceiverType]
      /\ fetching' \in Fates
      /\ stopped' \subseteq Signalled \cup Calls /\ inFlight' \subseteq Calls
  BY <1>0, <1>1 DEF TypeOK
<1>6. Pops(toPage, toPage') /\ UNCHANGED <<swVars, page, replied>>
  BY <1>1 DEF Pops
<1>7. \A m \in ToSet(ms) : m = Failed /\ worker' = "failed"
  BY <1>1, <1>2
<1>. QED  BY <1>1, <1>2, <1>3, <1>4, <1>5, <1>6, <1>7, PageHalts

\* the worker's fetch() rejects
LEMMA PreservedByFetchRejects ==
  ASSUME IInv, NEW c \in Calls, FetchRejects(c)
  PROVE  IInv'
<1>0. TypeOK /\ Controllers /\ CallInv(c)
  BY InvParts
<1>. DEFINE b == Request(c) stop == StopReceiver(b, receiver[b]) ms == stop.out \o <<Rejection(c)>>
<1>1. /\ fetching[c] = "running" /\ fetching' = [fetching EXCEPT ![c] = "rejected"]
      /\ inFlight' = inFlight \ {c}
      /\ receiver' = [receiver EXCEPT ![b] = stop.half] /\ PageSend(ms)
      /\ UNCHANGED <<page, worker, stopped, replied, sender, toPage>> /\ UNCHANGED swVars
  BY DEF FetchRejects, PageIdle, Rejection
<1>2. b \in Bodies /\ \A d \in Calls : /\ ResponseBody(d) # b /\ (Request(d) = b <=> d = c)
                                       /\ Request(d) \in Bodies /\ ResponseBody(d) \in Bodies
  BY BodiesOf
<1>3. /\ receiver[b] \in ReceiverType /\ DOMAIN receiver = Bodies /\ stop.half \in ReceiverType
      /\ ~Live(stop.half)
  BY <1>0, <1>2, TypedParts, AllStopped
<1>4. \/ stop.out = <<>>
      \/ stop.out = <<Cancel(b)>> /\ Live(receiver[b])
  BY DEF StopReceiver, Quiet, Step
<1>5. \A d \in Calls :
    /\ receiver'[ResponseBody(d)] = receiver[ResponseBody(d)]
    /\ receiver'[Request(d)] \in {receiver[Request(d)], StopReceiver(Request(d), receiver[Request(d)]).half}
    /\ d = c => ~Live(receiver'[Request(d)])
  <2>1. \A d \in Calls : receiver'[Request(d)] = IF d = c THEN stop.half ELSE receiver[Request(d)]
    BY <1>1, <1>2, <1>3
  <2>2. \A d \in Calls : d = c => stop.half = StopReceiver(Request(d), receiver[Request(d)]).half
    OBVIOUS
  <2>. QED  BY <1>1, <1>2, <1>3, <2>1, <2>2
<1>. HIDE DEF stop
<1>6. Rejection(c) \in ToSw /\ Cancel(b) \in ToSw
  BY AboutTyped, RejectionTyped
<1>7. \A ok, s \in BOOLEAN : Response(c, ok, s) \notin Sent
  BY <1>0, <1>1 DEF CallInv, Answered
<1>8. \A x \in ToSw : x \in ToSet(toSw) \/ x = Cancel(b) => <<x, Rejection(c)>> \in Order
  <2>. SUFFICES ASSUME NEW x \in ToSw, x \in ToSet(toSw) \/ x = Cancel(b) PROVE <<x, Rejection(c)>> \in Order
    OBVIOUS
  <2>1. x \in Message /\ \A o, t \in BOOLEAN : x # Response(c, o, t)
    <3>1. ToSet(toSw) \subseteq Sent
      BY <1>0, UpSent
    <3>2. Cancel(b).kind # "response"
      BY MessageKinds
    <3>. QED  BY <1>7, <3>1, <3>2, MessageFields DEF Message
  <2>. QED  BY <2>1, FitsResponse DEF Rejection
<1>9. /\ ms \in Seq(ToSw) /\ InOrder(ms, Order)
      /\ \A m \in ToSet(ms) : m = Rejection(c) \/ (m = Cancel(b) /\ Live(receiver[b]))
  <2>1. /\ <<Rejection(c)>> \in Seq(ToSw) /\ ToSet(<<Rejection(c)>>) = {Rejection(c)}
        /\ InOrder(<<Rejection(c)>>, Order)
    BY <1>6, SingleOrder
  <2>2. /\ stop.out \in Seq(ToSw) /\ InOrder(stop.out, Order)
        /\ \A m \in ToSet(stop.out) : m = Cancel(b) /\ Live(receiver[b])
    <3>1. /\ <<Cancel(b)>> \in Seq(ToSw) /\ <<>> \in Seq(ToSw) /\ InOrder(<<Cancel(b)>>, Order)
          /\ InOrder(<<>>, Order)
      BY <1>6, SingleOrder, EmptySeq DEF InOrder
    <3>. QED  BY <1>4, <3>1, OneMember
  <2>3. \A x \in ToSet(stop.out), y \in ToSet(<<Rejection(c)>>) : <<x, y>> \in Order
    BY <1>6, <1>8, <2>1, <2>2
  <2>4. ms \in Seq(ToSw) /\ ToSet(ms) = ToSet(stop.out) \cup ToSet(<<Rejection(c)>>) /\ InOrder(ms, Order)
    BY <2>1, <2>2, <2>3, ConcatOrder
  <2>. QED  BY <2>1, <2>2, <2>4
<1>. HIDE DEF ms
<1>10. \A x \in ToSet(toSw), y \in ToSet(ms) : <<x, y>> \in Order
  <2>1. ToSet(toSw) \subseteq ToSw /\ ToSw \subseteq Message
    BY <1>0, UpSent DEF Message
  <2>2. Cancel(b) \in Message /\ Cancel(b).kind = "body.cancel"
    BY <1>6, <2>1, MessageKinds
  <2>. QED  BY <1>8, <1>9, <2>1, <2>2, FitsFreely
<1>11. ResponseBody(c) \in Bodies /\ sender[ResponseBody(c)] = NoSender /\ sender[ResponseBody(c)].done
  BY <1>0, <1>1, <1>2 DEF CallInv, Answered, NoSender, Sender
<1>12. Controllers'
  <2>1. \A d \in Calls : fetching'[d] = IF d = c THEN "rejected" ELSE fetching[d]
    BY <1>0, <1>1 DEF TypeOK
  <2>. QED  BY <1>0, <1>1, <1>11, <2>1 DEF Controllers
<1>13. /\ sender' \in [Bodies -> SenderType] /\ receiver' \in [Bodies -> ReceiverType]
       /\ fetching' \in Fates
       /\ stopped' \subseteq Signalled \cup Calls /\ inFlight' \subseteq Calls
       /\ worker' \in {"booting", "ready", "failed"}
  BY <1>0, <1>1, <1>3 DEF TypeOK
<1>14. Pops(toPage, toPage') /\ UNCHANGED <<swVars, page, replied>>
  BY <1>1 DEF Pops
<1>15. ASSUME Sent' \subseteq Sent \cup ToSet(ms) PROVE Answered(c)'
  <2>1. \A ok, s \in BOOLEAN : Response(c, ok, s) \in Sent' => Response(c, ok, s) = Rejection(c)
    <3>1. \A ok, s \in BOOLEAN : Response(c, ok, s) # Cancel(b)
      BY MessageFields, MessageKinds
    <3>. QED  BY <1>7, <1>9, <1>15, <3>1
  <2>2. \A ok, s \in BOOLEAN : Response(c, ok, s) = Rejection(c) => ~ok /\ ~s
    BY MessageFields DEF Rejection, Response
  <2>3. /\ fetching'[c] = "rejected" /\ receiver'[ResponseBody(c)] = receiver[ResponseBody(c)]
        /\ UNCHANGED <<sender, replied, outcome>>
    BY <1>0, <1>1, <1>5 DEF TypeOK, swVars
  <2>. QED  BY <1>0, <1>1, <2>1, <2>2, <2>3 DEF CallInv, Answered
<1>16. \A m \in ToSet(ms) :
         \/ \E d \in Calls :
           /\ m = Cancel(Request(d))
           /\ Live(receiver[Request(d)]) /\ ~Live(receiver'[Request(d)])
         \/ \E d \in Calls : m = Rejection(d) /\ (Sent' \subseteq Sent \cup ToSet(ms) => Answered(d)')
  BY <1>5, <1>9, <1>15
<1>17. \A d \in Calls :
    \/ fetching'[d] = fetching[d]
    \/ fetching[d] = "running" /\ fetching'[d] = "rejected"
         /\ ~Live(receiver'[Request(d)])
  BY <1>0, <1>1, <1>5 DEF TypeOK
<1>. HIDE DEF b
<1>18. \A d \in Calls :
           /\ sender'[Request(d)] = sender[Request(d)]
           /\ sender'[ResponseBody(d)] \in {sender[ResponseBody(d)], StopSender(sender[ResponseBody(d)])}
           /\ receiver'[ResponseBody(d)] = receiver[ResponseBody(d)]
           /\ receiver'[Request(d)] \in {receiver[Request(d)],
                StopReceiver(Request(d), receiver[Request(d)]).half}
           /\ sender'[ResponseBody(d)] # sender[ResponseBody(d)] => ~Live(receiver[ResponseBody(d)])
  BY <1>1, <1>5
<1>. QED  BY <1>1, <1>9, <1>10, <1>12, <1>13, <1>14, <1>16, <1>17, <1>18, PageHalts

\* the document hears an abort
LEMMA PreservedByOnAbort ==
  ASSUME
    IInv, page \in {"none", "attached"}, toPage # <<>>, toPage' = Tail(toPage),
    UNCHANGED <<swVars, worker, replied>>,
    OnAbort(Head(toPage))
  PROVE  IInv'
<1>0. TypeOK /\ Ports /\ Connection /\ Controllers
  BY DEF IInv
<1>. DEFINE m == Head(toPage) c == m.call b == Request(c) stop == StopReceiver(b, receiver[b])
            ms == stop.out
<1>1. /\ m.kind = "abort" /\ stopped' = stopped \cup (inFlight \cap {c}) /\ inFlight' = inFlight \ {c}
      /\ sender' = [sender EXCEPT ![ResponseBody(c)] = StopSender(@)]
      /\ receiver' = [receiver EXCEPT ![b] = stop.half] /\ PageSend(ms)
      /\ UNCHANGED <<page, fetching>>
  BY DEF OnAbort
<1>2. /\ m \in Message /\ m \in Sent /\ Pops(toPage, toPage') /\ outbox = <<>> /\ page = "attached"
      /\ \A y \in ToSet(toPage') : ~(y.kind = "fetch" /\ y.call = c)
  BY <1>0, <1>1, PageTaken
<1>3. c \in Signalled /\ c \in Calls /\ m = Abort(c)
  BY <1>1, <1>2, KindIs, CallsAssumption
<1>4. CallInv(c) /\ Abort(c) \in Sent
  BY <1>2, <1>3, InvParts
<1>5. ~Live(receiver[ResponseBody(c)])
  BY <1>4 DEF CallInv, Aborted
<1>. HIDE DEF m, c
<1>6. b \in Bodies /\ \A d \in Calls : /\ ResponseBody(d) # b /\ (Request(d) = b <=> d = c)
                                        /\ (ResponseBody(d) = ResponseBody(c) <=> d = c)
                                       /\ Request(d) \in Bodies /\ ResponseBody(d) \in Bodies
                                       /\ Request(d) # ResponseBody(c)
  BY <1>3, BodiesOf
<1>7. /\ receiver[b] \in ReceiverType /\ DOMAIN receiver = Bodies /\ stop.half \in ReceiverType
      /\ ~Live(stop.half)
      /\ DOMAIN sender = Bodies
  BY <1>0, <1>6, TypedParts, AllStopped
<1>8. \/ stop.out = <<>>
      \/ stop.out = <<Cancel(b)>> /\ Live(receiver[b])
  BY DEF StopReceiver, Quiet, Step
<1>9. \A d \in Calls :
    /\ receiver'[ResponseBody(d)] = receiver[ResponseBody(d)]
    /\ receiver'[Request(d)] \in {receiver[Request(d)], StopReceiver(Request(d), receiver[Request(d)]).half}
    /\ d = c => ~Live(receiver'[Request(d)])
    /\ sender'[Request(d)] = sender[Request(d)]
    /\ sender'[ResponseBody(d)] \in {sender[ResponseBody(d)], StopSender(sender[ResponseBody(d)])}
    /\ d # c => sender'[ResponseBody(d)] = sender[ResponseBody(d)]
    /\ sender'[ResponseBody(c)] = StopSender(sender[ResponseBody(c)])
  <2>1. \A d \in Calls : receiver'[Request(d)] = IF d = c THEN stop.half ELSE receiver[Request(d)]
    BY <1>1, <1>6, <1>7
  <2>2. \A d \in Calls : d = c => stop.half = StopReceiver(Request(d), receiver[Request(d)]).half
    OBVIOUS
  <2>3. \A d \in Calls : sender'[ResponseBody(d)] = IF d = c THEN StopSender(sender[ResponseBody(c)])
          ELSE sender[ResponseBody(d)]
    BY <1>1, <1>6, <1>7
  <2>. QED  BY <1>1, <1>3, <1>6, <1>7, <2>1, <2>2, <2>3
<1>. HIDE DEF stop
<1>10. Cancel(b) \in ToSw /\ ToSw \subseteq Message /\ ToSet(toSw) \subseteq Message
  BY <1>0, <1>3, AboutTyped, UpSent DEF Message
<1>11. /\ ms \in Seq(ToSw) /\ InOrder(ms, Order)
       /\ \A n \in ToSet(ms) : n = Cancel(b) /\ Live(receiver[b])
  <2>1. /\ <<Cancel(b)>> \in Seq(ToSw) /\ <<>> \in Seq(ToSw) /\ InOrder(<<Cancel(b)>>, Order)
        /\ InOrder(<<>>, Order)
    BY <1>10, SingleOrder, EmptySeq DEF InOrder
  <2>. QED  BY <1>8, <2>1, OneMember
<1>12. \A x \in ToSet(toSw), y \in ToSet(ms) : <<x, y>> \in Order
  <2>1. Cancel(b) \in Message /\ Cancel(b).kind = "body.cancel"
    BY <1>10, MessageKinds
  <2>. QED  BY <1>10, <1>11, <2>1, FitsFreely
<1>. HIDE DEF ms
<1>13. /\ sender[ResponseBody(c)] \in SenderType /\ StopSender(sender[ResponseBody(c)]).done
       /\ StopSender(sender[ResponseBody(c)]) \in SenderType
  <2>1. sender[ResponseBody(c)] \in SenderType
    BY <1>0, <1>3, <1>6, TypedParts
  <2>. QED  BY <2>1 DEF StopSender, SenderType
<1>14. Controllers' /\ inFlight' \subseteq Calls
  <2>1. inFlight = {d \in Calls :
      \/ fetching[d] = "running" /\ d \notin stopped
      \/ ~sender[ResponseBody(d)].done}
    BY <1>0, <1>2 DEF Controllers
  <2>2. inFlight' = {d \in Calls :
      \/ fetching'[d] = "running" /\ d \notin stopped'
      \/ ~sender'[ResponseBody(d)].done}
    BY <1>1, <1>3, <1>9, <1>13, <2>1
  <2>. QED  BY <2>2 DEF Controllers
<1>15. \A d \in inFlight : d \in Calls /\ fetching[d] # "none"
  <2>. SUFFICES ASSUME NEW d \in inFlight PROVE d \in Calls /\ fetching[d] # "none"
    OBVIOUS
  <2>1. d \in Calls /\ (fetching[d] = "running" \/ ~sender[ResponseBody(d)].done)
    BY <1>0, <1>2 DEF Controllers
  <2>2. CallInv(d)
    BY <2>1, InvParts
  <2>. QED  BY <2>1, <2>2 DEF CallInv, Answered, NoSender, Sender
<1>16. /\ sender' \in [Bodies -> SenderType] /\ receiver' \in [Bodies -> ReceiverType]
       /\ fetching' \in Fates
       /\ stopped' \subseteq Signalled \cup Calls
       /\ worker' \in {"booting", "ready", "failed"}
  BY <1>0, <1>1, <1>7, <1>13 DEF TypeOK
<1>17. UNCHANGED <<swVars, page, replied>>
  BY <1>1
<1>18. c \in entered /\ fetching[c] \in {"none", "running"} => c \in stopped' \/ Lost
  <2>1. CASE fetching[c] = "running"
    <3>1. c \in inFlight \/ c \in stopped
      BY <1>0, <1>2, <1>3, <2>1 DEF Controllers
    <3>. QED  BY <1>1, <3>1
  <2>2. ASSUME c \in entered, fetching[c] = "none", ~Lost PROVE FALSE
    <3>1. PICK s \in BOOLEAN : FetchMsg(c, s) \in Sent
      BY <1>4, <2>2 DEF CallInv, Asked
    <3>2. FetchMsg(c, s).kind = "fetch" /\ FetchMsg(c, s).call = c /\ FetchMsg(c, s) \notin ToSw
      BY <1>3, MessageFields, Directions
    <3>3. FetchMsg(c, s) \notin ToSet(toSw) /\ FetchMsg(c, s) \notin ToSet(outbox)
      BY <1>0, <1>2, <3>2, UpSent, OneMember
    <3>4. FetchMsg(c, s) \in ToSet(toPage)
      BY <3>1, <3>3 DEF Sent
    <3>5. toPage \in Seq(ToPage)
      BY <1>0 DEF TypeOK
    <3>6. FetchMsg(c, s) = Head(toPage) \/ FetchMsg(c, s) \in ToSet(toPage')
      BY <3>4, <3>5, TailOrder
    <3>. QED  BY <1>1, <1>2, <3>2, <3>6 DEF m
  <2>. QED  BY <2>1, <2>2
<1>19. \A d \in Calls : toPage' # toPage /\ Head(toPage) = Abort(d) =>
           /\ ~Live(receiver'[Request(d)])
           /\ d \in entered /\ fetching'[d] \in {"none", "running"} => d \in stopped' \/ Lost
  <2>1. \A d \in Calls : Head(toPage) = Abort(d) => d = c
    BY <1>3, MessageFields DEF m
  <2>. QED  BY <1>1, <1>9, <1>18, <2>1
<1>20. \A n \in ToSet(ms) : \E d \in Calls :
    /\ n = Cancel(Request(d))
    /\ Live(receiver[Request(d)]) /\ ~Live(receiver'[Request(d)])
  BY <1>3, <1>9, <1>11
<1>21. \A d \in Calls : sender'[ResponseBody(d)] # sender[ResponseBody(d)] => ~Live(receiver[ResponseBody(d)])
  BY <1>5, <1>9
<1>22. \A d \in Calls : d \in stopped' /\ fetching[d] = "none" => d \in stopped
  BY <1>1, <1>15
<1>23. page = "attached" /\ Head(toPage).kind = "abort"
  BY <1>1, <1>2 DEF m
<1>. HIDE DEF b
<1>. QED  BY <1>1, <1>2, <1>9, <1>11, <1>12, <1>14, <1>16, <1>17, <1>19, <1>20, <1>21, <1>22, <1>23, PageHalts

\* A step of the document that makes or ends its side of the connection
\* keeps the invariant.
LEMMA PageTurns ==
  ASSUME
    IInv, UNCHANGED <<swVars, worker, replied>>,
    sender' \in [Bodies -> SenderType], receiver' \in [Bodies -> ReceiverType],
    \A c \in Calls :
      /\ sender'[Request(c)] = sender[Request(c)]
      /\ sender'[ResponseBody(c)] \in {sender[ResponseBody(c)], StopSender(sender[ResponseBody(c)])}
      /\ receiver'[ResponseBody(c)] = receiver[ResponseBody(c)]
      /\ receiver'[Request(c)] \in {receiver[Request(c)],
           StopReceiver(Request(c), receiver[Request(c)]).half}
      /\ ~Live(receiver'[Request(c)]),
    \/ page = "none" /\ page' = "attached" /\ UNCHANGED <<sender, receiver, fetching, stopped>>
    \/ page' \in {"detached", "gone"} /\ \A c \in Calls : fetching'[c] = "running" => c \in stopped',
    fetching' \in Fates,
    \A c \in Calls :
      \/ fetching'[c] = fetching[c]
      \/ fetching[c] = "running" /\ fetching'[c] = "rejected",
    stopped \subseteq stopped', stopped' \subseteq Signalled \cup Calls,
    \A c \in Calls : c \in stopped' /\ fetching[c] = "none" => c \in stopped,
    toPage' \in Seq(ToPage), toSw' \in Seq(ToSw), Ports', Connection',
    \A m \in Sent' : m \in Sent \/ m = Disconnect,
    page' = "attached" => \A m \in Sent : m \in Sent' \/ m = Boot,
    inFlight' \subseteq Calls, Controllers'
  PROVE  IInv'
<1>0. TypeOK /\ Ports /\ Connection /\ ListensWhileOpen
  BY DEF IInv
<1>1. UNCHANGED <<outcome, aborted, listening, failed, ready, link, outbox, entered, locked, worker, replied>>
  BY DEF swVars
<1>2. TypeOK'
  BY <1>0, <1>1 DEF TypeOK
<1>3. \A b \in Bodies :
    /\ sender'[b] \in {sender[b], StopSender(sender[b])}
    /\ receiver'[b] \in {receiver[b], StopReceiver(b, receiver[b]).half}
  <2>1. \A b \in Bodies : \E c \in Calls : b = Request(c) \/ b = ResponseBody(c)
    BY BodiesOf
  <2>. QED  BY <2>1
<1>4. \A b \in Bodies : \A m \in Sent' \cap About(b) :
        m \in Sent \/ (m = Cancel(b) /\ Live(receiver[b]) /\ ~Live(receiver'[b]))
  BY AboutKinds, MessageFields DEF DataKinds
<1>5. ASSUME NEW c \in Calls
      PROVE  /\ \A s \in BOOLEAN : FetchMsg(c, s) \in Sent' => FetchMsg(c, s) \in Sent
             /\ Abort(c) \in Sent' => Abort(c) \in Sent
             /\ \A ok, s \in BOOLEAN : Response(c, ok, s) \in Sent' => Response(c, ok, s) \in Sent
  BY MessageFields
<1>6. Lost' \/ (~Lost /\ page = "none" /\ \A c \in Calls : (Abort(c) \in Sent => Abort(c) \in Sent')
                                             /\ \A s \in BOOLEAN : FetchMsg(c, s) \in Sent
                                                  => FetchMsg(c, s) \in Sent')
  <2>1. CASE page' \in {"detached", "gone"}
    BY <2>1 DEF Lost
  <2>2. CASE page = "none" /\ page' = "attached"
    <3>1. Lost' <=> Lost
      BY <1>1, <2>2 DEF Lost, Cut
    <3>2. \A c \in Calls : Abort(c) # Boot /\ \A s \in BOOLEAN : FetchMsg(c, s) # Boot
      BY MessageFields
    <3>. QED  BY <2>2, <3>1, <3>2
  <2>. QED  BY <2>1, <2>2
<1>7. \A c \in Calls : Live(receiver'[ResponseBody(c)]) =>
           /\ page # "attached" => page' # "attached"
           /\ sender'[ResponseBody(c)] # sender[ResponseBody(c)] => page' # "attached"
  <2>1. CASE page' \in {"detached", "gone"}
    BY <2>1
  <2>2. ASSUME NEW c \in Calls, page = "none" PROVE ~Live(receiver[ResponseBody(c)])
    <3>1. CallInv(c)
      BY InvParts
    <3>. QED  BY <2>2, <3>1 DEF CallInv, Served, Answered, Live
  <2>. QED  BY <2>1, <2>2
<1>8. /\ \A c \in Calls : Asked(c)' /\ Answered(c)' /\ RequestBody(c)' /\ AnswerBody(c)'
      /\ \A b \in Bodies : Body(b, sender'[b], receiver'[b], Sent')
  <2>1. UNCHANGED <<entered, locked, replied>>
    BY <1>1
  <2>2. \A c \in Calls :
      \/ outcome'[c] = outcome[c]
      \/ outcome[c] # "resolved" /\ outcome'[c] = "rejected"
      \/ outcome[c] = "idle" /\ outcome'[c] = "normalizing"
    BY <1>1
  <2>3. \A c \in Calls :
      \/ fetching'[c] = fetching[c]
      \/ fetching[c] = "running" /\ fetching'[c] = "rejected"
           /\ ~Live(receiver'[Request(c)])
    OBVIOUS
  <2>4. \A c \in Calls :
      /\ \A s \in BOOLEAN : FetchMsg(c, s) \in Sent' => FetchMsg(c, s) \in Sent
      /\ Abort(c) \in Sent' => Abort(c) \in Sent
           \/ outcome'[c] \notin {"idle", "normalizing"}
    BY <1>5
  <2>5. Lost' \/ (~Lost /\ \A c \in Calls, s \in BOOLEAN : FetchMsg(c, s) \in Sent
            => FetchMsg(c, s) \in Sent')
    BY <1>6
  <2>6. \A c \in Calls : (\A ok, s \in BOOLEAN : Response(c, ok, s) \in Sent' => Response(c, ok, s) \in Sent)
          \/ Answered(c)'
    BY <1>5
  <2>7. worker = "failed" => worker' = "failed"
    BY <1>1
  <2>8. \A c \in Calls : Live(receiver'[Request(c)]) =>
           /\ Prior(toPage, Abort(c), End(Request(c))) => Prior(toPage, Abort(c), End(Request(c)))'
           /\ sender'[Request(c)] # sender[Request(c)] => Cut' \/ worker' = "failed" \/ Abort(c) \in Sent'
           /\ Abort(c) \in Sent => Abort(c) \in Sent' \/ Cut'
           /\ Cut => Cut'
    OBVIOUS
  <2>. QED  BY <1>3, <1>4, <1>7, <2>1, <2>2, <2>3, <2>4, <2>5, <2>6, <2>7, <2>8, Halting
<1>9. ASSUME NEW c \in Calls PROVE Aborted(c)' /\ Served(c)'
  <2>1. Aborted(c) /\ Served(c)
    BY InvParts DEF CallInv
  <2>2. receiver'[ResponseBody(c)] = receiver[ResponseBody(c)] /\ ~Live(receiver'[Request(c)])
    OBVIOUS
  <2>3. Abort(c) \in Sent' => c \in aborted' /\ outcome'[c] # "pending" /\ ~Live(receiver'[ResponseBody(c)])
    BY <1>1, <1>5, <2>1, <2>2 DEF Aborted
  <2>4. c \in aborted' \cap entered' /\ fetching'[c] \in {"none", "running"} /\ c \notin stopped'
          => Lost' \/ Abort(c) \in Sent'
    BY <1>1, <1>6, <2>1 DEF Aborted
  <2>5. Served(c)'
    <3>1. page' # "none"
      OBVIOUS
    <3>2. fetching'[c] = "running" /\ c \notin stopped' => page' = "attached"
      BY <2>1 DEF Served
    <3>. QED  BY <2>2, <3>1, <3>2 DEF Served
  <2>. QED  BY <2>3, <2>4, <2>5 DEF Aborted
<1>10. ListensWhileOpen'
  <2>1. \A c \in Signalled : c \in Calls
    BY CallsAssumption
  <2>. QED  BY <1>0, <1>1, <2>1 DEF ListensWhileOpen, Alive
<1>. QED  BY <1>2, <1>8, <1>9, <1>10 DEF IInv

\* the document hears the boot
LEMMA PreservedByOnBoot ==
  ASSUME
    IInv, page \in {"none", "attached"}, toPage # <<>>, toPage' = Tail(toPage),
    UNCHANGED <<swVars, worker, replied>>,
    OnBoot(Head(toPage))
  PROVE  IInv'
<1>0. TypeOK /\ Ports /\ Connection /\ Controllers
  BY DEF IInv
<1>1. /\ Head(toPage).kind = "boot" /\ page' = "attached"
      /\ UNCHANGED <<fetching, stopped, inFlight, sender, receiver>> /\ PageSend(<<>>)
  BY DEF OnBoot
<1>2. /\ toSw' = toSw /\ UNCHANGED <<link, outbox, worker>>
  BY <1>0, <1>1, Sends0 DEF swVars
<1>3. Head(toPage) \in Message /\ Head(toPage) \in Sent /\ outbox = <<>> /\ link # "none"
  BY <1>0, PageTaken
<1>4. Head(toPage) = Boot
  BY <1>1, <1>3, KindIs
<1>5. page = "none"
  BY <1>0, <1>3, <1>4 DEF Connection
<1>6. toPage \in Seq(ToPage) /\ InOrder(toPage, Order) /\ toSw \in Seq(ToSw) /\ toSw = <<>>
  BY <1>0, <1>5 DEF TypeOK, Ports, Connection
<1>7. /\ toPage' \in Seq(ToPage) /\ InOrder(toPage', Order) /\ ToSet(toPage) = ToSet(toPage') \cup {Boot}
      /\ \A y \in ToSet(toPage') : y \in Message /\ y.kind # "boot"
  <2>1. /\ Tail(toPage) \in Seq(ToPage) /\ ToSet(toPage) = ToSet(Tail(toPage)) \cup {Head(toPage)}
        /\ InOrder(Tail(toPage), Order)
    BY <1>6, TailOrder
  <2>2. ToPage \in SUBSET Message
    BY DEF Message
  <2>3. \A y \in ToSet(Tail(toPage)) : y.kind # "boot"
    BY <1>6, <2>2, Popped
  <2>4. ToSet(Tail(toPage)) \subseteq ToPage
    BY <2>1, ToSetIn
  <2>. QED  BY <1>4, <2>1, <2>2, <2>3, <2>4
<1>8. Ports'
  BY <1>0, <1>2, <1>6, <1>7 DEF Ports
<1>9. Sent' \subseteq Sent /\ (\A m \in Sent : m \in Sent' \/ m = Boot) /\ Boot \notin Sent'
  <2>1. Boot \notin ToSet(toPage')
    BY <1>7, MessageFields
  <2>2. Boot \notin ToSet(outbox') /\ Boot \notin ToSet(toSw')
    BY <1>2, <1>3, <1>6, OneMember
  <2>. QED  BY <1>2, <1>7, <2>1, <2>2 DEF Sent
<1>10. Connection'
  <2>1. Cut' <=> Cut
    BY <1>2 DEF Cut
  <2>2. Disconnect # Boot
    BY MessageFields
  <2>3. Cut => Disconnect \in ToSet(toPage')
    BY <1>0, <1>5, <1>7, <2>2 DEF Connection
  <2>4. Disconnect \in ToSet(toPage') => Cut
    BY <1>0, <1>7 DEF Connection
  <2>5. Disconnect \notin ToSet(toSw') /\ Boot \notin ToSet(outbox') /\ Disconnect \notin ToSet(outbox')
    BY <1>2, <1>3, <1>6, OneMember
  <2>6. (Ready \in Sent' => worker # "booting") /\ (Failed \in Sent' => worker = "failed")
    BY <1>0, <1>9 DEF Connection
  <2>. QED  BY <1>1, <1>2, <1>3, <1>9, <2>1, <2>3, <2>4, <2>5, <2>6 DEF Connection
<1>11. ASSUME NEW c \in Calls
       PROVE  ~Live(receiver[Request(c)])
  <2>1. CallInv(c)
    BY InvParts
  <2>. QED  BY <1>5, <2>1 DEF CallInv, Served
<1>12. /\ sender' \in [Bodies -> SenderType] /\ receiver' \in [Bodies -> ReceiverType]
       /\ fetching' \in Fates
       /\ stopped' \subseteq Signalled \cup Calls /\ inFlight' \subseteq Calls
  BY <1>0, <1>1 DEF TypeOK
<1>13. Controllers'
  BY <1>0, <1>1, <1>5 DEF Controllers
<1>. QED  BY <1>1, <1>2, <1>5, <1>6, <1>7, <1>8, <1>9, <1>10, <1>11, <1>12, <1>13, PageTurns

\* the document's side of every body stops
LEMMA PageStops ==
  ASSUME TypeOK, sender' = StopSenders("response"), receiver' = StopReceivers("request")
  PROVE
    /\ sender' \in [Bodies -> SenderType] /\ receiver' \in [Bodies -> ReceiverType]
    /\ \A c \in Calls :
         /\ sender'[Request(c)] = sender[Request(c)]
         /\ sender'[ResponseBody(c)] \in {sender[ResponseBody(c)], StopSender(sender[ResponseBody(c)])}
         /\ receiver'[ResponseBody(c)] = receiver[ResponseBody(c)]
         /\ receiver'[Request(c)] \in {receiver[Request(c)],
              StopReceiver(Request(c), receiver[Request(c)]).half}
         /\ ~Live(receiver'[Request(c)])
<1>1. sender' \in [Bodies -> SenderType] /\ receiver' \in [Bodies -> ReceiverType]
  BY AllStopped
<1>2. ASSUME NEW c \in Calls
      PROVE
        /\ sender'[ResponseBody(c)] = StopSender(sender[ResponseBody(c)])
        /\ sender'[Request(c)] = sender[Request(c)]
        /\ receiver'[ResponseBody(c)] = receiver[ResponseBody(c)]
        /\ receiver'[Request(c)] = StopReceiver(Request(c), receiver[Request(c)]).half
        /\ ~Live(receiver'[Request(c)])
  <2>1. /\ Request(c) \in Bodies /\ ResponseBody(c) \in Bodies /\ Request(c)[1] = "request"
        /\ ResponseBody(c)[1] = "response"
    BY BodiesOf
  <2>. QED  BY <2>1, AllStopped
<1>. QED  BY <1>1, <1>2

\* the document hears a close, or that the port is gone
LEMMA PreservedByOnDetach ==
  ASSUME
    IInv, page \in {"none", "attached"}, toPage # <<>>, toPage' = Tail(toPage),
    UNCHANGED <<swVars, worker, replied>>,
    OnDetach(Head(toPage))
  PROVE  IInv'
<1>0. TypeOK /\ Ports /\ Connection /\ Controllers
  BY DEF IInv
<1>1. /\ Head(toPage).kind \in {"close", "disconnect"} /\ page' = "detached"
      /\ stopped' = stopped \cup inFlight /\ inFlight' = {}
      /\ sender' = StopSenders("response") /\ receiver' = StopReceivers("request")
      /\ UNCHANGED <<fetching, toSw>>
  BY DEF OnDetach
<1>2. UNCHANGED <<link, outbox, worker>>
  BY DEF swVars
<1>3. outbox = <<>> /\ link # "none" /\ page = "attached"
  BY <1>0, <1>1, PageTaken
<1>4. toPage \in Seq(ToPage) /\ InOrder(toPage, Order) /\ toSw \in Seq(ToSw)
  BY <1>0 DEF TypeOK, Ports
<1>5. toPage' \in Seq(ToPage) /\ InOrder(toPage', Order) /\ ToSet(toPage') \subseteq ToSet(toPage)
  BY <1>4, TailOrder
<1>6. Ports'
  BY <1>0, <1>1, <1>2, <1>5 DEF Ports
<1>7. Sent' \subseteq Sent
  BY <1>1, <1>2, <1>5 DEF Sent
<1>8. Connection'
  <2>1. Cut' <=> Cut
    BY <1>2 DEF Cut
  <2>2. Boot \notin Sent'
    BY <1>0, <1>3, <1>7 DEF Connection
  <2>3. Disconnect \in ToSet(toPage') => Cut
    BY <1>0, <1>5 DEF Connection
  <2>4. Disconnect \notin ToSet(toSw') /\ Boot \notin ToSet(outbox') /\ Disconnect \notin ToSet(outbox')
    BY <1>0, <1>1, <1>2, <1>3 DEF Connection
  <2>5. (Ready \in Sent' => worker # "booting") /\ (Failed \in Sent' => worker = "failed")
    BY <1>0, <1>7 DEF Connection
  <2>. QED  BY <1>1, <1>2, <1>3, <2>1, <2>2, <2>3, <2>4, <2>5 DEF Connection
<1>9. inFlight = {d \in Calls :
    \/ fetching[d] = "running" /\ d \notin stopped
    \/ ~sender[ResponseBody(d)].done}
  BY <1>0, <1>3 DEF Controllers
<1>10. \A d \in inFlight : fetching[d] # "none"
  <2>. SUFFICES ASSUME NEW d \in inFlight PROVE fetching[d] # "none"
    OBVIOUS
  <2>1. d \in Calls /\ (fetching[d] = "running" \/ ~sender[ResponseBody(d)].done)
    BY <1>9
  <2>2. CallInv(d)
    BY <2>1, InvParts
  <2>. QED  BY <2>1, <2>2 DEF CallInv, Answered, NoSender, Sender
<1>11. /\ fetching' \in Fates
       /\ stopped' \subseteq Signalled \cup Calls /\ inFlight' \subseteq Calls
       /\ toSw' \in Seq(ToSw)
  BY <1>0, <1>1 DEF TypeOK
<1>12. Controllers'
  BY <1>1 DEF Controllers
<1>13. \A c \in Calls : fetching'[c] = "running" => c \in stopped'
  BY <1>1, <1>9
<1>14. /\ \A c \in Calls : c \in stopped' /\ fetching[c] = "none" => c \in stopped
       /\ stopped \subseteq stopped'
       /\ \A m \in Sent' : m \in Sent \/ m = Disconnect
       /\ page' \in {"detached", "gone"} /\ page' # "attached"
  BY <1>1, <1>7, <1>10
<1>15.
    /\ sender' \in [Bodies -> SenderType] /\ receiver' \in [Bodies -> ReceiverType]
    /\ \A c \in Calls :
         /\ sender'[Request(c)] = sender[Request(c)]
         /\ sender'[ResponseBody(c)] \in {sender[ResponseBody(c)], StopSender(sender[ResponseBody(c)])}
         /\ receiver'[ResponseBody(c)] = receiver[ResponseBody(c)]
         /\ receiver'[Request(c)] \in {receiver[Request(c)],
              StopReceiver(Request(c), receiver[Request(c)]).half}
         /\ ~Live(receiver'[Request(c)])
  BY <1>0, <1>1, PageStops
<1>. QED  BY <1>1, <1>5, <1>6, <1>8, <1>11, <1>12, <1>13, <1>14, <1>15, PageTurns

\* the document goes away
LEMMA PreservedByPageGone ==
  ASSUME IInv, PageGone
  PROVE  IInv'
<1>0. TypeOK /\ Ports /\ Connection /\ Controllers
  BY DEF IInv
<1>1. /\ page' = "gone" /\ toPage' = <<>> /\ toSw' = (IF link = "up" THEN Append(toSw, Disconnect) ELSE toSw)
      /\ fetching' = [c \in Calls |-> IF fetching[c] = "running" THEN "rejected" ELSE fetching[c]]
      /\ inFlight' = {}
      /\ sender' = StopSenders("response") /\ receiver' = StopReceivers("request")
      /\ UNCHANGED <<worker, stopped, replied>> /\ UNCHANGED swVars
  BY DEF PageGone
<1>2. UNCHANGED <<link, outbox, worker>>
  BY <1>1 DEF swVars
<1>3. /\ toSw \in Seq(ToSw) /\ InOrder(toSw, Order) /\ Disconnect \in ToSw /\ ToSw \subseteq Message
      /\ Disconnect.kind = "disconnect"
  BY <1>0, MessageFields DEF TypeOK, Ports, ToSw, Message
<1>4. /\ toSw' \in Seq(ToSw) /\ InOrder(toSw', Order) /\ \A m \in ToSet(toSw') : m \in ToSet(toSw)
           \/ m = Disconnect
  <2>1. <<Disconnect>> \in Seq(ToSw) /\ ToSet(<<Disconnect>>) = {Disconnect} /\ InOrder(<<Disconnect>>, Order)
    BY <1>3, SingleOrder
  <2>2. ToSet(toSw) \subseteq ToSw
    BY <1>3, ToSetIn
  <2>3. \A x \in ToSet(toSw), y \in ToSet(<<Disconnect>>) : <<x, y>> \in Order
    BY <1>3, <2>1, <2>2, FitsFreely
  <2>4. /\ toSw \o <<Disconnect>> \in Seq(ToSw)
        /\ ToSet(toSw \o <<Disconnect>>) = ToSet(toSw) \cup {Disconnect}
        /\ InOrder(toSw \o <<Disconnect>>, Order)
    <3>1. PICK t \in Seq(ToSw) : t = <<Disconnect>>
      BY <2>1
    <3>2. /\ InOrder(toSw, Order) /\ InOrder(t, Order)
          /\ \A x \in ToSet(toSw), y \in ToSet(t) : <<x, y>> \in Order
      BY <1>3, <2>1, <2>3, <3>1
    <3>3. toSw \o t \in Seq(ToSw) /\ ToSet(toSw \o t) = ToSet(toSw) \cup ToSet(t)
      BY <1>3, ConcatOrder
    <3>4. InOrder(toSw \o t, Order)
      BY <1>3, <3>2, ConcatOrder
    <3>. QED  BY <2>1, <3>1, <3>3, <3>4
  <2>5. Append(toSw, Disconnect) = toSw \o <<Disconnect>>
    BY <1>3, AppendIsConcat
  <2>. QED  BY <1>1, <1>3, <2>4, <2>5
<1>5. \A y : ~(y \in ToSet(<<>>))
  BY OneMember
<1>6. Ports' /\ toPage' \in Seq(ToPage)
  <2>1. InOrder(<<>>, Order) /\ <<>> \in Seq(ToPage)
    BY EmptySeq DEF InOrder
  <2>. QED  BY <1>0, <1>1, <1>2, <1>4, <2>1 DEF Ports
<1>7. \A m \in Sent' : m \in Sent \/ m = Disconnect
  BY <1>1, <1>2, <1>4, <1>5 DEF Sent
<1>8. Boot \notin Sent'
  <2>1. Boot # Disconnect /\ Boot \notin ToSet(outbox) /\ Boot \notin ToSw /\ ToSet(toSw) \subseteq ToSw
    BY <1>0, <1>3, MessageFields, Directions, ToSetIn DEF Connection
  <2>. QED  BY <1>1, <1>2, <1>4, <1>5, <2>1 DEF Sent
<1>9. Connection'
  <2>1. Disconnect # Ready /\ Disconnect # Failed
    BY MessageFields
  <2>2. (Ready \in Sent' => worker # "booting") /\ (Failed \in Sent' => worker = "failed")
    BY <1>0, <1>7, <2>1 DEF Connection
  <2>3. link = "none" => toSw' = <<>>
    BY <1>0, <1>1 DEF Connection
  <2>4. (link # "none" => outbox = <<>>) /\ Boot \notin ToSet(outbox) /\ Disconnect \notin ToSet(outbox)
    BY <1>0 DEF Connection
  <2>. QED  BY <1>1, <1>2, <1>5, <1>8, <2>2, <2>3, <2>4 DEF Connection
<1>10. /\ fetching' \in Fates
       /\ stopped' \subseteq Signalled \cup Calls /\ inFlight' \subseteq Calls
       /\ stopped \subseteq stopped'
  BY <1>0, <1>1 DEF TypeOK
<1>11. Controllers'
  BY <1>1 DEF Controllers
<1>12. \A c \in Calls :
    \/ fetching'[c] = fetching[c]
    \/ fetching[c] = "running" /\ fetching'[c] = "rejected"
  BY <1>1
<1>13. /\ \A c \in Calls : fetching'[c] = "running" => c \in stopped'
       /\ \A c \in Calls : c \in stopped' /\ fetching[c] = "none" => c \in stopped
       /\ page' \in {"detached", "gone"} /\ page' # "attached"
  BY <1>1
<1>14.
    /\ sender' \in [Bodies -> SenderType] /\ receiver' \in [Bodies -> ReceiverType]
    /\ \A c \in Calls :
         /\ sender'[Request(c)] = sender[Request(c)]
         /\ sender'[ResponseBody(c)] \in {sender[ResponseBody(c)], StopSender(sender[ResponseBody(c)])}
         /\ receiver'[ResponseBody(c)] = receiver[ResponseBody(c)]
         /\ receiver'[Request(c)] \in {receiver[Request(c)],
              StopReceiver(Request(c), receiver[Request(c)]).half}
         /\ ~Live(receiver'[Request(c)])
  BY <1>0, <1>1, PageStops
<1>. QED  BY <1>1, <1>4, <1>6, <1>7, <1>9, <1>10, <1>11, <1>12, <1>13, <1>14, PageTurns

\* the messages about a call
OfCall(c) ==
  {FetchMsg(c, s) : s \in BOOLEAN} \cup {Response(c, ok, s) : ok, s \in BOOLEAN} \cup {Abort(c)}
    \cup About(Request(c)) \cup About(ResponseBody(c))

\* no message is about two calls
LEMMA CallsApart ==
  ASSUME NEW c \in Calls, NEW d \in Calls, c # d
  PROVE  \A m \in OfCall(c) : m \notin OfCall(d)
<1>1. ASSUME NEW e \in Calls, NEW m \in OfCall(e)
      PROVE  \/ m.kind \in {"fetch", "response", "abort"} /\ m.call = e
             \/ m.kind \in DataKinds \cup {"body.pull", "body.cancel"} /\ m.body[2] = e
  <2>1. Request(e)[2] = e /\ ResponseBody(e)[2] = e
    BY BodiesOf
  <2>2. CASE m \in About(Request(e)) \/ m \in About(ResponseBody(e))
    BY <2>1, <2>2, AboutKinds
  <2>3. CASE m = Abort(e) \/ (\E s \in BOOLEAN : m = FetchMsg(e, s))
               \/ (\E ok, s \in BOOLEAN : m = Response(e, ok, s))
    BY <2>3, MessageFields
  <2>. QED  BY <1>1, <2>2, <2>3 DEF OfCall
<1>2. \A k \in {"fetch", "response", "abort"} : k \notin DataKinds \cup {"body.pull", "body.cancel"}
  BY DEF DataKinds
<1>. QED  BY <1>1, <1>2

\* the messages about a call
LEMMA InCall ==
  ASSUME NEW c \in Calls
  PROVE
    /\ \A s \in BOOLEAN : FetchMsg(c, s) \in OfCall(c)
    /\ \A ok, s \in BOOLEAN : Response(c, ok, s) \in OfCall(c)
    /\ Abort(c) \in OfCall(c) /\ End(Request(c)) \in OfCall(c) /\ End(ResponseBody(c)) \in OfCall(c)
    /\ About(Request(c)) \subseteq OfCall(c) /\ About(ResponseBody(c)) \subseteq OfCall(c)
<1>1. End(Request(c)) \in About(Request(c)) /\ End(ResponseBody(c)) \in About(ResponseBody(c))
  BY BodiesOf, InBody
<1>. QED  BY <1>1 DEF OfCall

\* a step that does nothing to a call keeps what the invariant says of it
LEMMA CallKept ==
  ASSUME
    NEW d \in Calls, CallInv(d), UNCHANGED <<page, link, worker, aborted, stopped>>,
    outcome'[d] = outcome[d], fetching'[d] = fetching[d],
    d \in entered' <=> d \in entered, d \in replied' <=> d \in replied,
    sender'[Request(d)] = sender[Request(d)], sender'[ResponseBody(d)] = sender[ResponseBody(d)],
    receiver'[Request(d)] = receiver[Request(d)], receiver'[ResponseBody(d)] = receiver[ResponseBody(d)],
    \A m \in OfCall(d) : m \in Sent' <=> m \in Sent,
    Prior(toPage, Abort(d), End(Request(d))) => Prior(toPage, Abort(d), End(Request(d)))'
  PROVE  CallInv(d)'
<1>1. /\ \A s \in BOOLEAN : FetchMsg(d, s) \in Sent' <=> FetchMsg(d, s) \in Sent
      /\ \A ok, s \in BOOLEAN : Response(d, ok, s) \in Sent' <=> Response(d, ok, s) \in Sent
      /\ Abort(d) \in Sent' <=> Abort(d) \in Sent
      /\ End(Request(d)) \in Sent' <=> End(Request(d)) \in Sent
      /\ End(ResponseBody(d)) \in Sent' <=> End(ResponseBody(d)) \in Sent
  BY InCall
<1>2. (Cut' <=> Cut) /\ (Lost' <=> Lost)
  BY DEF Cut, Lost
<1>3. Served(d)'
  BY DEF CallInv, Served
<1>4. Asked(d)'
  BY <1>1, <1>2 DEF CallInv, Asked
<1>5. Answered(d)'
  BY <1>1, <1>2 DEF CallInv, Answered
<1>6. Aborted(d)'
  BY <1>1, <1>2 DEF CallInv, Aborted
<1>7. RequestBody(d)'
  BY <1>1, <1>2 DEF CallInv, RequestBody
<1>8. AnswerBody(d)'
  BY <1>1, <1>2 DEF CallInv, AnswerBody
<1>. QED  BY <1>3, <1>4, <1>5, <1>6, <1>7, <1>8 DEF CallInv

\* A step of one call keeps the invariant, when it keeps what is said of
\* that call.
LEMMA CallMoves ==
  ASSUME
    IInv, NEW c \in Calls, UNCHANGED <<page, link, worker, aborted, stopped>>,
    NEW t \in {Request(c), ResponseBody(c)}, NEW u \in SenderType, sender' = [sender EXCEPT ![t] = u],
    NEW v \in {Request(c), ResponseBody(c)}, NEW r \in ReceiverType,
    receiver' = [receiver EXCEPT ![v] = r],
    \A d \in Calls \ {c} :
      /\ outcome'[d] = outcome[d] /\ fetching'[d] = fetching[d]
      /\ (d \in entered' <=> d \in entered) /\ (d \in replied' <=> d \in replied),
    \A m \in Sent' : m \in Sent \/ m \in OfCall(c),
    \A m \in Sent : m \in Sent' \/ m \in OfCall(c),
    \A d \in Calls \ {c} : Prior(toPage, Abort(d), End(Request(d)))
      => Prior(toPage, Abort(d), End(Request(d)))',
    CallInv(c)',
    Body(Request(c), sender'[Request(c)], receiver'[Request(c)], Sent'),
    Body(ResponseBody(c), sender'[ResponseBody(c)], receiver'[ResponseBody(c)], Sent'),
    TypeOK', Ports', Connection', ListensWhileOpen', Controllers'
  PROVE  IInv'
<1>1. /\ TypeOK /\ \A d \in Calls : CallInv(d)
      /\ \A b \in Bodies : Body(b, sender[b], receiver[b], Sent)
  BY InvParts
<1>2. \A b \in Bodies : b # Request(c) /\ b # ResponseBody(c)
        => sender'[b] = sender[b] /\ receiver'[b] = receiver[b]
  BY <1>1, TypedParts
<1>3. ASSUME NEW d \in Calls, d # c
      PROVE  \A m \in OfCall(d) : m \in Sent' <=> m \in Sent
  BY <1>3, CallsApart
<1>4. ASSUME NEW d \in Calls, d # c
      PROVE  /\ sender'[Request(d)] = sender[Request(d)] /\ sender'[ResponseBody(d)] = sender[ResponseBody(d)]
             /\ receiver'[Request(d)] = receiver[Request(d)]
             /\ receiver'[ResponseBody(d)] = receiver[ResponseBody(d)]
  BY <1>2, <1>4, BodiesOf
<1>5. ASSUME NEW d \in Calls, d # c
      PROVE  CallInv(d)'
  BY <1>1, <1>3, <1>4, <1>5, CallKept
<1>6. ASSUME NEW b \in Bodies
      PROVE  Body(b, sender'[b], receiver'[b], Sent')
  <2>1. CASE b = Request(c) \/ b = ResponseBody(c)
    BY <2>1
  <2>2. CASE b # Request(c) /\ b # ResponseBody(c)
    <3>1. PICK d \in Calls : b = Request(d) \/ b = ResponseBody(d)
      BY BodiesOf
    <3>2. d # c
      BY <2>2, <3>1
    <3>3. \A m \in Sent' \cap About(b) : m \in Sent
      BY <1>3, <3>1, <3>2, InCall
    <3>4. sender[b] \in SenderType /\ receiver[b] \in ReceiverType /\ Body(b, sender[b], receiver[b], Sent)
      BY <1>1, TypedParts
    <3>5. Body(b, sender[b], receiver[b], Sent')
      BY <3>3, <3>4, BodyKept
    <3>. QED  BY <1>2, <2>2, <3>5
  <2>. QED  BY <2>1, <2>2
<1>7. \A d \in Calls : CallInv(d)'
  BY <1>5
<1>. QED  BY <1>6, <1>7 DEF IInv, CallInv

\* a fetch() that has not begun is not aborted
FreshCalls == \A c \in Calls : outcome[c] = "idle" => c \notin aborted

\* a call is registered and sent
LEMMA PreservedByEnter ==
  ASSUME
    IInv, NEW c \in Calls, NEW stream \in BOOLEAN, NEW isLocked \in BOOLEAN,
    Alive, outcome[c] \in {"idle", "normalizing"}, c \notin aborted,
    Enter(c, stream, isLocked), UNCHANGED <<aborted, failed, ready, link, receiver>>, SwIdle
  PROVE  IInv'
<1>. DEFINE m0 == FetchMsg(c, stream) rq == Request(c) rs == ResponseBody(c)
<1>0. TypeOK /\ Ports /\ Connection /\ Controllers /\ ListensWhileOpen /\ CallInv(c)
  BY InvParts DEF CallInv
<1>1.
    /\ outcome' = [outcome EXCEPT ![c] = "pending"]
    /\ entered' = entered \cup {c}
    /\ locked' = IF isLocked THEN locked \cup {c} ELSE locked
    /\ listening' = listening \cup ({c} \cap Signalled)
    /\ SwSend(<<m0>>)
    /\ sender' = IF stream THEN [sender EXCEPT ![rq] = [Sender(Source[rq]) EXCEPT !.done = isLocked]]
                           ELSE sender
  BY DEF Enter
<1>2. UNCHANGED <<page, worker, fetching, stopped, inFlight, replied, toSw, link, aborted, receiver>>
  BY DEF SwIdle, pageVars
<1>3. /\ rq \in Bodies /\ rs \in Bodies /\ rq # rs
      /\ sender[rq] \in SenderType /\ sender[rs] \in SenderType /\ receiver[rq] \in ReceiverType
      /\ receiver[rs] \in ReceiverType
      /\ Body(rq, sender[rq], receiver[rq], Sent) /\ Body(rs, sender[rs], receiver[rs], Sent)
  BY <1>0, BodiesOf, TypedParts, InvParts
<1>4. /\ c \notin entered /\ sender[rq] = NoSender /\ Abort(c) \notin Sent
      /\ (\A s \in BOOLEAN : FetchMsg(c, s) \notin Sent)
      /\ fetching[c] = "none" /\ receiver[rq].state = "none" /\ c \notin stopped
      /\ receiver[rs].state = "none"
  BY <1>0 DEF CallInv, Asked, Answered
<1>5. m0 \in ToPage /\ m0.kind = "fetch" /\ m0 # Boot /\ m0 # Disconnect /\ m0 \in OfCall(c)
  BY MessageFields, InCall DEF ToPage
<1>. HIDE DEF rq, rs
<1>6. /\ <<m0>> \in Seq(ToPage) /\ ToSet(<<m0>>) = {m0} /\ InOrder(<<m0>>, Order)
  BY <1>5, SingleOrder
<1>7. \A x \in Up : <<x, m0>> \in Order
  <2>1. Up \subseteq Message /\ Up \subseteq Sent
    BY <1>0, UpSent DEF Message
  <2>. QED  BY <1>4, <2>1, FitsFetch
<1>. HIDE DEF m0
<1>8. PICK ms \in Seq(ToPage) :
    /\ ms = <<m0>> /\ ToSet(ms) = {m0} /\ InOrder(ms, Order) /\ SwSend(ms)
    /\ Boot \notin ToSet(ms) /\ Disconnect \notin ToSet(ms)
    /\ \A x \in Up, y \in ToSet(ms) : <<x, y>> \in Order
  BY <1>1, <1>5, <1>6, <1>7
<1>9. Pops(toSw, toSw') /\ UNCHANGED <<link, page, worker>>
  BY <1>2 DEF Pops
<1>10.
    /\ outbox' \in Seq(ToPage) /\ toPage' \in Seq(ToPage) /\ toSw' \in Seq(ToSw)
    /\ Ports' /\ Connection'
    /\ Sent' \subseteq Sent \cup ToSet(ms)
    /\ \A m \in Sent : m \in Sent' \/ (toSw' = Tail(toSw) /\ toSw # <<>> /\ m = Head(toSw))
    /\ Up \subseteq Up'
    /\ Lost \/ ToSet(ms) \subseteq Sent'
    /\ (Lost' <=> Lost) /\ (Cut' <=> Cut)
    /\ \A x, y : Prior(toPage, x, y) /\ (y \notin ToSet(ms) \/ x \in ToSet(toPage)) => Prior(toPage', x, y)
  BY <1>0, <1>8, <1>9, SwPorts
<1>11. Sent' \subseteq Sent \cup {m0} /\ Sent \subseteq Sent' /\ (Lost \/ m0 \in Sent')
  BY <1>2, <1>8, <1>10 DEF Sent, Up
<1>12. \A d : Prior(toPage, Abort(d), End(Request(d))) => Prior(toPage', Abort(d), End(Request(d)))
  BY <1>5, <1>8, <1>10, MessageKinds
<1>13. PICK u \in SenderType :
    /\ sender' = [sender EXCEPT ![rq] = u]
    /\ Body(rq, u, receiver[rq], Sent')
    /\ stream => u.left = Source[rq]
  <2>1. \A m \in Sent' \cap About(rq) : m \in Sent
    BY <1>5, <1>11, AboutKinds DEF DataKinds
  <2>2. CASE stream
    <3>. DEFINE t == [Sender(Source[rq]) EXCEPT !.done = isLocked]
    <3>1. t \in SenderType /\ t.left = Source[rq] /\ t.rest = <<>> /\ ~t.reading
      BY <1>3, PiecesType, EmptySeq DEF Sender, SenderType
    <3>2. sender' = [sender EXCEPT ![rq] = t]
      BY <1>1, <2>2
    <3>. HIDE DEF t
    <3>3. Body(rq, t, receiver[rq], Sent')
      BY <1>3, <1>4, <2>1, <3>1, BodyStarts
    <3>. QED  BY <3>1, <3>2, <3>3
  <2>3. CASE ~stream
    <3>1. Body(rq, sender[rq], receiver[rq], Sent')
      BY <1>3, <2>1, BodyKept
    <3>2. sender' = [sender EXCEPT ![rq] = sender[rq]]
      BY <1>0, <1>1, <1>3, <2>3, Untouched
    <3>. QED  BY <1>3, <2>3, <3>1, <3>2
  <2>. QED  BY <2>2, <2>3
<1>14. /\ sender'[rq] = u /\ sender'[rs] = sender[rs] /\ receiver' = receiver /\ DOMAIN sender' = Bodies
       /\ sender' \in [Bodies -> SenderType]
  BY <1>0, <1>2, <1>3, <1>13 DEF TypeOK
<1>15. Body(rs, sender'[rs], receiver'[rs], Sent')
  <2>1. \A m \in Sent' \cap About(rs) : m \in Sent
    BY <1>5, <1>11, AboutKinds DEF DataKinds
  <2>. QED  BY <1>3, <1>14, <2>1, BodyKept
<1>16. /\ outcome'[c] = "pending" /\ c \in entered' /\ \A d \in Calls \ {c} : outcome'[d] = outcome[d]
       /\ outcome' \in Outcomes
  BY <1>0, <1>1 DEF TypeOK
<1>17. CallInv(c)'
  <2>1. Served(c)'
    BY <1>0, <1>2 DEF CallInv, Served
  <2>2. Asked(c)'
    <3>1. \A s \in BOOLEAN : FetchMsg(c, s) \in Sent' => FetchMsg(c, s) = m0
      BY <1>4, <1>11
    <3>2. \A s \in BOOLEAN : FetchMsg(c, s) \in Sent' => s = stream
      BY <3>1, MessageFields DEF m0
    <3>3. Lost' \/ \E s \in BOOLEAN : FetchMsg(c, s) \in Sent'
      BY <1>10, <1>11 DEF m0
    <3>4. receiver'[rq].state = "none" /\ ~Live(receiver'[rq]) /\ fetching'[c] = "none" /\ c \notin stopped'
      BY <1>2, <1>4 DEF Live
    <3>5. \A s \in BOOLEAN : FetchMsg(c, s) \in Sent' /\ s => sender'[rq].left = Source[rq]
      BY <1>13, <1>14, <3>2
    <3>. QED  BY <1>16, <3>3, <3>4, <3>5 DEF Asked, rq
  <2>3. Answered(c)'
    <3>1. \A ok, s \in BOOLEAN : Response(c, ok, s) \in Sent' => Response(c, ok, s) \in Sent
      BY <1>5, <1>11, MessageFields
    <3>. QED  BY <1>0, <1>2, <1>4, <1>14, <1>16, <3>1 DEF CallInv, Answered, rs
  <2>4. Aborted(c)'
    <3>1. Abort(c) \notin Sent'
      BY <1>4, <1>5, <1>11, MessageFields
    <3>. QED  BY <1>2, <3>1 DEF Aborted
  <2>5. /\ ~Live(receiver'[rq]) /\ receiver'[rq].state # "closed" /\ ~Live(receiver'[rs])
        /\ receiver'[rs].state # "closed"
    BY <1>2, <1>4 DEF Live
  <2>6. RequestBody(c)' /\ AnswerBody(c)'
    BY <2>5 DEF RequestBody, AnswerBody, rq, rs
  <2>. QED  BY <2>1, <2>2, <2>3, <2>4, <2>6 DEF CallInv
<1>18. listening' \subseteq Signalled /\ ListensWhileOpen'
  <2>1. \A d \in Signalled : d \in Calls
    BY CallsAssumption
  <2>2. listening = {d \in Signalled : outcome[d] = "pending" \/ Live(receiver[ResponseBody(d)])}
    BY <1>0 DEF ListensWhileOpen
  <2>3. \A d \in Signalled : d \in listening' <=> outcome'[d] = "pending" \/ Live(receiver'[ResponseBody(d)])
    BY <1>1, <1>2, <1>16, <2>1, <2>2
  <2>4. listening' \subseteq Signalled
    BY <1>1, <2>2
  <2>. QED  BY <2>3, <2>4 DEF ListensWhileOpen
<1>19. Controllers'
  <2>1. \A d \in Calls : sender'[ResponseBody(d)] = sender[ResponseBody(d)]
    BY <1>3, <1>13, BodiesOf, TypedParts, <1>0 DEF rq
  <2>. QED  BY <1>0, <1>2, <2>1 DEF Controllers
<1>20. TypeOK'
  <2>1. entered' \subseteq Calls /\ locked' \subseteq entered'
    BY <1>0, <1>1 DEF TypeOK
  <2>. QED  BY <1>0, <1>1, <1>2, <1>10, <1>14, <1>16, <1>18, <2>1 DEF TypeOK
<1>21. PICK r \in ReceiverType : receiver' = [receiver EXCEPT ![rq] = r]
  BY <1>0, <1>2, <1>3, Untouched
<1>22. /\ \A d \in Calls \ {c} : /\ outcome'[d] = outcome[d] /\ fetching'[d] = fetching[d]
                                /\ (d \in entered' <=> d \in entered) /\ (d \in replied' <=> d \in replied)
       /\ \A m \in Sent' : m \in Sent \/ m \in OfCall(c)
       /\ \A m \in Sent : m \in Sent' \/ m \in OfCall(c)
       /\ UNCHANGED <<page, link, worker, aborted, stopped>>
  BY <1>1, <1>2, <1>5, <1>11, <1>16
<1>23. rq \in {Request(c), ResponseBody(c)}
  BY DEF rq
<1>24. \A d \in Calls \ {c} : Prior(toPage, Abort(d), End(Request(d)))
         => Prior(toPage, Abort(d), End(Request(d)))'
  BY <1>12
<1>25. Body(Request(c), sender'[Request(c)], receiver'[Request(c)], Sent')
  BY <1>13, <1>14 DEF rq
<1>26. Body(ResponseBody(c), sender'[ResponseBody(c)], receiver'[ResponseBody(c)], Sent')
  BY <1>15 DEF rs
<1>. QED  BY <1>10, <1>13, <1>17, <1>18, <1>19, <1>20, <1>21, <1>22, <1>23, <1>24, <1>25, <1>26, CallMoves

\* fetch() whose body is streamed
LEMMA PreservedByFetchStreamed ==
  ASSUME IInv, FreshCalls, NEW c \in Calls, FetchStreamed(c)
  PROVE  IInv'
<1>1. PICK s \in BOOLEAN : s = TRUE
  OBVIOUS
<1>2. /\ Alive /\ outcome[c] = "idle" /\ \E k \in BOOLEAN : Enter(c, s, k)
      /\ UNCHANGED <<aborted, failed, ready, link, receiver>> /\ SwIdle
  BY <1>1 DEF FetchStreamed
<1>3. c \notin aborted
  BY <1>2 DEF FreshCalls
<1>. QED  BY <1>2, <1>3, PreservedByEnter

\* the body was read, and the call is sent
LEMMA PreservedByRegister ==
  ASSUME IInv, NEW c \in Calls, Register(c)
  PROVE  IInv'
<1>1. PICK s \in BOOLEAN : s = FALSE
  OBVIOUS
<1>2. /\ Alive /\ outcome[c] = "normalizing" /\ Enter(c, s, s) /\ c \notin aborted
      /\ UNCHANGED <<aborted, failed, ready, link, receiver>> /\ SwIdle
  BY <1>1 DEF Register
<1>. QED  BY <1>2, PreservedByEnter

\* the response that resolves a call
LEMMA PreservedByOnResponse ==
  ASSUME IInv, link = "up", toSw # <<>>, toSw' = Tail(toSw), UNCHANGED <<aborted, entered, locked, pageVars>>,
         OnResponse(Head(toSw))
  PROVE  IInv'
<1>. DEFINE h == Head(toSw)
<1>0. TypeOK /\ Ports /\ Connection /\ Controllers /\ ListensWhileOpen
  BY InvParts
<1>a. h.kind = "response"
  BY DEF OnResponse
<1>4. /\ h \in ToSw /\ h \in Message /\ h \in Sent /\ h \in ToSet(toSw) /\ Pops(toSw, toSw')
      /\ \A y \in ToSet(toSw') : ~Rivals(h, y)
  BY <1>0, SwTaken
<1>b. h.call \in Calls /\ h.ok \in BOOLEAN /\ h.hasBody \in BOOLEAN /\ h = Response(h.call, h.ok, h.hasBody)
  BY <1>a, <1>4, KindIs
<1>c. PICK c \in Calls : c = h.call
  BY <1>b
<1>. DEFINE rs == ResponseBody(c)
<1>1. /\ h.kind = "response" /\ h.ok /\ outcome[c] = "pending"
      /\ outcome' = [outcome EXCEPT ![c] = "resolved"]
      /\ UNCHANGED <<failed, ready, link, sender>>
  BY <1>c DEF OnResponse
<1>2. /\ h.hasBody =>
           /\ receiver' = [receiver EXCEPT ![rs] = Receiver(rs).half]
           /\ SwSend(Receiver(rs).out) /\ UNCHANGED listening
      /\ ~h.hasBody => /\ listening' = listening \ {c} /\ UNCHANGED receiver /\ SwSend(<<>>)
  BY <1>c DEF OnResponse
<1>3. UNCHANGED <<page, worker, fetching, stopped, inFlight, replied, link, aborted, entered, locked, sender>>
  BY <1>1 DEF pageVars
<1>5. /\ c \in Calls /\ h.ok \in BOOLEAN /\ h.hasBody \in BOOLEAN /\ h = Response(c, h.ok, h.hasBody)
      /\ h.call = c
  BY <1>b, <1>c
<1>6. CallInv(c)
  BY <1>5, InvParts
<1>7. /\ rs \in Bodies /\ sender[rs] \in SenderType /\ receiver[rs] \in ReceiverType
      /\ Body(rs, sender[rs], receiver[rs], Sent)
      /\ Request(c) \in Bodies /\ Request(c) # rs
      /\ sender[Request(c)] \in SenderType /\ receiver[Request(c)] \in ReceiverType
      /\ Body(Request(c), sender[Request(c)], receiver[Request(c)], Sent)
  BY <1>0, <1>5, BodiesOf, TypedParts, InvParts
<1>8. /\ receiver[rs].state = "none" /\ fetching[c] = "resolved" /\ c \in replied
      /\ h.hasBody => sender[rs].left = Source[rs]
  <2>. DEFINE o == h.ok s == h.hasBody
  <2>1. o \in BOOLEAN /\ s \in BOOLEAN /\ Response(c, o, s) \in Sent /\ o
    BY <1>1, <1>4, <1>5
  <2>. HIDE DEF o, s, h
  <2>2. /\ receiver[rs].state = "none" /\ fetching[c] = "resolved" /\ c \in replied
        /\ s => sender[rs].left = Source[rs]
    BY <1>6, <2>1 DEF CallInv, Answered
  <2>. QED  BY <2>2 DEF s
<1>9. h \in OfCall(c)
  <2>. DEFINE o == h.ok s == h.hasBody
  <2>1. o \in BOOLEAN /\ s \in BOOLEAN /\ h = Response(c, o, s)
    BY <1>5
  <2>. HIDE DEF o, s, h
  <2>. QED  BY <1>5, <2>1, InCall
<1>. HIDE DEF h
<1>10. Up \subseteq Message /\ Up \subseteq Sent /\ ToSet(toSw') \subseteq ToSet(toSw)
  <2>1. toSw \in Seq(ToSw) /\ InOrder(toSw, Order)
    BY <1>0 DEF TypeOK, Ports
  <2>. QED  BY <1>0, <1>4, <2>1, UpSent, Taking DEF Message
<1>11. /\ Sent \cap About(rs) = {} /\ ~sender[rs].reading /\ Pull(rs) \in ToPage /\ Pull(rs) \in About(rs)
       /\ Pull(rs) \in Message /\ Pull(rs) \in OfCall(c) /\ Pull(rs).kind = "body.pull"
  BY <1>5, <1>7, <1>8, AboutTyped, InBody, InCall, MessageKinds DEF Body, Message
<1>12. PICK ms \in Seq(ToPage) :
         /\ ms = IF h.hasBody THEN <<Pull(rs)>> ELSE <<>>
         /\ SwSend(ms) /\ InOrder(ms, Order) /\ \A x \in Up, y \in ToSet(ms) : <<x, y>> \in Order
         /\ \A y \in ToSet(ms) : y = Pull(rs) /\ h.hasBody
  <2>1. CASE h.hasBody
    <3>1. Receiver(rs).out = <<Pull(rs)>>
      BY DEF Receiver, Refill, NoReceiver, Step
    <3>2. <<Pull(rs)>> \in Seq(ToPage) /\ ToSet(<<Pull(rs)>>) = {Pull(rs)} /\ InOrder(<<Pull(rs)>>, Order)
      BY <1>11, SingleOrder
    <3>3. \A x \in Up : <<x, Pull(rs)>> \in Order
      BY <1>7, <1>10, <1>11, FitsPull
    <3>. HIDE DEF rs
    <3>. QED  BY <1>2, <2>1, <3>1, <3>2, <3>3
  <2>2. CASE ~h.hasBody
    <3>1. InOrder(<<>>, Order) /\ <<>> \in Seq(ToPage)
      BY EmptySeq DEF InOrder
    <3>0. \A y : ~(y \in ToSet(<<>>))
      BY OneMember
    <3>. HIDE DEF rs
    <3>2. PICK ms \in Seq(ToPage) : ms = <<>>
      BY <3>1
    <3>3. ms = IF h.hasBody THEN <<Pull(rs)>> ELSE <<>>
      BY <2>2, <3>2
    <3>4. SwSend(ms)
      BY <1>2, <2>2, <3>2
    <3>5. /\ InOrder(ms, Order) /\ (\A x \in Up, y \in ToSet(ms) : <<x, y>> \in Order)
          /\ \A y \in ToSet(ms) : y = Pull(rs) /\ h.hasBody
      BY <3>0, <3>1, <3>2
    <3>. QED  BY <3>3, <3>4, <3>5
  <2>. QED  BY <2>1, <2>2, <1>5
<1>13. Boot \notin ToSet(ms) /\ Disconnect \notin ToSet(ms)
  BY <1>11, <1>12, MessageFields
<1>14.
    /\ outbox' \in Seq(ToPage) /\ toPage' \in Seq(ToPage) /\ toSw' \in Seq(ToSw)
    /\ Ports' /\ Connection'
    /\ Sent' \subseteq Sent \cup ToSet(ms)
    /\ \A m \in Sent' : m \in Up \/ m \in ToSet(ms) \/ m \in ToSet(toSw')
    /\ \A m \in Sent : m \in Sent' \/ (toSw' = Tail(toSw) /\ toSw # <<>> /\ m = Head(toSw))
    /\ (Lost' <=> Lost) /\ (Cut' <=> Cut)
    /\ \A x, y : Prior(toPage, x, y) /\ (y \notin ToSet(ms) \/ x \in ToSet(toPage)) => Prior(toPage', x, y)
  <2>1. UNCHANGED <<link, page, worker>>
    BY <1>3
  <2>. HIDE DEF rs
  <2>. QED  BY <1>0, <1>4, <1>12, <1>13, <2>1, SwPorts
<1>15. /\ \A m \in Sent' : m \in Sent \/ m = Pull(rs)
       /\ \A m \in Sent : m \in Sent' \/ m = h
  BY <1>12, <1>14 DEF h
<1>16. \A d : Prior(toPage, Abort(d), End(Request(d))) => Prior(toPage', Abort(d), End(Request(d)))
  BY <1>11, <1>12, <1>14, MessageKinds
<1>. HIDE DEF rs
<1>17. \A ok, s \in BOOLEAN : Response(c, ok, s) \notin Sent'
  <2>. SUFFICES ASSUME NEW ok \in BOOLEAN, NEW s \in BOOLEAN, Response(c, ok, s) \in Sent' PROVE FALSE
    OBVIOUS
  <2>1. /\ Response(c, ok, s).kind = "response" /\ Response(c, ok, s).call = c
        /\ Response(c, ok, s) \notin ToPage
    BY <1>5, MessageFields, Directions
  <2>2. Rivals(h, Response(c, ok, s))
    BY <1>1, <1>5, <2>1 DEF Rivals
  <2>3. Response(c, ok, s) \notin ToSet(toSw') /\ Response(c, ok, s) # Pull(rs)
    BY <1>4, <1>11, <2>1, <2>2
  <2>4. Up \subseteq ToPage
    BY <1>0, UpSent
  <2>. QED  BY <1>12, <1>14, <2>1, <2>3, <2>4
<1>18. PICK r \in ReceiverType :
         /\ receiver' = [receiver EXCEPT ![rs] = r] /\ Body(rs, sender[rs], r, Sent')
         /\ Live(r) <=> h.hasBody
         /\ r.state \in {"none", "open"}
         /\ Sent' \cap Data(rs) = {}
  <2>1. \A m \in Sent' \cap About(rs) : m \in Sent \/ m = Pull(rs)
    BY <1>15
  <2>2. CASE h.hasBody
    <3>. DEFINE q == Receiver(rs).half
    <3>1. q \in ReceiverType /\ Live(q) /\ Body(rs, sender[rs], q, Sent') /\ Sent' \cap Data(rs) = {}
      BY <1>7, <1>8, <2>1, <2>2, BodyOpens
    <3>2. receiver' = [receiver EXCEPT ![rs] = q]
      BY <1>2, <2>2 DEF rs
    <3>. QED  BY <2>2, <3>1, <3>2 DEF Live
  <2>3. CASE ~h.hasBody
    <3>1. \A m \in Sent' : m \in Sent
      BY <1>12, <1>14, <2>3
    <3>2. Body(rs, sender[rs], receiver[rs], Sent')
      BY <1>7, <3>1, BodyKept
    <3>3. receiver' = [receiver EXCEPT ![rs] = receiver[rs]]
      BY <1>0, <1>2, <1>7, <2>3, Untouched
    <3>4. Sent' \cap Data(rs) = {}
      BY <1>7, <1>11, <3>1, InBody
    <3>. QED  BY <1>7, <1>8, <2>3, <3>2, <3>3, <3>4 DEF Live
  <2>. QED  BY <2>2, <2>3
<1>19. /\ receiver'[rs] = r /\ receiver'[Request(c)] = receiver[Request(c)] /\ sender' = sender
       /\ receiver' \in [Bodies -> ReceiverType]
  BY <1>0, <1>3, <1>7, <1>18 DEF TypeOK
<1>20. Body(Request(c), sender'[Request(c)], receiver'[Request(c)], Sent')
  <2>1. Request(c) = Request(c) /\ \A m \in About(Request(c)) : m # Pull(rs)
    BY <1>7, <1>11, AboutKinds, MessageKinds
  <2>. QED  BY <1>7, <1>15, <1>19, <2>1, BodyKept
<1>21. /\ outcome'[c] = "resolved" /\ \A d \in Calls \ {c} : outcome'[d] = outcome[d]
       /\ outcome' \in Outcomes
  BY <1>0, <1>1, <1>5 DEF TypeOK
<1>22. /\ \A s \in BOOLEAN : FetchMsg(c, s) \notin Sent' \/ FetchMsg(c, s) \in Sent
       /\ \A s \in BOOLEAN : FetchMsg(c, s) \in Sent => FetchMsg(c, s) \in Sent'
       /\ Abort(c) \in Sent' => Abort(c) \in Sent
       /\ End(Request(c)) \in Sent' => End(Request(c)) \in Sent
  BY <1>1, <1>11, <1>15, MessageFields, MessageKinds
<1>23. Abort(c) \notin Sent'
  BY <1>1, <1>6, <1>22 DEF CallInv, Aborted
<1>24. CallInv(c)'
  <2>1. Served(c)'
    BY <1>3, <1>6, <1>19 DEF CallInv, Served
  <2>2. Asked(c)'
    BY <1>3, <1>6, <1>8, <1>19, <1>21, <1>22, <1>23 DEF CallInv, Asked
  <2>3. Answered(c)'
    BY <1>3, <1>8, <1>17, <1>21 DEF Answered
  <2>4. Aborted(c)'
    BY <1>3, <1>8, <1>23 DEF Aborted
  <2>5. RequestBody(c)'
    <3>1. Abort(c) \notin Sent
      BY <1>1, <1>6 DEF CallInv, Aborted
    <3>. QED  BY <1>3, <1>6, <1>14, <1>16, <1>19, <1>22, <3>1 DEF CallInv, RequestBody
  <2>6. AnswerBody(c)'
    <3>1. End(rs) \notin Sent'
      BY <1>7, <1>18, InBody
    <3>. QED  BY <1>11, <1>18, <1>19, <3>1 DEF AnswerBody, rs
  <2>. QED  BY <2>1, <2>2, <2>3, <2>4, <2>5, <2>6 DEF CallInv
<1>25. listening' \subseteq Signalled /\ ListensWhileOpen'
  <2>1. \A d \in Signalled : d \in Calls
    BY CallsAssumption
  <2>2. Alive /\ listening = {d \in Signalled : outcome[d] = "pending" \/ Live(receiver[ResponseBody(d)])}
    BY <1>0 DEF ListensWhileOpen, Alive
  <2>3. \A d \in Calls \ {c} : receiver'[ResponseBody(d)] = receiver[ResponseBody(d)]
    BY <1>0, <1>5, <1>7, <1>18, BodiesOf, TypedParts DEF rs
  <2>4. listening' = IF h.hasBody THEN listening ELSE listening \ {c}
    BY <1>2, <1>5
  <2>5. \A d \in Signalled \ {c} : d \in listening'
          <=> outcome'[d] = "pending" \/ Live(receiver'[ResponseBody(d)])
    BY <1>21, <2>1, <2>2, <2>3, <2>4
  <2>6. c \in Signalled => (c \in listening' <=> outcome'[c] = "pending" \/ Live(receiver'[ResponseBody(c)]))
    <3>1. outcome'[c] # "pending" /\ (Live(receiver'[ResponseBody(c)]) <=> h.hasBody)
      BY <1>18, <1>19, <1>21 DEF rs
    <3>2. c \in Signalled => c \in listening
      BY <1>1, <2>2
    <3>. QED  BY <2>4, <3>1, <3>2
  <2>7. listening' \subseteq Signalled
    BY <2>2, <2>4
  <2>. QED  BY <2>5, <2>6, <2>7 DEF ListensWhileOpen
<1>26. Controllers'
  BY <1>0, <1>3 DEF Controllers
<1>27. TypeOK'
  BY <1>0, <1>1, <1>3, <1>14, <1>19, <1>21, <1>25 DEF TypeOK
<1>28. PICK u \in SenderType : sender' = [sender EXCEPT ![rs] = u]
  BY <1>0, <1>3, <1>7, Untouched
<1>29. /\ \A d \in Calls \ {c} : /\ outcome'[d] = outcome[d] /\ fetching'[d] = fetching[d]
                                /\ (d \in entered' <=> d \in entered) /\ (d \in replied' <=> d \in replied)
       /\ \A m \in Sent' : m \in Sent \/ m \in OfCall(c)
       /\ \A m \in Sent : m \in Sent' \/ m \in OfCall(c)
       /\ UNCHANGED <<page, link, worker, aborted, stopped>>
  BY <1>3, <1>9, <1>11, <1>15, <1>21
<1>30. rs \in {Request(c), ResponseBody(c)}
  BY DEF rs
<1>31. \A d \in Calls \ {c} : Prior(toPage, Abort(d), End(Request(d)))
         => Prior(toPage, Abort(d), End(Request(d)))'
  BY <1>16
<1>32. Body(ResponseBody(c), sender'[ResponseBody(c)], receiver'[ResponseBody(c)], Sent')
  BY <1>18, <1>19 DEF rs
<1>. QED  BY <1>5, <1>14, <1>18, <1>20, <1>24, <1>25, <1>26, <1>27, <1>28, <1>29, <1>30, <1>31, <1>32,
             CallMoves

\* nothing sent is in order
LEMMA EmptyOut ==
  ASSUME NEW S
  PROVE  <<>> \in Seq(S) /\ InOrder(<<>>, Order) /\ \A y : ~(y \in ToSet(<<>>))
<1>1. InOrder(<<>>, Order) /\ <<>> \in Seq(S)
  BY EmptySeq DEF InOrder
<1>. QED  BY <1>1, OneMember

\* the document hears a fetch
LEMMA PreservedByOnFetch ==
  ASSUME
    IInv, page \in {"none", "attached"}, toPage # <<>>, toPage' = Tail(toPage),
    UNCHANGED <<swVars, worker, replied>>,
    OnFetch(Head(toPage))
  PROVE  IInv'
<1>. DEFINE h == Head(toPage)
<1>0. TypeOK /\ Ports /\ Connection /\ Controllers /\ ListensWhileOpen
  BY InvParts
<1>a. h.kind = "fetch"
  BY DEF OnFetch
<1>4. /\ h \in ToPage /\ h \in Message /\ h \in Sent /\ h \in ToSet(toPage) /\ Pops(toPage, toPage')
      /\ \A y \in ToSet(toPage') : ~Rivals(h, y)
      /\ outbox = <<>> /\ page = "attached"
      /\ \A x, y : Prior(toPage, x, y) => h # y /\ (h # x => Prior(toPage', x, y))
  BY <1>0, <1>a, PageTaken
<1>b. h.call \in Calls /\ h.bodyStream \in BOOLEAN /\ h = FetchMsg(h.call, h.bodyStream)
  BY <1>a, <1>4, KindIs
<1>c. PICK c \in Calls : c = h.call
  BY <1>b
<1>. DEFINE rq == Request(c) rs == ResponseBody(c)
<1>1. /\ fetching' = [fetching EXCEPT ![c] = "running"]
      /\ inFlight' = inFlight \cup {c}
      /\ UNCHANGED <<page, stopped, sender>>
  BY <1>c DEF OnFetch
<1>2. /\ h.bodyStream => receiver' = [receiver EXCEPT ![rq] = Receiver(rq).half] /\ PageSend(Receiver(rq).out)
      /\ ~h.bodyStream => UNCHANGED receiver /\ PageSend(<<>>)
  BY <1>c DEF OnFetch
<1>3. UNCHANGED <<outcome, aborted, listening, failed, ready, link, outbox, entered, locked, page, worker, stopped,
           replied, sender>>
  BY <1>1 DEF swVars
<1>5. /\ h.bodyStream \in BOOLEAN /\ h = FetchMsg(c, h.bodyStream) /\ h.call = c /\ h \in OfCall(c)
      /\ h # Disconnect
  <2>1. \A s \in BOOLEAN : FetchMsg(c, s) \in OfCall(c)
    BY InCall
  <2>. QED  BY <1>a, <1>b, <1>c, <2>1, MessageFields
<1>6. CallInv(c)
  BY InvParts
<1>7. /\ rq \in Bodies /\ sender[rq] \in SenderType /\ receiver[rq] \in ReceiverType
      /\ Body(rq, sender[rq], receiver[rq], Sent)
      /\ rs \in Bodies /\ rq # rs
      /\ sender[rs] \in SenderType /\ receiver[rs] \in ReceiverType
      /\ Body(rs, sender[rs], receiver[rs], Sent)
  BY <1>0, BodiesOf, TypedParts, InvParts
<1>8. /\ c \in entered /\ fetching[c] = "none" /\ receiver[rq].state = "none" /\ c \notin stopped
      /\ receiver[rs].state = "none"
      /\ h.bodyStream => sender[rq].left = Source[rq]
  <2>. DEFINE s == h.bodyStream
  <2>1. s \in BOOLEAN /\ FetchMsg(c, s) \in Sent
    BY <1>4, <1>5
  <2>. HIDE DEF s, h
  <2>2. c \in entered /\ fetching[c] = "none" /\ (s => sender[rq].left = Source[rq])
    BY <1>6, <2>1 DEF CallInv, Asked
  <2>. QED  BY <1>6, <2>2 DEF s, CallInv, Asked, Answered
<1>. HIDE DEF h
<1>10. ToSet(toSw) \subseteq Message /\ ToSet(toSw) \subseteq Sent /\ ToSet(toPage') \subseteq ToSet(toPage)
  <2>1. toPage \in Seq(ToPage) /\ InOrder(toPage, Order)
    BY <1>0 DEF TypeOK, Ports
  <2>. QED  BY <1>0, <1>4, <2>1, UpSent, Taking DEF Message
<1>11. /\ Sent \cap About(rq) = {} /\ ~sender[rq].reading /\ Pull(rq) \in ToSw /\ Pull(rq) \in About(rq)
       /\ Pull(rq) \in Message /\ Pull(rq) \in OfCall(c) /\ Pull(rq).kind = "body.pull"
  BY <1>7, <1>8, AboutTyped, InBody, InCall, MessageKinds DEF Body, Message
<1>12. PICK ms \in Seq(ToSw) :
         /\ ms = IF h.bodyStream THEN <<Pull(rq)>> ELSE <<>>
         /\ PageSend(ms) /\ InOrder(ms, Order) /\ \A x \in ToSet(toSw), y \in ToSet(ms) : <<x, y>> \in Order
         /\ \A y \in ToSet(ms) : y = Pull(rq) /\ h.bodyStream
  <2>1. CASE h.bodyStream
    <3>1. Receiver(rq).out = <<Pull(rq)>>
      BY DEF Receiver, Refill, NoReceiver, Step
    <3>2. <<Pull(rq)>> \in Seq(ToSw) /\ ToSet(<<Pull(rq)>>) = {Pull(rq)} /\ InOrder(<<Pull(rq)>>, Order)
      BY <1>11, SingleOrder
    <3>3. \A x \in ToSet(toSw) : <<x, Pull(rq)>> \in Order
      BY <1>7, <1>10, <1>11, FitsPull
    <3>. HIDE DEF rq
    <3>. QED  BY <1>2, <2>1, <3>1, <3>2, <3>3
  <2>2. CASE ~h.bodyStream
    <3>1. <<>> \in Seq(ToSw) /\ InOrder(<<>>, Order) /\ \A y : ~(y \in ToSet(<<>>))
      BY EmptyOut
    <3>. HIDE DEF rq
    <3>2. PICK ms \in Seq(ToSw) : ms = <<>>
      BY <3>1
    <3>3. ms = IF h.bodyStream THEN <<Pull(rq)>> ELSE <<>>
      BY <2>2, <3>2
    <3>4. PageSend(ms)
      BY <1>2, <2>2, <3>2
    <3>5. /\ InOrder(ms, Order) /\ (\A x \in ToSet(toSw), y \in ToSet(ms) : <<x, y>> \in Order)
          /\ \A y \in ToSet(ms) : y = Pull(rq) /\ h.bodyStream
      BY <3>1, <3>2
    <3>. QED  BY <3>3, <3>4, <3>5
  <2>. QED  BY <2>1, <2>2, <1>5
<1>13. /\ Disconnect \notin ToSet(ms) /\ (Ready \in ToSet(ms) => worker' # "booting")
       /\ (Failed \in ToSet(ms) => worker' = "failed")
  BY <1>11, <1>12, MessageFields
<1>14.
    /\ outbox' \in Seq(ToPage) /\ toPage' \in Seq(ToPage) /\ toSw' \in Seq(ToSw)
    /\ Ports' /\ Connection'
    /\ Sent' \subseteq Sent \cup ToSet(ms)
    /\ \A m \in Sent' : m \in ToSet(outbox) \/ m \in ToSet(toPage') \/ m \in ToSet(toSw) \/ m \in ToSet(ms)
    /\ \A m \in Sent : m \in Sent' \/ (toPage' = Tail(toPage) /\ toPage # <<>> /\ m = Head(toPage))
    /\ (Lost' <=> Lost) /\ (Cut' <=> Cut)
  <2>1. UNCHANGED <<link, page, outbox>> /\ worker' = worker
    BY <1>3
  <2>2. toPage' = toPage \/ (page = "attached" /\ Head(toPage) # Disconnect)
    BY <1>4, <1>5 DEF h
  <2>. HIDE DEF rs
  <2>. QED  BY <1>0, <1>4, <1>12, <1>13, <2>1, <2>2, PagePorts
<1>15. /\ \A m \in Sent' : m \in Sent \/ m = Pull(rq)
       /\ \A m \in Sent : m \in Sent' \/ m = h
  BY <1>12, <1>14 DEF h
<1>16. \A d : Prior(toPage, Abort(d), End(Request(d))) => Prior(toPage', Abort(d), End(Request(d)))
  BY <1>a, <1>4, MessageFields DEF h
<1>. HIDE DEF rs, rq
<1>17. \A s \in BOOLEAN : FetchMsg(c, s) \notin Sent'
  <2>. SUFFICES ASSUME NEW s \in BOOLEAN, FetchMsg(c, s) \in Sent' PROVE FALSE
    OBVIOUS
  <2>1. FetchMsg(c, s).kind = "fetch" /\ FetchMsg(c, s).call = c /\ FetchMsg(c, s) \notin ToSw
    BY MessageFields, Directions
  <2>2. Rivals(h, FetchMsg(c, s))
    BY <1>a, <1>5, <2>1 DEF Rivals, h
  <2>3. FetchMsg(c, s) \notin ToSet(toPage') /\ FetchMsg(c, s) # Pull(rq)
    BY <1>4, <1>11, <2>1, <2>2
  <2>4. ToSet(toSw) \subseteq ToSw /\ FetchMsg(c, s) \notin ToSet(outbox)
    BY <1>0, <1>4, UpSent, OneMember
  <2>. QED  BY <1>12, <1>14, <2>1, <2>3, <2>4
<1>18. PICK r \in ReceiverType :
         /\ receiver' = [receiver EXCEPT ![rq] = r] /\ Body(rq, sender[rq], r, Sent')
         /\ r.state \in {"none", "open"}
         /\ Sent' \cap Data(rq) = {}
  <2>1. \A m \in Sent' \cap About(rq) : m \in Sent \/ m = Pull(rq)
    BY <1>15
  <2>2. CASE h.bodyStream
    <3>. DEFINE q == Receiver(rq).half
    <3>1. q \in ReceiverType /\ Live(q) /\ Body(rq, sender[rq], q, Sent') /\ Sent' \cap Data(rq) = {}
      BY <1>7, <1>8, <2>1, <2>2, BodyOpens
    <3>2. receiver' = [receiver EXCEPT ![rq] = q]
      BY <1>2, <2>2 DEF rq
    <3>. QED  BY <2>2, <3>1, <3>2 DEF Live
  <2>3. CASE ~h.bodyStream
    <3>1. \A m \in Sent' : m \in Sent
      BY <1>12, <1>14, <2>3
    <3>2. Body(rq, sender[rq], receiver[rq], Sent')
      BY <1>7, <3>1, BodyKept
    <3>3. receiver' = [receiver EXCEPT ![rq] = receiver[rq]]
      BY <1>0, <1>2, <1>7, <2>3, Untouched
    <3>4. Sent' \cap Data(rq) = {}
      BY <1>7, <1>11, <3>1, InBody
    <3>. QED  BY <1>7, <1>8, <2>3, <3>2, <3>3, <3>4 DEF Live
  <2>. QED  BY <2>2, <2>3, <1>5
<1>19. /\ receiver'[rq] = r /\ receiver'[rs] = receiver[rs] /\ sender' = sender
       /\ receiver' \in [Bodies -> ReceiverType]
  BY <1>0, <1>3, <1>7, <1>18 DEF TypeOK
<1>20. Body(rs, sender'[rs], receiver'[rs], Sent')
  <2>1. \A m \in About(rs) : m # Pull(rq)
    BY <1>7, <1>11, AboutKinds, MessageKinds
  <2>. QED  BY <1>7, <1>15, <1>19, <2>1, BodyKept
<1>21. /\ fetching'[c] = "running" /\ \A d \in Calls \ {c} : fetching'[d] = fetching[d]
       /\ fetching' \in Fates
  BY <1>0, <1>1 DEF TypeOK
<1>22. /\ \A ok, s \in BOOLEAN : Response(c, ok, s) \in Sent' => Response(c, ok, s) \in Sent
       /\ Abort(c) \in Sent' <=> Abort(c) \in Sent
       /\ End(rs) \in Sent' => End(rs) \in Sent
  BY <1>a, <1>11, <1>15, MessageFields, MessageKinds DEF h
<1>24. CallInv(c)'
  <2>1. Served(c)'
    BY <1>3, <1>4 DEF Served
  <2>2. Asked(c)'
    BY <1>3, <1>6, <1>8, <1>17, <1>21, <1>22 DEF CallInv, Asked
  <2>3. Answered(c)'
    BY <1>3, <1>6, <1>8, <1>19, <1>21, <1>22 DEF CallInv, Answered, rs
  <2>4. Aborted(c)'
    BY <1>3, <1>6, <1>8, <1>14, <1>19, <1>21, <1>22 DEF CallInv, Aborted, rs
  <2>5. RequestBody(c)'
    <3>1. End(rq) \notin Sent'
      BY <1>7, <1>18, InBody
    <3>. QED  BY <1>11, <1>18, <1>19, <3>1 DEF RequestBody, rq
  <2>6. AnswerBody(c)'
    BY <1>8, <1>19 DEF AnswerBody, rs, Live
  <2>. QED  BY <2>1, <2>2, <2>3, <2>4, <2>5, <2>6 DEF CallInv
<1>25. ListensWhileOpen'
  <2>1. \A d \in Signalled : d \in Calls
    BY CallsAssumption
  <2>2. \A d \in Calls : receiver'[ResponseBody(d)] = receiver[ResponseBody(d)]
    BY <1>0, <1>7, <1>18, BodiesOf, TypedParts DEF rq
  <2>. QED  BY <1>0, <1>3, <2>1, <2>2 DEF ListensWhileOpen, Alive
<1>26. Controllers' /\ inFlight' \subseteq Calls
  <2>1. inFlight = {d \in Calls :
      \/ fetching[d] = "running" /\ d \notin stopped
      \/ ~sender[ResponseBody(d)].done}
    BY <1>0, <1>4 DEF Controllers
  <2>2. \A d \in Calls : d \in inFlight' <=> \/ fetching'[d] = "running" /\ d \notin stopped'
                                            \/ ~sender'[ResponseBody(d)].done
    BY <1>1, <1>3, <1>8, <1>21, <2>1
  <2>3. inFlight' \subseteq Calls
    BY <1>1, <2>1
  <2>. QED  BY <2>2, <2>3 DEF Controllers
<1>27. TypeOK'
  BY <1>0, <1>3, <1>14, <1>19, <1>21, <1>26 DEF TypeOK
<1>28. PICK u \in SenderType : sender' = [sender EXCEPT ![rq] = u]
  BY <1>0, <1>3, <1>7, Untouched
<1>29. /\ \A d \in Calls \ {c} : /\ outcome'[d] = outcome[d] /\ fetching'[d] = fetching[d]
                                /\ (d \in entered' <=> d \in entered) /\ (d \in replied' <=> d \in replied)
       /\ \A m \in Sent' : m \in Sent \/ m \in OfCall(c)
       /\ \A m \in Sent : m \in Sent' \/ m \in OfCall(c)
       /\ UNCHANGED <<page, link, worker, aborted, stopped>>
  BY <1>3, <1>5, <1>11, <1>15, <1>21
<1>30. rq \in {Request(c), ResponseBody(c)}
  BY DEF rq
<1>31. \A d \in Calls \ {c} : Prior(toPage, Abort(d), End(Request(d)))
         => Prior(toPage, Abort(d), End(Request(d)))'
  BY <1>16
<1>32. /\ Body(ResponseBody(c), sender'[ResponseBody(c)], receiver'[ResponseBody(c)], Sent')
       /\ Body(Request(c), sender'[Request(c)], receiver'[Request(c)], Sent')
  BY <1>18, <1>19, <1>20 DEF rs, rq
<1>. QED  BY <1>14, <1>18, <1>24, <1>25, <1>26, <1>27, <1>28, <1>29, <1>30, <1>31, <1>32, CallMoves

\* the worker's fetch() resolves
LEMMA PreservedByFetchResolves ==
  ASSUME IInv, NEW c \in Calls, NEW hasBody \in BOOLEAN, FetchResolves(c, hasBody)
  PROVE  IInv'
<1>. DEFINE rq == Request(c) rs == ResponseBody(c)
<1>a. PICK ok \in BOOLEAN : ok = TRUE
  OBVIOUS
<1>. DEFINE h == Response(c, ok, hasBody)
<1>0. TypeOK /\ Ports /\ Connection /\ Controllers /\ ListensWhileOpen /\ CallInv(c)
  BY InvParts
<1>1. /\ fetching[c] = "running" /\ c \notin stopped
      /\ fetching' = [fetching EXCEPT ![c] = "resolved"]
      /\ replied' = replied \cup {c}
      /\ inFlight' = IF hasBody THEN inFlight ELSE inFlight \ {c}
      /\ sender' = IF hasBody THEN [sender EXCEPT ![rs] = Sender(Source[rs])] ELSE sender
      /\ PageSend(<<h>>)
  BY <1>a DEF FetchResolves
<1>2. UNCHANGED <<outcome, aborted, listening, failed, ready, link, outbox, entered, locked, toPage, page, worker,
           stopped, receiver>>
  BY DEF FetchResolves, PageIdle, swVars
<1>3. /\ rq \in Bodies /\ rs \in Bodies /\ rq # rs
      /\ sender[rq] \in SenderType /\ sender[rs] \in SenderType /\ receiver[rq] \in ReceiverType
      /\ receiver[rs] \in ReceiverType
      /\ Body(rq, sender[rq], receiver[rq], Sent) /\ Body(rs, sender[rs], receiver[rs], Sent)
  BY <1>0, BodiesOf, TypedParts, InvParts
<1>4. /\ sender[rs] = NoSender /\ receiver[rs].state = "none" /\ c \notin replied /\ page = "attached"
      /\ c \in entered
      /\ \A o, s \in BOOLEAN : Response(c, o, s) \notin Sent
      /\ \A s \in BOOLEAN : FetchMsg(c, s) \notin Sent
  <2>1. \A o, s \in BOOLEAN : Response(c, o, s) \in Sent => fetching[c] \in {"resolved", "rejected", "refused"}
    BY <1>0 DEF CallInv, Answered
  <2>. QED  BY <1>0, <1>1, <2>1 DEF CallInv, Answered, Served, Asked
<1>5. h \in ToSw /\ h.kind = "response" /\ h \in OfCall(c) /\ h # Ready /\ h # Failed /\ h # Disconnect
  <2>1. h \in ToSw
    BY DEF ToSw
  <2>2. h \in OfCall(c)
    BY InCall
  <2>. QED  BY <2>1, <2>2, MessageFields
<1>. HIDE DEF rq, rs
<1>6. /\ <<h>> \in Seq(ToSw) /\ ToSet(<<h>>) = {h} /\ InOrder(<<h>>, Order)
  BY <1>5, SingleOrder
<1>7. \A x \in ToSet(toSw) : <<x, h>> \in Order
  <2>1. ToSet(toSw) \subseteq Message /\ ToSet(toSw) \subseteq Sent
    BY <1>0, UpSent DEF Message
  <2>. QED  BY <1>4, <2>1, FitsResponse
<1>. HIDE DEF h
<1>8. PICK ms \in Seq(ToSw) :
    /\ ms = <<h>> /\ ToSet(ms) = {h} /\ InOrder(ms, Order) /\ PageSend(ms)
    /\ Ready \notin ToSet(ms) /\ Failed \notin ToSet(ms)
    /\ Disconnect \notin ToSet(ms)
    /\ \A x \in ToSet(toSw), y \in ToSet(ms) : <<x, y>> \in Order
  BY <1>1, <1>5, <1>6, <1>7
<1>9. Pops(toPage, toPage') /\ toPage' = toPage /\ UNCHANGED <<link, page, outbox>> /\ worker' = worker
  BY <1>2 DEF Pops
<1>10.
    /\ outbox' \in Seq(ToPage) /\ toPage' \in Seq(ToPage) /\ toSw' \in Seq(ToSw)
    /\ Ports' /\ Connection'
    /\ Sent' \subseteq Sent \cup ToSet(ms)
    /\ \A m \in Sent : m \in Sent' \/ (toPage' = Tail(toPage) /\ toPage # <<>> /\ m = Head(toPage))
    /\ (Lost' <=> Lost) /\ (Cut' <=> Cut)
  BY <1>0, <1>8, <1>9, PagePorts
<1>b. ToSet(toSw) \subseteq ToSet(toSw')
  <2>. HIDE DEF Order
  <2>. QED  BY <1>0, <1>8, PageSends
<1>11. Sent' \subseteq Sent \cup {h} /\ Sent \subseteq Sent'
  BY <1>2, <1>8, <1>10, <1>b DEF Sent
<1>12. \A d : Prior(toPage, Abort(d), End(Request(d))) => Prior(toPage', Abort(d), End(Request(d)))
  BY <1>2
<1>13. PICK u \in SenderType :
    /\ sender' = [sender EXCEPT ![rs] = u]
    /\ Body(rs, u, receiver[rs], Sent')
    /\ hasBody => u.left = Source[rs]
    /\ ~u.done <=> hasBody
  <2>1. \A m \in Sent' \cap About(rs) : m \in Sent
    BY <1>5, <1>11, AboutKinds DEF DataKinds
  <2>2. CASE hasBody
    <3>. DEFINE t == Sender(Source[rs])
    <3>1. t \in SenderType /\ t.left = Source[rs] /\ t.rest = <<>> /\ ~t.reading /\ ~t.done
      BY <1>3, PiecesType, EmptySeq DEF Sender, SenderType
    <3>. HIDE DEF t
    <3>2. Body(rs, t, receiver[rs], Sent')
      BY <1>3, <1>4, <2>1, <3>1, BodyStarts
    <3>. QED  BY <1>1, <2>2, <3>1, <3>2 DEF t
  <2>3. CASE ~hasBody
    <3>1. Body(rs, sender[rs], receiver[rs], Sent')
      BY <1>3, <2>1, BodyKept
    <3>2. sender' = [sender EXCEPT ![rs] = sender[rs]]
      BY <1>0, <1>1, <1>3, <2>3, Untouched
    <3>3. sender[rs].done
      BY <1>4 DEF NoSender, Sender
    <3>. QED  BY <1>3, <2>3, <3>1, <3>2, <3>3
  <2>. QED  BY <2>2, <2>3
<1>14. /\ sender'[rs] = u /\ sender'[rq] = sender[rq] /\ receiver' = receiver /\ DOMAIN sender' = Bodies
       /\ sender' \in [Bodies -> SenderType]
  BY <1>0, <1>2, <1>3, <1>13 DEF TypeOK
<1>15. Body(rq, sender'[rq], receiver'[rq], Sent')
  <2>1. \A m \in Sent' \cap About(rq) : m \in Sent
    BY <1>5, <1>11, AboutKinds DEF DataKinds
  <2>. QED  BY <1>3, <1>14, <2>1, BodyKept
<1>16. /\ fetching'[c] = "resolved" /\ c \in replied' /\ \A d \in Calls \ {c} : fetching'[d] = fetching[d]
       /\ fetching' \in Fates
  BY <1>0, <1>1 DEF TypeOK
<1>17. CallInv(c)'
  <2>0. /\ \A s \in BOOLEAN : FetchMsg(c, s) \notin Sent'
        /\ Abort(c) \in Sent' <=> Abort(c) \in Sent
        /\ End(rq) \in Sent' <=> End(rq) \in Sent
    BY <1>4, <1>5, <1>11, MessageFields, MessageKinds
  <2>1. Served(c)'
    BY <1>0, <1>2, <1>4, <1>16 DEF CallInv, Served
  <2>2. Asked(c)'
    BY <1>0, <1>1, <1>2, <1>4, <1>14, <1>16, <2>0 DEF CallInv, Asked, rq
  <2>3. Answered(c)'
    <3>1. ASSUME NEW o \in BOOLEAN, NEW s \in BOOLEAN, Response(c, o, s) \in Sent'
          PROVE  o /\ (s => hasBody)
      <4>1. Response(c, o, s) = h
        BY <1>4, <1>11, <3>1
      <4>2. Response(c, o, s).ok = o /\ Response(c, o, s).hasBody = s /\ h.ok = ok /\ h.hasBody = hasBody
        BY MessageFields DEF h
      <4>. QED  BY <1>a, <4>1, <4>2
    <3>2. receiver'[rs].state = "none"
      BY <1>2, <1>4
    <3>. QED  BY <1>13, <1>14, <1>16, <3>1, <3>2 DEF Answered, rs
  <2>4. Aborted(c)'
    BY <1>0, <1>2, <1>16, <2>0 DEF CallInv, Aborted
  <2>5. RequestBody(c)'
    BY <1>0, <1>2, <1>10, <1>14, <2>0 DEF CallInv, RequestBody, rq
  <2>6. AnswerBody(c)'
    BY <1>2, <1>4 DEF AnswerBody, rs, Live
  <2>. QED  BY <2>1, <2>2, <2>3, <2>4, <2>5, <2>6 DEF CallInv
<1>18. ListensWhileOpen'
  BY <1>0, <1>2 DEF ListensWhileOpen, Alive
<1>19. Controllers' /\ inFlight' \subseteq Calls
  <2>1. inFlight = {d \in Calls :
      \/ fetching[d] = "running" /\ d \notin stopped
      \/ ~sender[ResponseBody(d)].done}
    BY <1>0, <1>4 DEF Controllers
  <2>2. \A d \in Calls \ {c} : sender'[ResponseBody(d)] = sender[ResponseBody(d)]
    BY <1>0, <1>3, <1>13, BodiesOf, TypedParts DEF rs
  <2>3. \A d \in Calls \ {c} : d \in inFlight' <=> \/ fetching'[d] = "running" /\ d \notin stopped'
                                                  \/ ~sender'[ResponseBody(d)].done
    BY <1>1, <1>2, <1>16, <2>1, <2>2
  <2>4. c \in inFlight' <=>
      \/ fetching'[c] = "running" /\ c \notin stopped'
      \/ ~sender'[ResponseBody(c)].done
    <3>1. c \in inFlight' <=> hasBody
      BY <1>1, <2>1
    <3>. QED  BY <1>13, <1>14, <1>16, <3>1 DEF rs
  <2>5. inFlight' \subseteq Calls
    BY <1>1, <2>1
  <2>. QED  BY <2>3, <2>4, <2>5 DEF Controllers
<1>20. TypeOK'
  <2>1. replied' \subseteq Calls
    BY <1>0, <1>1 DEF TypeOK
  <2>. QED  BY <1>0, <1>2, <1>10, <1>14, <1>16, <1>19, <2>1 DEF TypeOK
<1>21. PICK r \in ReceiverType : receiver' = [receiver EXCEPT ![rq] = r]
  BY <1>0, <1>2, <1>3, Untouched
<1>22. /\ \A d \in Calls \ {c} : /\ outcome'[d] = outcome[d] /\ fetching'[d] = fetching[d]
                                /\ (d \in entered' <=> d \in entered) /\ (d \in replied' <=> d \in replied)
       /\ \A m \in Sent' : m \in Sent \/ m \in OfCall(c)
       /\ \A m \in Sent : m \in Sent' \/ m \in OfCall(c)
       /\ UNCHANGED <<page, link, worker, aborted, stopped>>
  BY <1>1, <1>2, <1>5, <1>11, <1>16
<1>23. rq \in {Request(c), ResponseBody(c)} /\ rs \in {Request(c), ResponseBody(c)}
  BY DEF rq, rs
<1>24. \A d \in Calls \ {c} : Prior(toPage, Abort(d), End(Request(d)))
         => Prior(toPage, Abort(d), End(Request(d)))'
  BY <1>12
<1>25. /\ Body(Request(c), sender'[Request(c)], receiver'[Request(c)], Sent')
       /\ Body(ResponseBody(c), sender'[ResponseBody(c)], receiver'[ResponseBody(c)], Sent')
  BY <1>13, <1>14, <1>15 DEF rs, rq
<1>. QED  BY <1>10, <1>13, <1>17, <1>18, <1>19, <1>20, <1>21, <1>22, <1>23, <1>24, <1>25, CallMoves

\* the invariant holds at first
LEMMA InitInv == Init => IInv /\ FreshCalls
<1>. SUFFICES ASSUME Init PROVE IInv /\ FreshCalls
  OBVIOUS
<1>. USE DEF Init
<1>1. /\ NoSender \in SenderType /\ NoReceiver \in ReceiverType /\ NoSender.done /\ ~Live(NoReceiver)
      /\ NoReceiver.state = "none"
  BY EmptySeq DEF NoSender, Sender, NoReceiver, SenderType, ReceiverType, Live
<1>2. \A c \in Calls :
    /\ sender[Request(c)] = NoSender /\ sender[ResponseBody(c)] = NoSender
    /\ receiver[Request(c)] = NoReceiver /\ receiver[ResponseBody(c)] = NoReceiver
  BY BodiesOf
<1>3. Sent = {}
  BY OneMember DEF Sent
<1>4. <<>> \in Seq(ToPage) /\ <<>> \in Seq(ToSw)
  BY EmptySeq
<1>5. TypeOK
  BY <1>1, <1>4 DEF TypeOK
<1>6. Ports
  <2>1. InOrder(<<>>, Order)
    BY EmptyOut
  <2>. QED  BY <2>1 DEF Ports
<1>7. Connection
  BY <1>3, OneMember DEF Connection, Cut
<1>8. \A c \in Calls : Served(c) /\ Asked(c) /\ Answered(c) /\ Aborted(c) /\ RequestBody(c) /\ AnswerBody(c)
  BY <1>1, <1>2, <1>3 DEF Served, Asked, Answered, Aborted, RequestBody, AnswerBody
<1>9. ASSUME NEW b \in Bodies
      PROVE  Body(b, sender[b], receiver[b], Sent)
  <2>1. sender[b] = NoSender /\ receiver[b] = NoReceiver
    OBVIOUS
  <2>2. /\ ~NoSender.reading /\ NoSender.rest = <<>> /\ NoReceiver.queue = <<>> /\ NoReceiver.got = <<>>
        /\ ~NoReceiver.waiting
    BY DEF NoSender, Sender, NoReceiver
  <2>3. Pieces(b) \in Seq(Piece) /\ <<>> \in Seq(Piece) /\ <<>> \o <<>> = <<>> /\ Len(<<>>) = 0
    BY PiecesType, EmptySeq, ConcatEmptySeq
  <2>4. IsPrefix(<<>>, Pieces(b))
    <3>1. <<>> \o Pieces(b) = Pieces(b)
      BY <2>3, ConcatEmptySeq
    <3>. QED  BY <2>3, <3>1, PrefixOfConcat
  <2>5. Taken(NoReceiver) = <<>>
    BY <2>2, <2>3 DEF Taken
  <2>. QED  BY <1>1, <1>3, <2>1, <2>2, <2>3, <2>4, <2>5 DEF Body
<1>10. ListensWhileOpen
  <2>1. \A c \in Signalled : c \in Calls
    BY CallsAssumption
  <2>. QED  BY <1>1, <1>2, <2>1 DEF ListensWhileOpen
<1>11. Controllers
  BY <1>1, <1>2 DEF Controllers
<1>12. FreshCalls
  BY DEF FreshCalls
<1>. QED  BY <1>5, <1>6, <1>7, <1>8, <1>9, <1>10, <1>11, <1>12 DEF IInv

\* what keeps FreshCalls
LEMMA FreshStays ==
  ASSUME FreshCalls, \A c \in Calls : outcome'[c] = "idle"
           => outcome[c] = "idle" /\ (c \in aborted' => c \in aborted)
  PROVE  FreshCalls'
BY DEF FreshCalls

\* a message the service worker handles keeps the invariant
LEMMA SwReceivePreserves ==
  ASSUME IInv, FreshCalls, SwReceive
  PROVE  IInv' /\ FreshCalls'
<1>. DEFINE h == Head(toSw)
<1>0. TypeOK
  BY DEF IInv
<1>1. link = "up" /\ toSw # <<>> /\ toSw' = Tail(toSw) /\ UNCHANGED <<aborted, entered, locked, pageVars>>
  BY DEF SwReceive
<1>2. \/ OnReady(h) \/ OnFailed(h) \/ OnDisconnect(h) \/ OnResponse(h) \/ OnErrorResponse(h)
           \/ OnLateResponse(h)
      \/ SwOnSenderMessage(h) \/ SwOnReceiverMessage(h)
  BY DEF SwReceive
<1>3. IInv'
  <2>1. CASE OnReady(h)
    BY <1>1, <2>1, PreservedByOnReady
  <2>2. CASE OnFailed(h)
    BY <1>1, <2>2, PreservedByOnFailed
  <2>3. CASE OnDisconnect(h)
    BY <1>1, <2>3, PreservedByOnDisconnect
  <2>4. CASE OnResponse(h)
    BY <1>1, <2>4, PreservedByOnResponse
  <2>5. CASE OnErrorResponse(h)
    BY <1>1, <2>5, PreservedByOnErrorResponse
  <2>6. CASE OnLateResponse(h)
    BY <1>1, <2>6, PreservedByOnLateResponse
  <2>7. CASE SwOnSenderMessage(h)
    BY <1>1, <2>7, PreservedBySwOnSenderMessage
  <2>8. CASE SwOnReceiverMessage(h)
    BY <1>1, <2>8, PreservedBySwOnReceiverMessage
  <2>. QED  BY <1>2, <2>1, <2>2, <2>3, <2>4, <2>5, <2>6, <2>7, <2>8
<1>4. outcome' = outcome \/ (\E c : outcome' = [outcome EXCEPT ![c] = "resolved"])
        \/ (\E c : outcome' = [outcome EXCEPT ![c] = "rejected"])
      \/ outcome' = [c \in Calls |-> IF outcome[c] = "pending" THEN "rejected" ELSE outcome[c]]
  <2>1. OnReady(h) \/ OnLateResponse(h) \/ SwOnSenderMessage(h) \/ SwOnReceiverMessage(h)
          => outcome' = outcome
    BY DEF OnReady, OnLateResponse, SwOnSenderMessage, SwOnReceiverMessage
  <2>2. OnResponse(h) => \E c : outcome' = [outcome EXCEPT ![c] = "resolved"]
    BY DEF OnResponse
  <2>3. OnErrorResponse(h) => \E c : outcome' = [outcome EXCEPT ![c] = "rejected"]
    BY DEF OnErrorResponse
  <2>4. OnFailed(h) \/ OnDisconnect(h) =>
          \/ outcome' = outcome
          \/ outcome' = [c \in Calls |-> IF outcome[c] = "pending" THEN "rejected" ELSE outcome[c]]
    BY DEF OnFailed, OnDisconnect, Fail
  <2>. QED  BY <1>2, <2>1, <2>2, <2>3, <2>4
<1>5. \A c \in Calls : outcome'[c] = "idle" => outcome[c] = "idle"
  BY <1>0, <1>4 DEF TypeOK
<1>. QED  BY <1>1, <1>3, <1>5, FreshStays

\* a message the document serves keeps the invariant
LEMMA ServePreserves ==
  ASSUME IInv, toPage # <<>>, toPage' = Tail(toPage), UNCHANGED <<swVars, worker, replied>>,
         Serve(Head(toPage))
  PROVE  IInv'
<1>. DEFINE h == Head(toPage)
<1>1. /\ page \in {"none", "attached"} /\ toPage # <<>> /\ toPage' = Tail(toPage)
      /\ UNCHANGED <<swVars, worker, replied>>
  BY DEF Serve
<1>2. OnBoot(h) \/ OnFetch(h) \/ OnAbort(h) \/ OnDetach(h) \/ PageOnSenderMessage(h)
        \/ PageOnReceiverMessage(h)
  BY DEF Serve
<1>3. CASE OnBoot(h)
  BY <1>1, <1>3, PreservedByOnBoot
<1>4. CASE OnFetch(h)
  BY <1>1, <1>4, PreservedByOnFetch
<1>5. CASE OnAbort(h)
  BY <1>1, <1>5, PreservedByOnAbort
<1>6. CASE OnDetach(h)
  BY <1>1, <1>6, PreservedByOnDetach
<1>7. CASE PageOnSenderMessage(h)
  BY <1>1, <1>7, PreservedByPageOnSenderMessage
<1>8. CASE PageOnReceiverMessage(h)
  BY <1>1, <1>8, PreservedByPageOnReceiverMessage
<1>. QED  BY <1>2, <1>3, <1>4, <1>5, <1>6, <1>7, <1>8

\* A message that a detached connection drops, a fetch refused, keeps the
\* invariant.
LEMMA Dropped ==
  ASSUME
    IInv, page = "detached", toPage # <<>>, toPage' = Tail(toPage),
    UNCHANGED <<swVars, page, worker, stopped, inFlight, replied, sender, receiver>>,
    fetching' \in Fates,
    \A c \in Calls :
      \/ fetching'[c] = fetching[c]
      \/ fetching[c] = "none" /\ fetching'[c] = "refused" /\ c \in entered,
    toSw' \in Seq(ToSw), InOrder(toSw', Order),
    \A m \in ToSet(toSw') : m \in ToSet(toSw) \/ m.kind = "response",
    \A c \in Calls, s \in BOOLEAN : FetchMsg(c, s) \in ToSet(toPage') => fetching'[c] = "none",
    \A c \in Calls, ok, s \in BOOLEAN : Response(c, ok, s) \in ToSet(toSw') =>
      Response(c, ok, s) \in ToSet(toSw) \/ (~ok /\ ~s /\ fetching'[c] = "refused")
  PROVE  IInv'
<1>0. /\ TypeOK /\ Ports /\ Connection /\ ListensWhileOpen /\ \A c \in Calls : CallInv(c)
      /\ \A b \in Bodies : Body(b, sender[b], receiver[b], Sent)
  BY InvParts
<1>1. /\ UNCHANGED <<outcome, aborted, listening, failed, ready, link, outbox, entered, locked>>
      /\ UNCHANGED <<page, worker, stopped, inFlight, replied, sender, receiver>> /\ Lost /\ Lost'
  BY DEF swVars, Lost
<1>2. toPage' \in Seq(ToPage) /\ InOrder(toPage', Order) /\ ToSet(toPage') \subseteq ToSet(toPage)
  BY <1>0, TailOrder DEF TypeOK, Ports
<1>3. outbox = <<>> /\ link # "none" /\ ToSet(outbox) = {}
  BY <1>0, OneMember DEF Connection
<1>4. \A m \in Sent' : m \in Sent \/ (m \in ToSet(toSw') /\ m.kind = "response")
  BY <1>1, <1>2 DEF Sent
<1>5. Ports' /\ TypeOK'
  BY <1>0, <1>1, <1>2 DEF Ports, TypeOK
<1>6. Connection'
  <2>1. \A m \in {Boot, Ready, Failed} : m \in Sent' => m \in Sent
    BY <1>4, MessageFields
  <2>2. Disconnect \in ToSet(toSw') => Disconnect \in ToSet(toSw)
    BY MessageFields
  <2>. QED  BY <1>0, <1>1, <1>2, <1>3, <2>1, <2>2 DEF Connection, Cut
<1>7. ASSUME NEW c \in Calls
      PROVE
        /\ Abort(c) \in Sent' => Abort(c) \in Sent
        /\ End(Request(c)) \in Sent' => End(Request(c)) \in Sent
        /\ End(ResponseBody(c)) \in Sent' => End(ResponseBody(c)) \in Sent
        /\ \A s \in BOOLEAN : FetchMsg(c, s) \in Sent' => FetchMsg(c, s) \in Sent
        /\ \A s \in BOOLEAN : FetchMsg(c, s) \in Sent' => fetching'[c] = "none"
        /\ \A ok, s \in BOOLEAN : Response(c, ok, s) \in Sent' =>
             Response(c, ok, s) \in Sent \/ (~ok /\ ~s /\ fetching'[c] = "refused")
  <2>1. /\ Abort(c) \in Sent' => Abort(c) \in Sent
        /\ End(Request(c)) \in Sent' => End(Request(c)) \in Sent
        /\ End(ResponseBody(c)) \in Sent' => End(ResponseBody(c)) \in Sent
        /\ \A s \in BOOLEAN : FetchMsg(c, s) \in Sent' => FetchMsg(c, s) \in Sent
    BY <1>4, MessageFields, MessageKinds
  <2>2. \A s \in BOOLEAN : FetchMsg(c, s) \in Sent' => FetchMsg(c, s) \in ToSet(toPage')
    <3>1. ToSet(toSw') \subseteq ToSw /\ \A s \in BOOLEAN : FetchMsg(c, s) \notin ToSw
      BY Directions, ToSetIn
    <3>. QED  BY <1>1, <1>3, <3>1 DEF Sent
  <2>3. \A ok, s \in BOOLEAN : Response(c, ok, s) \in Sent' => Response(c, ok, s) \in ToSet(toSw')
    <3>1. ToSet(toPage') \subseteq ToPage /\ \A ok, s \in BOOLEAN : Response(c, ok, s) \notin ToPage
      BY <1>2, Directions, ToSetIn
    <3>. QED  BY <1>1, <1>3, <3>1 DEF Sent
  <2>. QED  BY <2>1, <2>2, <2>3 DEF Sent
<1>8. ASSUME NEW c \in Calls
      PROVE  CallInv(c)'
  <2>0. Served(c) /\ Asked(c) /\ Answered(c) /\ Aborted(c) /\ RequestBody(c) /\ AnswerBody(c)
    BY <1>0 DEF CallInv
  <2>1. Served(c)'
    BY <1>1, <2>0 DEF Served
  <2>2. Asked(c)'
    <3>1. \A s \in BOOLEAN : FetchMsg(c, s) \in Sent' =>
            c \in entered' /\ fetching'[c] = "none" /\ (s => sender'[Request(c)].left = Source[Request(c)])
      BY <1>1, <1>7, <2>0 DEF Asked
    <3>. QED  BY <1>1, <1>7, <2>0, <3>1 DEF Asked, Live
  <2>3. Answered(c)'
    <3>1. fetching'[c] # "resolved" => fetching[c] # "resolved"
      OBVIOUS
    <3>2. ASSUME NEW ok \in BOOLEAN, NEW s \in BOOLEAN, Response(c, ok, s) \in Sent'
          PROVE  /\ receiver'[ResponseBody(c)].state = "none"
                 /\ fetching'[c] \in IF ok THEN {"resolved"} ELSE {"rejected", "refused"}
                 /\ ok => c \in replied'
                 /\ s => sender'[ResponseBody(c)].left = Source[ResponseBody(c)]
      <4>1. CASE Response(c, ok, s) \in Sent
        BY <1>1, <2>0, <4>1 DEF Answered
      <4>2. CASE ~ok /\ ~s /\ fetching'[c] = "refused"
        BY <1>1, <2>0, <3>1, <4>2 DEF Answered
      <4>. QED  BY <1>7, <3>2, <4>1, <4>2
    <3>. QED  BY <1>1, <2>0, <3>1, <3>2 DEF Answered
  <2>4. Aborted(c)'
    BY <1>1, <1>7, <2>0 DEF Aborted
  <2>5. RequestBody(c)'
    BY <1>1, <1>7, <2>0 DEF RequestBody, Served
  <2>6. AnswerBody(c)'
    BY <1>1, <1>7, <2>0 DEF AnswerBody
  <2>. QED  BY <2>1, <2>2, <2>3, <2>4, <2>5, <2>6 DEF CallInv
<1>9. ASSUME NEW b \in Bodies
      PROVE  Body(b, sender'[b], receiver'[b], Sent')
  <2>1. \A m \in Sent' \cap About(b) : m \in Sent
    BY <1>4, AboutKinds DEF DataKinds
  <2>. QED  BY <1>0, <1>1, <2>1, TypedParts, BodyKept
<1>10. ListensWhileOpen' /\ Controllers'
  BY <1>0, <1>1 DEF ListensWhileOpen, Alive, Controllers
<1>. QED  BY <1>5, <1>6, <1>8, <1>9, <1>10 DEF IInv, CallInv

\* a message to a connection that has nothing booted keeps the invariant
LEMMA PreservedByOnUnbooted ==
  ASSUME IInv, toPage # <<>>, toPage' = Tail(toPage), UNCHANGED <<swVars, worker, replied>>,
         OnUnbooted(Head(toPage))
  PROVE  IInv'
<1>. DEFINE h == Head(toPage)
<1>0. TypeOK /\ Ports /\ toSw \in Seq(ToSw) /\ InOrder(toSw, Order) /\ \A c \in Calls : CallInv(c)
  BY InvParts DEF TypeOK, Ports
<1>1. /\ page = "detached" /\ UNCHANGED <<page, stopped, inFlight, sender, receiver>>
      /\ h.kind # "fetch" => UNCHANGED <<fetching, toSw>>
      /\ h.kind = "fetch" => fetching' = [fetching EXCEPT ![h.call] = "refused"]
      /\ h.kind = "fetch" => toSw' = toSw \/ toSw' = Append(toSw, Rejection(h.call))
  BY DEF OnUnbooted, Rejection
<1>2. fetching \in Fates
  BY <1>0 DEF TypeOK
<1>3. /\ h \in Message /\ h \in Sent /\ \A y \in ToSet(toPage') : ~Rivals(h, y)
      /\ ToSet(toPage') \subseteq ToSet(toPage) /\ ToSet(toPage) \subseteq Sent
  <2>1. toPage \in Seq(ToPage) /\ InOrder(toPage, Order) /\ ToPage \in SUBSET Message
    BY <1>0 DEF TypeOK, Ports, Message
  <2>2. h \in ToPage /\ \A y \in ToSet(toPage') : ~Rivals(h, y)
    BY <2>1, Popped
  <2>3. ToSet(toPage) = ToSet(toPage') \cup {h}
    BY <2>1, TailOrder
  <2>. QED  BY <2>1, <2>2, <2>3 DEF Sent
<1>4. \A c \in Calls, s \in BOOLEAN : FetchMsg(c, s) \in ToSet(toPage') => fetching[c] = "none"
  BY <1>0, <1>3 DEF CallInv, Asked
<1>. HIDE DEF h
<1>5. CASE h.kind # "fetch"
  <2>1. UNCHANGED <<fetching, toSw>>
    BY <1>1, <1>5
  <2>. QED  BY <1>0, <1>1, <1>2, <1>4, <2>1, Dropped
<1>6. CASE h.kind = "fetch"
  <2>1. h.call \in Calls /\ h.bodyStream \in BOOLEAN /\ h = FetchMsg(h.call, h.bodyStream)
    BY <1>3, <1>6, KindIs
  <2>2. PICK c \in Calls, s0 \in BOOLEAN : c = h.call /\ h = FetchMsg(c, s0)
    BY <2>1
  <2>3. c \in entered /\ fetching[c] = "none" /\ \A ok, s \in BOOLEAN : Response(c, ok, s) \notin Sent
    <3>1. c \in entered /\ fetching[c] = "none"
      BY <1>0, <1>3, <2>2 DEF CallInv, Asked
    <3>2. \A ok, s \in BOOLEAN : Response(c, ok, s) \in Sent
            => fetching[c] \in {"resolved", "rejected", "refused"}
      BY <1>0 DEF CallInv, Answered
    <3>. QED  BY <3>1, <3>2
  <2>4. fetching' = [fetching EXCEPT ![c] = "refused"]
    BY <1>1, <1>6, <2>2
  <2>5. \A d \in Calls : fetching'[d] = IF d = c THEN "refused" ELSE fetching[d]
    BY <1>2, <2>4
  <2>6. \A d \in Calls, s \in BOOLEAN : FetchMsg(d, s) \in ToSet(toPage') => d # c
    BY <1>3, <1>6, <2>2, MessageFields DEF Rivals
  <2>7. /\ toSw' \in Seq(ToSw) /\ InOrder(toSw', Order)
        /\ ToSet(toSw') \subseteq ToSet(toSw) \cup {Rejection(c)}
    <3>. DEFINE r == Rejection(c)
    <3>1. r \in ToSw
      BY RejectionTyped
    <3>2. <<r>> \in Seq(ToSw) /\ ToSet(<<r>>) = {r} /\ InOrder(<<r>>, Order)
      BY <3>1, SingleOrder
    <3>3. \A x \in ToSet(toSw) : <<x, r>> \in Order
      <4>1. ToSet(toSw) \subseteq Message /\ ToSet(toSw) \subseteq Sent
        BY <1>0, UpSent DEF Message
      <4>. QED  BY <2>3, <4>1, FitsResponse DEF Rejection
    <3>. HIDE DEF r
    <3>4. /\ toSw \o <<r>> \in Seq(ToSw) /\ ToSet(toSw \o <<r>>) = ToSet(toSw) \cup {r}
          /\ InOrder(toSw \o <<r>>, Order)
      <4>1. toSw \in Seq(ToSw) /\ InOrder(toSw, Order)
        BY <1>0
      <4>2. PICK q : q = <<r>>
        OBVIOUS
      <4>3. /\ q \in Seq(ToSw) /\ ToSet(q) = {r} /\ InOrder(q, Order)
            /\ \A x \in ToSet(toSw), y \in ToSet(q) : <<x, y>> \in Order
        BY <3>2, <3>3, <4>2
      <4>. HIDE DEF Order
      <4>4. toSw \o q \in Seq(ToSw) /\ ToSet(toSw \o q) = ToSet(toSw) \cup {r} /\ InOrder(toSw \o q, Order)
        BY <4>1, <4>3, ConcatOrder
      <4>. QED  BY <4>2, <4>4
    <3>5. Append(toSw, r) = toSw \o <<r>>
      BY <1>0, <3>1, AppendIsConcat
    <3>6. toSw' = toSw \/ toSw' = toSw \o <<r>>
      BY <1>1, <1>6, <2>2, <3>5 DEF r
    <3>. QED  BY <1>0, <3>4, <3>6 DEF r
  <2>8. \A m \in ToSet(toSw') : m \in ToSet(toSw) \/ m.kind = "response"
    BY <2>7, ErrorFields
  <2>9. \A d \in Calls, s \in BOOLEAN : FetchMsg(d, s) \in ToSet(toPage') => fetching'[d] = "none"
    BY <1>4, <2>5, <2>6
  <2>10. ASSUME NEW d \in Calls, NEW ok \in BOOLEAN, NEW s \in BOOLEAN, Response(d, ok, s) \in ToSet(toSw')
         PROVE  Response(d, ok, s) \in ToSet(toSw) \/ (~ok /\ ~s /\ fetching'[d] = "refused")
    <3>1. CASE Response(d, ok, s) \in ToSet(toSw)
      BY <3>1
    <3>2. CASE Response(d, ok, s) = Rejection(c)
      <4>1. d = c /\ ok = FALSE /\ s = FALSE
        BY <3>2 DEF Rejection, Response
      <4>. QED  BY <2>5, <4>1
    <3>. QED  BY <2>7, <2>10, <3>1, <3>2
  <2>11. fetching' \in Fates
    BY <1>2, <2>4
  <2>12. \A d \in Calls :
           fetching'[d] = fetching[d] \/ (fetching[d] = "none" /\ fetching'[d] = "refused" /\ d \in entered)
    BY <2>3, <2>5
  <2>. QED  BY <1>1, <2>7, <2>8, <2>9, <2>10, <2>11, <2>12, Dropped
<1>. QED  BY <1>5, <1>6

\* a message the document handles keeps the invariant
LEMMA PageReceivePreserves ==
  ASSUME IInv, PageReceive
  PROVE  IInv'
<1>1. /\ toPage # <<>> /\ toPage' = Tail(toPage) /\ UNCHANGED <<swVars, worker, replied>>
      /\ Serve(Head(toPage)) \/ OnUnbooted(Head(toPage))
  BY DEF PageReceive
<1>. QED  BY <1>1, ServePreserves, PreservedByOnUnbooted

\* a step of the service worker keeps the invariant
LEMMA SwStepPreserves ==
  ASSUME IInv, FreshCalls, SwStep
  PROVE  IInv' /\ FreshCalls'
<1>0. TypeOK /\ ListensWhileOpen /\ \A c \in Calls : Answered(c)
  BY DEF IInv
<1>1. ASSUME NEW c \in Calls, FetchRefused(c)
      PROVE  IInv' /\ FreshCalls'
  <2>1. \A d \in Calls : outcome'[d] = "idle" => outcome[d] = "idle" /\ (d \in aborted' => d \in aborted)
    BY <1>0, <1>1 DEF FetchRefused, TypeOK
  <2>. QED  BY <1>1, <2>1, PreservedByFetchRefused, FreshStays
<1>2. ASSUME NEW c \in Calls, FetchStreamed(c)
      PROVE  IInv' /\ FreshCalls'
  <2>1. \A d \in Calls : outcome'[d] = "idle" => outcome[d] = "idle" /\ (d \in aborted' => d \in aborted)
    BY <1>0, <1>2 DEF FetchStreamed, Enter, TypeOK
  <2>. QED  BY <1>2, <2>1, PreservedByFetchStreamed, FreshStays
<1>3. ASSUME NEW c \in Calls, Fetch(c)
      PROVE  IInv' /\ FreshCalls'
  <2>1. \A d \in Calls : outcome'[d] = "idle" => outcome[d] = "idle" /\ (d \in aborted' => d \in aborted)
    BY <1>0, <1>3 DEF Fetch, TypeOK
  <2>. QED  BY <1>3, <2>1, PreservedByFetch, FreshStays
<1>4. ASSUME NEW c \in Calls, Register(c)
      PROVE  IInv' /\ FreshCalls'
  <2>1. \A d \in Calls : outcome'[d] = "idle" => outcome[d] = "idle" /\ (d \in aborted' => d \in aborted)
    BY <1>0, <1>4 DEF Register, Enter, TypeOK
  <2>. QED  BY <1>4, <2>1, PreservedByRegister, FreshStays
<1>5. ASSUME NEW c \in Calls, RegisterRefused(c)
      PROVE  IInv' /\ FreshCalls'
  <2>1. \A d \in Calls : outcome'[d] = "idle" => outcome[d] = "idle" /\ (d \in aborted' => d \in aborted)
    BY <1>0, <1>5 DEF RegisterRefused, TypeOK
  <2>. QED  BY <1>5, <2>1, PreservedByRegisterRefused, FreshStays
<1>6. ASSUME NEW c \in Calls, AbortEarly(c)
      PROVE  IInv' /\ FreshCalls'
  <2>1. \A d \in Calls : outcome'[d] = "idle" => outcome[d] = "idle" /\ (d \in aborted' => d \in aborted)
    BY <1>0, <1>6 DEF AbortEarly, TypeOK
  <2>. QED  BY <1>6, <2>1, PreservedByAbortEarly, FreshStays
<1>7. ASSUME NEW c \in Calls, HostAbort(c)
      PROVE  IInv' /\ FreshCalls'
  <2>1. Alive /\ c \in listening /\ aborted' = aborted \cup {c}
        /\ outcome' = [outcome EXCEPT ![c] = IF @ = "pending" THEN "rejected" ELSE @]
    BY <1>7 DEF HostAbort
  <2>2. outcome[c] # "idle"
    BY <1>0, <2>1 DEF ListensWhileOpen, Answered, Live
  <2>3. \A d \in Calls : outcome'[d] = "idle" => outcome[d] = "idle" /\ (d \in aborted' => d \in aborted)
    BY <1>0, <2>1, <2>2 DEF TypeOK
  <2>. QED  BY <1>7, <2>3, PreservedByHostAbort, FreshStays
<1>8. ASSUME NEW c \in Calls, SwSource(c) \/ HostReads(c) \/ HostCancels(c)
      PROVE  IInv' /\ FreshCalls'
  <2>1. IInv'
    BY <1>8, PreservedBySwSource, PreservedByHostReads, PreservedByHostCancels
  <2>2. outcome' = outcome /\ aborted' = aborted
    BY <1>8 DEF SwSource, HostReads, HostCancels
  <2>. QED  BY <2>1, <2>2 DEF FreshCalls
<1>9. CASE Connect
  <2>1. outcome' = outcome /\ aborted' = aborted
    BY <1>9 DEF Connect
  <2>. QED  BY <1>9, <2>1, PreservedByConnect DEF FreshCalls
<1>10. CASE BootFails \/ Close
  <2>1. IInv'
    BY <1>10, PreservedByBootFails, PreservedByClose
  <2>2. Fail /\ aborted' = aborted
    BY <1>10 DEF BootFails, Close
  <2>3. outcome' = outcome \/ outcome' = [c \in Calls |-> IF outcome[c] = "pending" THEN "rejected"
            ELSE outcome[c]]
    BY <2>2 DEF Fail
  <2>4. \A c \in Calls : outcome'[c] = "idle" => outcome[c] = "idle" /\ (c \in aborted' => c \in aborted)
    BY <2>2, <2>3
  <2>. QED  BY <2>1, <2>4, FreshStays
<1>11. CASE SwKilled
  <2>1. outcome' = outcome /\ aborted' = aborted
    BY <1>11 DEF SwKilled
  <2>. QED  BY <1>11, <2>1, PreservedBySwKilled DEF FreshCalls
<1>12. CASE SwReceive
  BY <1>12, SwReceivePreserves
<1>. QED  BY <1>1, <1>2, <1>3, <1>4, <1>5, <1>6, <1>7, <1>8, <1>9, <1>10, <1>11, <1>12 DEF SwStep

\* a step of the document keeps the invariant
LEMMA PageStepPreserves ==
  ASSUME IInv, FreshCalls, PageStep
  PROVE  IInv' /\ FreshCalls'
<1>1. ASSUME NEW c \in Calls, FetchResolves(c, TRUE) \/ FetchResolves(c, FALSE)
      PROVE  IInv'
  <2>1. PICK b \in BOOLEAN : FetchResolves(c, b)
    BY <1>1
  <2>. QED  BY <2>1, PreservedByFetchResolves
<1>2. ASSUME NEW c \in Calls, FetchRejects(c) \/ PageSource(c) \/ WorkerReads(c) \/ WorkerCancels(c)
      PROVE  IInv'
  BY <1>2, PreservedByFetchRejects, PreservedByPageSource, PreservedByWorkerReads, PreservedByWorkerCancels
<1>3. WorkerReady \/ WorkerFails \/ PageReceive \/ PageGone => IInv'
  <2>1. WorkerReady => IInv'
    BY PreservedByWorkerReady
  <2>2. WorkerFails => IInv'
    BY PreservedByWorkerFails
  <2>3. PageReceive => IInv'
    BY PageReceivePreserves
  <2>4. PageGone => IInv'
    BY PreservedByPageGone
  <2>. QED  BY <2>1, <2>2, <2>3, <2>4
<1>4. UNCHANGED <<outcome, aborted>>
  <2>1. UNCHANGED swVars
    <3>1. ASSUME NEW c \in Calls,
                 \/ FetchResolves(c, TRUE) \/ FetchResolves(c, FALSE) \/ FetchRejects(c)
                 \/ PageSource(c) \/ WorkerReads(c) \/ WorkerCancels(c)
          PROVE  UNCHANGED swVars
      BY <3>1 DEF FetchResolves, FetchRejects, PageSource, WorkerReads, WorkerCancels, PageIdle
    <3>2. WorkerReady \/ WorkerFails \/ PageReceive \/ PageGone => UNCHANGED swVars
      BY DEF WorkerReady, WorkerFails, PageReceive, PageGone, PageIdle
    <3>. QED  BY <3>1, <3>2 DEF PageStep
  <2>. QED  BY <2>1 DEF swVars
<1>5. FreshCalls'
  BY <1>4 DEF FreshCalls
<1>. QED  BY <1>1, <1>2, <1>3, <1>5 DEF PageStep

\* every step keeps the invariant
LEMMA NextInv ==
  ASSUME IInv, FreshCalls, [Next]_vars
  PROVE  IInv' /\ FreshCalls'
<1>1. CASE SwStep
  BY <1>1, SwStepPreserves
<1>2. CASE PageStep
  BY <1>2, PageStepPreserves
<1>3. CASE UNCHANGED vars
  <2>1. /\ UNCHANGED <<outcome, aborted, listening, failed, ready, link, outbox, entered, locked>>
        /\ UNCHANGED <<page, worker, fetching, stopped, inFlight, replied>>
        /\ UNCHANGED <<toPage, toSw, sender, receiver>>
    BY <1>3 DEF vars, swVars, pageVars
  <2>2. Sent' = Sent
    BY <2>1 DEF Sent
  <2>3. TypeOK' /\ Ports' /\ Connection' /\ ListensWhileOpen' /\ Controllers'
    BY <2>1, <2>2 DEF IInv, TypeOK, Ports, Connection, Cut, ListensWhileOpen, Alive, Controllers
  <2>4. \A c \in Calls : Served(c)' /\ Asked(c)' /\ Answered(c)' /\ Aborted(c)'
    BY <2>1, <2>2 DEF IInv, Served, Asked, Answered, Aborted, Lost, Cut
  <2>5. \A c \in Calls : RequestBody(c)' /\ AnswerBody(c)'
    BY <2>1, <2>2 DEF IInv, RequestBody, AnswerBody, Cut
  <2>6. \A b \in Bodies : Body(b, sender'[b], receiver'[b], Sent')
    BY <2>1, <2>2 DEF IInv
  <2>7. FreshCalls'
    BY <2>1 DEF FreshCalls
  <2>. QED  BY <2>3, <2>4, <2>5, <2>6, <2>7 DEF IInv
<1>. QED  BY <1>1, <1>2, <1>3 DEF Next

\* One piece of a body is on the way or queued at most, and none while the
\* source is being read for a live receiver.
LEMMA OnePiece ==
  ASSUME IInv, NEW b \in Bodies
  PROVE  LET way == toPage \o toSw
             chunks == {i \in DOMAIN way : way[i].kind = "body.chunk" /\ way[i].body = b} IN
           /\ Cardinality(chunks) + Len(receiver[b].queue) <= 1
           /\ sender[b].reading /\ Live(receiver[b]) => receiver[b].waiting /\ chunks = {}
<1>. DEFINE way == toPage \o toSw
            chunks == {i \in DOMAIN way : way[i].kind = "body.chunk" /\ way[i].body = b} n == Len(toPage)
<1>1. TypeOK /\ Ports /\ Body(b, sender[b], receiver[b], Sent)
  BY DEF IInv
<1>2. /\ toPage \in Seq(ToPage) /\ toSw \in Seq(ToSw) /\ InOrder(toPage, Order) /\ InOrder(toSw, Order)
      /\ receiver[b] \in ReceiverType /\ sender[b] \in SenderType
  BY <1>1, TypedParts DEF TypeOK, Ports
<1>3. /\ n \in Nat /\ DOMAIN way = 1 .. (n + Len(toSw)) /\ Len(toSw) \in Nat
      /\ \A i \in 1 .. n : way[i] = toPage[i] /\ toPage[i] \in ToPage
      /\ \A i \in (n + 1) .. (n + Len(toSw)) : i - n \in 1 .. Len(toSw) /\ way[i] = toSw[i - n]
           /\ toSw[i - n] \in ToSw
  BY <1>2
<1>. HIDE DEF way, n
<1>4. ASSUME NEW i \in chunks
      PROVE  /\ i \in 1 .. (n + Len(toSw)) /\ way[i] \in Data(b) /\ way[i] \in Sent
             /\ way[i].kind \in DataKinds /\ way[i].body = b
  <2>1. i \in 1 .. (n + Len(toSw)) /\ way[i].kind = "body.chunk" /\ way[i].body = b
    BY <1>3
  <2>2. way[i] \in Message /\ way[i] \in ToSet(toPage) \cup ToSet(toSw)
    <3>1. CASE i \in 1 .. n
      BY <1>2, <1>3, <3>1 DEF Message, ToSet, n
    <3>2. CASE i \in (n + 1) .. (n + Len(toSw))
      BY <1>2, <1>3, <3>2 DEF Message, ToSet
    <3>. QED  BY <1>3, <2>1, <3>1, <3>2
  <2>3. way[i].kind \in DataKinds
    BY <2>1 DEF DataKinds
  <2>4. way[i] \in Data(b)
    BY <2>1, <2>2, <2>3, KindIs
  <2>. QED  BY <2>1, <2>2, <2>3, <2>4 DEF Sent
<1>5. ASSUME NEW i \in chunks, NEW j \in chunks, i < j
      PROVE  FALSE
  <2>1. Rivals(way[i], way[j])
    BY <1>4 DEF Rivals
  <2>2. PICK c \in Calls : b = Request(c) \/ b = ResponseBody(c)
    BY BodiesOf
  <2>3. i \in 1 .. (n + Len(toSw)) /\ j \in 1 .. (n + Len(toSw)) /\ way[i] \in Data(b) /\ way[j] \in Data(b)
    BY <1>4
  <2>4. CASE b = Request(c)
    <3>1. way[i] \notin ToSw /\ way[j] \notin ToSw
      BY <2>3, <2>4, Directions
    <3>2. i \in 1 .. n /\ j \in 1 .. n
      BY <1>3, <2>3, <3>1
    <3>3. <<way[i], way[j]>> \in Order
      BY <1>2, <1>3, <1>5, <3>2 DEF InOrder, n
    <3>. QED  BY <2>1, <3>3 DEF Order
  <2>5. CASE b = ResponseBody(c)
    <3>1. way[i] \notin ToPage /\ way[j] \notin ToPage
      BY <2>3, <2>5, Directions
    <3>2. i \in (n + 1) .. (n + Len(toSw)) /\ j \in (n + 1) .. (n + Len(toSw))
      BY <1>3, <2>3, <3>1
    <3>3. i - n \in 1 .. Len(toSw) /\ j - n \in 1 .. Len(toSw) /\ i - n < j - n
      BY <1>3, <1>5, <3>2
    <3>4. <<toSw[i - n], toSw[j - n]>> \in Order
      BY <1>2, <3>3 DEF InOrder
    <3>5. <<way[i], way[j]>> \in Order
      BY <1>3, <3>2, <3>4
    <3>. QED  BY <2>1, <3>5 DEF Order
  <2>. QED  BY <2>2, <2>4, <2>5
<1>6. \A i, j \in chunks : i = j
  <2>. SUFFICES ASSUME NEW i \in chunks, NEW j \in chunks, i # j PROVE FALSE
    OBVIOUS
  <2>1. i \in Nat /\ j \in Nat
    BY <1>3, <1>4
  <2>2. i < j \/ j < i
    BY <2>1
  <2>. QED  BY <1>5, <2>2
<1>7. Len(receiver[b].queue) \in Nat /\ Len(receiver[b].queue) <= 1
  BY <1>1, <1>2, HalvesType DEF Body
<1>8. chunks # {} => Len(receiver[b].queue) = 0
  <2>1. chunks # {} => Sent \cap Data(b) # {}
    BY <1>4
  <2>2. chunks # {} => receiver[b].queue = <<>>
    BY <1>1, <2>1 DEF Body
  <2>. QED  BY <2>2, EmptySeq
<1>9. Cardinality(chunks) \in {0, 1} /\ (chunks = {} => Cardinality(chunks) = 0)
  <2>. HIDE DEF chunks
  <2>1. CASE chunks = {}
    BY <2>1, FS_EmptySet
  <2>2. CASE chunks # {}
    <3>1. PICK i : chunks = {i}
      BY <1>6, <2>2
    <3>2. Cardinality({i}) = 1
      BY FS_Singleton
    <3>. QED  BY <2>2, <3>1, <3>2
  <2>. QED  BY <2>1, <2>2
<1>10. sender[b].reading /\ Live(receiver[b]) => receiver[b].waiting /\ chunks = {}
  <2>1. sender[b].reading => Sent \cap Data(b) = {}
    BY <1>1 DEF Body
  <2>2. sender[b].reading => chunks = {}
    BY <1>4, <2>1
  <2>3. receiver[b].waiting \in BOOLEAN
    BY <1>2, HalvesType
  <2>. QED  BY <1>1, <2>2, <2>3 DEF Body
<1>11. Cardinality(chunks) + Len(receiver[b].queue) <= 1
  BY <1>7, <1>8, <1>9
<1>. QED  BY <1>10, <1>11 DEF way

\* the invariant says what BodiesWhole does
LEMMA InvWhole == IInv => BodiesWhole
<1>. SUFFICES ASSUME IInv PROVE BodiesWhole
  OBVIOUS
<1>1. ASSUME NEW b \in Bodies
      PROVE  LET r == receiver[b] IN
               /\ IsPrefix(r.got \o r.queue, Pieces(b))
               /\ r.state = "closed" => r.got \o r.queue = Pieces(b)
                    \/ (b[1] = "request" /\ worker = "failed")
  <2>1. Body(b, sender[b], receiver[b], Sent)
    BY DEF IInv
  <2>2. PICK c \in Calls : b = Request(c) \/ b = ResponseBody(c)
    BY BodiesOf
  <2>3. RequestBody(c) /\ AnswerBody(c)
    BY DEF IInv
  <2>4. Request(c)[1] = "request"
    BY BodiesOf
  <2>5. receiver[b].state = "closed"
          => Taken(receiver[b]) = Pieces(b) \/ (b[1] = "request" /\ worker = "failed")
    BY <2>2, <2>3, <2>4 DEF RequestBody, AnswerBody
  <2>. QED  BY <2>1, <2>5 DEF Body, Taken
<1>2. EndsWhole
  BY <1>1 DEF EndsWhole
<1>3. OneAhead
  BY OnePiece DEF OneAhead
<1>. QED  BY <1>2, <1>3 DEF BodiesWhole, IInv

\* the invariant says what AbortsArrive does
LEMMA InvAborts == IInv => AbortsArrive
<1>. SUFFICES ASSUME IInv PROVE AbortsArrive
  OBVIOUS
<1>1. TypeOK /\ Connection /\ ListensWhileOpen /\ Controllers /\ \A c \in Calls : Asked(c) /\ Aborted(c)
  BY DEF IInv
<1>2. ControllerWhileServed
  BY <1>1 DEF Controllers, ControllerWhileServed, Attached
<1>3. ASSUME NEW c \in aborted, Attached, fetching[c] = "running"
      PROVE  c \in stopped \/ Abort(c) \in ToSet(toPage) \/ Disconnect \in ToSet(toPage)
  <2>1. c \in Calls /\ page = "attached"
    BY <1>1, <1>3, CallsAssumption DEF TypeOK, Attached
  <2>2. c \in stopped \/ Lost \/ Abort(c) \in Sent
    BY <1>1, <1>3, <2>1 DEF Asked, Aborted
  <2>3. Lost => Disconnect \in ToSet(toPage)
    BY <1>1, <2>1 DEF Lost, Connection
  <2>4. Abort(c) \in Sent => Abort(c) \in ToSet(toPage)
    <3>1. outbox = <<>> /\ Abort(c) \notin ToSw /\ ToSet(toSw) \subseteq ToSw
      BY <1>1, <2>1, Directions, UpSent DEF Connection
    <3>. QED  BY <3>1, OneMember DEF Sent
  <2>. QED  BY <2>2, <2>3, <2>4
<1>. QED  BY <1>1, <1>2, <1>3 DEF AbortsArrive

\* at first no call was made
LEMMA ServiceInit == Init => Service!Init
BY DEF Init, Promise, Service!Init

\* what the host's promises say, when nothing is done to them
LEMMA PromiseStays == UNCHANGED <<outcome, locked>> => Promise' = Promise
BY DEF Promise

\* ... and when one call settles
LEMMA PromiseMoves ==
  ASSUME TypeOK, NEW c \in Calls, NEW o, outcome' = [outcome EXCEPT ![c] = o], UNCHANGED locked
  PROVE  /\ c \in locked => Promise' = Promise
         /\ c \notin locked => Promise' = [Promise EXCEPT ![c] = o] /\ Promise[c] = outcome[c]
<1>1. DOMAIN outcome = Calls
  BY DEF TypeOK
<1>2. \A d \in Calls : outcome'[d] = IF d = c THEN o ELSE outcome[d]
  BY <1>1
<1>. QED  BY <1>2 DEF Promise

\* ... or every one that is pending is rejected
LEMMA PromiseFails ==
  ASSUME outcome' = [c \in Calls |-> IF outcome[c] = "pending" THEN "rejected" ELSE outcome[c]],
         UNCHANGED locked
  PROVE  Promise' = [c \in Calls |-> IF Promise[c] = "pending" THEN "rejected" ELSE Promise[c]]
BY DEF Promise

\* ... or a call is registered, and rejected when its stream is locked
LEMMA PromiseEnters ==
  ASSUME TypeOK, NEW c \in Calls, c \notin locked, NEW k \in BOOLEAN,
         outcome' = [outcome EXCEPT ![c] = "pending"], locked' = IF k THEN locked \cup {c} ELSE locked
  PROVE  /\ Promise[c] = outcome[c]
         /\ k => Promise' = [Promise EXCEPT ![c] = "rejected"]
         /\ ~k => Promise' = [Promise EXCEPT ![c] = "pending"]
<1>1. DOMAIN outcome = Calls
  BY DEF TypeOK
<1>2. \A d \in Calls : outcome'[d] = IF d = c THEN "pending" ELSE outcome[d]
  BY <1>1
<1>. QED  BY <1>2 DEF Promise

\* #fail is the service's end, or nothing to it
LEMMA FailDies ==
  ASSUME TypeOK, Fail, UNCHANGED <<entered, locked, fetching, replied>>
  PROVE  Service!Next \/ UNCHANGED Service!vars
<1>1. CASE failed
  BY <1>1, PromiseStays DEF Fail, Service!vars
<1>2. CASE ~failed
  <2>1. Service!Die
    BY <1>2, PromiseFails DEF Fail, Service!Die
  <2>. QED  BY <2>1 DEF Service!Next
<1>. QED  BY <1>1, <1>2

\* a pending call is rejected, which was before if its stream is locked
LEMMA RejectsOne ==
  ASSUME
    TypeOK, NEW c \in Calls, outcome[c] \in {"normalizing", "pending"},
    outcome' = [outcome EXCEPT ![c] = "rejected"],
    UNCHANGED <<entered, locked, failed, fetching, replied>>
  PROVE  Service!Next \/ UNCHANGED Service!vars
<1>1. CASE c \in locked
  BY <1>1, PromiseMoves DEF Service!vars
<1>2. CASE c \notin locked
  <2>1. Promise' = [Promise EXCEPT ![c] = "rejected"] /\ Promise[c] = outcome[c]
    BY <1>2, PromiseMoves
  <2>2. Service!Reject(c)
    BY <2>1 DEF Service!Reject, Service!Unsettled
  <2>. QED  BY <2>2 DEF Service!Next
<1>. QED  BY <1>1, <1>2

\* A message the service worker handles answers a call, ends the service,
\* or is nothing to it.
LEMMA ServiceSwReceive ==
  ASSUME IInv, SwReceive
  PROVE  Service!Next \/ UNCHANGED Service!vars
<1>. DEFINE h == Head(toSw)
<1>0. TypeOK /\ Ports
  BY DEF IInv
<1>1. toSw # <<>> /\ toSw' = Tail(toSw) /\ UNCHANGED <<entered, locked, fetching, replied>>
  BY DEF SwReceive, pageVars
<1>2. \/ OnReady(h) \/ OnFailed(h) \/ OnDisconnect(h) \/ OnResponse(h) \/ OnErrorResponse(h)
           \/ OnLateResponse(h)
      \/ SwOnSenderMessage(h) \/ SwOnReceiverMessage(h)
  BY DEF SwReceive
<1>3. h \in Message /\ h \in Sent
  BY <1>0, <1>1, SwTaken
<1>4. CASE OnReady(h) \/ OnLateResponse(h) \/ SwOnSenderMessage(h) \/ SwOnReceiverMessage(h)
  <2>1. UNCHANGED <<outcome, failed>>
    BY <1>4 DEF OnReady, OnLateResponse, SwOnSenderMessage, SwOnReceiverMessage
  <2>. QED  BY <1>1, <2>1, PromiseStays DEF Service!vars
<1>5. CASE OnFailed(h) \/ OnDisconnect(h)
  <2>1. Fail
    BY <1>5 DEF OnFailed, OnDisconnect
  <2>. QED  BY <1>0, <1>1, <2>1, FailDies
<1>6. ASSUME h.kind = "response"
      PROVE  h.call \in Calls /\ (h.ok => h.call \in replied)
  <2>1. h.call \in Calls /\ h.ok \in BOOLEAN /\ h.hasBody \in BOOLEAN /\ h = Response(h.call, h.ok, h.hasBody)
    BY <1>3, <1>6, KindIs
  <2>2. PICK c \in Calls, o \in BOOLEAN, s \in BOOLEAN : c = h.call /\ o = h.ok /\ s = h.hasBody
    BY <2>1
  <2>3. Response(c, o, s) \in Sent /\ Answered(c)
    BY <1>3, <2>1, <2>2 DEF IInv
  <2>4. o => c \in replied
    BY <2>3 DEF Answered
  <2>. QED  BY <2>2, <2>4
<1>. HIDE DEF h
<1>7. CASE OnResponse(h)
  <2>1. /\ h.kind = "response" /\ h.ok /\ outcome[h.call] = "pending" /\ failed' = failed
        /\ outcome' = [outcome EXCEPT ![h.call] = "resolved"]
    BY <1>7 DEF OnResponse
  <2>2. PICK c \in Calls : c = h.call /\ c \in replied
    BY <1>6, <2>1
  <2>3. CASE c \in locked
    BY <1>0, <1>1, <2>1, <2>2, <2>3, PromiseMoves DEF Service!vars
  <2>4. CASE c \notin locked
    <3>1. Promise' = [Promise EXCEPT ![c] = "resolved"] /\ Promise[c] = "pending"
      BY <1>0, <1>1, <2>1, <2>2, <2>4, PromiseMoves
    <3>2. Service!Resolve(c)
      BY <1>1, <2>1, <2>2, <3>1 DEF Service!Resolve
    <3>. QED  BY <3>2 DEF Service!Next
  <2>. QED  BY <2>3, <2>4
<1>8. CASE OnErrorResponse(h)
  <2>1. /\ h.kind = "response" /\ outcome[h.call] = "pending" /\ failed' = failed
        /\ outcome' = [outcome EXCEPT ![h.call] = "rejected"]
    BY <1>8 DEF OnErrorResponse
  <2>2. PICK c \in Calls : c = h.call
    BY <1>6, <2>1
  <2>3. UNCHANGED <<entered, locked, failed, fetching, replied>>
    BY <1>1, <2>1
  <2>. QED  BY <1>0, <2>1, <2>2, <2>3, RejectsOne
<1>. QED  BY <1>2, <1>4, <1>5, <1>7, <1>8

\* a step of the host on one call
LEMMA ServiceSwCall ==
  ASSUME
    IInv, NEW c \in Calls,
    \/ FetchRefused(c) \/ FetchStreamed(c) \/ Fetch(c) \/ Register(c) \/ RegisterRefused(c)
    \/ AbortEarly(c) \/ HostAbort(c)
    \/ SwSource(c) \/ HostReads(c) \/ HostCancels(c)
  PROVE  Service!Next \/ UNCHANGED Service!vars
<1>0. /\ TypeOK /\ outcome \in Outcomes
      /\ outcome[c] \in {"idle", "normalizing"} => c \notin locked
  BY DEF IInv, TypeOK, Asked
<1>1. SwIdle
  BY DEF FetchRefused, FetchStreamed, Fetch, Register, RegisterRefused, AbortEarly, HostAbort, SwSource,
     HostReads, HostCancels
<1>2. UNCHANGED <<fetching, replied>>
  BY <1>1 DEF SwIdle, pageVars
<1>3. CASE FetchRefused(c)
  <2>0. outcome[c] = "idle" /\ outcome' = [outcome EXCEPT ![c] = "rejected"]
        /\ UNCHANGED <<entered, locked, failed>>
    BY <1>3 DEF FetchRefused
  <2>1. Service!Refuse(c)
    BY <1>0, <1>2, <2>0, PromiseMoves DEF Service!Refuse
  <2>. QED  BY <2>1 DEF Service!Next
<1>4. CASE FetchStreamed(c)
  <2>1. PICK k \in BOOLEAN : Enter(c, TRUE, k)
    BY <1>4 DEF FetchStreamed
  <2>2. /\ outcome[c] = "idle" /\ ~failed /\ UNCHANGED failed
        /\ outcome' = [outcome EXCEPT ![c] = "pending"] /\ entered' = entered \cup {c}
        /\ locked' = IF k THEN locked \cup {c} ELSE locked
    BY <1>4, <2>1 DEF FetchStreamed, Enter
  <2>3. /\ Promise[c] = "idle"
        /\ k => Promise' = [Promise EXCEPT ![c] = "rejected"]
        /\ ~k => Promise' = [Promise EXCEPT ![c] = "pending"]
    BY <1>0, <2>2, PromiseEnters
  <2>4. k => Service!RefuseSent(c)
    BY <1>2, <2>2, <2>3 DEF Service!RefuseSent
  <2>5. ~k => Service!IssueAtOnce(c)
    BY <1>2, <2>2, <2>3 DEF Service!IssueAtOnce
  <2>. QED  BY <2>4, <2>5 DEF Service!Next
<1>5. CASE Fetch(c)
  <2>0. outcome[c] = "idle" /\ outcome' = [outcome EXCEPT ![c] = "normalizing"] /\ ~failed
        /\ UNCHANGED <<entered, locked, failed>>
    BY <1>5 DEF Fetch
  <2>1. Service!Issue(c)
    BY <1>0, <1>2, <2>0, PromiseMoves DEF Service!Issue
  <2>. QED  BY <2>1 DEF Service!Next
<1>6. CASE Register(c)
  <2>0. /\ outcome[c] = "normalizing" /\ outcome' = [outcome EXCEPT ![c] = "pending"]
        /\ entered' = entered \cup {c} /\ UNCHANGED <<failed, locked>>
    BY <1>6 DEF Register, Enter
  <2>1. Service!Register(c)
    BY <1>0, <1>2, <2>0, PromiseMoves DEF Service!Register
  <2>. QED  BY <2>1 DEF Service!Next
<1>7. CASE RegisterRefused(c)
  <2>1. outcome[c] = "normalizing" /\ outcome' = [outcome EXCEPT ![c] = "rejected"]
        /\ UNCHANGED <<entered, locked, failed>>
    BY <1>7 DEF RegisterRefused
  <2>. QED  BY <1>0, <1>2, <2>1, RejectsOne
<1>8. CASE AbortEarly(c) \/ SwSource(c) \/ HostReads(c) \/ HostCancels(c)
  <2>1. UNCHANGED <<outcome, entered, locked, failed>>
    BY <1>8 DEF AbortEarly, SwSource, HostReads, HostCancels
  <2>. QED  BY <1>2, <2>1, PromiseStays DEF Service!vars
<1>9. CASE HostAbort(c)
  <2>1. /\ outcome' = [outcome EXCEPT ![c] = IF outcome[c] = "pending" THEN "rejected" ELSE outcome[c]]
        /\ UNCHANGED <<failed, entered, locked>>
    BY <1>9 DEF HostAbort
  <2>2. CASE outcome[c] = "pending"
    <3>1. outcome' = [outcome EXCEPT ![c] = "rejected"]
      BY <2>1, <2>2
    <3>. QED  BY <1>0, <1>2, <2>1, <2>2, <3>1, RejectsOne
  <2>3. CASE outcome[c] # "pending"
    <3>1. outcome' = outcome
      BY <1>0, <2>1, <2>3
    <3>. QED  BY <1>2, <2>1, <3>1, PromiseStays DEF Service!vars
  <2>. QED  BY <2>2, <2>3
<1>. QED  BY <1>3, <1>4, <1>5, <1>6, <1>7, <1>8, <1>9

\* a step of the connection
LEMMA ServiceSwLink ==
  ASSUME IInv, Connect \/ BootFails \/ Close \/ SwKilled
  PROVE  Service!Next \/ UNCHANGED Service!vars
<1>0. TypeOK
  BY DEF IInv
<1>1. CASE Connect \/ SwKilled
  BY <1>1, PromiseStays DEF Connect, SwKilled, pageVars, Service!vars
<1>2. CASE BootFails \/ Close
  <2>1. Fail /\ UNCHANGED <<entered, locked>> /\ UNCHANGED pageVars
    BY <1>2 DEF BootFails, Close, SwIdle
  <2>2. UNCHANGED <<fetching, replied>>
    BY <2>1 DEF pageVars
  <2>. QED  BY <1>0, <2>1, <2>2, FailDies
<1>. QED  BY <1>1, <1>2

\* A step of the document reaches a call, has it resolved, or is nothing
\* to the service.
LEMMA ServicePage ==
  ASSUME IInv, PageStep
  PROVE  Service!Next \/ UNCHANGED Service!vars
<1>0. TypeOK /\ Ports /\ Connection /\ fetching \in Fates
  BY DEF IInv, TypeOK
<1>1. ASSUME NEW c \in Calls, NEW hasBody \in BOOLEAN, FetchResolves(c, hasBody)
      PROVE  Service!Next
  <2>1. /\ fetching[c] = "running" /\ fetching' = [fetching EXCEPT ![c] = "resolved"]
        /\ replied' = replied \cup {c}
        /\ UNCHANGED <<outcome, entered, locked, failed>>
    BY <1>1 DEF FetchResolves, PageIdle, swVars
  <2>2. c \notin replied
    BY <2>1 DEF IInv, Answered
  <2>3. {d \in Calls : fetching'[d] \notin {"none", "refused"}}
          = {d \in Calls : fetching[d] \notin {"none", "refused"}}
    BY <1>0, <2>1
  <2>4. Service!Reply(c)
    BY <2>1, <2>2, <2>3, PromiseStays DEF Service!Reply
  <2>. QED  BY <2>4 DEF Service!Next
<1>2. ASSUME NEW c \in Calls, FetchRejects(c)
      PROVE  UNCHANGED Service!vars
  <2>1. /\ fetching[c] = "running" /\ fetching' = [fetching EXCEPT ![c] = "rejected"]
        /\ UNCHANGED <<outcome, entered, locked, failed, replied>>
    BY <1>2 DEF FetchRejects, PageIdle, swVars
  <2>2. {d \in Calls : fetching'[d] \notin {"none", "refused"}}
          = {d \in Calls : fetching[d] \notin {"none", "refused"}}
    BY <1>0, <2>1
  <2>. QED  BY <2>1, <2>2, PromiseStays DEF Service!vars
<1>3. ASSUME NEW c \in Calls, PageSource(c) \/ WorkerReads(c) \/ WorkerCancels(c)
      PROVE  UNCHANGED Service!vars
  BY <1>3, PromiseStays DEF PageSource, WorkerReads, WorkerCancels, PageIdle, swVars, pageVars, Service!vars
<1>4. WorkerReady \/ WorkerFails => UNCHANGED Service!vars
  BY PromiseStays DEF WorkerReady, WorkerFails, PageIdle, swVars, Service!vars
<1>5. CASE PageGone
  <2>1. /\ fetching' = [c \in Calls |-> IF fetching[c] = "running" THEN "rejected" ELSE fetching[c]]
        /\ UNCHANGED <<outcome, entered, locked, failed, replied>>
    BY <1>5 DEF PageGone, swVars
  <2>2. {d \in Calls : fetching'[d] \notin {"none", "refused"}}
          = {d \in Calls : fetching[d] \notin {"none", "refused"}}
    BY <1>0, <2>1
  <2>. QED  BY <2>1, <2>2, PromiseStays DEF Service!vars
<1>6. CASE PageReceive
  <2>. DEFINE h == Head(toPage)
  <2>1. toPage # <<>> /\ UNCHANGED <<outcome, entered, locked, failed, replied>> /\ Promise' = Promise
    BY <1>6, PromiseStays DEF PageReceive, swVars
  <2>2. \/ OnBoot(h) \/ OnFetch(h) \/ OnAbort(h) \/ OnDetach(h) \/ PageOnSenderMessage(h)
             \/ PageOnReceiverMessage(h)
        \/ OnUnbooted(h)
    BY <1>6 DEF PageReceive, Serve
  <2>3. h \in Message /\ h \in Sent
    <3>1. toPage \in Seq(ToPage)
      BY <1>0 DEF TypeOK
    <3>2. h \in ToPage /\ h \in ToSet(toPage)
      BY <2>1, <3>1, TailOrder
    <3>. QED  BY <3>2 DEF Message, Sent
  <2>. HIDE DEF h
  <2>4. CASE OnFetch(h)
    <3>1. h.kind = "fetch" /\ fetching' = [fetching EXCEPT ![h.call] = "running"]
      BY <2>4 DEF OnFetch
    <3>2. h.call \in Calls /\ h.bodyStream \in BOOLEAN /\ h = FetchMsg(h.call, h.bodyStream)
      BY <2>3, <3>1, KindIs
    <3>3. PICK c \in Calls, s \in BOOLEAN : c = h.call /\ s = h.bodyStream
      BY <3>2
    <3>4. FetchMsg(c, s) \in Sent /\ Asked(c)
      BY <2>3, <3>2, <3>3 DEF IInv
    <3>5. c \in entered /\ fetching[c] = "none"
      BY <3>4 DEF Asked
    <3>6. {d \in Calls : fetching'[d] \notin {"none", "refused"}}
          = {d \in Calls : fetching[d] \notin {"none", "refused"}} \cup {c}
      BY <1>0, <3>1, <3>3
    <3>7. Service!Hand(c)
      BY <2>1, <3>5, <3>6 DEF Service!Hand
    <3>. QED  BY <3>7 DEF Service!Next
  <2>5. CASE OnBoot(h) \/ OnAbort(h) \/ OnDetach(h) \/ PageOnSenderMessage(h) \/ PageOnReceiverMessage(h)
    <3>1. fetching' = fetching
      BY <2>5 DEF OnBoot, OnAbort, OnDetach, PageOnSenderMessage, PageOnReceiverMessage
    <3>. QED  BY <2>1, <3>1 DEF Service!vars
  <2>6. CASE OnUnbooted(h)
    <3>1. CASE h.kind # "fetch"
      BY <2>1, <2>6, <3>1 DEF OnUnbooted, Service!vars
    <3>2. CASE h.kind = "fetch"
      <4>1. fetching' = [fetching EXCEPT ![h.call] = "refused"]
        BY <2>6, <3>2 DEF OnUnbooted
      <4>2. h.call \in Calls /\ h.bodyStream \in BOOLEAN /\ h = FetchMsg(h.call, h.bodyStream)
        BY <2>3, <3>2, KindIs
      <4>3. PICK c \in Calls, s \in BOOLEAN : c = h.call /\ s = h.bodyStream
        BY <4>2
      <4>4. FetchMsg(c, s) \in Sent /\ Asked(c)
        BY <2>3, <4>2, <4>3 DEF IInv
      <4>5. fetching[c] = "none"
        BY <4>4 DEF Asked
      <4>6. {d \in Calls : fetching'[d] \notin {"none", "refused"}}
              = {d \in Calls : fetching[d] \notin {"none", "refused"}}
        BY <1>0, <4>1, <4>3, <4>5
      <4>. QED  BY <2>1, <4>6 DEF Service!vars
    <3>. QED  BY <3>1, <3>2
  <2>. QED  BY <2>2, <2>4, <2>5, <2>6
<1>7. TRUE \in BOOLEAN /\ FALSE \in BOOLEAN
  OBVIOUS
<1>. QED  BY <1>1, <1>2, <1>3, <1>4, <1>5, <1>6, <1>7 DEF PageStep

\* every step is one of CallService's, or nothing to it
LEMMA ServiceStep ==
  ASSUME IInv, [Next]_vars
  PROVE  [Service!Next]_(Service!vars)
<1>1. CASE SwStep
  <2>1. \/ \E c \in Calls :
             \/ FetchRefused(c) \/ FetchStreamed(c) \/ Fetch(c) \/ Register(c) \/ RegisterRefused(c)
             \/ AbortEarly(c) \/ HostAbort(c)
             \/ SwSource(c) \/ HostReads(c) \/ HostCancels(c)
        \/ Connect \/ BootFails \/ Close \/ SwKilled
        \/ SwReceive
    BY <1>1 DEF SwStep
  <2>. QED  BY <2>1, ServiceSwCall, ServiceSwLink, ServiceSwReceive
<1>2. CASE PageStep
  BY <1>2, ServicePage
<1>3. CASE UNCHANGED vars
  BY <1>3, PromiseStays DEF vars, swVars, pageVars, Service!vars
<1>. QED  BY <1>1, <1>2, <1>3 DEF Next

\* a step of the harness is one of OffscreenCalls, or nothing to it
LEMMA HarnessMoves == [HarnessNext]_harnessVars => [Next]_vars
BY DEF HarnessNext, harnessVars, Offscreen

\* OffscreenWorker and serve(), for every set of calls and all bodies: the
\* ports keep their order, each call is registered, served, answered and
\* aborted in the document as the service worker was told, and of each
\* body what the reader took and what the sender has left is what the body
\* was made of.
LEMMA CallsInvariant == HarnessSpec => [](IInv /\ FreshCalls)
<1>1. HarnessInit => IInv /\ FreshCalls
  BY InitInv DEF HarnessInit
<1>2. IInv /\ FreshCalls /\ [HarnessNext]_harnessVars => (IInv /\ FreshCalls)'
  BY HarnessMoves, NextInv
<1>. QED  BY <1>1, <1>2, PTL DEF HarnessSpec

\* body-stream.ts, in every AnonRpcWorker of the extension harness: what a
\* reader gets is the beginning of what was sent, in order, with nothing
\* lost or doubled, all of it when the body closes, and one piece at most
\* is ahead of the reader.
THEOREM BodiesComeWhole == HarnessSpec => []BodiesWhole
BY CallsInvariant, InvWhole, PTL

\* OffscreenWorker.ts and mount.ts, in every AnonRpcWorker of the
\* extension harness: the abort of a call that still runs, or whose body
\* is still sent, gets to the document, is on its way there, or the
\* connection is lost.
THEOREM AbortsGetThere == HarnessSpec => []AbortsArrive
BY CallsInvariant, InvAborts, PTL

\* AnonRpcWorker.ts of the extension harness implements CallService: no
\* call is answered twice, with an answer nobody gave, or after the worker
\* was closed or has failed.
THEOREM HarnessServes == HarnessSpec => ImplementsService
<1>1. HarnessInit => Service!Init
  BY ServiceInit DEF HarnessInit
<1>2. IInv /\ [HarnessNext]_harnessVars => [Service!Next]_(Service!vars)
  BY HarnessMoves, ServiceStep
<1>. QED  BY <1>1, <1>2, CallsInvariant, PTL DEF HarnessSpec, ImplementsService, Service!Spec

--------------------
(* A worker in a page. *)

\* what may wait for #inner
Link == ({"fetch"} \X Page!Fetches) \cup ({"log"} \X Readers) \cup {<<"close", 0>>}

\* a call
CallRecord ==
  [at : {"new", "waiting", "handed", "rejected"}, made : Options \cup {""}, sent : Options \cup {""},
   closing : BOOLEAN, changed : BOOLEAN]

\* the log
LogType == [items : Seq(Nat), waiters : Seq(Readers), closed : BOOLEAN, dropped : Nat]

\* the types of WorkerLogs
LogTyped ==
  /\ log \in LogType
  /\ reader \in [Readers -> {"idle", "waiting", "rejected"}]
  /\ logged \in Nat /\ refused \in Nat /\ read \in Seq(Nat)

\* the types of PageWorker
PageTyped ==
  /\ inner \in {"pending", "there", "rejected"} /\ options \in Options
  /\ chained \in Seq(Link) /\ handed \in Seq(Page!Fetches)
  /\ call \in [Page!Fetches -> CallRecord]
  /\ asked \in [readers : SUBSET Readers, aborted : SUBSET Readers]
  /\ ended \in [close : BOOLEAN, failed : BOOLEAN]

\* a number and a greater one
Increasing == {p \in Nat \X Nat : p[1] < p[2]}

\* what is retained is the newest, and newer than what was read; readers wait, each once, while nothing is
LogInv ==
  /\ \A i \in 1 .. Len(log.items) : log.items[i] = logged - refused - Len(log.items) + i
  /\ InOrder(read, Increasing)
  /\ \A n \in ToSet(read) : n <= logged - refused - Len(log.items)
  /\ Page!ExactlyOneReader
  /\ log.items # <<>> \/ log.closed => log.waiters = <<>>
  /\ \A r \in Readers : reader[r] = "waiting" <=> Contains(log.waiters, r)
  /\ InOrder(log.waiters, Distinct(Readers))
  /\ Len(log.items) <= Retention
  /\ log.dropped > 0 /\ read = <<>> => Len(log.items) = Retention
  /\ ~log.closed => refused = 0

\* a call that comes after the close was made after it
LinkOrder ==
  {p \in Link \X Link :
     /\ p[1][1] = "fetch" /\ p[2][1] = "fetch" => p[1][2] < p[2][2]
     /\ p[1][1] = "close" => p[2][1] # "close" /\ (p[2][1] = "fetch" => call[p[2][2]].closing)}

\* a close() waits for #inner
Closes == <<"close", 0>> \in ToSet(chained)

\* the call waits for #inner
Waits(c) == <<"fetch", c>> \in ToSet(chained)

\* what a call may be refused for
Refusable(c) ==
  call[c].at = "rejected" =>
    \/ call[c].made = Page!NotPlain \/ call[c].changed
    \/ inner = "rejected" \/ ended.failed \/ call[c].closing

\* A call waits for #inner or does not, is sent with what it was made with unless it had no copy and the
\* host's object has changed, and comes before a close that it was made before.
CallPlaced(c) ==
  /\ Waits(c) <=> call[c].at = "waiting"
  /\ call[c].at # "new" => \A d \in 1 .. c : call[d].at # "new"
  /\ call[c].at = "handed" => call[c].sent = call[c].made \/ call[c].changed
  /\ Page!Uncopied(c) => call[c].changed \/ options = Page!NoEntries
  /\ Refusable(c)
  /\ call[c].at = "waiting" /\ ~call[c].closing /\ ended.close => Closes

\* a call that was handed was made before those that wait
HandedFirst(c) == call[c].at = "handed" /\ \A d \in Page!Fetches : Waits(d) => c < d

\* a close() waits for #inner or has closed the worker; without a worker nothing is logged
ClosePlaced ==
  /\ Closes => ended.close
  /\ ended.close => Closes \/ inner = "rejected" \/ (inner = "there" /\ log.closed)
  /\ log.closed => ended.failed \/ (ended.close /\ ~Closes)
  /\ inner # "there" => log.items = <<>> /\ log.waiters = <<>>

\* what waits for #inner, what went on, and what became of close()
PageInv ==
  /\ InOrder(chained, LinkOrder)
  /\ InOrder(handed, Increasing)
  /\ \A c \in ToSet(handed) : HandedFirst(c)
  /\ \A c \in Page!Fetches : CallPlaced(c)
  /\ \A r \in asked.readers : <<"log", r>> \in ToSet(chained)
  /\ ClosePlaced

\* the operators on sequences are the same in PageWorker
LEMMA SameSequences ==
  /\ \A s : Page!ToSet(s) = ToSet(s)
  /\ \A s, x : Page!Contains(s, x) <=> Contains(s, x)
  /\ \A s, x : Page!RemoveFirst(s, x) = RemoveFirst(s, x)
<1>1. \A s : Page!ToSet(s) = ToSet(s)
  BY DEF ToSet, Page!ToSet
<1>2. \A s, x : Page!Contains(s, x) <=> Contains(s, x)
  BY DEF Contains, Page!Contains
<1>3. \A I : Page!Min(I) = Min(I)
  BY DEF Min, Page!Min
<1>4. \A s, i : Page!RemoveAt(s, i) = RemoveAt(s, i)
  BY DEF RemoveAt, Page!RemoveAt
<1>5. ASSUME NEW s, NEW x PROVE Page!RemoveFirst(s, x) = RemoveFirst(s, x)
  <2>. DEFINE T(e) == e = x
  <2>1. Page!SelectInSeq(s, T) = SelectInSeq(s, T)
    BY <1>3 DEF SelectInSeq, Page!SelectInSeq
  <2>. QED  BY <1>2, <1>4, <2>1 DEF RemoveFirst, Page!RemoveFirst
<1>. QED  BY <1>1, <1>2, <1>5

\* a reader is served
LEMMA ReaderServed ==
  ASSUME NEW q, NEW h \in Readers, NEW e \in Nat, read \in Seq(Nat), ~Contains(q.waiters, h),
         Page!LogStep(Page!Serves(q, h, e))
  PROVE  /\ log' = q /\ read' = Append(read, e)
         /\ reader' = [r \in Readers |-> IF r = h THEN "idle" ELSE IF Contains(q.waiters, r) THEN "waiting"
                ELSE reader[r]]
<1>. DEFINE step == Page!Serves(q, h, e)
<1>1. step.log = q /\ step.given = <<[reader |-> h, entry |-> e]>> /\ step.rejected = <<>>
  BY DEF Page!Serves
<1>0. Page!LogStep(step)
  OBVIOUS
<1>. HIDE DEF step
<1>2. \A r : Contains(step.rejected, r) = FALSE
  BY <1>1 DEF Contains
<1>3. \A r : (\E g \in ToSet(step.given) : g.reader = r) <=> r = h
  BY <1>1 DEF ToSet
<1>4. reader' = [r \in Readers |-> CASE \E g \in ToSet(step.given) : g.reader = r -> "idle"
         [] Contains(step.rejected, r) -> "rejected" [] Contains(step.log.waiters, r) -> "waiting"
         [] OTHER -> reader[r]]
  BY <1>0, SameSequences DEF Page!LogStep
<1>5. read' = read \o [i \in DOMAIN step.given |-> step.given[i].entry]
  BY <1>0, SameSequences DEF Page!LogStep
<1>6. [i \in DOMAIN step.given |-> step.given[i].entry] = <<e>>
  BY <1>1
<1>7. read' = Append(read, e)
  BY <1>5, <1>6, AppendIsConcat
<1>8. /\ reader' = [r \in Readers |-> IF r = h THEN "idle" ELSE IF Contains(q.waiters, r) THEN "waiting"
             ELSE reader[r]]
  <2>1. \A r \in Readers : (CASE \E g \in ToSet(step.given) : g.reader = r -> "idle"
             [] Contains(step.rejected, r) -> "rejected" [] Contains(step.log.waiters, r) -> "waiting"
             [] OTHER -> reader[r])
          = IF r = h THEN "idle" ELSE IF Contains(q.waiters, r) THEN "waiting" ELSE reader[r]
    BY <1>1, <1>2, <1>3
  <2>. QED  BY <1>4, <2>1
<1>9. log' = q
  BY <1>0, <1>1 DEF Page!LogStep
<1>. QED  BY <1>7, <1>8, <1>9

\* no reader is served, and some are rejected
LEMMA ReadersRejected ==
  ASSUME
    NEW q, NEW S, NEW rs \in Seq(S), read \in Seq(Nat), \A r : ~(Contains(rs, r) /\ Contains(q.waiters, r)),
    Page!LogStep(Page!Rejects(q, rs))
  PROVE  /\ log' = q /\ read' = read
         /\ reader' = [r \in Readers |-> IF Contains(rs, r) THEN "rejected" ELSE IF Contains(q.waiters, r)
                THEN "waiting" ELSE reader[r]]
<1>. DEFINE step == Page!Rejects(q, rs)
<1>1. step.log = q /\ step.given = <<>> /\ step.rejected = rs
  BY DEF Page!Rejects
<1>0. Page!LogStep(step)
  OBVIOUS
<1>. HIDE DEF step
<1>3. \A r : ~(\E g \in ToSet(step.given) : g.reader = r)
  BY <1>1 DEF ToSet
<1>4. reader' = [r \in Readers |-> CASE \E g \in ToSet(step.given) : g.reader = r -> "idle"
         [] Contains(step.rejected, r) -> "rejected" [] Contains(step.log.waiters, r) -> "waiting"
         [] OTHER -> reader[r]]
  BY <1>0, SameSequences DEF Page!LogStep
<1>5. read' = read \o [i \in DOMAIN step.given |-> step.given[i].entry]
  BY <1>0, SameSequences DEF Page!LogStep
<1>6. [i \in DOMAIN step.given |-> step.given[i].entry] = <<>>
  BY <1>1
<1>7. read' = read
  BY <1>5, <1>6, ConcatEmptySeq
<1>8. \A r \in Readers : (CASE \E g \in ToSet(step.given) : g.reader = r -> "idle"
             [] Contains(step.rejected, r) -> "rejected" [] Contains(step.log.waiters, r) -> "waiting"
             [] OTHER -> reader[r])
          = IF Contains(rs, r) THEN "rejected" ELSE IF Contains(q.waiters, r) THEN "waiting" ELSE reader[r]
  BY <1>1, <1>3
<1>9. log' = q
  BY <1>0, <1>1 DEF Page!LogStep
<1>. QED  BY <1>4, <1>7, <1>8, <1>9

\* nobody is served or rejected
LEMMA ReadersWait ==
  ASSUME NEW q, read \in Seq(Nat), Page!LogStep(Page!Quiet(q))
  PROVE  /\ log' = q /\ read' = read
         /\ reader' = [r \in Readers |-> IF Contains(q.waiters, r) THEN "waiting" ELSE reader[r]]
<1>1. Page!Quiet(q) = Page!Rejects(q, <<>>)
  BY DEF Page!Quiet, Page!Rejects
<1>2. PICK rs : rs = <<>> /\ rs \in Seq(Readers)
  BY EmptySeq
<1>3. \A r : ~Contains(rs, r)
  BY <1>2 DEF Contains
<1>4. Page!LogStep(Page!Rejects(q, rs))
  BY <1>1, <1>2
<1>5. /\ log' = q /\ read' = read
      /\ reader' = [r \in Readers |-> IF Contains(rs, r) THEN "rejected" ELSE IF Contains(q.waiters, r)
             THEN "waiting" ELSE reader[r]]
  BY <1>2, <1>3, <1>4, ReadersRejected
<1>. QED  BY <1>3, <1>5

\* an entry is numbered by how many there were
LEMMA ItemsIncrease ==
  ASSUME LogTyped, LogInv
  PROVE  /\ InOrder(log.items, Increasing)
         /\ \A x \in ToSet(read), y \in ToSet(log.items) : <<x, y>> \in Increasing
         /\ Len(log.items) \in Nat /\ Len(read) \in Nat
<1>. DEFINE s == log.items n == logged - refused - Len(log.items)
<1>1. /\ s \in Seq(Nat) /\ Len(s) \in Nat /\ Len(read) \in Nat /\ logged \in Nat /\ refused \in Nat
      /\ DOMAIN s = 1 .. Len(s) /\ n \in Int
  BY LenProperties DEF LogTyped, LogType
<1>2. \A i \in 1 .. Len(s) : s[i] = n + i /\ s[i] \in Nat
  <2>1. \A i \in 1 .. Len(s) : s[i] = n + i
    BY DEF LogInv
  <2>. QED  BY <1>1, <2>1, ElementOfSeq
<1>3. \A x \in ToSet(read) : x \in Nat /\ x <= n
  <2>1. \A x \in ToSet(read) : x <= n
    BY DEF LogInv
  <2>2. ToSet(read) \subseteq Nat
    BY <1>1, ElementOfSeq DEF ToSet, LogTyped, LogType
  <2>. QED  BY <2>1, <2>2
<1>. HIDE DEF n, s
<1>4. InOrder(s, Increasing)
  BY <1>1, <1>2 DEF InOrder, Increasing
<1>5. \A y \in ToSet(s) : \E i \in 1 .. Len(s) : y = s[i]
  BY <1>1 DEF ToSet
<1>6. \A x \in ToSet(read), y \in ToSet(s) : <<x, y>> \in Increasing
  BY <1>1, <1>2, <1>3, <1>5 DEF Increasing
<1>. QED  BY <1>1, <1>4, <1>6 DEF s

\* a retained entry is taken
LEMMA RetainedTaken ==
  ASSUME LogTyped, LogInv, NEW r \in Readers, reader[r] # "waiting", log.items # <<>>,
         Page!LogStep(Page!Take(log, r)), UNCHANGED <<logged, refused>>
  PROVE  LogTyped' /\ LogInv' /\ reader'[r] # "rejected" /\ \A x \in Readers \ {r} : reader'[x] = reader[x]
<1>. DEFINE s == log.items h == Head(s) t == Tail(s) q == [log EXCEPT !.items = Tail(@)]
<1>1. /\ s \in Seq(Nat) /\ Len(s) \in Nat /\ Len(s) > 0 /\ h \in Nat /\ h = s[1] /\ t \in Seq(Nat)
      /\ Len(t) = Len(s) - 1 /\ \A i \in 1 .. Len(t) : t[i] = s[i + 1]
  BY LenProperties, HeadTailProperties, EmptySeq DEF LogTyped, LogType
<1>2. /\ log.waiters = <<>> /\ \A x : ~Contains(log.waiters, x)
  BY DEF LogInv, Contains
<1>3. /\ q \in LogType
      /\ q.items = t /\ q.waiters = log.waiters /\ q.closed = log.closed /\ q.dropped = log.dropped
  BY <1>1 DEF LogTyped, LogType
<1>4. Page!Take(log, r) = Page!Serves(q, r, h)
  BY DEF Page!Take
<1>. HIDE DEF q, s, t, h
<1>5. /\ log' = q /\ read' = Append(read, h)
      /\ reader' = [x \in Readers |-> IF x = r THEN "idle" ELSE IF Contains(q.waiters, x) THEN "waiting"
             ELSE reader[x]]
  <2>1. Page!LogStep(Page!Serves(q, r, h))
    BY <1>4
  <2>2. read \in Seq(Nat) /\ ~Contains(q.waiters, r) /\ h \in Nat
    BY <1>1, <1>2, <1>3 DEF LogTyped, LogType
  <2>. QED  BY <2>1, <2>2, ReaderServed
<1>6. /\ read \in Seq(Nat) /\ logged \in Nat /\ refused \in Nat /\ Len(read) \in Nat
      /\ read' \in Seq(Nat) /\ Len(read') = Len(read) + 1 /\ read' # <<>>
      /\ ToSet(read') = ToSet(read) \cup {h}
  <2>1. read \in Seq(Nat) /\ logged \in Nat /\ refused \in Nat /\ Len(read) \in Nat
    BY LenProperties DEF LogTyped, LogType
  <2>2. Append(read, h) \in Seq(Nat) /\ Len(Append(read, h)) = Len(read) + 1 /\ Append(read, h) # <<>>
    <3>1. Append(read, h) \in Seq(Nat) /\ Len(Append(read, h)) = Len(read) + 1
      BY <1>1, <2>1, AppendProperties
    <3>2. Append(read, h) # <<>>
      BY <2>1, <3>1
    <3>. QED  BY <3>1, <3>2
  <2>3. ToSet(Append(read, h)) = ToSet(read) \cup {h}
    BY <1>1, <2>1, AppendSet
  <2>. QED  BY <1>5, <2>1, <2>2, <2>3
<1>7. LogTyped'
  BY <1>2, <1>3, <1>5, <1>6 DEF LogTyped, LogType
<1>8. h = logged - refused - Len(s) + 1 /\ \A i \in 1 .. Len(t) : t[i] = logged - refused - Len(t) + i
  <2>1. \A i \in 1 .. Len(s) : s[i] = logged - refused - Len(s) + i
    BY DEF LogInv, s
  <2>2. ASSUME NEW i \in 1 .. Len(t) PROVE t[i] = logged - refused - Len(t) + i
    <3>1. i + 1 \in 1 .. Len(s) /\ t[i] = s[i + 1] /\ i \in Nat
      <4>1. Len(s) \in Nat /\ Len(t) = Len(s) - 1 /\ t[i] = s[i + 1]
        BY <1>1
      <4>. QED  BY <4>1
    <3>2. s[i + 1] = logged - refused - Len(s) + (i + 1)
      BY <2>1, <3>1
    <3>3. PICK k \in Nat, d \in Int : k = Len(s) /\ d = logged - refused
      BY <1>1, <1>6, SMTT(20)
    <3>4. t[i] = d - k + (i + 1) /\ Len(t) = k - 1
      BY <1>1, <3>1, <3>2, <3>3
    <3>5. d - k + (i + 1) = d - (k - 1) + i
      BY <3>1, <3>3
    <3>. QED  BY <3>3, <3>4, <3>5
  <2>3. h = logged - refused - Len(s) + 1
    BY <1>1, <2>1
  <2>. QED  BY <2>2, <2>3
<1>9. InOrder(read', Increasing) /\ \A n \in ToSet(read') : n <= logged - refused - Len(t)
  <2>1. \A n \in ToSet(read) : n \in Nat /\ n <= logged - refused - Len(s)
    <3>1. \A n \in ToSet(read) : n \in Nat
      BY <1>6, ElementOfSeq DEF ToSet
    <3>. QED  BY <3>1 DEF LogInv, s
  <2>2. \A c : Contains(read, c) => <<c, h>> \in Increasing
    BY <1>1, <1>6, <1>8, <2>1, SetContains, SMTT(20) DEF Increasing
  <2>3. InOrder(Append(read, h), Increasing)
    BY <1>1, <1>6, <2>2, AppendContains DEF LogInv
  <2>4. \A n \in ToSet(read') : n <= logged - refused - Len(t)
    <3>1. h <= logged - refused - Len(t) /\ logged - refused - Len(s) <= logged - refused - Len(t)
      BY <1>1, <1>6, <1>8
    <3>2. \A n \in ToSet(read') : n \in ToSet(read) \/ n = h
      BY <1>6
    <3>3. \A n \in ToSet(read) : n <= logged - refused - Len(t)
      BY <1>1, <1>6, <2>1
    <3>. QED  BY <3>1, <3>2, <3>3
  <2>. QED  BY <1>5, <2>3, <2>4
<1>10. (Page!ExactlyOneReader)'
  <2>1. Len(read) + Len(s) + log.dropped + refused = logged /\ log.dropped \in Nat
    BY DEF LogInv, LogTyped, LogType, Page!ExactlyOneReader, s
  <2>2. log'.items = t /\ log'.dropped = log.dropped
    BY <1>3, <1>5
  <2>3. Len(read') + Len(log'.items) + log'.dropped + refused = logged
    <3>1. /\ Len(read') = Len(read) + 1 /\ Len(t) = Len(s) - 1 /\ Len(read) \in Nat /\ Len(s) \in Nat
          /\ refused \in Nat
      BY <1>1, <1>6
    <3>. QED  BY <2>1, <2>2, <3>1
  <2>. QED  BY <2>3 DEF Page!ExactlyOneReader
<1>11. /\ log'.items = t /\ log'.waiters = <<>> /\ log'.closed = log.closed /\ log'.dropped = log.dropped
  BY <1>2, <1>3, <1>5
<1>12. \A x \in Readers : reader'[x] = "waiting" <=> Contains(log'.waiters, x)
  BY <1>2, <1>3, <1>5, <1>11 DEF LogInv, LogTyped, LogType
<1>13. Len(log'.items) <= Retention
  BY <1>1, <1>11, RetentionAssumption DEF LogInv, s
<1>14. InOrder(log'.waiters, Distinct(Readers)) /\ (~log'.closed => refused = 0)
  BY <1>2, <1>11 DEF LogInv
<1>. QED  BY <1>2, <1>3, <1>5, <1>6, <1>7, <1>8, <1>9, <1>10, <1>11, <1>12, <1>13, <1>14 DEF LogInv

\* there is nothing to take: the reader waits, or is rejected
LEMMA NothingTaken ==
  ASSUME LogTyped, LogInv, NEW r \in Readers, reader[r] # "waiting", log.items = <<>>,
         Page!LogStep(Page!Take(log, r)), UNCHANGED <<logged, refused>>
  PROVE  LogTyped' /\ LogInv'
<1>1. CASE log.closed
  <2>1. Page!Take(log, r) = Page!Rejects(log, <<r>>)
    BY <1>1 DEF Page!Take
  <2>2. log.waiters = <<>> /\ \A x : ~Contains(log.waiters, x)
    BY <1>1 DEF LogInv, Contains
  <2>3. PICK rs : rs = <<r>> /\ rs \in Seq(Readers)
    <3>1. <<r>> \in Seq(Readers)
      OBVIOUS
    <3>. QED  BY <3>1
  <2>4. \A x : Contains(rs, x) <=> x = r
    BY <2>3 DEF Contains
  <2>5. /\ log' = log /\ read' = read
        /\ reader' = [x \in Readers |-> IF Contains(rs, x) THEN "rejected" ELSE IF Contains(log.waiters, x)
               THEN "waiting" ELSE reader[x]]
    <3>1. Page!LogStep(Page!Rejects(log, rs)) /\ read \in Seq(Nat)
      BY <2>1, <2>3 DEF LogTyped, LogType
    <3>. QED  BY <2>2, <2>3, <3>1, ReadersRejected
  <2>6. \A x \in Readers : reader'[x] = IF x = r THEN "rejected" ELSE reader[x]
    BY <2>2, <2>4, <2>5
  <2>7. LogTyped'
    BY <2>2, <2>4, <2>5 DEF LogTyped, LogType
  <2>8. \A x \in Readers : reader'[x] = "waiting" <=> reader[x] = "waiting"
    BY <2>6
  <2>9. (Page!ExactlyOneReader)'
    BY <2>5 DEF LogInv, Page!ExactlyOneReader
  <2>. QED  BY <2>5, <2>7, <2>8, <2>9 DEF LogInv
<1>2. CASE ~log.closed
  <2>. DEFINE q == [log EXCEPT !.waiters = Append(@, r)]
  <2>1. Page!Take(log, r) = Page!Quiet(q)
    BY <1>2 DEF Page!Take
  <2>2. /\ q \in LogType
        /\ q.items = log.items /\ q.waiters = Append(log.waiters, r) /\ q.closed = log.closed
        /\ q.dropped = log.dropped
    BY AppendProperties DEF LogTyped, LogType
  <2>. HIDE DEF q
  <2>3. /\ log' = q /\ read' = read
        /\ reader' = [x \in Readers |-> IF Contains(q.waiters, x) THEN "waiting" ELSE reader[x]]
    BY <2>1, ReadersWait DEF LogTyped, LogType
  <2>4. /\ \A x : Contains(q.waiters, x) <=> Contains(log.waiters, x) \/ x = r
        /\ \A x : Contains(log.waiters, x) => x \in Readers /\ x # r
    <3>1. \A x : Contains(log.waiters, x) => x \in Readers
      BY ContainsType DEF LogTyped, LogType
    <3>2. \A x : Contains(q.waiters, x) <=> Contains(log.waiters, x) \/ x = r
      BY <2>2, AppendContains DEF LogTyped, LogType
    <3>. QED  BY <3>1, <3>2 DEF LogInv
  <2>5. InOrder(q.waiters, Distinct(Readers))
    <3>1. \A x : Contains(log.waiters, x) => <<x, r>> \in Distinct(Readers)
      BY <2>4 DEF Distinct
    <3>2. InOrder(log.waiters, Distinct(Readers)) /\ log.waiters \in Seq(Readers)
      BY DEF LogInv, LogTyped, LogType
    <3>. QED  BY <2>2, <3>1, <3>2, AppendContains
  <2>6. LogTyped'
    BY <2>2, <2>3 DEF LogTyped, LogType
  <2>7. \A x \in Readers : reader'[x] = "waiting" <=> Contains(q.waiters, x)
    BY <2>3, <2>4 DEF LogInv
  <2>8. (Page!ExactlyOneReader)'
    BY <2>2, <2>3 DEF LogInv, Page!ExactlyOneReader
  <2>. QED  BY <1>2, <2>2, <2>3, <2>5, <2>6, <2>7, <2>8 DEF LogInv
<1>. QED  BY <1>1, <1>2

\* nobody waits in an empty list
LEMMA NobodyWaits ==
  ASSUME LogInv, log.items # <<>> \/ log.closed
  PROVE  log.waiters = <<>> /\ (\A x : ~Contains(log.waiters, x)) /\ \A x \in Readers : reader[x] # "waiting"
<1>1. log.waiters = <<>>
  BY DEF LogInv
<1>2. \A x : ~Contains(log.waiters, x)
  BY <1>1 DEF Contains
<1>. QED  BY <1>1, <1>2 DEF LogInv

\* An entry that nobody waits for is retained, in place of the oldest when
\* there is no room.
LEMMA EntryRetained ==
  ASSUME
    LogTyped, LogInv, ~log.closed, log.waiters = <<>>,
    log' = Page!Retain(log, logged + 1, Retention), read' = read, logged' = logged + 1,
    refused' = refused,
    reader' = [r \in Readers |-> IF Contains(log'.waiters, r) THEN "waiting" ELSE reader[r]]
  PROVE  LogTyped' /\ LogInv' /\ reader' = reader
<1>. DEFINE s == log.items n == Len(s) e == logged + 1 u == Append(s, e)
<1>1. /\ logged \in Nat /\ refused = 0 /\ read \in Seq(Nat) /\ s \in Seq(Nat) /\ n \in Nat /\ e \in Nat
      /\ e = logged + 1
      /\ log.dropped \in Nat /\ Retention \in Nat /\ Retention > 0 /\ n <= Retention
  <2>1. /\ logged \in Nat /\ refused = 0 /\ read \in Seq(Nat) /\ s \in Seq(Nat) /\ log.dropped \in Nat
        /\ n <= Retention
    BY DEF LogTyped, LogType, LogInv
  <2>. QED  BY <2>1, LenProperties, RetentionAssumption
<1>2. \A i \in 1 .. n : s[i] = logged - n + i
  <2>1. \A i \in 1 .. n : s[i] = logged - refused - n + i
    BY DEF LogInv
  <2>2. logged - refused - n = logged - n
    BY <1>1
  <2>. QED  BY <2>1, <2>2
<1>3. PICK t : t = IF n < Retention THEN u ELSE Tail(u)
  OBVIOUS
<1>4. /\ t \in Seq(Nat) /\ Len(t) = (IF n < Retention THEN n + 1 ELSE n)
      /\ \A i \in 1 .. Len(t) : t[i] = e - Len(t) + i
  <2>1. /\ u \in Seq(Nat) /\ Len(u) = n + 1 /\ \A i \in 1 .. Len(u) : u[i] = e - Len(u) + i
        /\ Tail(u) \in Seq(Nat) /\ Len(Tail(u)) = n
        /\ \A i \in 1 .. Len(Tail(u)) : Tail(u)[i] = e - Len(Tail(u)) + i
    BY <1>1, <1>2, Numbered
  <2>. HIDE DEF n, u, e
  <2>2. CASE n < Retention
    BY <2>1, <2>2, <1>3
  <2>3. CASE ~(n < Retention)
    BY <2>1, <2>3, <1>3
  <2>. QED  BY <2>2, <2>3
<1>5. /\ log'.items = t /\ log'.waiters = <<>> /\ log'.closed = FALSE
      /\ log'.dropped = IF n < Retention THEN log.dropped ELSE log.dropped + 1
      /\ log' \in LogType
  <2>. HIDE DEF n, e
  <2>0. log.dropped + 1 \in Nat
    BY <1>1
  <2>1. CASE n < Retention
    <3>1. log' = [log EXCEPT !.items = t]
      BY <2>1, <1>3 DEF Page!Retain, n, e
    <3>. QED  BY <2>1, <3>1, <1>1, <1>4 DEF LogTyped, LogType
  <2>2. CASE ~(n < Retention)
    <3>1. log' = [log EXCEPT !.items = t, !.dropped = @ + 1]
      BY <2>2, <1>3 DEF Page!Retain, n, e
    <3>2. /\ log'.items = t /\ log'.waiters = log.waiters /\ log'.closed = log.closed
          /\ log'.dropped = log.dropped + 1
      BY <3>1 DEF LogTyped, LogType
    <3>3. log' \in LogType
      BY <2>0, <3>1, <1>4 DEF LogTyped, LogType
    <3>. QED  BY <2>2, <3>2, <3>3
  <2>. QED  BY <2>1, <2>2
<1>6. \A x : ~Contains(log.waiters, x) /\ ~Contains(log'.waiters, x)
  BY <1>5 DEF Contains
<1>7. reader' = reader
  BY <1>6 DEF LogTyped, LogType
<1>8. LogTyped'
  <2>1. log' \in LogType
    BY <1>5
  <2>2. logged' \in Nat /\ refused' \in Nat /\ read' \in Seq(Nat)
    BY <1>1
  <2>. QED  BY <1>7, <2>1, <2>2 DEF LogTyped, LogType
<1>9. /\ Len(t) \in Nat /\ Len(t) <= n + 1 /\ Len(t) <= Retention /\ logged' - refused' = e /\ logged' = e
      /\ refused' = 0
  BY <1>1, <1>4
<1>. HIDE DEF n, e, u
<1>10. InOrder(read', Increasing) /\ \A m \in ToSet(read') : m <= logged' - refused' - Len(log'.items)
  <2>1. \A m \in ToSet(read) : m \in Nat /\ m <= logged - n
    <3>1. \A m \in ToSet(read) : m \in Nat
      BY <1>1, ElementOfSeq DEF ToSet
    <3>2. \A m \in ToSet(read) : m <= logged - refused - n
      BY DEF LogInv, n
    <3>. QED  BY <1>1, <3>1, <3>2
  <2>2. logged - n <= e - Len(t)
    BY <1>1, <1>9
  <2>3. \A m \in ToSet(read) : m <= e - Len(t)
    BY <1>1, <1>9, <2>1, <2>2
  <2>. QED  BY <1>5, <1>9, <2>3 DEF LogInv
<1>11. (Page!ExactlyOneReader)'
  <2>1. Len(read) + n + log.dropped + refused = logged /\ Len(read) \in Nat
    BY <1>1, LenProperties DEF LogInv, Page!ExactlyOneReader, n
  <2>2. CASE n < Retention
    <3>1. Len(t) = n + 1 /\ log'.dropped = log.dropped
      BY <2>2, <1>4, <1>5
    <3>2. Len(read) + (n + 1) + log.dropped + 0 = e
      BY <1>1, <2>1
    <3>. QED  BY <1>5, <1>9, <3>1, <3>2 DEF Page!ExactlyOneReader
  <2>3. CASE ~(n < Retention)
    <3>1. Len(t) = n /\ log'.dropped = log.dropped + 1
      BY <2>3, <1>4, <1>5
    <3>2. Len(read) + n + (log.dropped + 1) + 0 = e
      BY <1>1, <2>1
    <3>. QED  BY <1>5, <1>9, <3>1, <3>2 DEF Page!ExactlyOneReader
  <2>. QED  BY <2>2, <2>3
<1>12. log'.dropped > 0 /\ read' = <<>> => Len(log'.items) = Retention
  <2>1. CASE n < Retention
    <3>1. ~(log.dropped > 0 /\ read = <<>>)
      BY <1>1, <2>1 DEF LogInv, n
    <3>. QED  BY <2>1, <1>5, <3>1
  <2>2. CASE ~(n < Retention)
    BY <2>2, <1>1, <1>4, <1>5
  <2>. QED  BY <2>1, <2>2
<1>13. \A r \in Readers : reader'[r] = "waiting" <=> Contains(log'.waiters, r)
  BY <1>6, <1>7 DEF LogInv
<1>14. \A i \in 1 .. Len(log'.items) : log'.items[i] = logged' - refused' - Len(log'.items) + i
  BY <1>4, <1>5, <1>9
<1>15. /\ InOrder(log'.waiters, Distinct(Readers)) /\ (~log'.closed => refused' = 0)
       /\ Len(log'.items) <= Retention
  <2>1. InOrder(log'.waiters, Distinct(Readers))
    BY <1>5 DEF InOrder
  <2>. QED  BY <1>5, <1>9, <2>1
<1>16. log'.items # <<>> \/ log'.closed => log'.waiters = <<>>
  BY <1>5
<1>. QED  BY <1>7, <1>8, <1>10, <1>11, <1>12, <1>13, <1>14, <1>15, <1>16 DEF LogInv

\* the worker logs an entry
LEMMA EntryLogged ==
  ASSUME LogTyped, LogInv, Page!Log
  PROVE  LogTyped' /\ LogInv' /\ \A r \in Readers : reader'[r] = "rejected" => reader[r] = "rejected"
<1>1. /\ logged' = logged + 1 /\ logged \in Nat /\ refused \in Nat
      /\ Page!LogStep(Page!Push(log, logged + 1, Retention))
      /\ refused' = IF log.closed THEN refused + 1 ELSE refused
  BY DEF Page!Log, LogTyped, LogType
<1>2. CASE log.closed
  <2>1. Page!LogStep(Page!Quiet(log))
    BY <1>1, <1>2 DEF Page!Push
  <2>2. /\ log' = log /\ read' = read
        /\ reader' = [r \in Readers |-> IF Contains(log.waiters, r) THEN "waiting" ELSE reader[r]]
    BY <2>1, ReadersWait DEF LogTyped, LogType
  <2>3. reader' = reader
    BY <1>2, <2>2, NobodyWaits DEF LogTyped, LogType
  <2>4. LogTyped'
    BY <1>1, <1>2, <2>2, <2>3 DEF LogTyped, LogType
  <2>5. logged' - refused' = logged - refused
    BY <1>1, <1>2
  <2>6. (Page!ExactlyOneReader)'
    <3>1. Len(read) + Len(log.items) + log.dropped + refused = logged
      BY DEF LogInv, Page!ExactlyOneReader
    <3>2. Len(read) \in Nat /\ Len(log.items) \in Nat /\ log.dropped \in Nat
      BY LenProperties DEF LogTyped, LogType
    <3>3. Len(read') + Len(log'.items) + log'.dropped + refused' = logged'
      BY <1>1, <1>2, <2>2, <3>1, <3>2, SMTT(20)
    <3>. QED  BY <3>3 DEF Page!ExactlyOneReader
  <2>7. LogInv'
    BY <1>2, <2>2, <2>3, <2>5, <2>6 DEF LogInv
  <2>. QED  BY <2>3, <2>4, <2>7
<1>3. CASE ~log.closed /\ log.waiters = <<>>
  <2>1. Page!LogStep(Page!Quiet(Page!Retain(log, logged + 1, Retention)))
    BY <1>1, <1>3 DEF Page!Push
  <2>2. /\ log' = Page!Retain(log, logged + 1, Retention) /\ read' = read
        /\ reader' = [r \in Readers |-> IF Contains(Page!Retain(log, logged + 1, Retention).waiters, r)
               THEN "waiting" ELSE reader[r]]
    BY <2>1, ReadersWait DEF LogTyped, LogType
  <2>3. /\ reader' = [r \in Readers |-> IF Contains(log'.waiters, r) THEN "waiting" ELSE reader[r]]
        /\ refused' = refused
    BY <1>1, <1>3, <2>2
  <2>. QED  BY <1>1, <1>3, <2>2, <2>3, EntryRetained
<1>4. CASE ~log.closed /\ log.waiters # <<>>
  <2>. DEFINE w == log.waiters h == Head(w) q == [log EXCEPT !.waiters = Tail(@)] e == logged + 1
  <2>1. /\ w \in Seq(Readers) /\ Tail(w) \in Seq(Readers) /\ h \in Readers /\ log.items = <<>>
        /\ InOrder(w, Distinct(Readers))
    BY <1>4, HeadTailProperties DEF LogTyped, LogType, LogInv
  <2>2. /\ q \in LogType
        /\ q.items = <<>> /\ q.waiters = Tail(w) /\ q.closed = FALSE /\ q.dropped = log.dropped
    BY <1>4, <2>1 DEF LogTyped, LogType
  <2>3. Page!LogStep(Page!Serves(q, h, e))
    BY <1>1, <1>4 DEF Page!Push
  <2>4. /\ \A c : Contains(w, c) <=> Contains(Tail(w), c) \/ c = h
        /\ InOrder(Tail(w), Distinct(Readers))
        /\ ~Contains(Tail(w), h)
    <3>1. \A c : Contains(Tail(w), c) => <<h, c>> \in Distinct(Readers)
      BY <1>4, <2>1, TailContains
    <3>. QED  BY <1>4, <2>1, <3>1, TailContains DEF Distinct
  <2>. HIDE DEF q, h, w
  <2>5. /\ log' = q /\ read' = Append(read, e)
        /\ reader' = [r \in Readers |-> IF r = h THEN "idle" ELSE IF Contains(q.waiters, r) THEN "waiting"
               ELSE reader[r]]
    <3>1. read \in Seq(Nat) /\ e \in Nat /\ ~Contains(q.waiters, h)
      BY <1>1, <2>2, <2>4 DEF LogTyped, LogType
    <3>. QED  BY <2>1, <2>3, <3>1, ReaderServed
  <2>6. /\ Append(read, e) \in Seq(Nat) /\ Len(Append(read, e)) = Len(read) + 1 /\ Len(read) \in Nat
        /\ ToSet(Append(read, e)) = ToSet(read) \cup {e} /\ read \in Seq(Nat)
    BY <1>1, LenProperties, AppendProperties, AppendSet DEF LogTyped, LogType
  <2>7. LogTyped'
    BY <1>1, <2>2, <2>4, <2>5, <2>6 DEF LogTyped, LogType
  <2>8. refused = 0 /\ refused' = 0 /\ log.dropped \in Nat /\ Len(log.items) = 0 /\ Len(log'.items) = 0
    BY <1>1, <1>4, <2>1, <2>2, <2>5 DEF LogInv, LogTyped, LogType
  <2>9. InOrder(read', Increasing) /\ \A n \in ToSet(read') : n <= logged' - refused' - Len(log'.items)
    <3>1. \A n \in ToSet(read) : n \in Nat /\ n <= logged
      <4>1. \A n \in ToSet(read) : n \in Nat
        BY <2>6, ElementOfSeq DEF ToSet
      <4>. QED  BY <1>1, <2>8, <4>1 DEF LogInv
    <3>2. \A c : Contains(read, c) => <<c, e>> \in Increasing
      BY <1>1, <2>6, <3>1, SetContains DEF Increasing
    <3>3. InOrder(Append(read, e), Increasing)
      BY <1>1, <2>6, <3>2, AppendContains DEF LogInv
    <3>4. \A n \in ToSet(read') : n <= e
      BY <1>1, <2>5, <2>6, <3>1
    <3>. QED  BY <1>1, <2>5, <2>8, <3>3, <3>4
  <2>10. (Page!ExactlyOneReader)'
    <3>1. Len(read) + Len(log.items) + log.dropped + refused = logged
      BY DEF LogInv, Page!ExactlyOneReader
    <3>2. Len(read') + Len(log'.items) + log'.dropped + refused' = logged'
      <4>1. Len(read') = Len(read) + 1 /\ log'.dropped = log.dropped
        BY <2>2, <2>5, <2>6
      <4>. QED  BY <4>1, <1>1, <2>6, <2>8, <3>1
    <3>. QED  BY <3>2 DEF Page!ExactlyOneReader
  <2>11. read' # <<>>
    <3>1. Len(read') # 0
      BY <2>5, <2>6
    <3>. QED  BY <3>1
  <2>12. \A r \in Readers : reader'[r] = "waiting" <=> Contains(log'.waiters, r)
    BY <2>2, <2>4, <2>5 DEF LogInv, w
  <2>13. LogInv'
    <3>1. log'.items = <<>> /\ log'.closed = FALSE /\ InOrder(log'.waiters, Distinct(Readers)) /\ refused' = 0
      BY <2>2, <2>4, <2>5, <2>8
    <3>2. Len(log'.items) <= Retention
      BY <2>8, RetentionAssumption
    <3>3. \A i \in 1 .. Len(log'.items) : FALSE
      BY <2>8
    <3>. QED  BY <2>9, <2>10, <2>11, <2>12, <3>1, <3>2, <3>3 DEF LogInv
  <2>. QED  BY <2>5, <2>7, <2>13
<1>. QED  BY <1>2, <1>3, <1>4

\* the log is closed, now or before
LEMMA LogClosed ==
  ASSUME LogTyped, LogInv, Page!Fail
  PROVE  LogTyped' /\ LogInv' /\ Page!LastWords /\ log'.closed
<1>1. Page!LogStep(Page!Close(log)) /\ UNCHANGED <<logged, refused>> /\ read \in Seq(Nat)
  BY DEF Page!Fail, LogTyped, LogType
<1>2. CASE log.closed
  <2>1. Page!LogStep(Page!Quiet(log))
    BY <1>1, <1>2 DEF Page!Close
  <2>2. /\ log' = log /\ read' = read
        /\ reader' = [r \in Readers |-> IF Contains(log.waiters, r) THEN "waiting" ELSE reader[r]]
    BY <1>1, <2>1, ReadersWait
  <2>3. reader' = reader
    BY <1>2, <2>2, NobodyWaits DEF LogTyped, LogType
  <2>4. LogTyped'
    BY <1>1, <2>2, <2>3 DEF LogTyped, LogType
  <2>5. LogInv'
    BY <1>1, <2>2, <2>3 DEF LogInv, Page!ExactlyOneReader
  <2>. QED  BY <1>2, <2>2, <2>3, <2>4, <2>5 DEF Page!LastWords
<1>3. CASE ~log.closed
  <2>. DEFINE q == [log EXCEPT !.closed = TRUE, !.waiters = <<>>]
  <2>1. Page!LogStep(Page!Rejects(q, log.waiters))
    BY <1>1, <1>3 DEF Page!Close
  <2>2. q \in LogType /\ q.items = log.items /\ q.waiters = <<>> /\ q.closed = TRUE /\ q.dropped = log.dropped
    <3>1. <<>> \in Seq(Readers)
      BY EmptySeq
    <3>. QED  BY <3>1 DEF LogTyped, LogType
  <2>. HIDE DEF q
  <2>3. \A x : ~Contains(q.waiters, x)
    BY <2>2 DEF Contains
  <2>4. /\ log' = q /\ read' = read
        /\ reader' = [r \in Readers |-> IF Contains(log.waiters, r) THEN "rejected"
               ELSE IF Contains(q.waiters, r) THEN "waiting" ELSE reader[r]]
    <3>1. log.waiters \in Seq(Readers)
      BY DEF LogTyped, LogType
    <3>. QED  BY <1>1, <2>1, <2>3, <3>1, ReadersRejected
  <2>5. \A r \in Readers :
      /\ reader'[r] = IF Contains(log.waiters, r) THEN "rejected" ELSE reader[r]
      /\ reader'[r] # "waiting"
    BY <2>3, <2>4 DEF LogInv
  <2>6. LogTyped'
    BY <1>1, <2>2, <2>4, <2>5 DEF LogTyped, LogType
  <2>7. \A r \in Readers : reader'[r] = "waiting" <=> Contains(log'.waiters, r)
    BY <2>3, <2>4, <2>5
  <2>8. Page!LastWords
    <3>1. ASSUME NEW r \in Readers, reader[r] # "rejected", reader'[r] = "rejected" PROVE log.items = <<>>
      <4>1. Contains(log.waiters, r)
        BY <2>5, <3>1
      <4>2. log.waiters # <<>>
        BY <4>1 DEF Contains
      <4>. QED  BY <4>2 DEF LogInv
    <3>. QED  BY <3>1 DEF Page!LastWords
  <2>9. InOrder(log'.waiters, Distinct(Readers))
    BY <2>2, <2>4 DEF InOrder
  <2>10. (Page!ExactlyOneReader)'
    BY <1>1, <2>2, <2>4 DEF LogInv, Page!ExactlyOneReader
  <2>11. LogInv'
    BY <1>1, <2>2, <2>4, <2>7, <2>9, <2>10 DEF LogInv
  <2>. QED  BY <2>2, <2>4, <2>6, <2>8, <2>11
<1>. QED  BY <1>2, <1>3

\* a reader that waited is withdrawn
LEMMA ReaderWithdrawn ==
  ASSUME LogTyped, LogInv, NEW r \in Readers, Page!AbortLog(r)
  PROVE  LogTyped' /\ LogInv' /\ Page!LastWords /\ log'.closed = log.closed
<1>. DEFINE q == [log EXCEPT !.waiters = RemoveFirst(@, r)]
<1>1. /\ reader[r] = "waiting" /\ log' = q /\ reader' = [reader EXCEPT ![r] = "idle"]
      /\ UNCHANGED <<logged, refused, read>>
  BY SameSequences DEF Page!AbortLog, Page!Withdraw
<1>2. log.waiters \in Seq(Readers) /\ InOrder(log.waiters, Distinct(Readers)) /\ Contains(log.waiters, r)
  BY <1>1 DEF LogTyped, LogType, LogInv
<1>3. /\ RemoveFirst(log.waiters, r) \in Seq(Readers)
      /\ InOrder(RemoveFirst(log.waiters, r), Distinct(Readers))
      /\ \A x \in Readers : Contains(RemoveFirst(log.waiters, r), x) <=> Contains(log.waiters, x) /\ x # r
  <2>1. RemoveFirst(log.waiters, r) \in Seq(Readers)
    BY <1>2, RemoveFirstType
  <2>. QED  BY <1>2, <2>1, RemoveContains
<1>4. /\ q \in LogType /\ q.items = log.items /\ q.waiters = RemoveFirst(log.waiters, r)
      /\ q.closed = log.closed /\ q.dropped = log.dropped
  BY <1>3 DEF LogTyped, LogType
<1>5. log.waiters # <<>>
  BY <1>2 DEF Contains
<1>. HIDE DEF q
<1>6. LogTyped'
  BY <1>1, <1>4 DEF LogTyped, LogType
<1>7. \A x \in Readers : reader'[x] = "waiting" <=> Contains(log'.waiters, x)
  BY <1>1, <1>3, <1>4 DEF LogInv, LogTyped, LogType
<1>8. (Page!ExactlyOneReader)'
  BY <1>1, <1>4 DEF LogInv, Page!ExactlyOneReader
<1>9. LogInv'
  BY <1>1, <1>3, <1>4, <1>5, <1>7, <1>8 DEF LogInv
<1>10. Page!LastWords
  BY <1>1 DEF Page!LastWords, LogTyped, LogType
<1>. QED  BY <1>1, <1>4, <1>6, <1>9, <1>10

\* the log's own steps
LEMMA LogMoves ==
  ASSUME LogTyped, LogInv, Page!Log \/ \E r \in Readers : Page!AcceptLog(r) \/ Page!AbortLog(r)
  PROVE  LogTyped' /\ LogInv' /\ Page!LastWords /\ log'.closed = log.closed
<1>1. CASE Page!Log
  <2>1. LogTyped' /\ LogInv' /\ Page!LastWords
    BY <1>1, EntryLogged DEF Page!LastWords
  <2>2. log'.closed = log.closed
    BY <1>1 DEF Page!Log, Page!LogStep, Page!Push, Page!Quiet, Page!Serves, Page!Retain, LogTyped, LogType
  <2>. QED  BY <2>1, <2>2
<1>2. ASSUME NEW r \in Readers, Page!AcceptLog(r)
      PROVE  LogTyped' /\ LogInv' /\ Page!LastWords /\ log'.closed = log.closed
  <2>1. reader[r] # "waiting" /\ Page!LogStep(Page!Take(log, r)) /\ UNCHANGED <<logged, refused>>
    BY <1>2 DEF Page!AcceptLog
  <2>2. log'.closed = log.closed
    BY <2>1 DEF Page!LogStep, Page!Take, Page!Quiet, Page!Serves, Page!Rejects, LogTyped, LogType
  <2>3. CASE log.items # <<>>
    <3>1. LogTyped' /\ LogInv' /\ reader'[r] # "rejected" /\ \A x \in Readers \ {r} : reader'[x] = reader[x]
      BY <2>1, <2>3, RetainedTaken
    <3>2. Page!LastWords
      BY <3>1 DEF Page!LastWords
    <3>. QED  BY <2>2, <3>1, <3>2
  <2>4. CASE log.items = <<>>
    <3>1. LogTyped' /\ LogInv'
      BY <2>1, <2>4, NothingTaken
    <3>2. Page!LastWords
      BY <2>4 DEF Page!LastWords
    <3>. QED  BY <2>2, <3>1, <3>2
  <2>. QED  BY <2>3, <2>4
<1>3. ASSUME NEW r \in Readers, Page!AbortLog(r)
      PROVE  LogTyped' /\ LogInv' /\ Page!LastWords /\ log'.closed = log.closed
  BY <1>3, ReaderWithdrawn
<1>. QED  BY <1>1, <1>2, <1>3

\* what waits for #inner is a call, a reader or the close
LEMMA Links ==
  ASSUME NEW x \in Link
  PROVE
    /\ x[1] \in {"fetch", "log", "close"}
    /\ x[1] = "fetch" => x[2] \in Page!Fetches /\ x = <<"fetch", x[2]>>
    /\ x[1] = "log" => x[2] \in Readers /\ x = <<"log", x[2]>>
    /\ x[1] = "close" => x = <<"close", 0>>
BY DEF Link

\* one more waits for #inner, behind the others
LEMMA Chained ==
  ASSUME PageTyped, PageInv, NEW x \in Link, chained' = Append(chained, x)
  PROVE  /\ chained' \in Seq(Link) /\ ToSet(chained') = ToSet(chained) \cup {x}
         /\ (\A y, z \in ToSet(chained) : <<y, z>> \in LinkOrder => <<y, z>> \in LinkOrder')
              /\ (\A y \in ToSet(chained) : <<y, x>> \in LinkOrder') => InOrder(chained, LinkOrder)'
<1>1. chained \in Seq(Link) /\ InOrder(chained, LinkOrder)
  BY DEF PageTyped, PageInv
<1>2. chained' \in Seq(Link)
  BY <1>1, AppendProperties
<1>3. ToSet(chained') = ToSet(chained) \cup {x}
  BY <1>1, AppendSet
<1>4. ASSUME \A y, z \in ToSet(chained) : <<y, z>> \in LinkOrder => <<y, z>> \in LinkOrder',
             \A y \in ToSet(chained) : <<y, x>> \in LinkOrder'
      PROVE  InOrder(chained', LinkOrder')
  <2>1. InOrder(chained, LinkOrder')
    BY <1>1, <1>4, OrderCarried
  <2>2. \A c : Contains(chained, c) => <<c, x>> \in LinkOrder'
    BY <1>1, <1>4, SetContains
  <2>. QED  BY <1>1, <2>1, <2>2, AppendContains
<1>. QED  BY <1>2, <1>3, <1>4

\* fetch(): the call is behind those made before it, and behind the close
\* only if it was made after it.
LEMMA FetchKeeps ==
  ASSUME LogTyped, PageTyped, PageInv, NEW c \in Page!Fetches, Page!Fetch(c)
  PROVE  PageTyped' /\ PageInv'
<1>. DEFINE made == [at |-> IF options = Page!NotPlain THEN "rejected" ELSE "waiting",
                     made |-> options, sent |-> "", closing |-> ended.close, changed |-> FALSE]
<1>1. /\ call[c].at = "new" /\ \A d \in 1 .. (c - 1) : call[d].at # "new"
      /\ call' = [call EXCEPT ![c] = made]
      /\ UNCHANGED <<log, inner, options, handed, asked, ended>>
  BY DEF Page!Fetch, Page!logVars
<1>2. /\ made \in CallRecord /\ call \in [Page!Fetches -> CallRecord] /\ options \in Options
      /\ ended.close \in BOOLEAN
  BY DEF PageTyped, CallRecord
<1>3. /\ \A d \in Page!Fetches \ {c} : call'[d] = call[d]
      /\ call'[c] = made
      /\ made.at \in {"waiting", "rejected"} /\ (made.at = "waiting" <=> options # Page!NotPlain)
      /\ made.made = options /\ made.closing = ended.close /\ ~made.changed
  BY <1>1, <1>2
<1>. HIDE DEF made
<1>. DEFINE x == <<"fetch", c>>
<1>4. x \in Link
  BY DEF Link
<1>5. /\ chained' \in Seq(Link)
      /\ ToSet(chained') = IF made.at = "waiting" THEN ToSet(chained) \cup {x} ELSE ToSet(chained)
      /\ InOrder(chained, LinkOrder)'
  <2>0. chained \in Seq(Link) /\ ToSet(chained) \subseteq Link /\ InOrder(chained, LinkOrder)
    BY ToSetIn DEF PageTyped, PageInv
  <2>1. ~Waits(c)
    BY <1>1 DEF PageInv, CallPlaced
  <2>2. ASSUME NEW y \in ToSet(chained), NEW z \in ToSet(chained), <<y, z>> \in LinkOrder
        PROVE  <<y, z>> \in LinkOrder'
    <3>1. y \in Link /\ z \in Link
      BY <2>0
    <3>2. z[1] = "fetch" => z[2] \in Page!Fetches \ {c}
      BY <2>1, <3>1, Links DEF Waits
    <3>. QED  BY <1>3, <2>2, <3>2 DEF LinkOrder
  <2>3. CASE options = Page!NotPlain
    <3>1. chained' = chained
      BY <2>3 DEF Page!Fetch
    <3>2. InOrder(chained, LinkOrder')
      BY <2>0, <2>2, OrderCarried
    <3>. QED  BY <1>3, <2>0, <2>3, <3>1, <3>2
  <2>4. CASE options # Page!NotPlain
    <3>1. chained' = Append(chained, x)
      BY <2>4 DEF Page!Fetch
    <3>2. ASSUME NEW y \in ToSet(chained) PROVE <<y, x>> \in LinkOrder'
      <4>1. y \in Link
        BY <2>0
      <4>2. y[1] = "fetch" => y[2] < c
        <5>1. SUFFICES ASSUME y[1] = "fetch" PROVE y[2] < c
          OBVIOUS
        <5>2. y[2] \in Page!Fetches /\ call[y[2]].at = "waiting"
          BY <4>1, <5>1, Links DEF PageInv, CallPlaced, Waits
        <5>3. \A d \in 1 .. y[2] : call[d].at # "new"
          BY <5>2 DEF PageInv, CallPlaced
        <5>4. c \notin 1 .. y[2]
          BY <1>1, <5>3
        <5>. QED  BY <5>2, <5>4 DEF Page!Fetches
      <4>3. y[1] = "close" => call'[c].closing
        <5>1. y[1] = "close" => Closes
          BY <4>1, Links DEF Closes
        <5>. QED  BY <1>3, <5>1 DEF PageInv, ClosePlaced
      <4>. QED  BY <1>4, <4>1, <4>2, <4>3 DEF LinkOrder
    <3>3. chained' \in Seq(Link) /\ ToSet(chained') = ToSet(chained) \cup {x} /\ InOrder(chained, LinkOrder)'
      BY <1>4, <2>2, <3>1, <3>2, Chained
    <3>. QED  BY <1>3, <2>4, <3>3
  <2>. QED  BY <2>3, <2>4
<1>6. PageTyped'
  <2>1. call' \in [Page!Fetches -> CallRecord]
    BY <1>1, <1>2
  <2>. QED  BY <1>1, <1>5, <2>1 DEF PageTyped
<1>7. /\ \A d \in Page!Fetches \ {c} : Waits(d)' <=> Waits(d)
      /\ Waits(c)' <=> made.at = "waiting"
      /\ Closes' <=> Closes
      /\ \A r \in Readers : <<"log", r>> \in ToSet(chained') <=> <<"log", r>> \in ToSet(chained)
  <2>1. ~Waits(c)
    BY <1>1 DEF PageInv, CallPlaced
  <2>. QED  BY <1>5, <2>1 DEF Waits, Closes
<1>8. \A d \in ToSet(handed') : HandedFirst(d)'
  <2>1. ASSUME NEW d \in ToSet(handed) PROVE HandedFirst(d)'
    <3>1. HandedFirst(d) /\ d \in Page!Fetches
      BY ToSetIn DEF PageInv, PageTyped
    <3>2. d # c
      BY <1>1, <3>1 DEF HandedFirst
    <3>3. d < c
      <4>1. \A e \in 1 .. d : call[e].at # "new"
        BY <3>1 DEF PageInv, CallPlaced, HandedFirst
      <4>2. c \notin 1 .. d
        BY <1>1, <4>1
      <4>. QED  BY <3>1, <4>2 DEF Page!Fetches
    <3>. QED  BY <1>3, <1>7, <3>1, <3>2, <3>3 DEF HandedFirst
  <2>. QED  BY <1>1, <2>1
<1>9. \A d \in Page!Fetches : CallPlaced(d)'
  <2>1. ASSUME NEW d \in Page!Fetches \ {c} PROVE CallPlaced(d)'
    <3>1. CallPlaced(d)
      BY DEF PageInv
    <3>2. call[d].at # "new" => \A e \in 1 .. d : call'[e].at # "new"
      <4>1. \A e \in 1 .. d : e \in Page!Fetches
        BY FetchesAssumption DEF Page!Fetches
      <4>. QED  BY <1>1, <1>3, <3>1, <4>1 DEF CallPlaced
    <3>. QED  BY <1>1, <1>3, <1>7, <3>1, <3>2 DEF CallPlaced, Refusable, Page!Uncopied
  <2>2. CallPlaced(c)'
    <3>1. \A e \in 1 .. c : call'[e].at # "new"
      <4>1. \A e \in 1 .. c : e \in Page!Fetches /\ (e \in 1 .. (c - 1) \/ e = c)
        BY FetchesAssumption DEF Page!Fetches
      <4>. QED  BY <1>1, <1>3, <4>1
    <3>. QED  BY <1>1, <1>3, <1>7, <3>1 DEF CallPlaced, Refusable, Page!Uncopied
  <2>. QED  BY <2>1, <2>2
<1>10. (\A r \in asked.readers : <<"log", r>> \in ToSet(chained))'
  BY <1>1, <1>7 DEF PageInv, PageTyped
<1>11. ClosePlaced'
  BY <1>1, <1>7 DEF PageInv, ClosePlaced
<1>12. InOrder(handed', Increasing)
  BY <1>1 DEF PageInv
<1>. QED  BY <1>5, <1>6, <1>8, <1>9, <1>10, <1>11, <1>12 DEF PageInv

\* acceptLog() waits for #inner
LEMMA AskLogKeeps ==
  ASSUME LogTyped, PageTyped, PageInv, NEW r \in Readers, Page!AskLog(r)
  PROVE  PageTyped' /\ PageInv'
<1>. DEFINE x == <<"log", r>>
<1>1. /\ chained' = Append(chained, x) /\ x \in Link
      /\ asked' = [asked EXCEPT !.readers = @ \cup {r}]
      /\ UNCHANGED <<log, inner, options, call, handed, ended>>
  BY DEF Page!AskLog, Page!logVars, Link
<1>2. /\ chained' \in Seq(Link) /\ ToSet(chained') = ToSet(chained) \cup {x}
      /\ InOrder(chained, LinkOrder)'
  <2>1. \A y, z \in ToSet(chained) : <<y, z>> \in LinkOrder => <<y, z>> \in LinkOrder'
    BY <1>1 DEF LinkOrder
  <2>2. \A y \in ToSet(chained) : <<y, x>> \in LinkOrder'
    BY <1>1, ToSetIn DEF LinkOrder, PageTyped
  <2>. QED  BY <1>1, <2>1, <2>2, Chained
<1>3. /\ \A d \in Page!Fetches : Waits(d)' <=> Waits(d)
      /\ Closes' <=> Closes
  BY <1>2 DEF Waits, Closes
<1>4. PageTyped' /\ asked'.readers = asked.readers \cup {r}
  BY <1>1, <1>2 DEF PageTyped
<1>5. \A d \in ToSet(handed') : HandedFirst(d)'
  BY <1>1, <1>3 DEF HandedFirst, PageInv
<1>6. \A d \in Page!Fetches : CallPlaced(d)'
  BY <1>1, <1>3 DEF CallPlaced, Refusable, Page!Uncopied, PageInv
<1>7. ClosePlaced'
  BY <1>1, <1>3 DEF ClosePlaced, PageInv
<1>8. (\A a \in asked.readers : <<"log", a>> \in ToSet(chained))'
  BY <1>2, <1>4 DEF PageInv
<1>. QED  BY <1>1, <1>2, <1>4, <1>5, <1>6, <1>7, <1>8 DEF PageInv

\* close() waits for #inner, once
LEMMA AskCloseKeeps ==
  ASSUME LogTyped, PageTyped, PageInv, Page!AskClose
  PROVE  PageTyped' /\ PageInv'
<1>. DEFINE x == <<"close", 0>>
<1>1. /\ chained' = Append(chained, x) /\ x \in Link
      /\ ended.close = FALSE /\ ended' = [ended EXCEPT !.close = TRUE]
      /\ UNCHANGED <<log, inner, options, call, handed, asked>>
  BY DEF Page!AskClose, Page!logVars, Link, PageTyped
<1>2. ~Closes /\ ended'.close /\ ended'.failed = ended.failed
  BY <1>1 DEF PageInv, ClosePlaced, PageTyped
<1>3. /\ chained' \in Seq(Link) /\ ToSet(chained') = ToSet(chained) \cup {x}
      /\ InOrder(chained, LinkOrder)'
  <2>1. \A y, z \in ToSet(chained) : <<y, z>> \in LinkOrder => <<y, z>> \in LinkOrder'
    BY <1>1 DEF LinkOrder
  <2>2. ASSUME NEW y \in ToSet(chained) PROVE <<y, x>> \in LinkOrder'
    <3>1. y \in Link
      BY ToSetIn DEF PageTyped
    <3>2. y[1] # "close"
      BY <1>2, <3>1, Links DEF Closes
    <3>. QED  BY <1>1, <3>1, <3>2 DEF LinkOrder
  <2>. QED  BY <1>1, <2>1, <2>2, Chained
<1>4. (\A d \in Page!Fetches : Waits(d)' <=> Waits(d)) /\ Closes'
  BY <1>3 DEF Waits, Closes
<1>5. PageTyped'
  BY <1>1, <1>3 DEF PageTyped
<1>6. \A d \in ToSet(handed') : HandedFirst(d)'
  BY <1>1, <1>4 DEF HandedFirst, PageInv
<1>7. \A d \in Page!Fetches : CallPlaced(d)'
  BY <1>1, <1>2, <1>4 DEF CallPlaced, Refusable, Page!Uncopied, PageInv
<1>8. ClosePlaced'
  BY <1>1, <1>2, <1>4 DEF ClosePlaced, PageInv
<1>9. (\A a \in asked.readers : <<"log", a>> \in ToSet(chained))'
  BY <1>1, <1>3 DEF PageInv
<1>. QED  BY <1>1, <1>3, <1>5, <1>6, <1>7, <1>8, <1>9 DEF PageInv

\* Steps that leave what waits, the calls and what was handed alone keep
\* the rest when the close stays accounted for.
LEMMA RestKeeps ==
  ASSUME
    PageTyped, PageInv, UNCHANGED <<chained, options, call, handed>>,
    inner' \in {"pending", "there", "rejected"},
    asked' \in [readers : SUBSET Readers, aborted : SUBSET Readers], asked'.readers = asked.readers,
    ended' \in [close : BOOLEAN, failed : BOOLEAN], ended'.close = ended.close, ended.failed
      => ended'.failed,
    inner = "rejected" => inner' = "rejected", ClosePlaced'
  PROVE  PageTyped' /\ PageInv'
<1>1. PageTyped'
  BY DEF PageTyped
<1>2. (\A d \in Page!Fetches : Waits(d)' <=> Waits(d)) /\ (Closes' <=> Closes) /\ LinkOrder' = LinkOrder
  BY DEF Waits, Closes, LinkOrder
<1>3. \A d \in ToSet(handed') : HandedFirst(d)'
  BY <1>2 DEF HandedFirst, PageInv
<1>4. \A d \in Page!Fetches : CallPlaced(d)'
  BY <1>2 DEF CallPlaced, Refusable, Page!Uncopied, PageInv
<1>. QED  BY <1>1, <1>2, <1>3, <1>4 DEF PageInv

\* the sandboxed page was found, or not
LEMMA SettleKeeps ==
  ASSUME LogTyped, PageTyped, PageInv, NEW ok \in BOOLEAN, Page!SettleInner(ok)
  PROVE  PageTyped' /\ PageInv'
<1>1. /\ inner = "pending" /\ inner' \in {"there", "rejected"}
      /\ UNCHANGED <<log, chained, options, call, handed, asked, ended>>
  BY DEF Page!SettleInner, Page!logVars
<1>2. ClosePlaced'
  BY <1>1 DEF PageInv, ClosePlaced, Closes
<1>. QED  BY <1>1, <1>2, RestKeeps DEF PageTyped

\* an acceptLog() that waits for #inner is aborted
LEMMA AbortAskedKeeps ==
  ASSUME LogTyped, PageTyped, PageInv, NEW r \in Readers, Page!AbortAsked(r)
  PROVE  PageTyped' /\ PageInv'
<1>1. /\ UNCHANGED <<log, inner, chained, options, call, handed, ended>>
      /\ asked' \in [readers : SUBSET Readers, aborted : SUBSET Readers] /\ asked'.readers = asked.readers
  BY DEF Page!AbortAsked, Page!logVars, PageTyped
<1>2. ClosePlaced'
  BY <1>1 DEF PageInv, ClosePlaced, Closes
<1>. QED  BY <1>1, <1>2, RestKeeps DEF PageTyped

\* the host changes its init: the calls that have no copy of it notice
LEMMA OptionsKeep ==
  ASSUME LogTyped, PageTyped, PageInv, Page!HostChangesOptions
  PROVE  PageTyped' /\ PageInv'
<1>1. /\ UNCHANGED <<log, inner, chained, handed, asked, ended>> /\ options' \in Options
      /\ call' = [c \in Page!Fetches |-> [call[c] EXCEPT !.changed = @ \/ Page!Uncopied(c)]]
  BY DEF Page!HostChangesOptions, Page!logVars
<1>2. ASSUME NEW c \in Page!Fetches
      PROVE
        /\ call'[c].at = call[c].at /\ call'[c].made = call[c].made /\ call'[c].sent = call[c].sent
        /\ call'[c].closing = call[c].closing
        /\ call'[c].changed = (call[c].changed \/ Page!Uncopied(c))
        /\ call'[c] \in CallRecord
  <2>1. PICK e \in CallRecord, k \in BOOLEAN : e = call[c] /\ k = (call[c].changed \/ Page!Uncopied(c))
    BY DEF PageTyped, CallRecord, Page!Uncopied
  <2>2. call'[c] = [e EXCEPT !.changed = k]
    BY <1>1, <2>1
  <2>. QED  BY <2>1, <2>2 DEF CallRecord
<1>3. PageTyped'
  <2>1. call' \in [Page!Fetches -> CallRecord]
    BY <1>1, <1>2
  <2>. QED  BY <1>1, <2>1 DEF PageTyped
<1>4. (\A d \in Page!Fetches : Waits(d)' <=> Waits(d)) /\ (Closes' <=> Closes)
  BY <1>1 DEF Waits, Closes
<1>5. InOrder(chained, LinkOrder)'
  <2>1. chained \in Seq(Link) /\ InOrder(chained, LinkOrder) /\ ToSet(chained) \subseteq Link
    BY ToSetIn DEF PageTyped, PageInv
  <2>2. \A y, z \in ToSet(chained) : <<y, z>> \in LinkOrder => <<y, z>> \in LinkOrder'
    BY <1>2, <2>1, Links DEF LinkOrder
  <2>. QED  BY <1>1, <2>1, <2>2, OrderCarried
<1>6. \A d \in ToSet(handed') : HandedFirst(d)'
  <2>1. \A d \in ToSet(handed) : d \in Page!Fetches
    BY ToSetIn DEF PageTyped
  <2>. QED  BY <1>1, <1>2, <1>4, <2>1 DEF HandedFirst, PageInv
<1>7. ASSUME NEW d \in Page!Fetches PROVE CallPlaced(d)'
  <2>1. CallPlaced(d) /\ \A e \in 1 .. d : e \in Page!Fetches
    BY FetchesAssumption DEF PageInv, Page!Fetches
  <2>2. call'[d].at # "new" => \A e \in 1 .. d : call'[e].at # "new"
    BY <1>2, <2>1 DEF CallPlaced
  <2>3. Page!Uncopied(d)' <=> Page!Uncopied(d)
    BY <1>2 DEF Page!Uncopied
  <2>4. Refusable(d)'
    BY <1>1, <1>2, <2>1 DEF CallPlaced, Refusable
  <2>. QED  BY <1>1, <1>2, <1>4, <2>1, <2>2, <2>3, <2>4 DEF CallPlaced
<1>8. ClosePlaced'
  BY <1>1, <1>4 DEF PageInv, ClosePlaced
<1>9. (\A r \in asked.readers : <<"log", r>> \in ToSet(chained))'
  BY <1>1 DEF PageInv
<1>. QED  BY <1>1, <1>3, <1>5, <1>6, <1>7, <1>8, <1>9 DEF PageInv

\* The browser harness's own steps: the worker logs or fails, or a reader
\* is aborted.
LEMMA WorkerKeeps ==
  ASSUME LogTyped, LogInv, PageTyped, PageInv, Page!WorkerSteps
  PROVE  LogTyped' /\ LogInv' /\ Page!LastWords /\ PageTyped' /\ PageInv'
<1>1. inner = "there" /\ UNCHANGED <<inner, chained, options, call, handed, asked>>
  BY DEF Page!WorkerSteps
<1>2. CASE (Page!Log \/ \E r \in Readers : Page!AbortLog(r)) /\ UNCHANGED ended
  <2>1. LogTyped' /\ LogInv' /\ Page!LastWords /\ log'.closed = log.closed
    BY <1>2, LogMoves
  <2>2. ClosePlaced'
    BY <1>1, <1>2, <2>1 DEF PageInv, ClosePlaced, Closes
  <2>. QED  BY <1>1, <1>2, <2>1, <2>2, RestKeeps DEF PageTyped
<1>3. CASE Page!Fail /\ ended' = [ended EXCEPT !.failed = TRUE]
  <2>1. LogTyped' /\ LogInv' /\ Page!LastWords /\ log'.closed
    BY <1>3, LogClosed
  <2>2. ended' \in [close : BOOLEAN, failed : BOOLEAN] /\ ended'.close = ended.close /\ ended'.failed
    BY <1>3 DEF PageTyped
  <2>3. ClosePlaced'
    BY <1>1, <2>1, <2>2 DEF PageInv, ClosePlaced, Closes
  <2>. QED  BY <1>1, <2>1, <2>2, <2>3, RestKeeps DEF PageTyped
<1>. QED  BY <1>2, <1>3 DEF Page!WorkerSteps

\* The first of those that wait for #inner goes on: it had to come before
\* those left.
LEMMA FirstLeaves ==
  ASSUME PageTyped, PageInv, chained # <<>>, chained' = Tail(chained),
         \A c \in Page!Fetches : call'[c].closing = call[c].closing
  PROVE
    /\ Head(chained) \in Link /\ chained' \in Seq(Link)
    /\ ToSet(chained) = ToSet(chained') \cup {Head(chained)}
    /\ \A y \in ToSet(chained') : <<Head(chained), y>> \in LinkOrder
    /\ InOrder(chained, LinkOrder)'
<1>1. chained \in Seq(Link) /\ InOrder(chained, LinkOrder)
  BY DEF PageTyped, PageInv
<1>2. /\ Tail(chained) \in Seq(Link) /\ Head(chained) \in Link
      /\ ToSet(chained) = ToSet(Tail(chained)) \cup {Head(chained)}
      /\ InOrder(Tail(chained), LinkOrder)
      /\ \A y \in ToSet(Tail(chained)) : <<Head(chained), y>> \in LinkOrder
  <2>1. /\ Tail(chained) \in Seq(Link) /\ Head(chained) \in Link
        /\ ToSet(chained) = ToSet(Tail(chained)) \cup {Head(chained)}
        /\ \A R : InOrder(chained, R)
             => InOrder(Tail(chained), R) /\ \A y \in ToSet(Tail(chained)) : <<Head(chained), y>> \in R
    BY <1>1, TailOrder
  <2>. QED  BY <1>1, <2>1
<1>3. \A y, z \in Link : z[1] = "fetch" => z[2] \in Page!Fetches
  BY Links
<1>4. \A y, z \in ToSet(Tail(chained)) : <<y, z>> \in LinkOrder => <<y, z>> \in LinkOrder'
  BY <1>3 DEF LinkOrder
<1>5. InOrder(Tail(chained), LinkOrder')
  BY <1>2, <1>4, OrderCarried
<1>. QED  BY <1>2, <1>5

\* A call goes on: it is handed after the ones made before it, or it is
\* rejected for what has become of #inner or of the worker.
LEMMA HandFetchKeeps ==
  ASSUME LogTyped, PageTyped, PageInv, inner # "pending", chained # <<>>, chained' = Tail(chained),
         Head(chained)[1] = "fetch", Page!HandFetch(Head(chained)[2]), UNCHANGED <<inner, options, ended>>
  PROVE  PageTyped' /\ PageInv'
<1>0. chained \in Seq(Link) /\ Head(chained) \in Link
  BY HeadTailProperties DEF PageTyped
<1>1. PICK c \in Page!Fetches : Head(chained) = <<"fetch", c>> /\ c = Head(chained)[2]
  BY <1>0, Links
<1>2. /\ UNCHANGED <<log, asked>> /\ Page!HandFetch(c)
  BY <1>1 DEF Page!HandFetch, Page!Hand, Page!logVars
<1>3. call \in [Page!Fetches -> CallRecord] /\ handed \in Seq(Page!Fetches)
  BY DEF PageTyped
<1>. DEFINE HandedAs(a, given) ==
        /\ a \in {"rejected", "handed"}
        /\ given = Page!Given(c)
        /\ call' = IF a = "handed" THEN [call EXCEPT ![c].at = "handed", ![c].sent = given]
                                   ELSE [call EXCEPT ![c].at = "rejected"]
        /\ handed' = IF a = "handed" THEN Append(handed, c) ELSE handed
        /\ a = "rejected" <=> inner = "rejected" \/ log.closed \/ given = Page!NotPlain
<1>4. PICK a, given : HandedAs(a, given)
  <2>0. PICK given : given = Page!Given(c)
    OBVIOUS
  <2>1. CASE inner = "rejected" \/ log.closed \/ given = Page!NotPlain
    <3>1. HandedAs("rejected", given)
      BY <1>2, <2>0, <2>1 DEF Page!HandFetch, Page!Hand
    <3>. HIDE DEF HandedAs
    <3>. QED  BY <3>1
  <2>2. CASE ~(inner = "rejected" \/ log.closed \/ given = Page!NotPlain)
    <3>1. HandedAs("handed", given)
      BY <1>2, <2>0, <2>2 DEF Page!HandFetch, Page!Hand
    <3>. HIDE DEF HandedAs
    <3>. QED  BY <3>1
  <2>. QED  BY <2>1, <2>2
<1>5. /\ call' \in [Page!Fetches -> CallRecord]
      /\ \A d \in Page!Fetches \ {c} : call'[d] = call[d]
      /\ call'[c].at = a /\ call'[c].closing = call[c].closing /\ call'[c].made = call[c].made
      /\ call'[c].changed = call[c].changed /\ (a = "handed" => call'[c].sent = given)
  <2>0. given \in Options \cup {""}
    BY <1>3, <1>4 DEF Page!Given, CallRecord, PageTyped
  <2>1. CASE a = "handed"
    BY <1>3, <1>4, <2>0, <2>1 DEF CallRecord
  <2>2. CASE a = "rejected"
    BY <1>3, <1>4, <2>2 DEF CallRecord
  <2>. QED  BY <1>4, <2>1, <2>2
<1>6. /\ chained' \in Seq(Link) /\ ToSet(chained) = ToSet(chained') \cup {<<"fetch", c>>}
      /\ \A y \in ToSet(chained') : <<<<"fetch", c>>, y>> \in LinkOrder
      /\ InOrder(chained, LinkOrder)'
  <2>1. \A d \in Page!Fetches : call'[d].closing = call[d].closing
    BY <1>5
  <2>. QED  BY <1>1, <2>1, FirstLeaves
<1>7. /\ \A d \in Page!Fetches \ {c} : Waits(d)' <=> Waits(d)
      /\ Waits(c) /\ ~Waits(c)'
      /\ \A d \in Page!Fetches : Waits(d)' => c < d
      /\ Closes' <=> Closes
      /\ \A r \in Readers : <<"log", r>> \in ToSet(chained') <=> <<"log", r>> \in ToSet(chained)
  <2>1. \A d \in Page!Fetches : Waits(d)' => c < d
    BY <1>6 DEF Waits, LinkOrder
  <2>2. ~(c < c)
    BY DEF Page!Fetches
  <2>. QED  BY <1>6, <2>1, <2>2 DEF Waits, Closes
<1>8. call[c].at = "waiting" /\ CallPlaced(c)
  BY <1>7 DEF PageInv, CallPlaced
<1>9. handed' \in Seq(Page!Fetches) /\ ToSet(handed') \subseteq ToSet(handed) \cup {c}
        /\ InOrder(handed', Increasing)
      /\ (c \in ToSet(handed') => a = "handed")
  <2>1. /\ ToSet(handed) \subseteq Page!Fetches /\ InOrder(handed, Increasing)
        /\ \A d \in ToSet(handed) : HandedFirst(d)
    BY <1>3, ToSetIn DEF PageInv
  <2>2. \A d \in ToSet(handed) : d # c /\ <<d, c>> \in Increasing
    BY <1>7, <1>8, <2>1, FetchesAssumption DEF HandedFirst, Increasing, Page!Fetches
  <2>3. \A d : Contains(handed, d) => <<d, c>> \in Increasing
    BY <1>3, <2>2, SetContains
  <2>4. CASE a = "rejected"
    <3>1. handed' = handed
      BY <1>4, <2>4
    <3>. QED  BY <1>3, <2>1, <2>2, <3>1
  <2>5. CASE a = "handed"
    <3>1. handed' = Append(handed, c)
      BY <1>4, <2>5
    <3>2. Append(handed, c) \in Seq(Page!Fetches)
      BY <1>3, AppendProperties
    <3>3. ToSet(Append(handed, c)) = ToSet(handed) \cup {c}
      BY <1>3, AppendSet
    <3>4. InOrder(Append(handed, c), Increasing)
      BY <1>3, <2>1, <2>3, AppendContains
    <3>. QED  BY <2>5, <3>1, <3>2, <3>3, <3>4
  <2>. QED  BY <1>4, <2>4, <2>5
<1>10. PageTyped'
  BY <1>2, <1>5, <1>6, <1>9 DEF PageTyped
<1>11. \A d \in ToSet(handed') : HandedFirst(d)'
  <2>1. ASSUME NEW d \in ToSet(handed) PROVE d \in Page!Fetches \ {c} /\ HandedFirst(d)
    BY <1>3, <1>8, ToSetIn DEF PageInv, HandedFirst
  <2>2. \A d \in ToSet(handed) : HandedFirst(d)'
    BY <1>5, <1>7, <2>1 DEF HandedFirst
  <2>3. c \in ToSet(handed') => HandedFirst(c)'
    BY <1>5, <1>7, <1>9 DEF HandedFirst
  <2>. QED  BY <1>9, <2>2, <2>3
<1>12. \A d \in Page!Fetches : CallPlaced(d)'
  <2>1. \A d \in Page!Fetches : \A e \in 1 .. d : e \in Page!Fetches
    BY FetchesAssumption DEF Page!Fetches
  <2>2. ASSUME NEW d \in Page!Fetches PROVE call'[d].at # "new" => \A e \in 1 .. d : call'[e].at # "new"
    <3>1. call[d].at # "new" => \A e \in 1 .. d : call[e].at # "new"
      BY DEF PageInv, CallPlaced
    <3>2. \A e \in Page!Fetches : call'[e].at = "new" <=> call[e].at = "new"
      BY <1>4, <1>5, <1>8
    <3>. QED  BY <2>1, <3>1, <3>2
  <2>3. ASSUME NEW d \in Page!Fetches \ {c} PROVE CallPlaced(d)'
    <3>1. CallPlaced(d)
      BY DEF PageInv
    <3>. QED  BY <1>5, <1>7, <2>2, <3>1 DEF CallPlaced, Refusable, Page!Uncopied
  <2>4. CallPlaced(c)'
    <3>1. given = call[c].made \/ call[c].changed
      BY <1>4, <1>8 DEF CallPlaced, Page!Uncopied, Page!Given
    <3>2. log.closed => ended.failed \/ call[c].closing
      BY <1>8 DEF PageInv, ClosePlaced, CallPlaced
    <3>3. Refusable(c)'
      BY <1>4, <1>5, <3>1, <3>2 DEF Refusable
    <3>4. ~Page!Uncopied(c)' /\ (a = "handed" => call'[c].sent = call'[c].made \/ call'[c].changed)
      BY <1>4, <1>5, <3>1 DEF Page!Uncopied
    <3>. QED  BY <1>4, <1>5, <1>7, <2>2, <3>3, <3>4 DEF CallPlaced
  <2>. QED  BY <2>3, <2>4
<1>13. ClosePlaced'
  BY <1>2, <1>7 DEF PageInv, ClosePlaced
<1>14. (\A r \in asked.readers : <<"log", r>> \in ToSet(chained))'
  BY <1>2, <1>7 DEF PageInv, PageTyped
<1>. QED  BY <1>6, <1>9, <1>10, <1>11, <1>12, <1>13, <1>14 DEF PageInv

\* a reader or the close goes on
LEMMA OtherLeaves ==
  ASSUME
    PageTyped, PageInv, chained # <<>>, chained' = Tail(chained), Head(chained)[1] # "fetch",
    UNCHANGED <<call, handed, inner, options, ended>>,
    asked' \in [readers : SUBSET Readers, aborted : SUBSET Readers],
    asked'.readers = IF Head(chained)[1] = "log" THEN asked.readers \ {Head(chained)[2]} ELSE asked.readers,
    Closes' <=> Closes /\ Head(chained)[1] # "close", ClosePlaced'
  PROVE  PageTyped' /\ PageInv'
<1>1. /\ Head(chained) \in Link /\ chained' \in Seq(Link)
      /\ ToSet(chained) = ToSet(chained') \cup {Head(chained)}
      /\ \A y \in ToSet(chained') : <<Head(chained), y>> \in LinkOrder
      /\ InOrder(chained, LinkOrder)'
  BY FirstLeaves
<1>2. \A d \in Page!Fetches : Waits(d)' <=> Waits(d)
  BY <1>1, Links DEF Waits
<1>3. PageTyped'
  BY <1>1 DEF PageTyped
<1>4. \A d \in ToSet(handed') : HandedFirst(d)'
  BY <1>2 DEF HandedFirst, PageInv
<1>5. \A d \in Page!Fetches : CallPlaced(d)'
  <2>1. ASSUME NEW d \in Page!Fetches, Head(chained)[1] = "close", call[d].at = "waiting"
        PROVE  call[d].closing
    <3>1. <<Head(chained), <<"fetch", d>>>> \in LinkOrder
      BY <1>1, <1>2, <2>1 DEF Waits, PageInv, CallPlaced
    <3>. QED  BY <2>1, <3>1 DEF LinkOrder
  <2>. QED  BY <1>2, <2>1 DEF CallPlaced, Refusable, Page!Uncopied, PageInv
<1>6. (\A r \in asked.readers : <<"log", r>> \in ToSet(chained))'
  <2>1. ASSUME NEW r \in asked'.readers PROVE <<"log", r>> \in ToSet(chained')
    <3>1. r \in asked.readers /\ <<"log", r>> # Head(chained)
      BY <2>1
    <3>. QED  BY <1>1, <3>1 DEF PageInv
  <2>. QED  BY <2>1
<1>. QED  BY <1>1, <1>3, <1>4, <1>5, <1>6 DEF PageInv

\* a reader goes on: it is served, rejected, or waits for the worker
LEMMA HandLogKeeps ==
  ASSUME LogTyped, LogInv, PageTyped, PageInv, inner # "pending", chained # <<>>, chained' = Tail(chained),
         Head(chained)[1] = "log", Page!HandLog(Head(chained)[2]), UNCHANGED <<inner, options, ended>>
  PROVE  LogTyped' /\ LogInv' /\ Page!LastWords /\ PageTyped' /\ PageInv'
<1>0. chained \in Seq(Link) /\ Head(chained) \in Link
  BY HeadTailProperties DEF PageTyped
<1>1. PICK r \in Readers : Head(chained) = <<"log", r>> /\ r = Head(chained)[2]
  BY <1>0, Links
<1>2. Page!HandLog(r) /\ UNCHANGED <<call, handed>>
  BY <1>1 DEF Page!HandLog
<1>3. LogTyped' /\ LogInv' /\ Page!LastWords /\ log'.closed = log.closed /\ (inner = "rejected" => log' = log)
  <2>1. CASE inner = "rejected"
    <3>1. reader' = [reader EXCEPT ![r] = "rejected"] /\ UNCHANGED <<log, logged, refused, read>>
      BY <1>2, <2>1 DEF Page!HandLog
    <3>2. log.items = <<>> /\ log.waiters = <<>>
      BY <2>1 DEF PageInv, ClosePlaced
    <3>3. \A x : ~Contains(log.waiters, x)
      BY <3>2 DEF Contains
    <3>4. \A x \in Readers : reader'[x] # "waiting" /\ reader[x] # "waiting"
      BY <3>1, <3>3 DEF LogInv, LogTyped, LogType
    <3>5. LogTyped'
      BY <3>1 DEF LogTyped, LogType
    <3>6. LogInv'
      BY <3>1, <3>4, <3>3 DEF LogInv, Page!ExactlyOneReader
    <3>7. Page!LastWords
      BY <3>2 DEF Page!LastWords
    <3>. QED  BY <3>1, <3>5, <3>6, <3>7
  <2>2. CASE inner # "rejected" /\ r \in asked.aborted /\ log.items = <<>>
    <3>1. UNCHANGED <<log, reader, logged, refused, read>>
      BY <1>2, <2>2 DEF Page!HandLog, Page!logVars
    <3>2. LogTyped' /\ Page!LastWords
      BY <3>1 DEF LogTyped, LogType, Page!LastWords
    <3>3. LogInv'
      BY <3>1 DEF LogInv, Page!ExactlyOneReader
    <3>. QED  BY <3>1, <3>2, <3>3
  <2>3. CASE inner # "rejected" /\ ~(r \in asked.aborted /\ log.items = <<>>)
    <3>1. Page!AcceptLog(r)
      BY <1>2, <2>3 DEF Page!HandLog
    <3>. QED  BY <2>3, <3>1, LogMoves
  <2>. QED  BY <2>1, <2>2, <2>3
<1>4. ToSet(chained) = ToSet(chained') \cup {<<"log", r>>}
  <2>1. \A c \in Page!Fetches : call'[c].closing = call[c].closing
    BY <1>2
  <2>. QED  BY <1>1, <2>1, FirstLeaves
<1>5. Closes' <=> Closes
  BY <1>4 DEF Closes
<1>6. ClosePlaced'
  BY <1>3, <1>5 DEF PageInv, ClosePlaced, PageTyped
<1>7. /\ asked' \in [readers : SUBSET Readers, aborted : SUBSET Readers]
      /\ asked'.readers = asked.readers \ {r}
  BY <1>2 DEF Page!HandLog, PageTyped
<1>8. Head(chained)[1] # "fetch" /\ Head(chained)[1] # "close"
  BY <1>1
<1>. QED  BY <1>1, <1>2, <1>3, <1>5, <1>6, <1>7, <1>8, OtherLeaves

\* The close goes on: the worker it was asked of is closed, and whoever
\* still waits asked after it.
LEMMA HandCloseKeeps ==
  ASSUME LogTyped, LogInv, PageTyped, PageInv, inner # "pending", chained # <<>>, chained' = Tail(chained),
         Head(chained)[1] = "close", Page!HandClose, UNCHANGED <<inner, options, ended>>
  PROVE  LogTyped' /\ LogInv' /\ Page!LastWords /\ PageTyped' /\ PageInv'
<1>0. chained \in Seq(Link) /\ Head(chained) \in Link
  BY HeadTailProperties DEF PageTyped
<1>1. Head(chained) = <<"close", 0>> /\ UNCHANGED <<call, handed, asked>>
  BY <1>0, Links DEF Page!HandClose
<1>2. LogTyped' /\ LogInv' /\ Page!LastWords /\ (IF inner = "rejected" THEN log' = log ELSE log'.closed)
  <2>1. CASE inner = "rejected"
    <3>1. UNCHANGED <<log, reader, logged, refused, read>>
      BY <2>1 DEF Page!HandClose, Page!logVars
    <3>2. LogTyped' /\ Page!LastWords
      BY <3>1 DEF LogTyped, LogType, Page!LastWords
    <3>3. LogInv'
      BY <3>1 DEF LogInv, Page!ExactlyOneReader
    <3>. QED  BY <2>1, <3>1, <3>2, <3>3
  <2>2. CASE inner # "rejected"
    <3>1. Page!Fail
      BY <2>2 DEF Page!HandClose
    <3>. QED  BY <2>2, <3>1, LogClosed
  <2>. QED  BY <2>1, <2>2
<1>3. /\ ToSet(chained) = ToSet(chained') \cup {<<"close", 0>>}
      /\ \A y \in ToSet(chained') : <<<<"close", 0>>, y>> \in LinkOrder
  <2>1. \A c \in Page!Fetches : call'[c].closing = call[c].closing
    BY <1>1
  <2>. QED  BY <1>1, <2>1, FirstLeaves
<1>4. Closes /\ ~Closes'
  BY <1>3 DEF Closes, LinkOrder
<1>5. ClosePlaced'
  <2>1. ended.close /\ inner \in {"there", "rejected"}
    BY <1>4 DEF PageInv, ClosePlaced, PageTyped
  <2>. QED  BY <1>2, <1>4, <2>1 DEF PageInv, ClosePlaced
<1>6. /\ asked' \in [readers : SUBSET Readers, aborted : SUBSET Readers] /\ asked'.readers = asked.readers
      /\ Head(chained)[1] # "fetch" /\ Head(chained)[1] # "log"
  BY <1>1 DEF PageTyped
<1>. QED  BY <1>1, <1>2, <1>4, <1>5, <1>6, OtherLeaves

\* the four together
PageKept == LogTyped /\ LogInv /\ PageTyped /\ PageInv

\* nothing is logged, waits or was handed at first
LEMMA PageStarts == Page!Init => PageKept
<1>. SUFFICES ASSUME Page!Init PROVE PageKept
  OBVIOUS
<1>1. /\ log = [items |-> <<>>, waiters |-> <<>>, closed |-> FALSE, dropped |-> 0]
      /\ reader = [r \in Readers |-> "idle"] /\ logged = 0 /\ refused = 0 /\ read = <<>>
      /\ inner = "pending" /\ chained = <<>> /\ options \in Options /\ handed = <<>>
      /\ call = [c \in Page!Fetches |-> [at |-> "new", made |-> "", sent |-> "", closing |-> FALSE, changed |-> FALSE]]
      /\ asked = [readers |-> {}, aborted |-> {}] /\ ended = [close |-> FALSE, failed |-> FALSE]
  BY DEF Page!Init, Page!LogsInit, Page!NewLog
<1>2. \A S : /\ <<>> \in Seq(S) /\ ToSet(<<>>) = {} /\ InOrder(<<>>, S) /\ Len(<<>>) = 0
             /\ ~Contains(<<>>, S)
  BY EmptySeq DEF ToSet, InOrder, Contains
<1>3. LogTyped
  <2>1. log \in LogType /\ read \in Seq(Nat)
    BY <1>1, <1>2 DEF LogType
  <2>. QED  BY <1>1, <2>1 DEF LogTyped, LogType
<1>4. LogInv
  <2>1. Page!ExactlyOneReader
    <3>1. Len(read) = 0 /\ Len(log.items) = 0 /\ log.dropped = 0 /\ refused = 0 /\ logged = 0
      BY <1>1, <1>2
    <3>. QED  BY <3>1 DEF Page!ExactlyOneReader
  <2>2. /\ InOrder(read, Increasing) /\ InOrder(log.waiters, Distinct(Readers))
        /\ \A n \in ToSet(read) : n <= logged - refused - Len(log.items)
        /\ \A r \in Readers : reader[r] = "waiting" <=> Contains(log.waiters, r)
    BY <1>1, <1>2
  <2>3. Len(log.items) = 0 /\ log.items = <<>> /\ log.waiters = <<>> /\ log.dropped = 0 /\ refused = 0
    BY <1>1, <1>2
  <2>. QED  BY <2>1, <2>2, <2>3, RetentionAssumption DEF LogInv
<1>5. PageTyped
  <2>1. chained \in Seq(Link) /\ handed \in Seq(Page!Fetches)
    BY <1>1, <1>2
  <2>2. call \in [Page!Fetches -> CallRecord]
    BY <1>1 DEF CallRecord
  <2>. QED  BY <1>1, <2>1, <2>2 DEF PageTyped
<1>6. PageInv
  <2>1. /\ ToSet(chained) = {} /\ ToSet(handed) = {} /\ InOrder(chained, LinkOrder)
        /\ InOrder(handed, Increasing)
    BY <1>1, <1>2
  <2>2. \A c \in Page!Fetches : CallPlaced(c)
    BY <1>1, <2>1 DEF CallPlaced, Refusable, Page!Uncopied, Waits
  <2>3. ClosePlaced
    BY <1>1, <2>1 DEF ClosePlaced, Closes
  <2>. QED  BY <1>1, <2>1, <2>2, <2>3 DEF PageInv
<1>. QED  BY <1>3, <1>4, <1>5, <1>6 DEF PageKept

\* steps that leave the log alone keep it
LEMMA LogStays ==
  ASSUME LogTyped, LogInv, UNCHANGED Page!logVars
  PROVE  LogTyped' /\ LogInv' /\ Page!LastWords
<1>1. UNCHANGED <<log, reader, logged, refused, read>>
  BY DEF Page!logVars
<1>. QED  BY <1>1 DEF LogTyped, LogType, LogInv, Page!ExactlyOneReader, Page!LastWords

\* every step of a PageWorker keeps it
LEMMA PageMoves ==
  ASSUME PageKept, Page!Next
  PROVE  PageKept' /\ Page!LastWords
<1>. USE DEF PageKept
<1>1. ASSUME NEW ok \in BOOLEAN, Page!SettleInner(ok) PROVE PageKept' /\ Page!LastWords
  <2>1. UNCHANGED Page!logVars
    BY <1>1 DEF Page!SettleInner
  <2>. QED  BY <1>1, <2>1, SettleKeeps, LogStays
<1>2. CASE Page!HostChangesOptions \/ \E r \in Readers : Page!AbortAsked(r)
  <2>1. UNCHANGED Page!logVars
    BY <1>2 DEF Page!HostChangesOptions, Page!AbortAsked
  <2>. QED  BY <1>2, <2>1, OptionsKeep, AbortAskedKeeps, LogStays
<1>3. ASSUME NEW c \in Page!Fetches, Page!Fetch(c) PROVE PageKept' /\ Page!LastWords
  <2>1. UNCHANGED Page!logVars
    BY <1>3 DEF Page!Fetch
  <2>. QED  BY <1>3, <2>1, FetchKeeps, LogStays
<1>4. ASSUME NEW r \in Readers, Page!AskLog(r) PROVE PageKept' /\ Page!LastWords
  <2>1. UNCHANGED Page!logVars
    BY <1>4 DEF Page!AskLog
  <2>. QED  BY <1>4, <2>1, AskLogKeeps, LogStays
<1>5. CASE Page!AskClose
  <2>1. UNCHANGED Page!logVars
    BY <1>5 DEF Page!AskClose
  <2>. QED  BY <1>5, <2>1, AskCloseKeeps, LogStays
<1>6. CASE Page!GoOn
  <2>1. /\ inner # "pending" /\ chained # <<>> /\ chained' = Tail(chained)
        /\ UNCHANGED <<inner, options, ended>>
    BY <1>6 DEF Page!GoOn
  <2>2. Head(chained)[1] \in {"fetch", "log", "close"}
    BY <2>1, HeadTailProperties, Links DEF PageTyped
  <2>3. CASE Head(chained)[1] = "fetch"
    <3>1. Page!HandFetch(Head(chained)[2])
      BY <1>6, <2>3 DEF Page!GoOn
    <3>2. UNCHANGED Page!logVars
      BY <3>1 DEF Page!HandFetch, Page!Hand
    <3>. QED  BY <2>1, <2>3, <3>1, <3>2, HandFetchKeeps, LogStays
  <2>4. CASE Head(chained)[1] = "log"
    <3>1. Page!HandLog(Head(chained)[2])
      BY <1>6, <2>4 DEF Page!GoOn
    <3>. QED  BY <2>1, <2>4, <3>1, HandLogKeeps
  <2>5. CASE Head(chained)[1] = "close"
    <3>1. Page!HandClose
      BY <1>6, <2>5 DEF Page!GoOn
    <3>. QED  BY <2>1, <2>5, <3>1, HandCloseKeeps
  <2>. QED  BY <2>2, <2>3, <2>4, <2>5
<1>7. CASE Page!WorkerSteps
  BY <1>7, WorkerKeeps
<1>. QED  BY <1>1, <1>2, <1>3, <1>4, <1>5, <1>6, <1>7 DEF Page!Next

\* And so does every step of the harness, which is one or the other
LEMMA PageSteps == PageKept /\ [HarnessNext]_harnessVars => PageKept' /\ [Page!LastWords]_(Page!logVars)
<1>. SUFFICES ASSUME PageKept, [HarnessNext]_harnessVars PROVE PageKept' /\ [Page!LastWords]_(Page!logVars)
  OBVIOUS
<1>1. CASE Page!Next
  BY <1>1, PageMoves
<1>2. CASE UNCHANGED pageWorkerVars
  <2>1. UNCHANGED <<log, reader, logged, refused, read, inner, chained, options, call, handed, asked, ended>>
    BY <1>2 DEF pageWorkerVars
  <2>2. UNCHANGED Page!logVars
    BY <2>1 DEF Page!logVars
  <2>3. LogTyped' /\ LogInv'
    BY <2>2, LogStays DEF PageKept
  <2>4. ClosePlaced'
    BY <2>1 DEF PageKept, PageInv, ClosePlaced, Closes
  <2>5. PageTyped' /\ PageInv'
    BY <2>1, <2>4, RestKeeps DEF PageKept, PageTyped
  <2>. QED  BY <2>2, <2>3, <2>5 DEF PageKept
<1>. QED  BY <1>1, <1>2 DEF HarnessNext, harnessVars, Offscreen

\* the invariant holds of every AnonRpcWorker in a page
LEMMA PageInvariant == HarnessSpec => []PageKept
<1>1. HarnessInit => PageKept
  BY PageStarts DEF HarnessInit
<1>. QED  BY <1>1, PageSteps, PTL DEF HarnessSpec

\* it says that calls are made as asked
LEMMA KeptCalls == PageKept => CallsAsMade
<1>. SUFFICES ASSUME PageKept PROVE Page!CallsAsMade
  BY DEF CallsAsMade
<1>. USE DEF PageKept
<1>1. \A i, j \in DOMAIN handed : i < j => handed[i] < handed[j]
  <2>1. DOMAIN handed = 1 .. Len(handed) /\ InOrder(handed, Increasing)
    BY LenProperties DEF PageTyped, PageInv
  <2>. QED  BY <2>1 DEF InOrder, Increasing
<1>2. \A c \in Page!Fetches :
       /\ call[c].at = "handed" => call[c].sent = call[c].made \/ call[c].changed
       /\ call[c].at = "rejected" =>
            \/ call[c].made = Page!NotPlain \/ call[c].changed
            \/ inner = "rejected" \/ ended.failed \/ call[c].closing
  BY DEF PageInv, CallPlaced, Refusable
<1>3. chained = <<>> => ToSet(chained) = {}
  BY DEF ToSet
<1>4. inner # "pending" /\ chained = <<>> =>
       /\ \A c \in Page!Fetches : call[c].at # "waiting"
       /\ asked.readers = {}
       /\ ended.close => inner = "rejected" \/ log.closed
  BY <1>3 DEF PageInv, CallPlaced, ClosePlaced, Waits, Closes
<1>. QED  BY <1>1, <1>2, <1>4 DEF Page!CallsAsMade

\* It says that no log entry is lost, or read out of order, and that
\* nobody waits in vain.
LEMMA KeptLogs == PageKept
  => Page!ExactlyOneReader /\ Page!ReadInOrder /\ Page!NoneWaitsInVain /\ Page!KeepsNewest
<1>. SUFFICES ASSUME LogTyped, LogInv
              PROVE  Page!ExactlyOneReader /\ Page!ReadInOrder /\ Page!NoneWaitsInVain /\ Page!KeepsNewest
  BY DEF PageKept
<1>1. /\ read \in Seq(Nat) /\ log.items \in Seq(Nat) /\ Len(log.items) \in Nat /\ logged \in Nat
      /\ refused \in Nat
  BY LenProperties DEF LogTyped, LogType
<1>2. Page!ReadInOrder
  <2>. DEFINE seen == read \o log.items
  <2>1. InOrder(read, Increasing) /\ InOrder(log.items, Increasing)
        /\ \A x \in ToSet(read), y \in ToSet(log.items) : <<x, y>> \in Increasing
    BY ItemsIncrease DEF LogInv
  <2>2. /\ seen \in Seq(Nat)
        /\ \A R : InOrder(read, R) /\ InOrder(log.items, R)
                    /\ (\A x \in ToSet(read), y \in ToSet(log.items) : <<x, y>> \in R) => InOrder(seen, R)
    BY <1>1, ConcatOrder
  <2>. HIDE DEF seen
  <2>3. InOrder(seen, Increasing) /\ DOMAIN seen = 1 .. Len(seen)
    BY <2>1, <2>2, LenProperties
  <2>4. \A i, j \in DOMAIN seen : i < j => seen[i] < seen[j]
    BY <2>3 DEF InOrder, Increasing
  <2>. QED  BY <2>4 DEF Page!ReadInOrder, seen
<1>3. Page!NoneWaitsInVain
  BY SameSequences DEF LogInv, Page!NoneWaitsInVain
<1>4. Page!KeepsNewest
  <2>1. ASSUME log.dropped > 0, read = <<>>
        PROVE  log.items = [i \in 1 .. Retention |-> logged - refused - Retention + i]
    <3>1. Len(log.items) = Retention
      BY <2>1 DEF LogInv
    <3>2. \A i \in 1 .. Len(log.items) : log.items[i] = logged - refused - Len(log.items) + i
      BY DEF LogInv
    <3>3. log.items = [i \in 1 .. Len(log.items) |-> log.items[i]]
      BY <1>1, LenProperties
    <3>. QED  BY <3>1, <3>2, <3>3
  <2>. QED  BY <2>1 DEF LogInv, Page!KeepsNewest
<1>. QED  BY <1>2, <1>3, <1>4 DEF LogInv

\* PageWorker.ts:64-81: each call is handed over with the entries it was
\* made with, unless it had none and so no copy of the host's object, and
\* that has changed since; in the order it was made; and none made before
\* close() is refused because of it; once #inner is settled and nothing waits for it,
\* no call, reader or close is left behind.
THEOREM CallsGoAsMade == HarnessSpec => []CallsAsMade
BY PageInvariant, KeptCalls, PTL

\* log-queue.ts, for every number of readers, of entries and every
\* retention: an entry goes to exactly one reader, oldest first, or is
\* dropped for room, the oldest of them; no reader waits in vain; and none
\* is rejected while an entry is retained.
THEOREM NoLogLost == HarnessSpec => LogsKept
<1>. DEFINE Safe == Page!ExactlyOneReader /\ Page!ReadInOrder /\ Page!NoneWaitsInVain /\ Page!KeepsNewest
<1>1. PageKept => Safe
  BY KeptLogs
<1>. HIDE DEF Safe
<1>2. HarnessSpec => []Safe /\ [][Page!LastWords]_(Page!logVars)
  BY <1>1, PageInvariant, PageSteps, PTL DEF HarnessSpec
<1>. QED  BY <1>2 DEF LogsKept, Page!LogsKept, Safe

=============================================================================
