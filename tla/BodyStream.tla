------------------------------ MODULE BodyStream ------------------------------
(***************************************************************************)
(* A body crossing the extension's port as chunks                          *)
(* (browser-extension-harness/src/body-stream.ts).  The sending half reads *)
(* its source one chunk per pull, the receiving half is a ReadableStream   *)
(* that pulls one chunk when its queue is empty.                           *)
(*                                                                         *)
(* An operation returns a step: the half afterwards and the messages it    *)
(* sends.  A body is identified by its channel and call; a source is a     *)
(* sequence of chunks, a chunk the sequence of its pieces, and a piece is  *)
(* what fits one message (MAX_CHUNK).                                      *)
(*                                                                         *)
(* Both halves start out as done, the state in which BodyStreams has no    *)
(* entry for them: a message for a body that is done is dropped either     *)
(* way.                                                                    *)
(***************************************************************************)
EXTENDS SequencesExt

Pull(id) == [kind |-> "body.pull", body |-> id]
Cancel(id) == [kind |-> "body.cancel", body |-> id]
Chunk(id, piece) == [kind |-> "body.chunk", body |-> id, piece |-> piece]
End(id) == [kind |-> "body.end", body |-> id]
Error(id) == [kind |-> "body.error", body |-> id]

Step(half, out) == [half |-> half, out |-> out]
Quiet(half) == Step(half, <<>>)

-----------------------------------------------------------------------------
(* BodySender. *)

Sender(source) == [left |-> source, rest |-> <<>>, reading |-> FALSE, done |-> FALSE]

NoSender == [Sender(<<>>) EXCEPT !.done = TRUE]

\* the unsent tail of a large chunk goes first; else the source is asked
OnPull(id, s) ==
  IF s.done THEN Quiet(s)
  ELSE IF s.rest # <<>> THEN Step([s EXCEPT !.rest = Tail(@)], <<Chunk(id, Head(s.rest))>>)
  ELSE Quiet([s EXCEPT !.reading = TRUE])

\* the tail of a large chunk is forgotten
ReadChunk_DropsTail(id, s) ==
  Step([s EXCEPT !.left = Tail(@), !.reading = FALSE],
       IF s.done THEN <<>> ELSE <<Chunk(id, Head(Head(s.left)))>>)

\* the source gave a chunk: nothing is sent if the body was cancelled meanwhile
ReadChunk(id, s) ==
  Step([s EXCEPT !.left = Tail(@), !.reading = FALSE, !.rest = Tail(Head(s.left))],
       IF s.done THEN <<>> ELSE <<Chunk(id, Head(Head(s.left)))>>)

\* the source is at its end, also because cancel() ended it
ReadEnd(id, s) == Step([s EXCEPT !.reading = FALSE, !.done = TRUE], <<End(id)>>)

ReadError(id, s) ==
  Step([s EXCEPT !.reading = FALSE, !.done = TRUE], IF s.done THEN <<>> ELSE <<Error(id)>>)

StopSender(s) == [s EXCEPT !.done = TRUE]

-----------------------------------------------------------------------------
(* BodyReceiver.  `got` is what its consumer has read. *)

\* the stream asks for a chunk when it holds none and has not asked yet
Refill(id, r) ==
  IF r.state = "open" /\ r.queue = <<>> /\ ~r.waiting
  THEN Step([r EXCEPT !.waiting = TRUE], <<Pull(id)>>) ELSE Quiet(r)

NoReceiver == [queue |-> <<>>, got |-> <<>>, waiting |-> FALSE, state |-> "none"]

Receiver(id) == Refill(id, [NoReceiver EXCEPT !.state = "open"])

Live(r) == r.state = "open"

\* fail(), and the consumer's cancel(): the sender is told, the queue is gone
StopReceiver(id, r) ==
  IF Live(r)
  THEN Step([r EXCEPT !.state = "stopped", !.queue = <<>>, !.waiting = FALSE], <<Cancel(id)>>)
  ELSE Quiet(r)

Deliver(id, r, m) ==
  IF ~Live(r) THEN Quiet(r)
  ELSE IF m.kind = "body.chunk"
  THEN Refill(id, [r EXCEPT !.queue = Append(@, m.piece), !.waiting = FALSE])
  ELSE IF m.kind = "body.end"
  THEN Quiet([r EXCEPT !.state = "closed", !.waiting = FALSE])
  ELSE StopReceiver(id, r)

\* the consumer reads a piece, which makes room for another
Read(id, r) == Refill(id, [r EXCEPT !.queue = Tail(@), !.got = Append(@, Head(r.queue))])

=============================================================================
