------------------------------ MODULE SocketBridge ------------------------------
(***************************************************************************)
(* The sockets a Node worker asks its host for: the host's bridge          *)
(* (node-harness/src/host/socket-bridge-host.ts) and the guest's end of it *)
(* (makeSocket and ReadableStream of child/prelude.guest.js), over the     *)
(* worker thread's port.                                                   *)
(*                                                                         *)
(* The port keeps order, kept here per socket.  One socket, Main, is read  *)
(* and written; its peer sends numbered pieces, a piece being what the     *)
(* host hands over at a time, so that a chunk of two pieces is split.  The *)
(* others are opened and closed only, and as sockets share nothing but the *)
(* cap, either Main has traffic or there are others (bound: Alone, Idle).  *)
(* A guest action is the guest code up to where it waits, with the promise *)
(* jobs it leads to.                                                       *)
(*                                                                         *)
(* A definition named X_Why is X with a plausible slip, which a property   *)
(* has to notice; the specification uses none of them.                     *)
(***************************************************************************)
EXTENDS AddressPolicy, FiniteSets

CONSTANTS
  Socks,          \* the sockets the guest ever asks for
  Main,           \* the one that is read and written
  Readers,        \* the concurrent read() calls on Main's stream
  MaxConcurrent,  \* maxConcurrent
  Addresses,      \* the texts a lookup may answer with
  Allow,          \* policy.allow, parsed
  Exceptions,     \* the same as intervals
  Pieces          \* how many pieces Main's peer sends (bound)

None == "none"

NoText == V4(<<>>)

ASSUME SocksAssumption == IsFiniteSet(Socks)
ASSUME MainAssumption == Main \in Socks
ASSUME ReadersAssumption == None \notin Readers
ASSUME BoundsAssumption == MaxConcurrent \in Nat \ {0} /\ Pieces \in Nat

VARIABLES
  host,      \* each socket at the host: its Bridged and where its connect is
  up,        \* the guest's messages on their way, of each socket
  down,      \* the replies on their way back
  guest,     \* each socket at the guest
  stream,    \* Main's readable: the state of its ReadableStream
  reader,    \* each read() call
  got,       \* the pieces the guest has read
  disposed,  \* the worker has failed or been closed, and its sockets with it
  late,      \* history: the sockets that the disposal found undialled, and so did not reach
  overlap    \* history: a connect was let through while another was on its way

vars == <<host, up, down, guest, stream, reader, got, disposed, late, overlap>>

SocketType ==
  [phase : {"new", "lookup", "dial", "live", "released", "refused"},
   text : Addresses \cup {NoText}, fd : {"none", "open", "destroyed", "closed"},
   queue : Seq(Seq(1 .. Pieces)), received : 0 .. Pieces, paused : BOOLEAN, ended : BOOLEAN,
   waiter : BOOLEAN, closers : BOOLEAN, writing : BOOLEAN, finished : BOOLEAN]

StreamType ==
  [queue : Seq(1 .. Pieces), closed : BOOLEAN, errored : BOOLEAN,
   puller : Readers \cup {None}, waiters : Seq(Readers)]

\* the pause keeps the host to three chunks: two, and the rest of one that was split
HostTypeOK ==
  /\ host \in [Socks -> SocketType]
  /\ \A s \in Socks : Len(host[s].queue) <= 3
  /\ disposed \in BOOLEAN /\ overlap \in BOOLEAN /\ late \subseteq Socks

GuestType ==
  [state : {"new", "asked", "open", "refused"}, settled : BOOLEAN, dropped : BOOLEAN,
   write : {"new", "asked", "taken", "failed"}]

GuestTypeOK ==
  /\ guest \in [Socks -> GuestType]
  /\ stream \in StreamType
  /\ reader \in [Readers -> {"idle", "reading", "done", "failed"}]
  /\ got \in Seq(1 .. Pieces)

Init ==
  /\ host = [s \in Socks |->
       [phase |-> "new", text |-> NoText, fd |-> "none", queue |-> <<>>, received |-> 0,
        paused |-> FALSE, ended |-> FALSE, waiter |-> FALSE, closers |-> FALSE,
        writing |-> FALSE, finished |-> FALSE]]
  /\ up = [s \in Socks |-> <<>>] /\ down = [s \in Socks |-> <<>>]
  /\ guest = [s \in Socks |->
       [state |-> "new", settled |-> FALSE, dropped |-> FALSE, write |-> "new"]]
  /\ stream = [queue |-> <<>>, closed |-> FALSE, errored |-> FALSE, puller |-> None,
               waiters |-> <<>>]
  /\ reader = [r \in Readers |-> "idle"]
  /\ got = <<>>
  /\ disposed = FALSE /\ late = {} /\ overlap = FALSE

guestVars == <<guest, stream, reader, got>>
fateVars == <<disposed, late, overlap>>

\* the bound of the comment above
Alone == \A s \in Socks \ {Main} : guest[s].state = "new"

Idle ==
  /\ host[Main].received = 0
  /\ guest[Main].write = "new" /\ \A r \in Readers : reader[r] = "idle"

-----------------------------------------------------------------------------
(* The host *)

Live(s) == host[s].phase = "live"

OpenCount == Cardinality({s \in Socks : Live(s) /\ host[s].fd # "closed"})

Settling(s) == host[s].phase \in {"lookup", "dial"}

\* the message at the head of the port is one of this kind
Asked(s, kind) == up[s] # <<>> /\ Head(up[s]) = kind

\* the Rpc answers nothing once it is closed, but does what it is asked as before
Reply(s, replies) == down' = IF disposed THEN down ELSE [down EXCEPT ![s] = @ \o replies]

Handled(s) == up' = [up EXCEPT ![s] = Tail(@)]

Release(h) ==
  [h EXCEPT !.phase = "released", !.fd = IF @ = "open" THEN "destroyed" ELSE @]

\* one turn of socket.read's loop: the socket it leaves, and what it answers
Served(h) ==
  CASE h.queue # <<>> ->
         LET chunk == Head(h.queue)
             rest == Tail(h.queue)
         IN  [h |-> [h EXCEPT
                       !.queue = IF Len(chunk) > 1 THEN <<Tail(chunk)>> \o rest ELSE rest,
                       !.paused = @ /\ (Len(rest) > 1 \/ h.fd = "closed"), !.waiter = FALSE],
              replies |-> <<<<"piece", chunk[1]>>>>]
    [] h.queue = <<>> /\ h.ended ->
         [h |-> [Release(h) EXCEPT !.waiter = FALSE], replies |-> <<<<"done", 0>>>>]
    [] OTHER -> [h |-> [h EXCEPT !.waiter = TRUE], replies |-> <<>>]

\* what an event does to the socket, and the read that waited for one
Woken(h) == IF h.waiter THEN Served(h) ELSE [h |-> h, replies |-> <<>>]

Event(s, step, more) ==
  /\ host' = [host EXCEPT ![s] = step.h]
  /\ Reply(s, step.replies \o more)

\* nothing is open yet that the check could count while a connect is on its way
Connect(s) ==
  /\ Asked(s, "connect")
  /\ Handled(s)
  /\ IF OpenCount >= MaxConcurrent
     THEN /\ host' = [host EXCEPT ![s].phase = "refused"]
          /\ Reply(s, <<<<"refused", 0>>>>)
          /\ UNCHANGED fateVars
     ELSE /\ host' = [host EXCEPT ![s].phase = "lookup"]
          /\ overlap' = (overlap \/ \E t \in Socks : Settling(t))
          /\ UNCHANGED <<down, disposed, late>>
  /\ UNCHANGED guestVars

\* `text` stays when it is what the policy refused
Refused(s, text) ==
  /\ host' = [host EXCEPT ![s].phase = "refused", ![s].text = text]
  /\ Reply(s, <<<<"refused", 0>>>>)

Unresolved(s) ==
  /\ host[s].phase = "lookup"
  /\ Refused(s, NoText)
  /\ UNCHANGED <<up, guestVars, fateVars>>

\* the address the lookup found is checked, and dialled
Resolved(s, text) ==
  /\ host[s].phase = "lookup"
  /\ IF Permits(text, Allow, FALSE)
     THEN /\ host' = [host EXCEPT ![s].phase = "dial", ![s].text = text]
          /\ UNCHANGED down
     ELSE Refused(s, text)
  /\ UNCHANGED <<up, guestVars, fateVars>>

Undialled(s) ==
  /\ host[s].phase = "dial"
  /\ Refused(s, NoText)
  /\ UNCHANGED <<up, guestVars, fateVars>>

\* a connect that the disposal did not reach registers its socket all the same
Dialled(s) ==
  /\ host[s].phase = "dial"
  /\ host' = [host EXCEPT ![s].phase = "live", ![s].text = NoText, ![s].fd = "open"]
  /\ Reply(s, <<<<"connected", 0>>>>)
  /\ UNCHANGED <<up, guestVars, fateVars>>

\* the peer's next `count` pieces, in one chunk
Data(count) ==
  LET h == host[Main]
      chunk == [i \in 1 .. count |-> h.received + i]
      queue == Append(h.queue, chunk)
  IN  /\ Alone
      /\ h.fd = "open" /\ ~h.paused /\ ~h.ended
      /\ h.received + count <= Pieces
      /\ Event(Main, Woken([h EXCEPT !.queue = queue, !.received = @ + count,
                                     !.paused = @ \/ Len(queue) > 1]), <<>>)
      /\ UNCHANGED <<up, guestVars, fateVars>>

End ==
  LET h == host[Main]
  IN  /\ h.fd = "open" /\ ~h.paused /\ ~h.ended
      /\ Event(Main, Woken([h EXCEPT !.ended = TRUE]), <<>>)
      /\ UNCHANGED <<up, guestVars, fateVars>>

\* an entry outlives its socket: only the reads to come release it
Closed_Releases(s) ==
  LET h == host[s]
      shut == [Release(h) EXCEPT !.fd = "closed", !.ended = TRUE, !.closers = FALSE,
                                 !.writing = FALSE, !.queue = <<>>]
  IN  /\ h.fd \in {"open", "destroyed"}
      /\ Event(s, Woken(shut), (IF h.closers THEN <<<<"closed", 0>>>> ELSE <<>>)
                               \o (IF h.writing THEN <<<<"unwritten", 0>>>> ELSE <<>>))
      /\ UNCHANGED <<up, guestVars, fateVars>>

\* the peer or an error closes the socket, or the host has destroyed it
Closed(s) ==
  LET h == host[s]
      shut == [h EXCEPT !.fd = "closed", !.ended = TRUE, !.closers = FALSE, !.writing = FALSE]
  IN  /\ h.fd \in {"open", "destroyed"}
      /\ Event(s, Woken(shut), (IF h.closers THEN <<<<"closed", 0>>>> ELSE <<>>)
                               \o (IF h.writing THEN <<<<"unwritten", 0>>>> ELSE <<>>))
      /\ UNCHANGED <<up, guestVars, fateVars>>

Read ==
  /\ Asked(Main, "read")
  /\ Handled(Main)
  /\ IF Live(Main) THEN Event(Main, Served(host[Main]), <<>>)
     ELSE Reply(Main, <<<<"error", 0>>>>) /\ UNCHANGED host
  /\ UNCHANGED <<guestVars, fateVars>>

Write ==
  /\ Asked(Main, "write")
  /\ Handled(Main)
  /\ IF Live(Main) /\ host[Main].fd = "open" /\ ~host[Main].finished
     THEN host' = [host EXCEPT ![Main].writing = TRUE] /\ UNCHANGED down
     ELSE Reply(Main, <<<<"unwritten", 0>>>>) /\ UNCHANGED host
  /\ UNCHANGED <<guestVars, fateVars>>

\* the kernel has taken it
Wrote ==
  /\ host[Main].writing /\ host[Main].fd = "open"
  /\ Event(Main, [h |-> [host[Main] EXCEPT !.writing = FALSE], replies |-> <<>>],
           <<<<"wrote", 0>>>>)
  /\ UNCHANGED <<up, guestVars, fateVars>>

AskClosed_Waits(s) ==
  /\ Asked(s, "closed")
  /\ Handled(s)
  /\ host' = [host EXCEPT ![s].closers = TRUE]
  /\ UNCHANGED <<down, guestVars, fateVars>>

\* a released socket is a closed one
AskClosed(s) ==
  /\ Asked(s, "closed")
  /\ Handled(s)
  /\ IF Live(s) /\ host[s].fd # "closed"
     THEN host' = [host EXCEPT ![s].closers = TRUE] /\ UNCHANGED down
     ELSE Reply(s, <<<<"closed", 0>>>>) /\ UNCHANGED host
  /\ UNCHANGED <<guestVars, fateVars>>

HalfClose ==
  /\ Asked(Main, "end")
  /\ Handled(Main)
  /\ host' = [host EXCEPT ![Main].finished = @ \/ Live(Main)]
  /\ UNCHANGED <<down, guestVars, fateVars>>

CloseSocket(s) ==
  /\ Asked(s, "close")
  /\ Handled(s)
  /\ host' = [host EXCEPT ![s] = IF Live(s) THEN Release(@) ELSE @]
  /\ UNCHANGED <<down, guestVars, fateVars>>

Dispose_LeavesDials ==
  /\ ~disposed
  /\ disposed' = TRUE
  /\ late' = {s \in Socks : host[s].phase \in {"new", "lookup"}}
  /\ host' = [s \in Socks |-> IF Live(s) THEN Release(host[s]) ELSE host[s]]
  /\ down' = [s \in Socks |-> <<>>]
  /\ UNCHANGED <<up, guestVars, overlap>>

\* the live are destroyed, and the dials stopped by their signals, which no connect
\* listens to before; nothing keeps the host from what was posted, or is yet
Dispose ==
  /\ ~disposed
  /\ disposed' = TRUE
  /\ late' = {s \in Socks : host[s].phase \in {"new", "lookup"}}
  /\ host' = [s \in Socks |->
       CASE Live(s) -> Release(host[s])
         [] host[s].phase = "dial" -> [host[s] EXCEPT !.phase = "refused", !.text = NoText]
         [] OTHER -> host[s]]
  /\ down' = [s \in Socks |-> <<>>]
  /\ UNCHANGED <<up, guestVars, overlap>>

-----------------------------------------------------------------------------
(* The guest *)

Post(s, kinds) == up' = [up EXCEPT ![s] = @ \o kinds]

(***************************************************************************)
(* One turn of read()'s loop for reader r: it throws, takes what is        *)
(* queued, ends, pulls, or parks behind the read that is pulling.  `t` is  *)
(* the stream, the readers, what was read, and whether the host is asked.  *)
(***************************************************************************)
Turn(t, r) ==
  LET st == t.stream
      Ends(how) == [t EXCEPT !.reader[r] = how]
  IN  CASE st.errored -> Ends("failed")
        [] ~st.errored /\ st.queue # <<>> ->
             [Ends("idle") EXCEPT !.got = Append(@, Head(st.queue)), !.stream.queue = Tail(@)]
        [] ~st.errored /\ st.queue = <<>> /\ st.closed -> Ends("done")
        [] OTHER -> IF st.puller = None
                    THEN [Ends("reading") EXCEPT !.stream.puller = r, !.asks = TRUE]
                    ELSE [Ends("reading") EXCEPT !.stream.waiters = Append(@, r)]

\* the turns of several readers, one after the other
Turns(t, rs) ==
  LET turned[k \in 0 .. Len(rs)] == IF k = 0 THEN t ELSE Turn(turned[k - 1], rs[k])
  IN  turned[Len(rs)]

\* enqueue() throws on a closed stream and wakes one waiter otherwise, close() wakes
\* all of them, and a pull that throws wakes none
Pulled(t, reply) ==
  LET st == t.stream
      Then(woken, change) == [Turns([t EXCEPT !.stream = change], woken) EXCEPT
                                !.stream.puller = None]
      First(q) == IF q = <<>> THEN <<>> ELSE <<Head(q)>>
      Rest(q) == IF q = <<>> THEN <<>> ELSE Tail(q)
      settled ==
        CASE reply[1] = "error" \/ (reply[1] = "piece" /\ st.closed) ->
               Then(<<>>, [st EXCEPT !.errored = TRUE])
          [] reply[1] = "piece" /\ ~st.closed ->
               Then(First(st.waiters), [st EXCEPT !.queue = Append(@, reply[2]),
                                                  !.waiters = Rest(@)])
          [] OTHER -> Then(st.waiters, [st EXCEPT !.closed = TRUE, !.waiters = <<>>])
  IN  Turn(settled, st.puller)

Streaming == [stream |-> stream, reader |-> reader, got |-> got, asks |-> FALSE]

Becomes(t) ==
  /\ stream' = t.stream /\ reader' = t.reader /\ got' = t.got
  /\ up' = IF t.asks THEN [up EXCEPT ![Main] = Append(@, "read")] ELSE up

\* and until its thread is stopped, in the midst of the disposal or after it: what
\* else it may still post then finds no socket, and is left out
GuestConnect(s) ==
  /\ guest[s].state = "new" /\ (s # Main => Idle)
  /\ guest' = [guest EXCEPT ![s].state = "asked"]
  /\ Post(s, <<"connect">>)
  /\ UNCHANGED <<host, down, stream, reader, got, fateVars>>

GuestRead(r) ==
  /\ ~disposed
  /\ Alone
  /\ guest[Main].state = "open" /\ reader[r] = "idle"
  /\ Becomes(Turn(Streaming, r))
  /\ UNCHANGED <<host, down, guest, fateVars>>

\* reader.cancel(): what was read ahead is dropped, and the socket closed
GuestCancel ==
  /\ ~disposed
  /\ guest[Main].state = "open" /\ ~guest[Main].dropped
  /\ stream' = [stream EXCEPT !.closed = TRUE, !.queue = <<>>]
  /\ guest' = [guest EXCEPT ![Main].dropped = TRUE]
  /\ Post(Main, <<"close">>)
  /\ UNCHANGED <<host, down, reader, got, fateVars>>

\* close(), the writable's abort(), or the caller's signal
GuestClose(s) ==
  /\ ~disposed
  /\ guest[s].state = "open" /\ ~guest[s].dropped
  /\ guest' = [guest EXCEPT ![s].dropped = TRUE]
  /\ Post(s, <<"close">>)
  /\ UNCHANGED <<host, down, stream, reader, got, fateVars>>

\* a write, with or without closeWrite() after it or before it
GuestWrite(asks) ==
  /\ ~disposed
  /\ Alone
  /\ guest[Main].state = "open" /\ guest[Main].write = "new"
  /\ guest' = [guest EXCEPT ![Main].write = "asked"]
  /\ Post(Main, asks)
  /\ UNCHANGED <<host, down, stream, reader, got, fateVars>>

Settle(s, reply) ==
  guest' = [guest EXCEPT ![s] =
    CASE reply[1] = "connected" -> [@ EXCEPT !.state = "open"]
      [] reply[1] = "refused" -> [@ EXCEPT !.state = "refused"]
      [] reply[1] = "closed" -> [@ EXCEPT !.settled = TRUE]
      [] reply[1] = "wrote" -> [@ EXCEPT !.write = "taken"]
      [] reply[1] = "unwritten" -> [@ EXCEPT !.write = "failed"]
      [] OTHER -> @]

\* a connected socket asks for its `closed` at once
Deliver(s) ==
  LET reply == Head(down[s])
  IN  /\ ~disposed
      /\ down[s] # <<>>
      /\ down' = [down EXCEPT ![s] = Tail(@)]
      /\ Settle(s, reply)
      /\ IF reply[1] \in {"piece", "done", "error"} THEN Becomes(Pulled(Streaming, reply))
         ELSE /\ UNCHANGED <<stream, reader, got>>
              /\ IF reply[1] = "connected" THEN Post(s, <<"closed">>) ELSE UNCHANGED up
      /\ UNCHANGED <<host, fateVars>>

-----------------------------------------------------------------------------

Handle(s) == Connect(s) \/ AskClosed(s) \/ CloseSocket(s)

HandleMain == Read \/ Write \/ HalfClose

Lookup(s) == Unresolved(s) \/ \E text \in Addresses : Resolved(s, text)

Dial(s) == Undialled(s) \/ Dialled(s)

Next ==
  \/ \E s \in Socks : \/ Handle(s) \/ Lookup(s) \/ Dial(s) \/ Closed(s) \/ Deliver(s)
                      \/ GuestConnect(s) \/ GuestClose(s)
  \/ HandleMain \/ Wrote \/ End \/ Dispose \/ GuestCancel
  \/ \E count \in 1 .. 2 : Data(count)
  \/ \E r \in Readers : GuestRead(r)
  \/ \E asks \in {<<"write">>, <<"write", "end">>, <<"end", "write">>} : GuestWrite(asks)

Spec == Init /\ [][Next]_vars

\* the port delivers, and what the host has destroyed closes; both are bounded, so
\* that fairness to all of it starves none of it
Progress ==
  \/ HandleMain
  \/ \E s \in Socks : Handle(s) \/ Deliver(s) \/ (host[s].fd = "destroyed" /\ Closed(s))

FairSpec == Spec /\ WF_vars(Progress)

-----------------------------------------------------------------------------

\* the pieces on their way to the guest
InFlight ==
  FlattenSeq([i \in DOMAIN down[Main] |->
    IF down[Main][i][1] = "piece" THEN <<down[Main][i][2]>> ELSE <<>>])

(***************************************************************************)
(* socket-bridge-host.ts:87, "an entry OUTLIVES its socket": while the     *)
(* guest has not dropped the socket, what it has read, what is on its way  *)
(* and what the host has queued are together what the peer has sent, in    *)
(* order, so that a stream that ends has been read whole.  And as          *)
(* Bridged.waiter holds one read only: whatever is read, cancelled and     *)
(* closed at the guest, one socket.read is out while a read pulls, and     *)
(* none else.                                                              *)
(***************************************************************************)
StreamIntact ==
  LET asked == {i \in DOMAIN up[Main] : up[Main][i] = "read"}
      answered == {i \in DOMAIN down[Main] : down[Main][i][1] \in {"piece", "done", "error"}}
      out(held) == IF held THEN 1 ELSE 0
  IN  /\ GuestTypeOK
      /\ ~disposed =>
           /\ ~guest[Main].dropped =>
                got \o InFlight \o FlattenSeq(host[Main].queue)
                  = [i \in 1 .. host[Main].received |-> i]
           /\ Cardinality(asked) + Cardinality(answered) + out(host[Main].waiter)
                = out(stream.puller # None)

(***************************************************************************)
(* SocketBridgeOptions.maxConcurrent holds as long as no connect was let   *)
(* through while another was on its way, which the check does not count.   *)
(* The disposer destroys every socket the bridge holds and #fail aborts    *)
(* every dial: what is open afterwards had not been dialled then.          *)
(* The pause keeps each socket's queue as short as HostTypeOK says.        *)
(***************************************************************************)
SocketsBounded ==
  /\ HostTypeOK
  /\ OpenCount > MaxConcurrent => overlap
  /\ disposed => \A s \in Socks : host[s].fd = "open" \/ host[s].phase = "dial" => s \in late

(***************************************************************************)
(* Whatever the lookup answers is dialled just when it is outside the      *)
(* host's own network or excepted: the prefixes and masks of               *)
(* address-policy.ts mean the intervals they are meant to.                 *)
(***************************************************************************)
PolicyIsExact ==
  \A s \in Socks : host[s].text # NoText =>
    (host[s].phase = "dial" <=> Reachable(ToBytes(host[s].text), Exceptions))

(***************************************************************************)
(* Once the guest has closed the socket or the peer has ended it, every    *)
(* read that pulls settles, and so do `closed` and a write.  What asks is  *)
(* bounded, so that it is enough for all of it to be settled again and     *)
(* again.                                                                  *)
(***************************************************************************)
ClosingSettles ==
  []<>(\/ disposed
       \/ /\ guest[Main].dropped \/ host[Main].ended => stream.puller = None
          /\ \A s \in Socks : guest[s].dropped => guest[s].settled
          /\ guest[Main].dropped => guest[Main].write # "asked")

=============================================================================
