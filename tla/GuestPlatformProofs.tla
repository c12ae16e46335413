-------------------------- MODULE GuestPlatformProofs --------------------------
(***************************************************************************)
(* What the guest's platform holds: the socket bridge, the isolate's       *)
(* timers, handles and fetches, and the guest's streams.  Each is proved   *)
(* of its own module; they share no state.                                 *)
(***************************************************************************)
EXTENDS SocketBridge, GuestIsolate, GuestStream, CallQueueTheorems

(***************************************************************************)
(* What the host's end of the socket bridge holds, for any sockets, cap,   *)
(* policy and peer.  A step of the host changes one socket, and all but    *)
(* the check of a connect are Tame: they count no socket towards the cap   *)
(* and open none that was not counted or on its way before.  The guest's   *)
(* steps matter through the one "connect" each socket is asked for.        *)
(***************************************************************************)

Settles(h) == h.phase \in {"lookup", "dial"}

\* what the cap is about, and what a disposal is
Counts(h) == (h.phase = "live" /\ h.fd # "closed") \/ Settles(h)

Opens(h) == h.fd = "open" \/ Settles(h)

\* a socket of the host; one that is not paused has room for two more chunks
Sound(h) ==
  /\ h \in SocketType
  /\ Len(h.queue) <= 3 /\ (~h.paused => Len(h.queue) <= 2)
  /\ h.fd = "open" => h.phase = "live"
  /\ h.phase = "new" => h.fd = "none"

Tame(h, next) ==
  /\ Sound(next)
  /\ Counts(next) => Counts(h)
  /\ Opens(next) => Opens(h)
  /\ next.phase = "new" <=> h.phase = "new"

Kinds == {"connect", "read", "write", "closed", "end", "close"}

Asks(port) == \E i \in DOMAIN port : port[i] = "connect"

AsksOnce(port) ==
  \A i, j \in DOMAIN port : port[i] = "connect" /\ port[j] = "connect" => i = j

\* a socket is asked for once, and is new at the host until the host takes that up
Calls ==
  /\ guest \in [Socks -> GuestType]
  /\ up \in [Socks -> Seq(Kinds)]
  /\ \A s \in Socks :
       /\ guest[s].state = "new" => ~Asks(up[s]) /\ host[s].phase = "new"
       /\ Asks(up[s]) => host[s].phase = "new"
       /\ AsksOnce(up[s])

HostOK ==
  /\ host \in [Socks -> SocketType] /\ \A s \in Socks : Sound(host[s])
  /\ disposed \in BOOLEAN /\ overlap \in BOOLEAN /\ late \subseteq Socks

CountedSockets == {s \in Socks : Counts(host[s])}

Bounded ==
  /\ ~overlap => Cardinality(CountedSockets) <= MaxConcurrent
  /\ disposed => \A s \in Socks : Opens(host[s]) \/ host[s].phase = "new" => s \in late

BridgeInv == HostOK /\ Calls /\ Bounded

-----------------------------------------------------------------------------

(* One socket of the host *)

LEMMA ReleaseTame ==
  ASSUME NEW h, Sound(h), h.phase # "new"
  PROVE  Tame(h, Release(h)) /\ ~Opens(Release(h)) /\ ~Counts(Release(h))
BY DEF Sound, Tame, Release, SocketType, Counts, Opens, Settles

\* what is left of the chunk that is served goes back to the queue's head
Left(queue) ==
  IF Len(Head(queue)) > 1 THEN <<Tail(Head(queue))>> \o Tail(queue) ELSE Tail(queue)

LEMMA QueueServed ==
  ASSUME NEW S, NEW queue \in Seq(Seq(S)), queue # <<>>
  PROVE  /\ Left(queue) \in Seq(Seq(S))
         /\ Len(queue) \in Nat /\ Len(Tail(queue)) = Len(queue) - 1
         /\ Len(Left(queue)) \in Nat /\ Len(Left(queue)) <= Len(queue)
<1>1. /\ Head(queue) \in Seq(S) /\ Tail(queue) \in Seq(Seq(S))
      /\ Len(queue) \in Nat /\ Len(Tail(queue)) = Len(queue) - 1
      /\ Len(Tail(queue)) \in Nat
  BY HeadTailProperties, LenProperties
<1>2. CASE Len(Head(queue)) > 1
  <2>1. Head(queue) # <<>>
    BY <1>2, EmptySeq
  <2>2. Tail(Head(queue)) \in Seq(S)
    BY <1>1, <2>1, HeadTailProperties
  <2>3. <<Tail(Head(queue))>> \in Seq(Seq(S)) /\ Len(<<Tail(Head(queue))>>) = 1
    BY <2>2
  <2>4. Left(queue) \in Seq(Seq(S)) /\ Len(Left(queue)) = 1 + Len(Tail(queue))
    BY <1>1, <1>2, <2>3, ConcatProperties DEF Left
  <2> QED BY <1>1, <2>4
<1>3. CASE ~(Len(Head(queue)) > 1)
  <2>1. Left(queue) = Tail(queue)
    BY <1>3 DEF Left
  <2> QED BY <1>1, <2>1
<1> QED BY <1>2, <1>3

LEMMA ServedTame ==
  ASSUME NEW h, Sound(h), h.phase # "new"
  PROVE  Tame(h, Served(h).h)
<1>1. CASE h.queue # <<>>
  <2> DEFINE chunk == Head(h.queue)
             rest == Tail(h.queue)
             queue == Left(h.queue)
             paused == h.paused /\ (Len(rest) > 1 \/ h.fd = "closed")
  <2>1. /\ h \in SocketType /\ h.queue \in Seq(Seq(1 .. Pieces)) /\ h.paused \in BOOLEAN
        /\ Len(h.queue) <= 3 /\ (~h.paused => Len(h.queue) <= 2)
    BY DEF Sound, SocketType
  <2>4. /\ queue \in Seq(Seq(1 .. Pieces)) /\ Len(queue) \in Nat
        /\ paused \in BOOLEAN /\ Len(h.queue) \in Nat /\ Len(rest) = Len(h.queue) - 1
        /\ Len(queue) <= Len(h.queue)
    BY <1>1, <2>1, QueueServed
  <2>5. Len(queue) <= 3 /\ (~paused => Len(queue) <= 2)
    BY <2>1, <2>4
  <2>6. Served(h).h = [h EXCEPT !.queue = queue, !.paused = paused, !.waiter = FALSE]
    BY <1>1 DEF Served, Left
  <2> HIDE DEF queue, paused
  <2> QED
    BY <2>1, <2>4, <2>5, <2>6 DEF Sound, Tame, SocketType, Counts, Opens, Settles
<1>2. CASE h.queue = <<>> /\ h.ended
  <2>1. Served(h).h = [Release(h) EXCEPT !.waiter = FALSE]
    BY <1>2 DEF Served
  <2>2. Tame(h, Release(h))
    BY ReleaseTame
  <2> QED BY <2>1, <2>2 DEF Sound, Tame, SocketType, Counts, Opens, Settles
<1>3. CASE h.queue = <<>> /\ ~h.ended
  <2>1. Served(h).h = [h EXCEPT !.waiter = TRUE]
    BY <1>3 DEF Served
  <2> QED BY <2>1 DEF Sound, Tame, SocketType, Counts, Opens, Settles
<1> QED BY <1>1, <1>2, <1>3

LEMMA WokenTame ==
  ASSUME NEW h, Sound(h), h.phase # "new"
  PROVE  Tame(h, Woken(h).h)
<1>1. CASE h.waiter
  BY <1>1, ServedTame DEF Woken
<1>2. CASE ~h.waiter
  BY <1>2 DEF Woken, Tame
<1> QED BY <1>1, <1>2

LEMMA TameTame ==
  ASSUME NEW h, NEW between, NEW next, Tame(h, between), Tame(between, next)
  PROVE  Tame(h, next)
BY DEF Tame

LEMMA TameSelf ==
  ASSUME NEW h, Sound(h)
  PROVE  Tame(h, h)
BY DEF Tame

-----------------------------------------------------------------------------

(* The port *)

LEMMA PortTail ==
  ASSUME NEW port \in Seq(Kinds), port # <<>>
  PROVE  /\ Tail(port) \in Seq(Kinds)
         /\ Asks(Tail(port)) => Asks(port)
         /\ AsksOnce(port) => AsksOnce(Tail(port))
         /\ AsksOnce(port) /\ Head(port) = "connect" => ~Asks(Tail(port))
<1>1. /\ Tail(port) \in Seq(Kinds) /\ Len(Tail(port)) = Len(port) - 1 /\ Len(port) \in Nat
      /\ DOMAIN port = 1 .. Len(port)
      /\ \A i \in 1 .. Len(Tail(port)) : Tail(port)[i] = port[i + 1]
  BY HeadTailProperties, LenProperties
<1>2. DOMAIN Tail(port) = 1 .. Len(Tail(port))
  BY <1>1, LenProperties
<1>3. Head(port) = port[1] /\ 1 \in DOMAIN port
  BY <1>1, EmptySeq
<1>4. \A i \in DOMAIN Tail(port) : i + 1 \in DOMAIN port /\ Tail(port)[i] = port[i + 1]
  BY <1>1, <1>2
<1>5. DOMAIN Tail(port) \subseteq Nat \ {0}
  BY <1>2
<1> QED BY <1>1, <1>3, <1>4, <1>5 DEF Asks, AsksOnce

LEMMA PortPosts ==
  ASSUME NEW port \in Seq(Kinds), NEW more \in Seq(Kinds \ {"connect"})
  PROVE  /\ port \o more \in Seq(Kinds)
         /\ Asks(port \o more) => Asks(port)
         /\ AsksOnce(port) => AsksOnce(port \o more)
<1>1. more \in Seq(Kinds)
  BY SeqMonotonic
<1>2. /\ port \o more \in Seq(Kinds) /\ Len(port \o more) = Len(port) + Len(more)
      /\ \A i \in 1 .. Len(port) + Len(more) :
           (port \o more)[i] = IF i <= Len(port) THEN port[i] ELSE more[i - Len(port)]
  BY <1>1, ConcatProperties
<1>3. /\ Len(port) \in Nat /\ Len(more) \in Nat
      /\ DOMAIN port = 1 .. Len(port) /\ DOMAIN (port \o more) = 1 .. Len(port \o more)
  BY <1>1, <1>2, LenProperties
<1>4. \A i \in 1 .. Len(more) : more[i] # "connect"
  BY ElementOfSeq
<1>5. \A i \in DOMAIN (port \o more) :
        (port \o more)[i] = "connect" => i \in DOMAIN port /\ port[i] = "connect"
  BY <1>2, <1>3, <1>4
<1> QED BY <1>2, <1>5 DEF Asks, AsksOnce

LEMMA PortConnects ==
  ASSUME NEW port \in Seq(Kinds), ~Asks(port)
  PROVE  port \o <<"connect">> \in Seq(Kinds) /\ AsksOnce(port \o <<"connect">>)
<1> DEFINE more == <<"connect">>
<1>1. more \in Seq(Kinds) /\ Len(more) = 1
  BY DEF Kinds
<1>2. /\ port \o more \in Seq(Kinds) /\ Len(port \o more) = Len(port) + 1
      /\ \A i \in 1 .. Len(port) + 1 :
           (port \o more)[i] = IF i <= Len(port) THEN port[i] ELSE more[i - Len(port)]
  BY <1>1, ConcatProperties
<1>3. /\ Len(port) \in Nat
      /\ DOMAIN port = 1 .. Len(port) /\ DOMAIN (port \o more) = 1 .. Len(port \o more)
  BY <1>2, LenProperties
<1>4. \A i \in DOMAIN (port \o more) : (port \o more)[i] = "connect" => i = Len(port) + 1
  BY <1>2, <1>3 DEF Asks
<1> QED BY <1>2, <1>4 DEF AsksOnce

-----------------------------------------------------------------------------

(* A step of the host, and one of the guest *)

HostSide(s) ==
  /\ \E next : Tame(host[s], next) /\ host' = [host EXCEPT ![s] = next]
  /\ UNCHANGED <<guestVars, fateVars>>
  /\ up' = up \/ (up[s] # <<>> /\ Handled(s))

LEMMA FewerSockets ==
  ASSUME NEW S \in SUBSET Socks, NEW T \in SUBSET S
  PROVE  /\ Cardinality(T) \in Nat /\ Cardinality(S) \in Nat
         /\ Cardinality(T) <= Cardinality(S)
<1>1. IsFiniteSet(S)
  BY SocksAssumption, FS_Subset
<1> QED BY <1>1, FS_Subset, FS_CardinalityType

LEMMA BoundedStays ==
  ASSUME Bounded, UNCHANGED fateVars, CountedSockets' \subseteq CountedSockets,
         \A t \in Socks : /\ Opens(host[t])' => Opens(host[t])
                          /\ host'[t].phase = "new" => host[t].phase = "new"
  PROVE  Bounded'
<1>1. /\ Cardinality(CountedSockets') <= Cardinality(CountedSockets)
      /\ Cardinality(CountedSockets') \in Nat /\ Cardinality(CountedSockets) \in Nat
  BY FewerSockets DEF CountedSockets
<1> QED BY <1>1, BoundsAssumption DEF Bounded, fateVars

LEMMA CallsStay ==
  ASSUME Calls, guest' = guest, NEW s \in Socks, up' = up \/ (up[s] # <<>> /\ Handled(s)),
         \A t \in Socks : host[t].phase = "new" => host'[t].phase = "new"
  PROVE  Calls'
<1>1. CASE up' = up
  BY <1>1 DEF Calls
<1>2. CASE up[s] # <<>> /\ Handled(s)
  <2>1. up[s] \in Seq(Kinds)
    BY DEF Calls
  <2>2. /\ up'[s] = Tail(up[s]) /\ \A t \in Socks \ {s} : up'[t] = up[t]
        /\ up' \in [Socks -> Seq(Kinds)]
    BY <1>2, <2>1, PortTail DEF Handled, Calls
  <2>3. \A t \in Socks : /\ Asks(up'[t]) => Asks(up[t])
                         /\ AsksOnce(up[t]) => AsksOnce(up'[t])
    BY <1>2, <2>1, <2>2, PortTail
  <2> QED BY <2>2, <2>3 DEF Calls
<1> QED BY <1>1, <1>2

LEMMA HostSideKeeps ==
  ASSUME BridgeInv, NEW s \in Socks, HostSide(s)
  PROVE  BridgeInv'
<1>1. PICK next : Tame(host[s], next) /\ host' = [host EXCEPT ![s] = next]
  BY DEF HostSide
<1>2. host'[s] = next /\ \A t \in Socks \ {s} : host'[t] = host[t]
  BY <1>1 DEF BridgeInv, HostOK
<1>3. next \in SocketType
  BY <1>1 DEF Tame, Sound
<1>4. HostOK'
  BY <1>1, <1>2, <1>3 DEF HostOK, BridgeInv, HostSide, fateVars, Tame
<1>5. Calls'
  BY <1>1, <1>2, CallsStay DEF HostSide, BridgeInv, guestVars, Tame
<1>6. Bounded'
  <2>1. CountedSockets' \subseteq CountedSockets
    BY <1>1, <1>2 DEF CountedSockets, Tame
  <2>2. \A t \in Socks : /\ Opens(host[t])' => Opens(host[t])
                         /\ host'[t].phase = "new" => host[t].phase = "new"
    BY <1>1, <1>2 DEF Tame
  <2> QED BY <2>1, <2>2, BoundedStays DEF HostSide, BridgeInv
<1> QED BY <1>4, <1>5, <1>6 DEF BridgeInv

LEMMA HostTyped == ASSUME BridgeInv, NEW s \in Socks PROVE Sound(host[s])
BY DEF BridgeInv, HostOK

\* a step that leaves the host's sockets as they are
LEMMA HostIdle ==
  ASSUME BridgeInv, NEW s \in Socks, UNCHANGED <<host, guestVars, fateVars>>,
         up' = up \/ (up[s] # <<>> /\ Handled(s))
  PROVE  HostSide(s)
<1>1. Tame(host[s], host[s])
  BY HostTyped, TameSelf
<1>2. host' = [host EXCEPT ![s] = host[s]]
  BY DEF BridgeInv, HostOK
<1> QED BY <1>1, <1>2 DEF HostSide

LEMMA RefusedTame ==
  ASSUME BridgeInv, NEW s \in Socks, Settling(s), NEW text \in Addresses \cup {NoText},
         Refused(s, text)
  PROVE  \E next : Tame(host[s], next) /\ host' = [host EXCEPT ![s] = next]
<1> DEFINE next == [host[s] EXCEPT !.phase = "refused", !.text = text]
<1>1. Tame(host[s], next)
  BY HostTyped, ZenonT(60) DEF Settling, Tame, Sound, SocketType, Counts, Opens, Settles
<1>2. host' = [host EXCEPT ![s] = next]
  BY DEF Refused, BridgeInv, HostOK
<1> QED BY <1>1, <1>2

LEMMA LookupKeeps ==
  ASSUME BridgeInv, NEW s \in Socks, Lookup(s)
  PROVE  HostSide(s)
<1>1. CASE Unresolved(s)
  BY <1>1, RefusedTame DEF Unresolved, HostSide, Settling
<1>2. ASSUME NEW text \in Addresses, Resolved(s, text) PROVE HostSide(s)
  <2>1. CASE Permits(text, Allow, FALSE)
    <3> DEFINE next == [host[s] EXCEPT !.phase = "dial", !.text = text]
    <3>1. Tame(host[s], next)
      BY <1>2, HostTyped, ZenonT(60) DEF Resolved, Tame, Sound, SocketType, Counts, Opens, Settles
    <3>2. host' = [host EXCEPT ![s] = next]
      BY <1>2, <2>1 DEF Resolved, BridgeInv, HostOK
    <3> QED BY <1>2, <3>1, <3>2 DEF Resolved, HostSide
  <2>2. CASE ~Permits(text, Allow, FALSE)
    BY <1>2, <2>2, RefusedTame DEF Resolved, HostSide, Settling
  <2> QED BY <2>1, <2>2
<1> QED BY <1>1, <1>2 DEF Lookup

LEMMA DialKeeps ==
  ASSUME BridgeInv, NEW s \in Socks, Dial(s)
  PROVE  HostSide(s)
<1>1. CASE Undialled(s)
  BY <1>1, RefusedTame DEF Undialled, HostSide, Settling
<1>2. CASE Dialled(s)
  <2> DEFINE next == [host[s] EXCEPT !.phase = "live", !.text = NoText, !.fd = "open"]
  <2>1. Tame(host[s], next)
    BY <1>2, HostTyped, ZenonT(60) DEF Dialled, Tame, Sound, SocketType, Counts, Opens, Settles
  <2>2. host' = [host EXCEPT ![s] = next]
    BY <1>2 DEF Dialled, BridgeInv, HostOK
  <2> QED BY <1>2, <2>1, <2>2 DEF Dialled, HostSide
<1> QED BY <1>1, <1>2 DEF Dial

LEMMA DataKeeps ==
  ASSUME BridgeInv, NEW count \in 1 .. 2, Data(count)
  PROVE  HostSide(Main)
<1> DEFINE h == host[Main]
           chunk == [i \in 1 .. count |-> h.received + i]
           queue == Append(h.queue, chunk)
           paused == h.paused \/ Len(queue) > 1
           fed == [h EXCEPT !.queue = queue, !.received = @ + count, !.paused = paused]
<1>1. Sound(h) /\ h.fd = "open" /\ ~h.paused /\ h.received + count <= Pieces
  BY HostTyped, MainAssumption DEF Data
<1>2. /\ h \in SocketType /\ h.received \in 0 .. Pieces /\ h.paused \in BOOLEAN
      /\ h.queue \in Seq(Seq(1 .. Pieces)) /\ Len(h.queue) <= 2
  BY <1>1 DEF Sound, SocketType
<1>3. chunk \in Seq(1 .. Pieces)
  BY <1>1, <1>2, BoundsAssumption
<1>4. queue \in Seq(Seq(1 .. Pieces)) /\ Len(queue) = Len(h.queue) + 1 /\ Len(h.queue) \in Nat
  <2> HIDE DEF chunk
  <2> QED BY <1>2, <1>3
<1>5. /\ Len(queue) <= 3 /\ (~paused => Len(queue) <= 2) /\ paused \in BOOLEAN
      /\ h.received + count \in 0 .. Pieces
  BY <1>1, <1>2, <1>4, BoundsAssumption, SMTT(20)
<1>6. Event(Main, Woken(fed), <<>>) /\ UNCHANGED <<up, guestVars, fateVars>>
  BY DEF Data
<1>7. Tame(h, fed)
  <2> HIDE DEF queue, paused, h
  <2> QED BY <1>1, <1>2, <1>4, <1>5 DEF Tame, Sound, SocketType, Counts, Opens, Settles
<1>8. fed.phase # "new"
  BY <1>1, <1>7 DEF Tame, Sound
<1>9. Tame(h, Woken(fed).h)
  <2> HIDE DEF fed, h
  <2> QED BY <1>7, <1>8, WokenTame, TameTame DEF Tame
<1> HIDE DEF fed
<1> QED BY <1>6, <1>9 DEF Event, HostSide

LEMMA EndKeeps ==
  ASSUME BridgeInv, End
  PROVE  HostSide(Main)
<1> DEFINE h == host[Main]
           ended == [h EXCEPT !.ended = TRUE]
<1>1. Sound(h) /\ h.fd = "open"
  BY HostTyped, MainAssumption DEF End
<1>2. Tame(h, ended) /\ ended.phase # "new"
  BY <1>1 DEF Tame, Sound, SocketType, Counts, Opens, Settles
<1>3. Event(Main, Woken(ended), <<>>) /\ UNCHANGED <<up, guestVars, fateVars>>
  BY DEF End
<1>4. Tame(h, Woken(ended).h)
  <2> HIDE DEF ended, h
  <2> QED BY <1>2, WokenTame, TameTame DEF Tame
<1> HIDE DEF ended
<1> QED BY <1>3, <1>4 DEF Event, HostSide

LEMMA ClosedKeeps ==
  ASSUME BridgeInv, NEW s \in Socks, Closed(s)
  PROVE  HostSide(s)
<1> DEFINE h == host[s]
           shut == [h EXCEPT !.fd = "closed", !.ended = TRUE, !.closers = FALSE,
                             !.writing = FALSE]
           more == (IF h.closers THEN <<<<"closed", 0>>>> ELSE <<>>)
                   \o (IF h.writing THEN <<<<"unwritten", 0>>>> ELSE <<>>)
<1>1. Sound(h) /\ h.fd \in {"open", "destroyed"}
  BY HostTyped DEF Closed
<1>2. Tame(h, shut) /\ shut.phase # "new"
  BY <1>1 DEF Tame, Sound, SocketType, Counts, Opens, Settles
<1>3. Event(s, Woken(shut), more) /\ UNCHANGED <<up, guestVars, fateVars>>
  BY DEF Closed
<1>4. Tame(h, Woken(shut).h)
  <2> HIDE DEF shut, h
  <2> QED BY <1>2, WokenTame, TameTame DEF Tame
<1> HIDE DEF shut, more
<1> QED BY <1>3, <1>4 DEF Event, HostSide

LEMMA LiveTame == ASSUME BridgeInv, NEW s \in Socks, Live(s) PROVE Tame(host[s], Served(host[s]).h)
BY HostTyped, ServedTame DEF Live

\* an update of fields that neither the cap nor the disposal is about
LEMMA FlagsTame ==
  ASSUME BridgeInv, NEW s \in Socks, NEW next,
         \E flag \in BOOLEAN :
           \/ next = [host[s] EXCEPT !.writing = flag]
           \/ next = [host[s] EXCEPT !.closers = flag]
           \/ next = [host[s] EXCEPT !.finished = flag]
  PROVE  Tame(host[s], next)
<1> PICK flag \in BOOLEAN :
           \/ next = [host[s] EXCEPT !.writing = flag]
           \/ next = [host[s] EXCEPT !.closers = flag]
           \/ next = [host[s] EXCEPT !.finished = flag]
  OBVIOUS
<1>1. Sound(host[s])
  BY HostTyped
<1>2. CASE next = [host[s] EXCEPT !.writing = flag]
  BY <1>1, <1>2 DEF Tame, Sound, SocketType, Counts, Opens, Settles
<1>3. CASE next = [host[s] EXCEPT !.closers = flag]
  BY <1>1, <1>3 DEF Tame, Sound, SocketType, Counts, Opens, Settles
<1>4. CASE next = [host[s] EXCEPT !.finished = flag]
  BY <1>1, <1>4 DEF Tame, Sound, SocketType, Counts, Opens, Settles
<1> QED BY <1>2, <1>3, <1>4

LEMMA ReadKeeps == ASSUME BridgeInv, Read PROVE HostSide(Main)
<1>1. up[Main] # <<>> /\ Handled(Main) /\ UNCHANGED <<guestVars, fateVars>>
  BY DEF Read, Asked
<1>2. CASE Live(Main)
  <2>1. host' = [host EXCEPT ![Main] = Served(host[Main]).h]
    BY <1>2 DEF Read, Event
  <2> QED BY <1>1, <1>2, <2>1, LiveTame, MainAssumption DEF HostSide
<1>3. CASE ~Live(Main)
  BY <1>1, <1>3, HostIdle, MainAssumption DEF Read
<1> QED BY <1>2, <1>3

LEMMA WriteKeeps == ASSUME BridgeInv, Write PROVE HostSide(Main)
<1>1. up[Main] # <<>> /\ Handled(Main) /\ UNCHANGED <<guestVars, fateVars>>
  BY DEF Write, Asked
<1>2. CASE Live(Main) /\ host[Main].fd = "open" /\ ~host[Main].finished
  <2> DEFINE next == [host[Main] EXCEPT !.writing = TRUE]
  <2>1. host' = [host EXCEPT ![Main] = next]
    BY <1>2 DEF Write
  <2>2. Tame(host[Main], next)
    BY FlagsTame, MainAssumption
  <2> QED BY <1>1, <2>1, <2>2 DEF HostSide
<1>3. CASE ~(Live(Main) /\ host[Main].fd = "open" /\ ~host[Main].finished)
  BY <1>1, <1>3, HostIdle, MainAssumption DEF Write
<1> QED BY <1>2, <1>3

LEMMA WroteKeeps == ASSUME BridgeInv, Wrote PROVE HostSide(Main)
<1> DEFINE next == [host[Main] EXCEPT !.writing = FALSE]
<1>1. host' = [host EXCEPT ![Main] = next] /\ UNCHANGED <<up, guestVars, fateVars>>
  BY DEF Wrote, Event
<1>2. Tame(host[Main], next)
  BY FlagsTame, MainAssumption
<1> QED BY <1>1, <1>2 DEF HostSide

LEMMA AskClosedKeeps == ASSUME BridgeInv, NEW s \in Socks, AskClosed(s) PROVE HostSide(s)
<1>1. up[s] # <<>> /\ Handled(s) /\ UNCHANGED <<guestVars, fateVars>>
  BY DEF AskClosed, Asked
<1>2. CASE Live(s) /\ host[s].fd # "closed"
  <2> DEFINE next == [host[s] EXCEPT !.closers = TRUE]
  <2>1. host' = [host EXCEPT ![s] = next]
    BY <1>2 DEF AskClosed
  <2>2. Tame(host[s], next)
    BY FlagsTame
  <2> QED BY <1>1, <2>1, <2>2 DEF HostSide
<1>3. CASE ~(Live(s) /\ host[s].fd # "closed")
  BY <1>1, <1>3, HostIdle DEF AskClosed
<1> QED BY <1>2, <1>3

LEMMA HalfCloseKeeps == ASSUME BridgeInv, HalfClose PROVE HostSide(Main)
<1>1. up[Main] # <<>> /\ Handled(Main) /\ UNCHANGED <<guestVars, fateVars>>
  BY DEF HalfClose, Asked
<1> DEFINE flag == host[Main].finished \/ Live(Main)
           next == [host[Main] EXCEPT !.finished = flag]
<1>2. flag \in BOOLEAN
  BY HostTyped, MainAssumption DEF Sound, SocketType
<1>3. Tame(host[Main], next)
  <2> HIDE DEF flag
  <2> QED BY <1>2, FlagsTame, MainAssumption
<1>4. host' = [host EXCEPT ![Main] = next]
  BY DEF HalfClose
<1> QED BY <1>1, <1>3, <1>4 DEF HostSide

LEMMA CloseKeeps == ASSUME BridgeInv, NEW s \in Socks, CloseSocket(s) PROVE HostSide(s)
<1>1. up[s] # <<>> /\ Handled(s) /\ UNCHANGED <<guestVars, fateVars>>
  BY DEF CloseSocket, Asked
<1>2. CASE Live(s)
  <2>1. host' = [host EXCEPT ![s] = Release(host[s])]
    BY <1>2 DEF CloseSocket
  <2>2. Tame(host[s], Release(host[s]))
    BY <1>2, HostTyped, ReleaseTame DEF Live
  <2> QED BY <1>1, <2>1, <2>2 DEF HostSide
<1>3. CASE ~Live(s)
  <2>1. host' = host
    BY <1>3 DEF CloseSocket, BridgeInv, HostOK
  <2> QED BY <1>1, <2>1, HostIdle
<1> QED BY <1>2, <1>3

-----------------------------------------------------------------------------

(* A connect is checked *)

LEMMA OneMoreSocket ==
  ASSUME NEW S \in SUBSET Socks, NEW s \in Socks
  PROVE  Cardinality(S \cup {s}) <= Cardinality(S) + 1
<1>1. IsFiniteSet(S)
  BY SocksAssumption, FS_Subset
<1>2. Cardinality(S) \in Nat
  BY <1>1, FS_CardinalityType
<1>3. Cardinality(S \cup {s}) = IF s \in S THEN Cardinality(S) ELSE Cardinality(S) + 1
  BY <1>1, FS_AddElement, Zenon
<1> QED BY <1>2, <1>3

LEMMA ConnectKeeps ==
  ASSUME BridgeInv, NEW s \in Socks, Connect(s)
  PROVE  BridgeInv'
<1>1. up[s] # <<>> /\ Head(up[s]) = "connect" /\ Handled(s)
  BY DEF Connect, Asked
<1>2. /\ up[s] \in Seq(Kinds) /\ Asks(up[s]) /\ host[s].phase = "new"
      /\ guest[s].state # "new"
  <2>1. up[s] \in Seq(Kinds)
    BY DEF BridgeInv, Calls
  <2>2. 1 \in DOMAIN up[s] /\ up[s][1] = Head(up[s])
    BY <1>1, <2>1, EmptySeq, LenProperties
  <2>3. Asks(up[s])
    BY <1>1, <2>2 DEF Asks
  <2> QED BY <2>1, <2>3 DEF BridgeInv, Calls
<1> DEFINE phase == host'[s].phase
<1>3. PICK where \in {"refused", "lookup"} :
        host' = [host EXCEPT ![s].phase = where]
        /\ (where = "lookup" => OpenCount < MaxConcurrent
                                /\ overlap' = (overlap \/ \E t \in Socks : Settling(t)))
        /\ (where = "refused" => overlap' = overlap)
        /\ disposed' = disposed /\ late' = late /\ guest' = guest
  <2>1. CASE OpenCount >= MaxConcurrent
    BY <2>1 DEF Connect, fateVars, guestVars
  <2>2. CASE ~(OpenCount >= MaxConcurrent)
    <3>1. OpenCount \in Nat
      BY FewerSockets DEF OpenCount
    <3> QED BY <2>2, <3>1, BoundsAssumption DEF Connect, guestVars
  <2> QED BY <2>1, <2>2
<1>4. /\ host'[s] = [host[s] EXCEPT !.phase = where]
      /\ \A t \in Socks \ {s} : host'[t] = host[t]
      /\ host' \in [Socks -> SocketType]
  <2>1. host \in [Socks -> SocketType] /\ host[s] \in SocketType
    BY DEF BridgeInv, HostOK
  <2>2. [host[s] EXCEPT !.phase = where] \in SocketType
    BY <2>1 DEF SocketType
  <2> QED BY <1>3, <2>1, <2>2
<1>5. Sound(host'[s])
  BY <1>2, <1>3, <1>4, HostTyped DEF Sound, SocketType
<1>6. HostOK'
  BY <1>3, <1>4, <1>5 DEF BridgeInv, HostOK
<1>7. Calls'
  <2>1. /\ up'[s] = Tail(up[s]) /\ \A t \in Socks \ {s} : up'[t] = up[t]
        /\ up' \in [Socks -> Seq(Kinds)]
    BY <1>1, <1>2, PortTail DEF Handled, BridgeInv, Calls
  <2>2. ~Asks(up'[s]) /\ AsksOnce(up'[s])
    BY <1>1, <1>2, <2>1, PortTail DEF BridgeInv, Calls
  <2> QED BY <1>2, <1>3, <1>4, <2>1, <2>2 DEF BridgeInv, Calls
<1>8. Bounded'
  <2>1. CASE where = "refused"
    <3>1. /\ CountedSockets' \subseteq CountedSockets
          /\ \A t \in Socks : /\ Opens(host[t])' => Opens(host[t])
                              /\ host'[t].phase = "new" => host[t].phase = "new"
      <4>1. ~Counts(host'[s]) /\ ~Opens(host'[s]) /\ host'[s].phase # "new"
        BY <1>4, <1>5, <2>1 DEF Counts, Opens, Settles, Sound, SocketType
      <4> QED BY <1>4, <4>1 DEF CountedSockets
    <3> QED BY <1>3, <2>1, <3>1, BoundedStays DEF BridgeInv, fateVars
  <2>2. CASE where = "lookup"
    <3> DEFINE Open == {t \in Socks : Live(t) /\ host[t].fd # "closed"}
    <3>1. ASSUME ~overlap' PROVE Cardinality(CountedSockets') <= MaxConcurrent
      <4>1. \A t \in Socks : ~Settling(t)
        BY <1>3, <2>2, <3>1
      <4>2. CountedSockets' \subseteq Open \cup {s}
        BY <1>4, <4>1 DEF CountedSockets, Counts, Settles, Settling, Live
      <4>3. /\ Cardinality(CountedSockets') <= Cardinality(Open \cup {s})
            /\ Cardinality(CountedSockets') \in Nat /\ Cardinality(Open \cup {s}) \in Nat
        BY <4>2, FewerSockets
      <4>4. Cardinality(Open \cup {s}) <= Cardinality(Open) + 1 /\ Cardinality(Open) \in Nat
        BY OneMoreSocket, FewerSockets
      <4>5. Cardinality(Open) < MaxConcurrent
        BY <1>3, <2>2 DEF OpenCount
      <4> HIDE DEF Open
      <4> QED BY <4>3, <4>4, <4>5, BoundsAssumption
    <3>2. ASSUME disposed', NEW t \in Socks, Opens(host'[t]) \/ host'[t].phase = "new"
          PROVE  t \in late'
      BY <1>2, <1>3, <1>4, <3>2 DEF BridgeInv, Bounded
    <3> QED BY <3>1, <3>2 DEF Bounded
  <2> QED BY <2>1, <2>2
<1> QED BY <1>6, <1>7, <1>8 DEF BridgeInv

-----------------------------------------------------------------------------

(* The disposal *)

LEMMA DisposeKeeps ==
  ASSUME BridgeInv, Dispose
  PROVE  BridgeInv'
<1> DEFINE After(s) == CASE Live(s) -> Release(host[s])
                         [] host[s].phase = "dial" ->
                              [host[s] EXCEPT !.phase = "refused", !.text = NoText]
                         [] OTHER -> host[s]
<1>0. host' = [s \in Socks |-> After(s)]
  BY DEF Dispose
<1>1. \A s \in Socks : /\ Tame(host[s], host'[s])
                       /\ Opens(host'[s]) => host[s].phase = "lookup"
                       /\ host'[s].phase = "new" => host[s].phase = "new"
  <2> SUFFICES ASSUME NEW s \in Socks
               PROVE  /\ Tame(host[s], host'[s])
                      /\ Opens(host'[s]) => host[s].phase = "lookup"
                      /\ host'[s].phase = "new" => host[s].phase = "new"
    OBVIOUS
  <2>1. CASE Live(s)
    <3>1. host'[s] = Release(host[s])
      BY <1>0, <2>1 DEF Live
    <3>2. Tame(host[s], Release(host[s])) /\ ~Opens(Release(host[s]))
      BY <2>1, HostTyped, ReleaseTame DEF Live
    <3> QED BY <3>1, <3>2 DEF Tame
  <2>2. CASE host[s].phase = "dial"
    <3>1. host'[s] = [host[s] EXCEPT !.phase = "refused", !.text = NoText]
      BY <1>0, <2>2 DEF Live
    <3> QED BY <2>2, <3>1, HostTyped DEF Tame, Sound, SocketType, Counts, Opens, Settles
  <2>3. CASE ~Live(s) /\ host[s].phase # "dial"
    <3>1. host'[s] = host[s]
      BY <1>0, <2>3
    <3>2. Sound(host[s])
      BY HostTyped
    <3> QED BY <2>3, <3>1, <3>2, TameSelf DEF Sound, Opens, Settles, Live
  <2> QED BY <2>1, <2>2, <2>3
<1>2. host' \in [Socks -> SocketType]
  <2>1. \A s \in Socks : host'[s] \in SocketType
    BY <1>1 DEF Tame, Sound
  <2> HIDE DEF After
  <2> QED BY <1>0, <2>1
<1>3. HostOK'
  <2>1. disposed' /\ late' = {s \in Socks : host[s].phase \in {"new", "lookup"}} /\ overlap' = overlap
    BY DEF Dispose
  <2> QED BY <1>1, <1>2, <2>1 DEF HostOK, BridgeInv, Tame
<1>4. Calls'
  <2>1. up' = up /\ guest' = guest
    BY DEF Dispose, guestVars
  <2> QED BY <1>1, <2>1 DEF BridgeInv, Calls, Tame
<1>5. Bounded'
  <2>1. CountedSockets' \subseteq CountedSockets
    BY <1>1 DEF CountedSockets, Tame
  <2>2. /\ Cardinality(CountedSockets') <= Cardinality(CountedSockets)
        /\ Cardinality(CountedSockets') \in Nat /\ Cardinality(CountedSockets) \in Nat
    BY <2>1, FewerSockets DEF CountedSockets
  <2>3. disposed' /\ late' = {s \in Socks : host[s].phase \in {"new", "lookup"}} /\ overlap' = overlap
    BY DEF Dispose
  <2> QED BY <1>1, <2>2, <2>3, BoundsAssumption DEF Bounded, BridgeInv
<1> QED BY <1>3, <1>4, <1>5 DEF BridgeInv

-----------------------------------------------------------------------------

(* The guest *)

\* what the guest posts, but for its connect
Posted(s) == \E more \in Seq(Kinds \ {"connect"}) : Post(s, more)

\* what a write posts, alone or with the end of writing
Writes == {<<"write">>, <<"write", "end">>, <<"end", "write">>}

GuestOnly ==
  /\ UNCHANGED <<host, fateVars>>
  /\ guest' \in [Socks -> GuestType]
  /\ \A t \in Socks : guest'[t].state = "new" => guest[t].state = "new"
  /\ up' = up \/ \E s \in Socks : Posted(s)

LEMMA GuestOnlyKeeps == ASSUME BridgeInv, GuestOnly PROVE BridgeInv'
<1>1. HostOK'
  BY DEF BridgeInv, HostOK, GuestOnly, fateVars
<1>2. Bounded'
  BY DEF BridgeInv, Bounded, GuestOnly, fateVars, CountedSockets
<1>3. Calls'
  <2>1. CASE up' = up
    BY <2>1 DEF BridgeInv, Calls, GuestOnly
  <2>2. ASSUME NEW s \in Socks, Posted(s) PROVE Calls'
    <3>1. PICK more \in Seq(Kinds \ {"connect"}) : up' = [up EXCEPT ![s] = @ \o more]
      BY <2>2 DEF Posted, Post
    <3>2. up \in [Socks -> Seq(Kinds)] /\ up[s] \in Seq(Kinds)
      BY DEF BridgeInv, Calls
    <3>3. /\ up' \in [Socks -> Seq(Kinds)]
          /\ \A t \in Socks : /\ Asks(up'[t]) => Asks(up[t])
                              /\ AsksOnce(up[t]) => AsksOnce(up'[t])
      BY <3>1, <3>2, PortPosts
    <3> QED BY <3>3 DEF BridgeInv, Calls, GuestOnly
  <2> QED BY <2>1, <2>2 DEF GuestOnly
<1> QED BY <1>1, <1>2, <1>3 DEF BridgeInv

\* whatever turns the guest's readers take, all they ask the host for is one read
LEMMA BecomesPosts ==
  ASSUME BridgeInv, NEW t, Becomes(t)
  PROVE  up' = up \/ Posted(Main)
<1>1. CASE ~t.asks
  BY <1>1 DEF Becomes
<1>2. CASE t.asks
  <2>1. <<"read">> \in Seq(Kinds \ {"connect"})
    BY DEF Kinds
  <2>2. up[Main] \in Seq(Kinds) /\ "read" \in Kinds
    BY MainAssumption DEF BridgeInv, Calls, Kinds
  <2>3. Append(up[Main], "read") = up[Main] \o <<"read">>
    BY <2>2, AppendIsConcat
  <2>4. up' = [up EXCEPT ![Main] = up[Main] \o <<"read">>]
    BY <1>2, <2>3 DEF Becomes
  <2> QED BY <2>1, <2>4 DEF Posted, Post
<1> QED BY <1>1, <1>2

LEMMA GuestConnectKeeps ==
  ASSUME BridgeInv, NEW s \in Socks, GuestConnect(s)
  PROVE  BridgeInv'
<1>1. /\ guest[s].state = "new" /\ guest' = [guest EXCEPT ![s].state = "asked"]
      /\ up' = [up EXCEPT ![s] = up[s] \o <<"connect">>] /\ UNCHANGED <<host, fateVars>>
  BY DEF GuestConnect, Post
<1>2. HostOK' /\ Bounded'
  BY <1>1 DEF BridgeInv, HostOK, Bounded, fateVars, CountedSockets
<1>3. Calls'
  <2>1. up \in [Socks -> Seq(Kinds)] /\ up[s] \in Seq(Kinds)
        /\ ~Asks(up[s]) /\ host[s].phase = "new"
    BY <1>1 DEF BridgeInv, Calls
  <2>2. /\ up' \in [Socks -> Seq(Kinds)] /\ AsksOnce(up'[s])
        /\ \A t \in Socks \ {s} : up'[t] = up[t]
    BY <1>1, <2>1, PortConnects
  <2>3. /\ guest' \in [Socks -> GuestType] /\ guest'[s].state = "asked"
        /\ \A t \in Socks \ {s} : guest'[t] = guest[t]
    BY <1>1 DEF BridgeInv, Calls, GuestType
  <2> QED BY <1>1, <2>1, <2>2, <2>3 DEF BridgeInv, Calls
<1> QED BY <1>2, <1>3 DEF BridgeInv

\* the guest drops a socket, and asks that it be closed
LEMMA DropKeeps ==
  ASSUME BridgeInv, NEW s \in Socks, guest' = [guest EXCEPT ![s].dropped = TRUE],
         Post(s, <<"close">>), UNCHANGED <<host, fateVars>>
  PROVE  GuestOnly
<1>1. <<"close">> \in Seq(Kinds \ {"connect"})
  BY DEF Kinds
<1>2. /\ guest' \in [Socks -> GuestType]
      /\ \A t \in Socks : guest'[t].state = guest[t].state
  BY DEF BridgeInv, Calls, GuestType
<1> QED BY <1>1, <1>2 DEF GuestOnly, Posted

LEMMA GuestWriteKeeps ==
  ASSUME BridgeInv, NEW asks \in Writes, GuestWrite(asks)
  PROVE  GuestOnly
<1>1. asks \in Seq(Kinds \ {"connect"})
  <2>1. CASE asks = <<"write">>
    BY <2>1 DEF Kinds
  <2>2. CASE asks = <<"write", "end">>
    BY <2>2 DEF Kinds
  <2>3. CASE asks = <<"end", "write">>
    BY <2>3 DEF Kinds
  <2> QED BY <2>1, <2>2, <2>3 DEF Writes
<1>2. Posted(Main)
  BY <1>1 DEF GuestWrite, Posted
<1>3. /\ guest' \in [Socks -> GuestType]
      /\ \A t \in Socks : guest'[t].state = guest[t].state
  BY DEF GuestWrite, BridgeInv, Calls, GuestType
<1> QED BY <1>2, <1>3, MainAssumption DEF GuestOnly, GuestWrite

LEMMA SettleTyped ==
  ASSUME BridgeInv, NEW s \in Socks, NEW reply, Settle(s, reply)
  PROVE  /\ guest' \in [Socks -> GuestType]
         /\ \A t \in Socks : guest'[t].state = "new" => guest[t].state = "new"
<1> DEFINE next == CASE reply[1] = "connected" -> [guest[s] EXCEPT !.state = "open"]
                     [] reply[1] = "refused" -> [guest[s] EXCEPT !.state = "refused"]
                     [] reply[1] = "closed" -> [guest[s] EXCEPT !.settled = TRUE]
                     [] reply[1] = "wrote" -> [guest[s] EXCEPT !.write = "taken"]
                     [] reply[1] = "unwritten" -> [guest[s] EXCEPT !.write = "failed"]
                     [] OTHER -> guest[s]
<1>1. guest \in [Socks -> GuestType] /\ guest[s] \in GuestType
  BY DEF BridgeInv, Calls
<1>2. guest' = [guest EXCEPT ![s] = next]
  BY DEF Settle
<1>3. next \in GuestType /\ (next.state = "new" => guest[s].state = "new")
  BY <1>1 DEF GuestType
<1> HIDE DEF next
<1> QED BY <1>1, <1>2, <1>3

LEMMA DeliverKeeps ==
  ASSUME BridgeInv, NEW s \in Socks, Deliver(s)
  PROVE  GuestOnly
<1> DEFINE reply == Head(down[s])
<1>1. /\ Settle(s, reply) /\ UNCHANGED <<host, fateVars>>
      /\ \/ Becomes(Pulled(Streaming, reply))
         \/ Post(s, <<"closed">>)
         \/ up' = up
  BY DEF Deliver
<1> HIDE DEF reply
<1>2. <<"closed">> \in Seq(Kinds \ {"connect"})
  BY DEF Kinds
<1>3. up' = up \/ \E t \in Socks : Posted(t)
  BY <1>1, <1>2, BecomesPosts, MainAssumption DEF Posted
<1> QED BY <1>1, <1>3, SettleTyped DEF GuestOnly

-----------------------------------------------------------------------------

LEMMA BridgeAtFirst == Init => BridgeInv
<1> SUFFICES ASSUME Init PROVE BridgeInv
  OBVIOUS
<1>1. /\ \A s \in Socks : host[s].phase = "new" /\ host[s].fd = "none"
      /\ \A s \in Socks : up[s] = <<>>
      /\ ~disposed /\ ~overlap /\ late = {}
  BY DEF Init
<1>2. HostOK
  <2>1. \A s \in Socks : host[s] \in SocketType /\ host[s].queue = <<>>
    BY BoundsAssumption DEF Init, SocketType
  <2>2. host \in [Socks -> SocketType]
    BY <2>1 DEF Init
  <2>3. disposed = FALSE /\ overlap = FALSE /\ late = {}
    BY DEF Init
  <2>4. \A s \in Socks : Sound(host[s])
    BY <1>1, <2>1 DEF Sound
  <2> QED BY <2>2, <2>3, <2>4 DEF HostOK
<1>3. Calls
  <2>1. guest \in [Socks -> GuestType] /\ up \in [Socks -> Seq(Kinds)]
    BY DEF Init, GuestType
  <2> QED BY <1>1, <2>1 DEF Calls, Asks, AsksOnce
<1>4. Bounded
  <2>1. CountedSockets = {}
    BY <1>1 DEF CountedSockets, Counts, Settles
  <2> QED BY <1>1, <2>1, FS_EmptySet, BoundsAssumption DEF Bounded
<1> QED BY <1>2, <1>3, <1>4 DEF BridgeInv

LEMMA BridgeStep == BridgeInv /\ [Next]_vars => BridgeInv'
<1> SUFFICES ASSUME BridgeInv, [Next]_vars PROVE BridgeInv'
  OBVIOUS
<1>1. ASSUME NEW s \in Socks, Handle(s) PROVE BridgeInv'
  BY <1>1, ConnectKeeps, AskClosedKeeps, CloseKeeps, HostSideKeeps DEF Handle
<1>2. ASSUME NEW s \in Socks, Lookup(s) \/ Dial(s) \/ Closed(s) PROVE BridgeInv'
  BY <1>2, LookupKeeps, DialKeeps, ClosedKeeps, HostSideKeeps
<1>3. ASSUME NEW s \in Socks, Deliver(s) PROVE BridgeInv'
  BY <1>3, DeliverKeeps, GuestOnlyKeeps
<1>4. ASSUME NEW s \in Socks, GuestConnect(s) PROVE BridgeInv'
  BY <1>4, GuestConnectKeeps
<1>5. ASSUME NEW s \in Socks, GuestClose(s) PROVE BridgeInv'
  BY <1>5, DropKeeps, GuestOnlyKeeps DEF GuestClose
<1>6. CASE HandleMain \/ Wrote \/ End
  BY <1>6, ReadKeeps, WriteKeeps, HalfCloseKeeps, WroteKeeps, EndKeeps, HostSideKeeps,
     MainAssumption DEF HandleMain
<1>7. CASE Dispose
  BY <1>7, DisposeKeeps
<1>8. CASE GuestCancel
  BY <1>8, DropKeeps, GuestOnlyKeeps, MainAssumption DEF GuestCancel
<1>9. ASSUME NEW count \in 1 .. 2, Data(count) PROVE BridgeInv'
  BY <1>9, DataKeeps, HostSideKeeps, MainAssumption
<1>10. ASSUME NEW r \in Readers, GuestRead(r) PROVE BridgeInv'
  <2>1. up' = up \/ Posted(Main)
    BY <1>10, BecomesPosts DEF GuestRead
  <2>2. GuestOnly
    BY <1>10, <2>1, MainAssumption DEF GuestRead, GuestOnly, BridgeInv, Calls
  <2> QED BY <2>2, GuestOnlyKeeps
<1>11. ASSUME NEW asks \in Writes, GuestWrite(asks) PROVE BridgeInv'
  BY <1>11, GuestWriteKeeps, GuestOnlyKeeps
<1>12. CASE UNCHANGED vars
  BY <1>12 DEF vars, BridgeInv, HostOK, Calls, Bounded, fateVars, CountedSockets
<1> QED
  BY <1>1, <1>2, <1>3, <1>4, <1>5, <1>6, <1>7, <1>8, <1>9, <1>10, <1>11, <1>12 DEF Next, Writes

(***************************************************************************)
(* No more sockets are open than maxConcurrent allows, as long as no       *)
(* connect was let through while another was on its way; what is open or   *)
(* being dialled after the disposal had not been dialled then, whether it  *)
(* was being looked up, was posted, or is posted yet; and the              *)
(* pause keeps every queue to three chunks (host/socket-bridge-host.ts).   *)
(***************************************************************************)
THEOREM SocketsAreBounded == Spec => []SocketsBounded
<1>1. Init => BridgeInv
  BY BridgeAtFirst
<1>2. BridgeInv /\ [Next]_vars => BridgeInv'
  BY BridgeStep
<1>3. BridgeInv => SocketsBounded
  <2> SUFFICES ASSUME BridgeInv PROVE SocketsBounded
    OBVIOUS
  <2>1. HostTypeOK
    BY DEF BridgeInv, HostOK, Sound, HostTypeOK
  <2>2. OpenCount > MaxConcurrent => overlap
    <3> DEFINE Open == {s \in Socks : Live(s) /\ host[s].fd # "closed"}
    <3>1. Open \subseteq CountedSockets
      BY DEF CountedSockets, Counts, Live
    <3>2. /\ Cardinality(Open) <= Cardinality(CountedSockets)
          /\ Cardinality(Open) \in Nat /\ Cardinality(CountedSockets) \in Nat
      BY <3>1, FewerSockets DEF CountedSockets
    <3>3. OpenCount = Cardinality(Open)
      BY DEF OpenCount
    <3> HIDE DEF Open
    <3> QED BY <3>2, <3>3, BoundsAssumption DEF BridgeInv, Bounded, HostOK
  <2>3. disposed => \A s \in Socks : host[s].fd = "open" \/ host[s].phase = "dial" => s \in late
    BY DEF BridgeInv, Bounded, Opens, Settles
  <2> QED BY <2>1, <2>2, <2>3 DEF SocketsBounded
<1> QED BY <1>1, <1>2, <1>3, PTL DEF Spec

-----------------------------------------------------------------------------

(***************************************************************************)
(* Main's stream, for any pieces and any reads.  PipeInv follows a piece   *)
(* from the peer through the host's queue and the replies on their way to  *)
(* what was read, and counts the reads that are out: asked for, waiting at *)
(* the host or answered, they are one when a read pulls and none when none *)
(* does.  A step of the host moves pieces from its queue to its replies    *)
(* (HostFlows), a delivery moves them on (AnswerFlows), and the rest moves *)
(* none.  Hence a waiting read is never overwritten by another, and no     *)
(* answer finds the stream without a read that pulls.                      *)
(***************************************************************************)

(* Sequences: what is flattened, and what is counted *)

\* the parts of a sequence with a head put before it
LEMMA ConsParts ==
  ASSUME NEW S, NEW h \in S, NEW w \in Seq(S)
  PROVE  <<h>> \o w \in Seq(S) /\ Head(<<h>> \o w) = h /\ Tail(<<h>> \o w) = w /\ <<h>> \o w # <<>>
<1> DEFINE u == <<h>> \o w
<1>1. <<h>> \in Seq(S) /\ Len(<<h>>) = 1 /\ <<h>>[1] = h /\ Len(w) \in Nat
  BY LenProperties
<1>2. /\ u \in Seq(S) /\ Len(u) = 1 + Len(w)
      /\ \A i \in 1 .. 1 + Len(w) : u[i] = IF i <= 1 THEN <<h>>[i] ELSE w[i - 1]
  <2>1. u \in Seq(S) /\ Len(u) = Len(<<h>>) + Len(w)
        /\ \A i \in 1 .. Len(<<h>>) + Len(w) :
             u[i] = IF i <= Len(<<h>>) THEN <<h>>[i] ELSE w[i - Len(<<h>>)]
    BY <1>1, ConcatProperties
  <2> HIDE DEF u
  <2> QED BY <1>1, <2>1
<1> HIDE DEF u
<1>3. u # <<>> /\ u[1] = h
  BY <1>1, <1>2, EmptySeq
<1>4. /\ Head(u) = u[1] /\ Tail(u) \in Seq(S) /\ Len(Tail(u)) = Len(u) - 1
      /\ \A i \in 1 .. Len(Tail(u)) : Tail(u)[i] = u[i + 1]
  BY <1>2, <1>3, HeadTailProperties
<1>5. PICK v \in Seq(S) : v = Tail(u)
  BY <1>4
<1>6. Len(v) = Len(w) /\ \A i \in 1 .. Len(w) : v[i] = w[i]
  <2>1. Len(v) = Len(w)
    BY <1>1, <1>2, <1>4, <1>5
  <2>2. ASSUME NEW i \in 1 .. Len(w) PROVE v[i] = w[i]
    <3>1. i + 1 \in 1 .. 1 + Len(w) /\ ~(i + 1 <= 1) /\ (i + 1) - 1 = i
      BY <1>1
    <3>2. u[i + 1] = w[i]
      BY <1>2, <3>1
    <3> QED BY <1>4, <1>5, <2>1, <3>2
  <2> QED BY <2>1, <2>2
<1>7. v = w
  BY <1>1, <1>6, SeqEqual
<1> QED BY <1>2, <1>3, <1>4, <1>5, <1>7 DEF u

\* what comes before another sequence
LEMMA ChunkAhead ==
  ASSUME NEW S, NEW u \in Seq(S), NEW t \in Seq(S), u # <<>>
  PROVE  /\ u \o t # <<>> /\ u \o t \in Seq(S)
         /\ Head(u \o t) = Head(u) /\ Tail(u \o t) = Tail(u) \o t
<1>1. u = <<Head(u)>> \o Tail(u) /\ Head(u) \in S /\ Tail(u) \in Seq(S)
  <2>1. Head(u) \in S /\ Tail(u) \in Seq(S)
    BY HeadTailProperties
  <2>2. <<>> \in Seq(S) /\ Append(<<>>, Head(u)) = <<Head(u)>>
    OBVIOUS
  <2>3. Append(<<>>, Head(u)) \o Tail(u) = <<>> \o u
    BY <2>2, HeadMoves
  <2>4. <<>> \o u = u
    BY ConcatEmptySeq
  <2> QED BY <2>1, <2>2, <2>3, <2>4
<1>2. PICK h, v : h = Head(u) /\ v = Tail(u)
  OBVIOUS
<1>3. h \in S /\ v \in Seq(S) /\ u = <<h>> \o v /\ <<h>> \in Seq(S)
  BY <1>1, <1>2
<1>4. u \o t = <<h>> \o (v \o t) /\ v \o t \in Seq(S)
  BY <1>3, Associates, ConcatProperties
<1>5. PICK w \in Seq(S) : w = v \o t
  BY <1>4
<1>6. <<h>> \o w \in Seq(S) /\ Head(<<h>> \o w) = h /\ Tail(<<h>> \o w) = w /\ <<h>> \o w # <<>>
  BY <1>3, ConsParts
<1> QED BY <1>2, <1>4, <1>5, <1>6

(***************************************************************************)
(* What two sequences of chunks hold, one after the other.                 *)
(***************************************************************************)
LEMMA FlattenConcat ==
  ASSUME NEW S, NEW s \in Seq(Seq(S)), NEW t \in Seq(Seq(S))
  PROVE  FlattenSeq(s \o t) = FlattenSeq(s) \o FlattenSeq(t)
<1> DEFINE Joins(u) == FlattenSeq(u \o t) = FlattenSeq(u) \o FlattenSeq(t)
           I == {n \in Nat : \A u \in Seq(Seq(S)) : Len(u) = n => Joins(u)}
<1>1. FlattenSeq(t) \in Seq(S)
  BY FlattenType
<1>2. 0 \in I
  <2> SUFFICES ASSUME NEW u \in Seq(Seq(S)), Len(u) = 0 PROVE Joins(u)
    OBVIOUS
  <2>1. u = <<>>
    BY EmptySeq
  <2>2. FlattenSeq(u) = <<>>
    BY <2>1 DEF FlattenSeq
  <2>3. u \o t = t /\ <<>> \o FlattenSeq(t) = FlattenSeq(t)
    BY <1>1, <2>1, ConcatEmptySeq
  <2> QED BY <2>2, <2>3
<1>3. ASSUME NEW n \in I PROVE n + 1 \in I
  <2>1. n \in Nat /\ \A u \in Seq(Seq(S)) : Len(u) = n => Joins(u)
    OBVIOUS
  <2>2. ASSUME NEW u \in Seq(Seq(S)), Len(u) = n + 1 PROVE Joins(u)
    <3>1. u # <<>>
      BY <2>1, <2>2, EmptySeq
    <3>2. /\ Head(u) \in Seq(S) /\ Tail(u) \in Seq(Seq(S)) /\ Len(Tail(u)) = n
      BY <2>1, <2>2, <3>1, HeadTailProperties
    <3>3. /\ u \o t # <<>> /\ u \o t \in Seq(Seq(S))
          /\ Head(u \o t) = Head(u) /\ Tail(u \o t) = Tail(u) \o t
      BY <3>1, ChunkAhead
    <3>4. FlattenSeq(u \o t) = Head(u) \o FlattenSeq(Tail(u) \o t)
      BY <3>3, FlattenCons
    <3>5. FlattenSeq(u) = Head(u) \o FlattenSeq(Tail(u))
      BY <3>1, FlattenCons
    <3>6. FlattenSeq(Tail(u) \o t) = FlattenSeq(Tail(u)) \o FlattenSeq(t)
      BY <2>1, <3>2
    <3>7. FlattenSeq(Tail(u)) \in Seq(S)
      BY <3>2, FlattenType
    <3>8. (Head(u) \o FlattenSeq(Tail(u))) \o FlattenSeq(t)
            = Head(u) \o (FlattenSeq(Tail(u)) \o FlattenSeq(t))
      <4>1. PICK a \in Seq(S), b \in Seq(S), c \in Seq(S) :
              a = Head(u) /\ b = FlattenSeq(Tail(u)) /\ c = FlattenSeq(t)
        BY <1>1, <3>2, <3>7
      <4>2. (a \o b) \o c = a \o (b \o c)
        BY Associates, SMTT(20)
      <4> QED BY <4>1, <4>2
    <3> QED BY <3>4, <3>5, <3>6, <3>8
  <2> HIDE DEF Joins
  <2> QED BY <2>1, <2>2
<1>4. Len(s) \in Nat /\ I \in SUBSET Nat
  BY LenProperties
<1>5. \A k \in 0 .. Len(s) : k \in I
  <2> HIDE DEF I
  <2> QED BY <1>2, <1>3, <1>4, InductiveSet
<1>6. Len(s) \in I
  <2> HIDE DEF I
  <2> QED BY <1>4, <1>5
<1> QED BY <1>6

\* how many of the messages on the way are of these kinds
Tally(q, K) == Cardinality({i \in DOMAIN q : q[i] \in K})

LEMMA TallyConcat ==
  ASSUME NEW S, NEW K, NEW p \in Seq(S), NEW q \in Seq(S)
  PROVE  /\ Tally(p \o q, K) = Tally(p, K) + Tally(q, K)
         /\ Tally(p, K) \in Nat /\ Tally(q, K) \in Nat
<1> DEFINE u == p \o q
           A == {i \in DOMAIN p : p[i] \in K}
           B == {i \in DOMAIN q : q[i] \in K}
           C == {i \in DOMAIN u : u[i] \in K}
           D == {i \in Len(p) + 1 .. Len(p) + Len(q) : u[i] \in K}
<1>1. /\ Len(p) \in Nat /\ Len(q) \in Nat /\ DOMAIN p = 1 .. Len(p) /\ DOMAIN q = 1 .. Len(q)
      /\ DOMAIN u = 1 .. Len(p) + Len(q)
      /\ \A i \in 1 .. Len(p) + Len(q) : u[i] = IF i <= Len(p) THEN p[i] ELSE q[i - Len(p)]
  BY LenProperties, ConcatProperties
<1> HIDE DEF u
<1>2. IsFiniteSet(A) /\ IsFiniteSet(B) /\ IsFiniteSet(D)
  <2>1. A \subseteq 1 .. Len(p) /\ B \subseteq 1 .. Len(q) /\ D \subseteq 1 .. Len(p) + Len(q)
    BY <1>1
  <2>2. /\ IsFiniteSet(1 .. Len(p)) /\ IsFiniteSet(1 .. Len(q))
        /\ IsFiniteSet(1 .. Len(p) + Len(q))
    BY <1>1, FS_Interval
  <2> HIDE DEF A, B, D
  <2> QED BY <2>1, <2>2, FS_Subset
<1>3. C = A \cup D /\ A \cap D = {}
  <2>1. \A i \in 1 .. Len(p) : u[i] = p[i] /\ i \in 1 .. Len(p) + Len(q)
    BY <1>1
  <2>2. \A i \in 1 .. Len(p) + Len(q) :
          \/ i \in 1 .. Len(p) /\ i \notin Len(p) + 1 .. Len(p) + Len(q)
          \/ i \notin 1 .. Len(p) /\ i \in Len(p) + 1 .. Len(p) + Len(q)
    BY <1>1
  <2>3. Len(p) + 1 .. Len(p) + Len(q) \subseteq 1 .. Len(p) + Len(q)
    BY <1>1
  <2> QED BY <1>1, <2>1, <2>2, <2>3
<1>4. Cardinality(D) = Cardinality(B)
  <2> DEFINE f == [i \in B |-> i + Len(p)]
  <2>1. ASSUME NEW i \in B PROVE i + Len(p) \in D
    <3>1. i \in 1 .. Len(q) /\ q[i] \in K
      BY <1>1
    <3>2. /\ i + Len(p) \in Len(p) + 1 .. Len(p) + Len(q) /\ i + Len(p) \in 1 .. Len(p) + Len(q)
          /\ ~(i + Len(p) <= Len(p)) /\ (i + Len(p)) - Len(p) = i
      BY <1>1, <3>1
    <3> QED BY <1>1, <3>1, <3>2
  <2>2. ASSUME NEW j \in D PROVE j - Len(p) \in B /\ (j - Len(p)) + Len(p) = j
    <3>1. j \in Len(p) + 1 .. Len(p) + Len(q) /\ u[j] \in K
      OBVIOUS
    <3>2. /\ j - Len(p) \in 1 .. Len(q) /\ j \in 1 .. Len(p) + Len(q)
          /\ ~(j <= Len(p)) /\ (j - Len(p)) + Len(p) = j
      BY <1>1, <3>1
    <3> QED BY <1>1, <3>1, <3>2
  <2>3. \A i, j \in B : i + Len(p) = j + Len(p) => i = j
    <3>1. B \subseteq Nat
      BY <1>1
    <3> HIDE DEF B
    <3> QED BY <1>1, <3>1
  <2> HIDE DEF B, D
  <2>4. f \in [B -> D] /\ \A i \in B : f[i] = i + Len(p)
    BY <2>1
  <2> HIDE DEF f
  <2>5. f \in Injection(B, D)
    BY <2>3, <2>4 DEF Injection, IsInjective
  <2>6. f \in Surjection(B, D)
    BY <2>2, <2>4 DEF Surjection
  <2> QED BY <1>2, <2>5, <2>6, FS_Injection
<1> HIDE DEF A, B, C, D
<1>5. /\ Cardinality(A) \in Nat /\ Cardinality(B) \in Nat /\ Cardinality(D) \in Nat
      /\ Cardinality(A \cap D) = 0
  BY <1>2, <1>3, FS_CardinalityType, FS_EmptySet
<1>6. Cardinality(C) = Cardinality(A) + Cardinality(D) - Cardinality(A \cap D)
  BY <1>2, <1>3, FS_Union
<1>7. Cardinality(C) = Cardinality(A) + Cardinality(B)
  BY <1>4, <1>5, <1>6
<1>8. Tally(p \o q, K) = Cardinality(C) /\ Tally(p, K) = Cardinality(A) /\ Tally(q, K) = Cardinality(B)
  BY DEF Tally, A, B, C, u
<1> QED BY <1>5, <1>7, <1>8

LEMMA TallyOne ==
  ASSUME NEW K, NEW m
  PROVE  Tally(<<>>, K) = 0 /\ Tally(<<m>>, K) = IF m \in K THEN 1 ELSE 0
<1>1. {i \in DOMAIN <<>> : <<>>[i] \in K} = {}
  OBVIOUS
<1>2. {i \in DOMAIN <<m>> : <<m>>[i] \in K} = IF m \in K THEN {1} ELSE {}
  OBVIOUS
<1> QED BY <1>1, <1>2, FS_EmptySet, FS_Singleton DEF Tally

\* the first one leaves
LEMMA TallyTail ==
  ASSUME NEW S, NEW K, NEW q \in Seq(S), q # <<>>
  PROVE  /\ Tally(q, K) = (IF Head(q) \in K THEN 1 ELSE 0) + Tally(Tail(q), K)
         /\ Tally(Tail(q), K) \in Nat
<1>1. Head(q) \in S /\ Tail(q) \in Seq(S)
  BY HeadTailProperties
<1>2. PICK h \in S, t \in Seq(S) : h = Head(q) /\ t = Tail(q)
  BY <1>1
<1>3. <<h>> \o t = q
  <2>1. <<>> \in Seq(S) /\ Append(<<>>, h) = <<h>> /\ <<>> \o q = q
    BY ConcatEmptySeq
  <2> QED BY <1>2, <2>1, HeadMoves
<1>4. <<h>> \in Seq(S)
  OBVIOUS
<1>5. Tally(<<h>> \o t, K) = Tally(<<h>>, K) + Tally(t, K) /\ Tally(t, K) \in Nat
  BY <1>4, TallyConcat
<1> QED BY <1>2, <1>3, <1>5, TallyOne

-----------------------------------------------------------------------------

(* Main's stream: what is on its way to the guest *)

Replies ==
  ({"piece"} \X (1 .. Pieces))
    \cup ({"connected", "refused", "closed", "unwritten", "wrote", "done", "error"} \X {0})

\* what answers a read
Answers == {m \in Replies : m[1] \in {"piece", "done", "error"}}

PieceChunks == Seq(1 .. Pieces) \ {<<>>}

PieceIn(m) == IF m[1] = "piece" THEN <<m[2]>> ELSE <<>>

\* the pieces in these replies
Carried(q) == FlattenSeq([i \in DOMAIN q |-> PieceIn(q[i])])

Counting(n) == [i \in 1 .. n |-> i]

Out(held) == IF held THEN 1 ELSE 0

LEMMA ReplyIs ==
  ASSUME NEW m \in Replies
  PROVE  /\ PieceIn(m) \in Seq(1 .. Pieces)
         /\ m[1] = "piece" => m[2] \in 1 .. Pieces /\ PieceIn(m) = <<m[2]>>
         /\ m[1] # "piece" => PieceIn(m) = <<>>
         /\ m \in Answers <=> m[1] \in {"piece", "done", "error"}
<1>1. m[1] = "piece" => m[2] \in 1 .. Pieces
  BY DEF Replies
<1>2. m[1] = "piece" => PieceIn(m) = <<m[2]>>
  BY DEF PieceIn
<1>3. m[1] # "piece" => PieceIn(m) = <<>>
  BY DEF PieceIn
<1>4. PieceIn(m) \in Seq(1 .. Pieces)
  <2>1. \A n \in 1 .. Pieces : <<n>> \in Seq(1 .. Pieces)
    OBVIOUS
  <2>2. <<>> \in Seq(1 .. Pieces)
    OBVIOUS
  <2> QED BY <1>1, <1>2, <1>3, <2>1, <2>2
<1>5. m \in Answers <=> m[1] \in {"piece", "done", "error"}
  BY DEF Answers
<1> QED BY <1>1, <1>2, <1>3, <1>4, <1>5

LEMMA CarriedConcat ==
  ASSUME NEW p \in Seq(Replies), NEW q \in Seq(Replies)
  PROVE  /\ Carried(p \o q) = Carried(p) \o Carried(q)
         /\ Carried(p) \in Seq(1 .. Pieces) /\ Carried(q) \in Seq(1 .. Pieces)
<1> DEFINE u == p \o q
           a == [i \in DOMAIN p |-> PieceIn(p[i])]
           b == [i \in DOMAIN q |-> PieceIn(q[i])]
           c == [i \in DOMAIN u |-> PieceIn(u[i])]
           v == a \o b
<1>1. /\ Len(p) \in Nat /\ Len(q) \in Nat /\ DOMAIN p = 1 .. Len(p) /\ DOMAIN q = 1 .. Len(q)
      /\ u \in Seq(Replies) /\ Len(u) = Len(p) + Len(q) /\ DOMAIN u = 1 .. Len(p) + Len(q)
      /\ \A i \in 1 .. Len(p) + Len(q) : u[i] = IF i <= Len(p) THEN p[i] ELSE q[i - Len(p)]
  <2>1. u \in Seq(Replies) /\ Len(u) = Len(p) + Len(q)
        /\ \A i \in 1 .. Len(p) + Len(q) : u[i] = IF i <= Len(p) THEN p[i] ELSE q[i - Len(p)]
    BY ConcatProperties
  <2> HIDE DEF u
  <2> QED BY <2>1, LenProperties
<1> HIDE DEF u
<1>2. /\ \A i \in 1 .. Len(p) : PieceIn(p[i]) \in Seq(1 .. Pieces)
      /\ \A i \in 1 .. Len(q) : PieceIn(q[i]) \in Seq(1 .. Pieces)
      /\ \A i \in 1 .. Len(u) : PieceIn(u[i]) \in Seq(1 .. Pieces)
  BY <1>1, ElementOfSeq, ReplyIs
<1>3. /\ a \in Seq(Seq(1 .. Pieces)) /\ Len(a) = Len(p)
      /\ b \in Seq(Seq(1 .. Pieces)) /\ Len(b) = Len(q)
      /\ c \in Seq(Seq(1 .. Pieces)) /\ Len(c) = Len(p) + Len(q)
  BY <1>1, <1>2
<1>4. /\ \A i \in 1 .. Len(p) : a[i] = PieceIn(p[i])
      /\ \A i \in 1 .. Len(q) : b[i] = PieceIn(q[i])
      /\ \A i \in 1 .. Len(p) + Len(q) : c[i] = PieceIn(u[i])
  BY <1>1
<1> HIDE DEF a, b, c
<1>5. /\ v \in Seq(Seq(1 .. Pieces)) /\ Len(v) = Len(p) + Len(q)
      /\ \A i \in 1 .. Len(p) + Len(q) : v[i] = IF i <= Len(p) THEN a[i] ELSE b[i - Len(p)]
  <2>1. PICK S : S = Seq(1 .. Pieces)
    OBVIOUS
  <2>2. a \in Seq(S) /\ b \in Seq(S)
    BY <1>3, <2>1
  <2>3. /\ a \o b \in Seq(S) /\ Len(a \o b) = Len(a) + Len(b)
        /\ \A i \in 1 .. Len(a) + Len(b) :
             (a \o b)[i] = IF i <= Len(a) THEN a[i] ELSE b[i - Len(a)]
    BY <2>2, ConcatProperties
  <2> QED BY <1>3, <2>1, <2>3
<1>6. FlattenSeq(v) = FlattenSeq(a) \o FlattenSeq(b)
  <2>1. PICK S : S = 1 .. Pieces
    OBVIOUS
  <2>2. a \in Seq(Seq(S)) /\ b \in Seq(Seq(S))
    BY <1>3, <2>1
  <2> QED BY <2>2, FlattenConcat
<1> HIDE DEF v
<1>7. c = v
  <2>1. ASSUME NEW i \in 1 .. Len(p) + Len(q) PROVE c[i] = v[i]
    <3>1. CASE i <= Len(p)
      <4>1. i \in 1 .. Len(p)
        BY <1>1, <3>1
      <4> QED BY <1>1, <1>4, <1>5, <3>1, <4>1
    <3>2. CASE ~(i <= Len(p))
      <4>1. i - Len(p) \in 1 .. Len(q)
        BY <1>1, <3>2
      <4> QED BY <1>1, <1>4, <1>5, <3>2, <4>1
    <3> QED BY <3>1, <3>2
  <2> QED BY <1>3, <1>5, <2>1, SeqEqual
<1>8. FlattenSeq(a) \in Seq(1 .. Pieces) /\ FlattenSeq(b) \in Seq(1 .. Pieces)
  BY <1>3, FlattenType
<1>9. Carried(u) = FlattenSeq(c) /\ Carried(p) = FlattenSeq(a) /\ Carried(q) = FlattenSeq(b)
  BY DEF Carried, a, b, c
<1> QED BY <1>6, <1>7, <1>8, <1>9 DEF u

LEMMA FlattenOne ==
  ASSUME NEW S, NEW x \in Seq(S)
  PROVE  FlattenSeq(<<x>>) = x /\ FlattenSeq(<<>>) = <<>>
<1>1. FlattenSeq(<<>>) = <<>>
  BY DEF FlattenSeq
<1>2. /\ <<x>> \in Seq(Seq(S)) /\ <<x>> # <<>> /\ Head(<<x>>) = x /\ Tail(<<x>>) = <<>>
  OBVIOUS
<1>3. FlattenSeq(<<x>>) = x \o <<>>
  BY <1>1, <1>2, FlattenCons
<1>4. x \o <<>> = x
  BY ConcatEmptySeq
<1> QED BY <1>1, <1>3, <1>4

LEMMA CarriedOne ==
  ASSUME NEW m \in Replies
  PROVE  Carried(<<>>) = <<>> /\ Carried(<<m>>) = PieceIn(m)
<1>1. [i \in DOMAIN <<>> |-> PieceIn(<<>>[i])] = <<>>
  OBVIOUS
<1>2. [i \in DOMAIN <<m>> |-> PieceIn(<<m>>[i])] = <<PieceIn(m)>>
  OBVIOUS
<1>3. PieceIn(m) \in Seq(1 .. Pieces)
  BY ReplyIs
<1> QED BY <1>1, <1>2, <1>3, FlattenOne DEF Carried

\* the first reply leaves
LEMMA CarriedTail ==
  ASSUME NEW q \in Seq(Replies), q # <<>>
  PROVE  /\ Head(q) \in Replies /\ Tail(q) \in Seq(Replies)
         /\ Carried(q) = PieceIn(Head(q)) \o Carried(Tail(q))
<1>1. Head(q) \in Replies /\ Tail(q) \in Seq(Replies)
  BY HeadTailProperties
<1>2. PICK h \in Replies, t \in Seq(Replies) : h = Head(q) /\ t = Tail(q)
  BY <1>1
<1>3. <<h>> \o t = q
  <2>1. <<>> \in Seq(Replies) /\ Append(<<>>, h) = <<h>> /\ <<>> \o q = q
    BY ConcatEmptySeq
  <2> QED BY <1>2, <2>1, HeadMoves
<1>4. <<h>> \in Seq(Replies)
  OBVIOUS
<1>5. Carried(<<h>> \o t) = Carried(<<h>>) \o Carried(t)
  BY <1>4, CarriedConcat
<1> QED BY <1>1, <1>2, <1>3, <1>5, CarriedOne

-----------------------------------------------------------------------------

(* A socket of the host: what it passes on *)

LEMMA LeftHolds ==
  ASSUME NEW queue \in Seq(PieceChunks), queue # <<>>
  PROVE  /\ Left(queue) \in Seq(PieceChunks) /\ Head(queue)[1] \in 1 .. Pieces
         /\ FlattenSeq(queue) = <<Head(queue)[1]>> \o FlattenSeq(Left(queue))
         /\ FlattenSeq(Left(queue)) \in Seq(1 .. Pieces)
<1>1. PICK c, r : c = Head(queue) /\ r = Tail(queue)
  OBVIOUS
<1>2. c \in PieceChunks /\ r \in Seq(PieceChunks)
  BY <1>1, HeadTailProperties
<1>3. /\ c \in Seq(1 .. Pieces) /\ c # <<>> /\ Len(c) \in Nat /\ Len(c) # 0
      /\ Tail(c) \in Seq(1 .. Pieces) /\ Len(Tail(c)) = Len(c) - 1 /\ Head(c) = c[1]
      /\ c[1] \in 1 .. Pieces
  <2>1. c \in Seq(1 .. Pieces) /\ c # <<>>
    BY <1>2 DEF PieceChunks
  <2>2. Len(c) \in Nat /\ Len(c) # 0
    BY <2>1, LenProperties, EmptySeq
  <2>3. /\ Tail(c) \in Seq(1 .. Pieces) /\ Len(Tail(c)) = Len(c) - 1 /\ Head(c) = c[1]
        /\ Head(c) \in 1 .. Pieces
    <3>1. PICK S : S = 1 .. Pieces
      OBVIOUS
    <3>2. c \in Seq(S)
      BY <2>1, <3>1
    <3>3. Tail(c) \in Seq(S) /\ Len(Tail(c)) = Len(c) - 1 /\ Head(c) = c[1] /\ Head(c) \in S
      BY <2>1, <3>2, HeadTailProperties
    <3> QED BY <3>1, <3>3
  <2> QED BY <2>1, <2>2, <2>3
<1>4. <<c[1]>> \o Tail(c) = c /\ <<c[1]>> \in Seq(1 .. Pieces)
  <2>1. <<>> \in Seq(1 .. Pieces) /\ Append(<<>>, Head(c)) = <<Head(c)>> /\ <<>> \o c = c
    BY <1>3, ConcatEmptySeq
  <2>2. Append(<<>>, Head(c)) \o Tail(c) = <<>> \o c
    BY <1>3, <2>1, HeadMoves
  <2>3. <<c[1]>> \in Seq(1 .. Pieces)
    BY <1>3
  <2> QED BY <1>3, <2>1, <2>2, <2>3
<1>5. queue \in Seq(Seq(1 .. Pieces)) /\ r \in Seq(Seq(1 .. Pieces))
  <2>1. PieceChunks \subseteq Seq(1 .. Pieces)
    BY DEF PieceChunks
  <2> HIDE DEF PieceChunks
  <2> QED BY <1>2, <2>1, SeqMonotonic
<1>6. FlattenSeq(queue) = c \o FlattenSeq(r) /\ FlattenSeq(r) \in Seq(1 .. Pieces)
  BY <1>1, <1>5, FlattenCons, FlattenType
<1>7. CASE Len(c) > 1
  <2>1. Tail(c) # <<>>
    BY <1>3, <1>7, EmptySeq
  <2>2. Tail(c) \in PieceChunks
    BY <1>3, <2>1 DEF PieceChunks
  <2>3. Left(queue) = <<Tail(c)>> \o r
    BY <1>1, <1>7 DEF Left
  <2>4. <<Tail(c)>> \in Seq(PieceChunks) /\ <<Tail(c)>> \in Seq(Seq(1 .. Pieces))
    BY <1>3, <2>2
  <2>5. Left(queue) \in Seq(PieceChunks)
    BY <1>2, <2>3, <2>4, ConcatProperties
  <2>6. FlattenSeq(<<Tail(c)>> \o r) = FlattenSeq(<<Tail(c)>>) \o FlattenSeq(r)
    BY <1>5, <2>4, FlattenConcat
  <2>7. FlattenSeq(<<Tail(c)>>) = Tail(c)
    BY <1>3, FlattenOne
  <2>8. (<<c[1]>> \o Tail(c)) \o FlattenSeq(r) = <<c[1]>> \o (Tail(c) \o FlattenSeq(r))
    <3>1. PICK x \in Seq(1 .. Pieces), y \in Seq(1 .. Pieces), z \in Seq(1 .. Pieces) :
            x = <<c[1]>> /\ y = Tail(c) /\ z = FlattenSeq(r)
      BY <1>3, <1>4, <1>6
    <3>2. (x \o y) \o z = x \o (y \o z)
      BY Associates
    <3> QED BY <3>1, <3>2
  <2>9. Tail(c) \o FlattenSeq(r) \in Seq(1 .. Pieces)
    BY <1>3, <1>6, ConcatProperties
  <2> QED BY <1>1, <1>3, <1>4, <1>6, <2>3, <2>5, <2>6, <2>7, <2>8, <2>9
<1>8. CASE ~(Len(c) > 1)
  <2>1. Left(queue) = r
    BY <1>1, <1>8 DEF Left
  <2>2. Tail(c) = <<>>
    <3>1. Len(Tail(c)) = 0
      BY <1>3, <1>8
    <3> QED BY <1>3, <3>1, EmptySeq
  <2>3. <<c[1]>> \o <<>> = <<c[1]>>
    BY <1>4, ConcatEmptySeq
  <2> QED BY <1>1, <1>2, <1>3, <1>4, <1>6, <2>1, <2>2, <2>3
<1> QED BY <1>7, <1>8

(***************************************************************************)
(* From h to t the socket answers rs, and n more reads are out: what was   *)
(* read before, what rs carries and what t has queued are what the peer    *)
(* has sent, if they were with h.                                          *)
(***************************************************************************)
Flows(h, t, rs, n) ==
  /\ rs \in Seq(Replies) /\ t.queue \in Seq(PieceChunks)
  /\ \A x \in Seq(1 .. Pieces) :
       x \o FlattenSeq(h.queue) = Counting(h.received)
         => (x \o Carried(rs)) \o FlattenSeq(t.queue) = Counting(t.received)
  /\ Tally(rs, Answers) + Out(t.waiter) = Out(h.waiter) + n

\* replies that carry no piece and answer no read
QuietReplies(rs) == rs \in Seq(Replies) /\ Carried(rs) = <<>> /\ Tally(rs, Answers) = 0

LEMMA QuietOnes ==
  /\ QuietReplies(<<>>)
  /\ \A m \in Replies \ Answers : QuietReplies(<<m>>)
  /\ \A kind \in {"connected", "refused", "closed", "unwritten", "wrote"} :
       <<kind, 0>> \in Replies \ Answers
<1>1. QuietReplies(<<>>)
  <2>1. <<"done", 0>> \in Replies
    BY DEF Replies
  <2>2. <<>> \in Seq(Replies) /\ Carried(<<>>) = <<>>
    <3>1. <<>> \in Seq(Replies)
      OBVIOUS
    <3>2. Carried(<<>>) = <<>>
      BY <2>1, CarriedOne
    <3> QED BY <3>1, <3>2
  <2>3. Tally(<<>>, Answers) = 0
    BY TallyOne
  <2> QED BY <2>2, <2>3 DEF QuietReplies
<1>2. ASSUME NEW m \in Replies \ Answers PROVE QuietReplies(<<m>>)
  <2>1. <<m>> \in Seq(Replies) /\ m[1] # "piece"
    BY ReplyIs
  <2> QED BY <2>1, CarriedOne, TallyOne, ReplyIs DEF QuietReplies
<1>3. ASSUME NEW kind \in {"connected", "refused", "closed", "unwritten", "wrote"}
      PROVE  <<kind, 0>> \in Replies \ Answers
  BY DEF Replies, Answers
<1> QED BY <1>1, <1>2, <1>3

LEMMA QuietBoth ==
  ASSUME NEW p, NEW q, QuietReplies(p), QuietReplies(q)
  PROVE  QuietReplies(p \o q)
<1>1. p \in Seq(Replies) /\ q \in Seq(Replies)
  BY DEF QuietReplies
<1>2. p \o q \in Seq(Replies)
  BY <1>1, ConcatProperties
<1>3. Carried(p \o q) = <<>> \o <<>>
  BY <1>1, CarriedConcat DEF QuietReplies
<1>4. Tally(p \o q, Answers) = 0 + 0
  BY <1>1, TallyConcat DEF QuietReplies
<1>5. <<>> \o <<>> = <<>>
  OBVIOUS
<1> QED BY <1>2, <1>3, <1>4, <1>5 DEF QuietReplies

\* the queue is left alone
LEMMA QuietFlows ==
  ASSUME NEW h, NEW t, NEW rs, QuietReplies(rs), h.queue \in Seq(PieceChunks),
         t.queue = h.queue, t.received = h.received, t.waiter = h.waiter
  PROVE  Flows(h, t, rs, 0)
<1>1. rs \in Seq(Replies) /\ Carried(rs) = <<>> /\ Tally(rs, Answers) = 0
  BY DEF QuietReplies
<1>2. Out(h.waiter) \in Nat
  BY DEF Out
<1>3. \A x \in Seq(1 .. Pieces) : x \o <<>> = x
  BY ConcatEmptySeq
<1> QED BY <1>1, <1>2, <1>3 DEF Flows

\* something is answered besides
LEMMA FlowsMore ==
  ASSUME NEW h, NEW t, NEW rs, NEW n, NEW more, Flows(h, t, rs, n), QuietReplies(more)
  PROVE  Flows(h, t, rs \o more, n)
<1>1. rs \in Seq(Replies) /\ more \in Seq(Replies) /\ Carried(more) = <<>> /\ Tally(more, Answers) = 0
  BY DEF QuietReplies, Flows
<1>2. /\ rs \o more \in Seq(Replies)
      /\ Carried(rs \o more) = Carried(rs) \o <<>> /\ Carried(rs) \in Seq(1 .. Pieces)
      /\ Tally(rs \o more, Answers) = Tally(rs, Answers) + 0 /\ Tally(rs, Answers) \in Nat
  <2>1. rs \o more \in Seq(Replies)
    BY <1>1, ConcatProperties
  <2>2. Carried(rs \o more) = Carried(rs) \o <<>> /\ Carried(rs) \in Seq(1 .. Pieces)
    BY <1>1, CarriedConcat
  <2>3. Tally(rs \o more, Answers) = Tally(rs, Answers) + 0 /\ Tally(rs, Answers) \in Nat
    BY <1>1, TallyConcat
  <2> QED BY <2>1, <2>2, <2>3
<1>3. Carried(rs) \o <<>> = Carried(rs)
  BY <1>2, ConcatEmptySeq
<1>4. Tally(rs \o more, Answers) = Tally(rs, Answers)
  BY <1>2
<1> QED BY <1>2, <1>3, <1>4 DEF Flows

\* a read that is served: a piece, the end, or a wait
ServesOne(h, t, rs) ==
  /\ rs \in Seq(Replies) /\ t.queue \in Seq(PieceChunks) /\ t.received = h.received
  /\ \A x \in Seq(1 .. Pieces) :
       x \o FlattenSeq(h.queue) = (x \o Carried(rs)) \o FlattenSeq(t.queue)
  /\ Tally(rs, Answers) + Out(t.waiter) = 1

LEMMA ReadFlows ==
  ASSUME NEW h \in SocketType, h.queue \in Seq(PieceChunks)
  PROVE  ServesOne(h, Served(h).h, Served(h).replies)
<1>0. /\ \A x \in Seq(1 .. Pieces) : x \o <<>> = x
      /\ <<"done", 0>> \in Replies /\ <<"done", 0>> \in Answers
  BY ConcatEmptySeq DEF Replies, Answers
<1>00. \A b : (b = TRUE => Out(b) = 1) /\ (b = FALSE => Out(b) = 0)
  BY Zenon DEF Out
<1>t. PICK t, rs : t = Served(h).h /\ rs = Served(h).replies
  OBVIOUS
<1>1. CASE h.queue # <<>>
  <2>1. PICK p : p = Head(h.queue)[1]
    OBVIOUS
  <2>2. /\ rs = <<<<"piece", p>>>> /\ t.queue = Left(h.queue) /\ t.received = h.received
        /\ t.waiter = FALSE
    BY <1>1, <1>t, <2>1 DEF Served, Left, SocketType
  <2>3. /\ Left(h.queue) \in Seq(PieceChunks) /\ p \in 1 .. Pieces
        /\ FlattenSeq(h.queue) = <<p>> \o FlattenSeq(Left(h.queue))
        /\ FlattenSeq(Left(h.queue)) \in Seq(1 .. Pieces)
    BY <1>1, <2>1, LeftHolds
  <2>4. <<"piece", p>> \in Replies /\ <<"piece", p>> \in Answers /\ <<p>> \in Seq(1 .. Pieces)
    BY <2>3 DEF Replies, Answers
  <2>5. PICK m \in Replies : m = <<"piece", p>>
    BY <2>4
  <2>6. /\ <<m>> \in Seq(Replies) /\ Tally(<<m>>, Answers) = 1 /\ Carried(<<m>>) = <<p>>
    <3>1. <<m>> \in Seq(Replies) /\ m[1] = "piece" /\ m[2] = p /\ m \in Answers
      BY <2>4, <2>5
    <3>2. Tally(<<m>>, Answers) = 1
      BY <3>1, TallyOne
    <3>3. Carried(<<m>>) = <<p>>
      BY <3>1, CarriedOne, ReplyIs
    <3> QED BY <3>1, <3>2, <3>3
  <2>7. ASSUME NEW x \in Seq(1 .. Pieces)
        PROVE  x \o (<<p>> \o FlattenSeq(Left(h.queue))) = (x \o <<p>>) \o FlattenSeq(Left(h.queue))
    <3>1. PICK y \in Seq(1 .. Pieces), z \in Seq(1 .. Pieces) :
            y = <<p>> /\ z = FlattenSeq(Left(h.queue))
      BY <2>3, <2>4
    <3>2. (x \o y) \o z = x \o (y \o z)
      BY Associates
    <3> QED BY <3>1, <3>2
  <2>8. Tally(rs, Answers) = 1 /\ Out(t.waiter) = 0 /\ Carried(rs) = <<p>> /\ rs \in Seq(Replies)
    BY <1>00, <2>2, <2>5, <2>6
  <2>9. Tally(rs, Answers) + Out(t.waiter) = 1
    BY <2>8
  <2>10. \A x \in Seq(1 .. Pieces) :
           x \o FlattenSeq(h.queue) = (x \o Carried(rs)) \o FlattenSeq(t.queue)
    BY <2>2, <2>3, <2>7, <2>8, Zenon
  <2> QED BY <1>t, <2>2, <2>3, <2>8, <2>9, <2>10 DEF ServesOne
<1>2. CASE h.queue = <<>> /\ h.ended
  <2>1. PICK m \in Replies : m = <<"done", 0>> /\ m \in Answers
    BY <1>0
  <2>2. rs = <<m>> /\ t = [Release(h) EXCEPT !.waiter = FALSE]
    BY <1>2, <1>t, <2>1 DEF Served
  <2>3. t.queue = h.queue /\ t.received = h.received /\ t.waiter = FALSE
    BY <2>2 DEF Release, SocketType
  <2>4. rs \in Seq(Replies) /\ Tally(rs, Answers) = 1 /\ Carried(rs) = <<>> /\ Out(t.waiter) = 0
    <3>1. <<m>> \in Seq(Replies) /\ m[1] # "piece"
      BY <2>1
    <3>2. Tally(<<m>>, Answers) = 1
      BY <2>1, TallyOne
    <3>3. Carried(<<m>>) = <<>>
      BY <3>1, CarriedOne, ReplyIs
    <3> QED BY <1>00, <2>2, <2>3, <3>1, <3>2, <3>3
  <2> QED BY <1>0, <1>t, <2>3, <2>4 DEF ServesOne
<1>3. CASE h.queue = <<>> /\ ~h.ended
  <2>1. rs = <<>> /\ t = [h EXCEPT !.waiter = TRUE]
    BY <1>3, <1>t DEF Served
  <2>2. t.queue = h.queue /\ t.received = h.received /\ t.waiter = TRUE
    BY <2>1 DEF SocketType
  <2>3. rs \in Seq(Replies) /\ Tally(rs, Answers) = 0 /\ Carried(rs) = <<>> /\ Out(t.waiter) = 1
    BY <1>00, <2>1, <2>2, QuietOnes DEF QuietReplies
  <2> QED BY <1>0, <1>t, <2>2, <2>3 DEF ServesOne
<1> QED BY <1>1, <1>2, <1>3

LEMMA ServedFlows ==
  ASSUME NEW h \in SocketType, h.queue \in Seq(PieceChunks), ~h.waiter
  PROVE  Flows(h, Served(h).h, Served(h).replies, 1)
<1>1. PICK t, rs : t = Served(h).h /\ rs = Served(h).replies
  OBVIOUS
<1>2. ServesOne(h, t, rs)
  BY <1>1, ReadFlows
<1>3. Out(h.waiter) + 1 = 1
  BY DEF Out
<1> QED BY <1>1, <1>2, <1>3 DEF Flows, ServesOne

LEMMA WokenFlows ==
  ASSUME NEW h \in SocketType, h.queue \in Seq(PieceChunks)
  PROVE  Flows(h, Woken(h).h, Woken(h).replies, 0)
<1>1. CASE h.waiter
  <2>1. PICK t, rs : t = Served(h).h /\ rs = Served(h).replies
    OBVIOUS
  <2>2. ServesOne(h, t, rs)
    BY <2>1, ReadFlows
  <2>3. Out(h.waiter) + 0 = 1
    BY <1>1 DEF Out
  <2>4. Flows(h, t, rs, 0)
    BY <2>2, <2>3 DEF Flows, ServesOne
  <2>5. Woken(h).h = t /\ Woken(h).replies = rs
    BY <1>1, <2>1 DEF Woken
  <2> QED BY <2>4, <2>5
<1>2. CASE ~h.waiter
  <2>1. Woken(h).h = h /\ Woken(h).replies = <<>>
    BY <1>2 DEF Woken
  <2> QED BY <2>1, QuietFlows, QuietOnes
<1> QED BY <1>1, <1>2

-----------------------------------------------------------------------------

(* The stream: the invariant, and the host's steps *)

Flowing ==
  /\ Tally(up[Main], {"read"}) + Tally(down[Main], Answers) + Out(host[Main].waiter)
       = Out(stream.puller # None)
  /\ stream.puller # None => ~stream.errored /\ (stream.closed => guest[Main].dropped)
  /\ ~guest[Main].dropped =>
       (got \o Carried(down[Main])) \o FlattenSeq(host[Main].queue) = Counting(host[Main].received)

\* Main alone is read
Unread ==
  \A s \in Socks \ {Main} : Tally(down[s], Answers) = 0 /\ Out(host[s].waiter) = 0

\* a read takes what it finds: nothing stays in the guest's own queue
PipeTyped ==
  /\ stream \in StreamType /\ stream.queue = <<>>
  /\ reader \in [Readers -> {"idle", "reading", "done", "failed"}]
  /\ got \in Seq(1 .. Pieces)

PipeInv ==
  /\ down \in [Socks -> Seq(Replies)]
  /\ \A s \in Socks : host[s].queue \in Seq(PieceChunks)
  /\ PipeTyped
  /\ ~disposed => Flowing
  /\ Unread

\* n is 1 when the host takes up a read
TakesUp(s, n) ==
  \/ n = 0 /\ (up' = up \/ (up[s] # <<>> /\ Head(up[s]) # "read" /\ Handled(s)))
  \/ n = 1 /\ s = Main /\ up[s] # <<>> /\ Head(up[s]) = "read" /\ Handled(s)

HostFlows(s) ==
  \E t, rs, n :
    /\ Flows(host[s], t, rs, n)
    /\ host' = [host EXCEPT ![s] = t]
    /\ Reply(s, rs)
    /\ TakesUp(s, n)
    /\ UNCHANGED <<guestVars, disposed>>

LEMMA TakenUp ==
  ASSUME BridgeInv, NEW s \in Socks, NEW n, TakesUp(s, n)
  PROVE  /\ n \in Nat /\ Tally(up[s], {"read"}) = Tally(up'[s], {"read"}) + n
         /\ Tally(up'[s], {"read"}) \in Nat
         /\ \A r \in Socks \ {s} : up'[r] = up[r]
<1>1. up \in [Socks -> Seq(Kinds)] /\ up[s] \in Seq(Kinds)
  BY DEF BridgeInv, Calls
<1>2. CASE up' = up
  <2>1. n = 0 \/ (n = 1 /\ up[s] # <<>> /\ Handled(s))
    BY DEF TakesUp
  <2>2. ASSUME up[s] # <<>>, Handled(s) PROVE FALSE
    <3>1. up'[s] = Tail(up[s])
      BY <1>1, <2>2 DEF Handled
    <3>2. Len(Tail(up[s])) = Len(up[s]) - 1 /\ Len(up[s]) \in Nat
      BY <1>1, <2>2, HeadTailProperties, LenProperties
    <3>3. Len(up'[s]) = Len(up[s]) - 1
      BY <3>1, <3>2
    <3>4. up'[s] = up[s]
      BY <1>2
    <3> QED BY <3>2, <3>3, <3>4
  <2>3. n = 0
    BY <2>1, <2>2
  <2>4. Tally(up[s], {"read"}) \in Nat
    BY <1>1, TallyConcat
  <2> QED BY <1>2, <2>3, <2>4
<1>3. CASE up' # up
  <2>1. up[s] # <<>> /\ Handled(s) /\ n = (IF Head(up[s]) = "read" THEN 1 ELSE 0)
    BY <1>3 DEF TakesUp
  <2>2. up'[s] = Tail(up[s]) /\ \A r \in Socks \ {s} : up'[r] = up[r]
    BY <1>1, <2>1 DEF Handled
  <2>3. /\ Tally(up[s], {"read"})
             = (IF Head(up[s]) \in {"read"} THEN 1 ELSE 0) + Tally(Tail(up[s]), {"read"})
        /\ Tally(Tail(up[s]), {"read"}) \in Nat
    BY <1>1, <2>1, TallyTail
  <2> HIDE DEF Tally
  <2>4. n \in Nat /\ Tally(up[s], {"read"}) = n + Tally(Tail(up[s]), {"read"})
    BY <2>1, <2>3
  <2>5. Tally(up[s], {"read"}) = Tally(Tail(up[s]), {"read"}) + n
    BY <2>3, <2>4
  <2> QED BY <2>2, <2>3, <2>4, <2>5
<1> QED BY <1>2, <1>3

LEMMA HostFlowsKeeps ==
  ASSUME BridgeInv, PipeInv, NEW s \in Socks, HostFlows(s)
  PROVE  PipeInv'
<1>1. PICK t, rs, n :
        /\ Flows(host[s], t, rs, n)
        /\ host' = [host EXCEPT ![s] = t]
        /\ Reply(s, rs)
        /\ TakesUp(s, n)
        /\ UNCHANGED <<guestVars, disposed>>
  BY DEF HostFlows
<1>2. /\ host'[s] = t /\ down'[s] = IF disposed THEN down[s] ELSE down[s] \o rs
      /\ \A r \in Socks \ {s} : host'[r] = host[r] /\ down'[r] = down[r]
  BY <1>1 DEF BridgeInv, HostOK, PipeInv, Reply
<1>3. rs \in Seq(Replies) /\ t.queue \in Seq(PieceChunks) /\ down[s] \in Seq(Replies)
  BY <1>1 DEF Flows, PipeInv
<1>4. down' \in [Socks -> Seq(Replies)]
  <2>1. down[s] \o rs \in Seq(Replies)
    BY <1>3, ConcatProperties
  <2> QED BY <1>1, <2>1 DEF PipeInv, Reply
<1>5. \A r \in Socks : host'[r].queue \in Seq(PieceChunks)
  BY <1>2, <1>3 DEF PipeInv
<1>6. PipeTyped' /\ disposed' = disposed
  BY <1>1 DEF PipeInv, PipeTyped, guestVars
<1>7. ASSUME ~disposed PROVE Flowing'
  <2>0. UNCHANGED <<guest, stream, got>> /\ Flowing
    BY <1>1, <1>7 DEF guestVars, PipeInv
  <2>1. CASE s # Main
    <3>1. up'[Main] = up[Main] /\ down'[Main] = down[Main] /\ host'[Main] = host[Main]
      BY <1>1, <1>2, <2>1, TakenUp, MainAssumption
    <3> QED BY <2>0, <3>1 DEF Flowing
  <2>2. CASE s = Main
    <3>1. /\ n \in Nat /\ Tally(up[Main], {"read"}) = Tally(up'[Main], {"read"}) + n
          /\ Tally(up'[Main], {"read"}) \in Nat
      BY <1>1, <2>2, TakenUp
    <3>2. /\ Tally(down[Main] \o rs, Answers) = Tally(down[Main], Answers) + Tally(rs, Answers)
          /\ Tally(down[Main], Answers) \in Nat /\ Tally(rs, Answers) \in Nat
      BY <1>3, <2>2, TallyConcat
    <3>3. Tally(rs, Answers) + Out(t.waiter) = Out(host[Main].waiter) + n
      BY <1>1, <2>2 DEF Flows
    <3>4. \A b : Out(b) \in Nat
      BY DEF Out
    <3>5. Tally(up'[Main], {"read"}) + Tally(down[Main] \o rs, Answers) + Out(t.waiter)
            = Out(stream.puller # None)
      <4>1. Tally(up[Main], {"read"}) + Tally(down[Main], Answers) + Out(host[Main].waiter)
              = Out(stream.puller # None)
        BY <2>0 DEF Flowing
      <4>2. PICK a, b, c, d, e, f, o \in Nat :
              /\ a = Tally(up[Main], {"read"}) /\ b = Tally(down[Main], Answers)
              /\ c = Out(host[Main].waiter) /\ d = Tally(up'[Main], {"read"})
              /\ e = Tally(rs, Answers) /\ f = Out(t.waiter) /\ o = Out(stream.puller # None)
        <5>1. Tally(up[Main], {"read"}) \in Nat
          BY <3>1
        <5> QED BY <3>1, <3>2, <3>4, <5>1
      <4>3. a + b + c = o /\ a = d + n /\ e + f = c + n
        BY <3>1, <3>3, <4>1, <4>2
      <4>4. d + (b + e) + f = o
        BY <3>1, <4>3
      <4> QED BY <3>2, <4>2, <4>4
    <3>6. ASSUME ~guest[Main].dropped
          PROVE  (got \o Carried(down[Main] \o rs)) \o FlattenSeq(t.queue) = Counting(t.received)
      <4>1. /\ Carried(down[Main] \o rs) = Carried(down[Main]) \o Carried(rs)
            /\ Carried(down[Main]) \in Seq(1 .. Pieces) /\ Carried(rs) \in Seq(1 .. Pieces)
            /\ got \in Seq(1 .. Pieces)
        BY <1>3, <2>2, CarriedConcat DEF PipeInv, PipeTyped
      <4>2. got \o Carried(down[Main]) \in Seq(1 .. Pieces)
        BY <4>1, ConcatProperties
      <4>3. ((got \o Carried(down[Main])) \o Carried(rs)) \o FlattenSeq(t.queue) = Counting(t.received)
        BY <1>1, <2>0, <2>2, <3>6, <4>2 DEF Flows, Flowing
      <4>4. (got \o Carried(down[Main])) \o Carried(rs) = got \o (Carried(down[Main]) \o Carried(rs))
        <5>1. PICK x \in Seq(1 .. Pieces), y \in Seq(1 .. Pieces), z \in Seq(1 .. Pieces) :
                x = got /\ y = Carried(down[Main]) /\ z = Carried(rs)
          BY <4>1
        <5>2. (x \o y) \o z = x \o (y \o z)
          BY Associates
        <5> QED BY <5>1, <5>2
      <4> QED BY <4>1, <4>3, <4>4
    <3>7. host'[Main] = t /\ down'[Main] = down[Main] \o rs
      BY <1>2, <1>7, <2>2
    <3> QED BY <2>0, <3>5, <3>6, <3>7 DEF Flowing
  <2> QED BY <2>1, <2>2
<1>8. Unread'
  <2>1. ASSUME s # Main PROVE Tally(down'[s], Answers) = 0 /\ Out(host'[s].waiter) = 0
    <3>1. n = 0
      BY <1>1, <2>1 DEF TakesUp
    <3>2. /\ Tally(down[s] \o rs, Answers) = Tally(down[s], Answers) + Tally(rs, Answers)
          /\ Tally(rs, Answers) \in Nat
      BY <1>3, TallyConcat
    <3>3. Tally(down[s], Answers) = 0 /\ Out(host[s].waiter) = 0
      BY <2>1 DEF PipeInv, Unread
    <3>4. Tally(rs, Answers) + Out(t.waiter) = 0
      BY <1>1, <3>1, <3>3 DEF Flows
    <3>5. Out(t.waiter) \in Nat
      BY DEF Out
    <3>6. Tally(rs, Answers) = 0 /\ Out(t.waiter) = 0
      BY <3>2, <3>4, <3>5
    <3>7. Tally(down[s] \o rs, Answers) = 0
      BY <3>2, <3>3, <3>6
    <3>8. down'[s] = down[s] \/ down'[s] = down[s] \o rs
      BY <1>2
    <3> QED BY <1>2, <3>3, <3>6, <3>7, <3>8
  <2> QED BY <1>2, <2>1 DEF PipeInv, Unread
<1> QED BY <1>4, <1>5, <1>6, <1>7, <1>8 DEF PipeInv

\* a step of the host that leaves the socket's queue and its reads alone
LEMMA QuietStep ==
  ASSUME BridgeInv, PipeInv, NEW s \in Socks, NEW t, host' = [host EXCEPT ![s] = t],
         t.queue = host[s].queue, t.received = host[s].received, t.waiter = host[s].waiter,
         down' = down \/ \E rs : QuietReplies(rs) /\ Reply(s, rs),
         TakesUp(s, 0), UNCHANGED <<guestVars, disposed>>
  PROVE  HostFlows(s)
<1>1. down \in [Socks -> Seq(Replies)] /\ host[s].queue \in Seq(PieceChunks)
  BY DEF PipeInv
<1>2. PICK rs : QuietReplies(rs) /\ Reply(s, rs)
  <2>1. CASE down' = down
    <3>1. down[s] \o <<>> = down[s]
      BY <1>1, ConcatEmptySeq
    <3>2. down' = [down EXCEPT ![s] = @ \o <<>>]
      BY <1>1, <2>1, <3>1
    <3>3. Reply(s, <<>>)
      BY <2>1, <3>2, Zenon DEF Reply
    <3> QED BY <3>3, QuietOnes
  <2>2. CASE \E rs : QuietReplies(rs) /\ Reply(s, rs)
    BY <2>2
  <2> QED BY <2>1, <2>2
<1>3. Flows(host[s], t, rs, 0)
  BY <1>1, <1>2, QuietFlows
<1> QED BY <1>2, <1>3 DEF HostFlows

LEMMA PipeTypes ==
  ASSUME BridgeInv, PipeInv, NEW s \in Socks
  PROVE  host[s] \in SocketType /\ host[s].queue \in Seq(PieceChunks)
BY DEF BridgeInv, HostOK, PipeInv

LEMMA ConnectFlows == ASSUME BridgeInv, PipeInv, NEW s \in Socks, Connect(s) PROVE HostFlows(s)
<1>1. TakesUp(s, 0) /\ UNCHANGED <<guestVars, disposed>>
  BY DEF Connect, Asked, TakesUp, fateVars
<1>2. ASSUME NEW phase, host' = [host EXCEPT ![s].phase = phase],
             down' = down \/ Reply(s, <<<<"refused", 0>>>>)
      PROVE  HostFlows(s)
  <2>1. PICK t : t = [host[s] EXCEPT !.phase = phase]
    OBVIOUS
  <2>2. /\ host' = [host EXCEPT ![s] = t] /\ t.queue = host[s].queue
        /\ t.received = host[s].received /\ t.waiter = host[s].waiter
    BY <1>2, <2>1, PipeTypes DEF SocketType
  <2> QED BY <1>1, <1>2, <2>2, QuietStep, QuietOnes
<1> QED BY <1>2 DEF Connect

LEMMA AskClosedFlows == ASSUME BridgeInv, PipeInv, NEW s \in Socks, AskClosed(s) PROVE HostFlows(s)
<1>1. TakesUp(s, 0) /\ UNCHANGED <<guestVars, disposed>>
  BY DEF AskClosed, Asked, TakesUp, fateVars
<1>2. CASE Live(s) /\ host[s].fd # "closed"
  <2>1. PICK t : t = [host[s] EXCEPT !.closers = TRUE]
    OBVIOUS
  <2>2. /\ host' = [host EXCEPT ![s] = t] /\ t.queue = host[s].queue /\ down' = down
        /\ t.received = host[s].received /\ t.waiter = host[s].waiter
    BY <1>2, <2>1, PipeTypes DEF SocketType, AskClosed
  <2> QED BY <1>1, <2>2, QuietStep
<1>3. CASE ~(Live(s) /\ host[s].fd # "closed")
  <2>1. Reply(s, <<<<"closed", 0>>>>) /\ host' = host
    BY <1>3 DEF AskClosed
  <2>2. host' = [host EXCEPT ![s] = host[s]]
    BY <2>1 DEF BridgeInv, HostOK
  <2> QED BY <1>1, <2>1, <2>2, QuietStep, QuietOnes
<1> QED BY <1>2, <1>3

LEMMA CloseFlows == ASSUME BridgeInv, PipeInv, NEW s \in Socks, CloseSocket(s) PROVE HostFlows(s)
<1>1. TakesUp(s, 0) /\ UNCHANGED <<guestVars, disposed>> /\ down' = down
  BY DEF CloseSocket, Asked, TakesUp, fateVars
<1>2. PICK t : t = IF Live(s) THEN Release(host[s]) ELSE host[s]
  OBVIOUS
<1>3. host' = [host EXCEPT ![s] = t]
  BY <1>2 DEF CloseSocket
<1>4. t.queue = host[s].queue /\ t.received = host[s].received /\ t.waiter = host[s].waiter
  BY <1>2, PipeTypes DEF SocketType, Release
<1> QED BY <1>1, <1>3, <1>4, QuietStep

LEMMA RefusedFlows ==
  ASSUME BridgeInv, PipeInv, NEW s \in Socks, NEW text, Refused(s, text), TakesUp(s, 0),
         UNCHANGED <<guestVars, disposed>>
  PROVE  HostFlows(s)
<1>1. PICK t : t = [host[s] EXCEPT !.phase = "refused", !.text = text]
  OBVIOUS
<1>2. /\ host' = [host EXCEPT ![s] = t] /\ t.queue = host[s].queue
      /\ t.received = host[s].received /\ t.waiter = host[s].waiter
  BY <1>1, PipeTypes DEF SocketType, Refused, BridgeInv, HostOK
<1>3. down' = down \/ Reply(s, <<<<"refused", 0>>>>)
  BY DEF Refused
<1> QED BY <1>2, <1>3, QuietStep, QuietOnes

LEMMA LookupFlows == ASSUME BridgeInv, PipeInv, NEW s \in Socks, Lookup(s) PROVE HostFlows(s)
<1>1. CASE Unresolved(s)
  BY <1>1, RefusedFlows DEF Unresolved, TakesUp, fateVars
<1>2. ASSUME NEW text \in Addresses, Resolved(s, text) PROVE HostFlows(s)
  <2>1. TakesUp(s, 0) /\ UNCHANGED <<guestVars, disposed>>
    BY <1>2 DEF Resolved, TakesUp, fateVars
  <2>2. CASE Permits(text, Allow, FALSE)
    <3>1. PICK t : t = [host[s] EXCEPT !.phase = "dial", !.text = text]
      OBVIOUS
    <3>2. /\ host' = [host EXCEPT ![s] = t] /\ t.queue = host[s].queue /\ down' = down
          /\ t.received = host[s].received /\ t.waiter = host[s].waiter
      BY <1>2, <2>2, <3>1, PipeTypes DEF SocketType, Resolved, BridgeInv, HostOK
    <3> QED BY <2>1, <3>2, QuietStep
  <2>3. CASE ~Permits(text, Allow, FALSE)
    BY <1>2, <2>1, <2>3, RefusedFlows DEF Resolved
  <2> QED BY <2>2, <2>3
<1> QED BY <1>1, <1>2 DEF Lookup

LEMMA DialFlows == ASSUME BridgeInv, PipeInv, NEW s \in Socks, Dial(s) PROVE HostFlows(s)
<1>1. CASE Undialled(s)
  BY <1>1, RefusedFlows DEF Undialled, TakesUp, fateVars
<1>2. CASE Dialled(s)
  <2>1. PICK t : t = [host[s] EXCEPT !.phase = "live", !.text = NoText, !.fd = "open"]
    OBVIOUS
  <2>2. /\ host' = [host EXCEPT ![s] = t] /\ t.queue = host[s].queue
        /\ t.received = host[s].received /\ t.waiter = host[s].waiter
        /\ down' = down \/ Reply(s, <<<<"connected", 0>>>>)
        /\ UNCHANGED <<up, guestVars, disposed>>
    BY <1>2, <2>1, PipeTypes DEF SocketType, Dialled, BridgeInv, HostOK, fateVars
  <2> QED BY <2>2, QuietStep, QuietOnes DEF TakesUp
<1> QED BY <1>1, <1>2 DEF Dial

LEMMA WriteFlows == ASSUME BridgeInv, PipeInv, Write PROVE HostFlows(Main)
<1>1. TakesUp(Main, 0) /\ UNCHANGED <<guestVars, disposed>>
  BY DEF Write, Asked, TakesUp, fateVars
<1>2. CASE Live(Main) /\ host[Main].fd = "open" /\ ~host[Main].finished
  <2>1. PICK t : t = [host[Main] EXCEPT !.writing = TRUE]
    OBVIOUS
  <2>2. /\ host' = [host EXCEPT ![Main] = t] /\ t.queue = host[Main].queue /\ down' = down
        /\ t.received = host[Main].received /\ t.waiter = host[Main].waiter
    BY <1>2, <2>1, PipeTypes, MainAssumption DEF SocketType, Write
  <2> QED BY <1>1, <2>2, QuietStep, MainAssumption
<1>3. CASE ~(Live(Main) /\ host[Main].fd = "open" /\ ~host[Main].finished)
  <2>1. Reply(Main, <<<<"unwritten", 0>>>>) /\ host' = host
    BY <1>3 DEF Write
  <2>2. host' = [host EXCEPT ![Main] = host[Main]]
    BY <2>1 DEF BridgeInv, HostOK
  <2> QED BY <1>1, <2>1, <2>2, QuietStep, QuietOnes, MainAssumption
<1> QED BY <1>2, <1>3

LEMMA WroteFlows == ASSUME BridgeInv, PipeInv, Wrote PROVE HostFlows(Main)
<1>1. PICK t : t = [host[Main] EXCEPT !.writing = FALSE]
  OBVIOUS
<1>2. <<>> \o <<<<"wrote", 0>>>> = <<<<"wrote", 0>>>>
  OBVIOUS
<1>3. /\ host' = [host EXCEPT ![Main] = t] /\ t.queue = host[Main].queue
      /\ t.received = host[Main].received /\ t.waiter = host[Main].waiter
      /\ Reply(Main, <<<<"wrote", 0>>>>) /\ UNCHANGED <<up, guestVars, disposed>>
  BY <1>1, <1>2, PipeTypes, MainAssumption DEF SocketType, Wrote, Event, fateVars
<1> QED BY <1>3, QuietStep, QuietOnes, MainAssumption DEF TakesUp

LEMMA HalfCloseFlows == ASSUME BridgeInv, PipeInv, HalfClose PROVE HostFlows(Main)
<1>1. PICK t : t = [host[Main] EXCEPT !.finished = @ \/ Live(Main)]
  OBVIOUS
<1>2. /\ host' = [host EXCEPT ![Main] = t] /\ t.queue = host[Main].queue
      /\ t.received = host[Main].received /\ t.waiter = host[Main].waiter
      /\ TakesUp(Main, 0) /\ down' = down /\ UNCHANGED <<guestVars, disposed>>
  BY <1>1, PipeTypes, MainAssumption DEF SocketType, HalfClose, Asked, TakesUp, fateVars
<1> QED BY <1>2, QuietStep, MainAssumption

\* an event is told to the read that waits, and the rest follows
LEMMA EventFlows ==
  ASSUME BridgeInv, PipeInv, NEW s \in Socks, NEW h \in SocketType, h.queue \in Seq(PieceChunks),
         \A t, rs : Flows(h, t, rs, 0) => Flows(host[s], t, rs, 0),
         NEW more, QuietReplies(more), Event(s, Woken(h), more),
         UNCHANGED <<up, guestVars, fateVars>>
  PROVE  HostFlows(s)
<1>1. Flows(h, Woken(h).h, Woken(h).replies, 0)
  BY WokenFlows
<1>2. Flows(host[s], Woken(h).h, Woken(h).replies \o more, 0)
  BY <1>1, FlowsMore
<1>3. TakesUp(s, 0)
  BY DEF TakesUp
<1> QED BY <1>2, <1>3 DEF HostFlows, Event, fateVars

LEMMA EndFlows == ASSUME BridgeInv, PipeInv, End PROVE HostFlows(Main)
<1>1. PICK h : h = [host[Main] EXCEPT !.ended = TRUE]
  OBVIOUS
<1>2. /\ h \in SocketType /\ h.queue = host[Main].queue /\ h.queue \in Seq(PieceChunks)
      /\ h.received = host[Main].received /\ h.waiter = host[Main].waiter
  BY <1>1, PipeTypes, MainAssumption DEF SocketType
<1>3. \A t, rs : Flows(h, t, rs, 0) => Flows(host[Main], t, rs, 0)
  BY <1>2 DEF Flows
<1>4. Event(Main, Woken(h), <<>>) /\ UNCHANGED <<up, guestVars, fateVars>>
  BY <1>1 DEF End
<1> QED BY <1>2, <1>3, <1>4, EventFlows, QuietOnes, MainAssumption

LEMMA ClosedFlows == ASSUME BridgeInv, PipeInv, NEW s \in Socks, Closed(s) PROVE HostFlows(s)
<1>1. PICK h : h = [host[s] EXCEPT !.fd = "closed", !.ended = TRUE, !.closers = FALSE,
                                   !.writing = FALSE]
  OBVIOUS
<1>2. /\ h \in SocketType /\ h.queue = host[s].queue /\ h.queue \in Seq(PieceChunks)
      /\ h.received = host[s].received /\ h.waiter = host[s].waiter
  BY <1>1, PipeTypes DEF SocketType
<1>3. \A t, rs : Flows(h, t, rs, 0) => Flows(host[s], t, rs, 0)
  BY <1>2 DEF Flows
<1>4. PICK p, q : /\ p = IF host[s].closers THEN <<<<"closed", 0>>>> ELSE <<>>
                  /\ q = IF host[s].writing THEN <<<<"unwritten", 0>>>> ELSE <<>>
  OBVIOUS
<1>5. QuietReplies(p \o q)
  <2>1. QuietReplies(p) /\ QuietReplies(q)
    BY <1>4, QuietOnes
  <2> QED BY <2>1, QuietBoth
<1>6. Event(s, Woken(h), p \o q) /\ UNCHANGED <<up, guestVars, fateVars>>
  BY <1>1, <1>4 DEF Closed
<1> QED BY <1>2, <1>3, <1>5, <1>6, EventFlows

\* the peer's next pieces join what is queued
LEMMA DataFlows ==
  ASSUME BridgeInv, PipeInv, NEW count \in 1 .. 2, Data(count)
  PROVE  HostFlows(Main)
<1>1. PICK h, n, c : /\ h = host[Main] /\ n = h.received /\ c = [i \in 1 .. count |-> n + i]
  OBVIOUS
<1>2. PICK queue : queue = Append(h.queue, c)
  OBVIOUS
<1>3. PICK fed : fed = [h EXCEPT !.queue = queue, !.received = @ + count,
                                 !.paused = @ \/ Len(queue) > 1]
  OBVIOUS
<1>4. Event(Main, Woken(fed), <<>>) /\ UNCHANGED <<up, guestVars, fateVars>> /\ n + count <= Pieces
  BY <1>1, <1>2, <1>3 DEF Data
<1>5. /\ h \in SocketType /\ h.queue \in Seq(PieceChunks) /\ n \in Nat /\ count \in {1, 2}
  BY <1>1, PipeTypes, MainAssumption DEF SocketType
<1>6. /\ c \in Seq(1 .. Pieces) /\ c # <<>> /\ Len(c) = count /\ \A i \in 1 .. count : c[i] = n + i
  <2>1. \A i \in 1 .. count : n + i \in 1 .. Pieces
    BY <1>4, <1>5, BoundsAssumption
  <2>2. c \in Seq(1 .. Pieces) /\ Len(c) = count /\ \A i \in 1 .. count : c[i] = n + i
    BY <1>1, <1>5, <2>1
  <2> QED BY <1>5, <2>2, EmptySeq
<1>7. c \in PieceChunks /\ queue \in Seq(PieceChunks)
  <2>1. c \in PieceChunks
    BY <1>6 DEF PieceChunks
  <2> QED BY <1>2, <1>5, <2>1, AppendProperties
<1>8. fed.queue = queue /\ fed.received = n + count /\ fed.waiter = h.waiter /\ fed \in SocketType
  <2>1. h.paused \in BOOLEAN /\ (Len(queue) > 1) \in BOOLEAN
    BY <1>5 DEF SocketType
  <2>2. PICK paused \in BOOLEAN : paused = (h.paused \/ Len(queue) > 1)
    BY <2>1
  <2>3. n + count \in 0 .. Pieces /\ queue \in Seq(Seq(1 .. Pieces))
    <3>1. PieceChunks \subseteq Seq(1 .. Pieces)
      BY DEF PieceChunks
    <3>2. queue \in Seq(Seq(1 .. Pieces))
      <4> HIDE DEF PieceChunks
      <4> QED BY <1>7, <3>1, SeqMonotonic
    <3> QED BY <1>4, <1>5, <3>2, BoundsAssumption
  <2>4. fed = [h EXCEPT !.queue = queue, !.received = n + count, !.paused = paused]
    BY <1>1, <1>3, <2>2
  <2> QED BY <1>5, <2>3, <2>4 DEF SocketType
<1>9. FlattenSeq(queue) = FlattenSeq(h.queue) \o c /\ FlattenSeq(h.queue) \in Seq(1 .. Pieces)
  <2>1. PieceChunks \subseteq Seq(1 .. Pieces)
    BY DEF PieceChunks
  <2>2. h.queue \in Seq(Seq(1 .. Pieces))
    <3> HIDE DEF PieceChunks
    <3> QED BY <1>5, <2>1, SeqMonotonic
  <2>3. queue = h.queue \o <<c>> /\ <<c>> \in Seq(Seq(1 .. Pieces))
    <3>1. PICK S : S = Seq(1 .. Pieces)
      OBVIOUS
    <3>2. h.queue \in Seq(S) /\ c \in S
      BY <1>6, <2>2, <3>1
    <3>3. Append(h.queue, c) = h.queue \o <<c>> /\ <<c>> \in Seq(S)
      BY <3>2, AppendIsConcat
    <3> QED BY <1>2, <3>1, <3>3
  <2>4. FlattenSeq(<<c>>) = c
    BY <1>6, FlattenOne
  <2>5. /\ FlattenSeq(h.queue \o <<c>>) = FlattenSeq(h.queue) \o FlattenSeq(<<c>>)
        /\ FlattenSeq(h.queue) \in Seq(1 .. Pieces)
    <3>1. PICK S : S = 1 .. Pieces
      OBVIOUS
    <3>2. h.queue \in Seq(Seq(S)) /\ <<c>> \in Seq(Seq(S))
      BY <2>2, <2>3, <3>1
    <3>3. FlattenSeq(h.queue \o <<c>>) = FlattenSeq(h.queue) \o FlattenSeq(<<c>>)
      BY <3>2, FlattenConcat
    <3>4. FlattenSeq(h.queue) \in Seq(S)
      BY <3>2, FlattenType
    <3> QED BY <3>1, <3>3, <3>4
  <2> QED BY <2>3, <2>4, <2>5
<1>10. Counting(n) \o c = Counting(n + count)
  <2>1. PICK a, b, d : a = Counting(n) /\ b = Counting(n + count) /\ d = a \o c
    OBVIOUS
  <2>2. /\ a \in Seq(Nat) /\ Len(a) = n /\ \A i \in 1 .. n : a[i] = i
        /\ b \in Seq(Nat) /\ Len(b) = n + count /\ \A i \in 1 .. n + count : b[i] = i
    BY <1>5, <2>1 DEF Counting
  <2>3. c \in Seq(Nat)
    <3>1. 1 .. Pieces \subseteq Nat
      BY BoundsAssumption
    <3> QED BY <1>6, <3>1, SeqMonotonic
  <2>4. /\ d \in Seq(Nat) /\ Len(d) = n + count
        /\ \A i \in 1 .. n + count : d[i] = IF i <= n THEN a[i] ELSE c[i - n]
    <3>1. /\ d \in Seq(Nat) /\ Len(d) = Len(a) + Len(c)
          /\ \A i \in 1 .. Len(a) + Len(c) : d[i] = IF i <= Len(a) THEN a[i] ELSE c[i - Len(a)]
      <4>1. a \in Seq(Nat)
        BY <2>2
      <4> QED BY <2>1, <2>3, <4>1, ConcatProperties
    <3>2. Len(a) = n /\ Len(c) = count
      BY <1>6, <2>2
    <3> QED BY <3>1, <3>2
  <2>5. ASSUME NEW i \in 1 .. n + count PROVE d[i] = b[i]
    <3>1. CASE i <= n
      <4>1. i \in 1 .. n
        BY <1>5, <3>1
      <4> QED BY <2>2, <2>4, <3>1, <4>1
    <3>2. CASE ~(i <= n)
      <4>1. i - n \in 1 .. count /\ n + (i - n) = i
        BY <1>5, <3>2
      <4> QED BY <1>6, <2>2, <2>4, <3>2, <4>1
    <3> QED BY <3>1, <3>2
  <2>6. d = b
    BY <2>2, <2>4, <2>5, SeqEqual
  <2> QED BY <2>1, <2>6
<1>11. ASSUME NEW t, NEW rs, Flows(fed, t, rs, 0) PROVE Flows(h, t, rs, 0)
  <2>1. ASSUME NEW x \in Seq(1 .. Pieces), x \o FlattenSeq(h.queue) = Counting(h.received)
        PROVE  (x \o Carried(rs)) \o FlattenSeq(t.queue) = Counting(t.received)
    <3>1. x \o (FlattenSeq(h.queue) \o c) = Counting(n + count)
      <4>1. PICK y \in Seq(1 .. Pieces) : y = FlattenSeq(h.queue)
        BY <1>9
      <4>2. (x \o y) \o c = x \o (y \o c)
        BY <1>6, Associates
      <4> QED BY <1>1, <1>10, <2>1, <4>1, <4>2
    <3>2. x \o FlattenSeq(fed.queue) = Counting(fed.received)
      BY <1>8, <1>9, <3>1
    <3> QED BY <1>11, <3>2 DEF Flows
  <2> QED BY <1>8, <1>11, <2>1 DEF Flows
<1>12. fed.queue \in Seq(PieceChunks)
  BY <1>7, <1>8
<1>13. \A t, rs : Flows(fed, t, rs, 0) => Flows(host[Main], t, rs, 0)
  BY <1>1, <1>11
<1> QED BY <1>4, <1>8, <1>12, <1>13, EventFlows, QuietOnes, MainAssumption

LEMMA ReadFlowsOn == ASSUME BridgeInv, PipeInv, Read, ~disposed PROVE HostFlows(Main)
<1>1. /\ up[Main] # <<>> /\ Head(up[Main]) = "read" /\ Handled(Main)
      /\ UNCHANGED <<guestVars, disposed>> /\ TakesUp(Main, 1)
  BY DEF Read, Asked, fateVars, TakesUp
<1>2. host[Main] \in SocketType /\ host[Main].queue \in Seq(PieceChunks)
  BY PipeTypes, MainAssumption
<1>3. CASE Live(Main)
  <2>1. ~host[Main].waiter
    <3>1. Tally(up[Main], {"read"}) = Tally(up'[Main], {"read"}) + 1 /\ Tally(up'[Main], {"read"}) \in Nat
      BY <1>1, TakenUp, MainAssumption
    <3>2. Tally(down[Main], Answers) \in Nat
      BY TallyConcat, MainAssumption DEF PipeInv
    <3>3. Tally(up[Main], {"read"}) + Tally(down[Main], Answers) + Out(host[Main].waiter)
            = Out(stream.puller # None)
      BY <1>1 DEF PipeInv, Flowing
    <3>4. \A b : Out(b) \in {0, 1} /\ (b => Out(b) = 1)
      BY DEF Out
    <3>5. PICK a, b, c, d : /\ a = Tally(up'[Main], {"read"}) /\ b = Tally(down[Main], Answers)
                            /\ c = Out(host[Main].waiter) /\ d = Out(stream.puller # None)
      OBVIOUS
    <3>6. a \in Nat /\ b \in Nat /\ c \in {0, 1} /\ d \in {0, 1} /\ (a + 1) + b + c = d
      BY <3>1, <3>2, <3>3, <3>4, <3>5
    <3>7. Out(host[Main].waiter) # 1
      BY <3>5, <3>6
    <3>8. host[Main].waiter => Out(host[Main].waiter) = 1
      BY <3>4, Zenon
    <3> QED BY <3>7, <3>8
  <2>2. Flows(host[Main], Served(host[Main]).h, Served(host[Main]).replies, 1)
    BY <1>2, <2>1, ServedFlows
  <2>3. Flows(host[Main], Served(host[Main]).h, Served(host[Main]).replies \o <<>>, 1)
    BY <2>2, FlowsMore, QuietOnes
  <2>4. Event(Main, Served(host[Main]), <<>>)
    BY <1>3 DEF Read
  <2> QED BY <1>1, <2>3, <2>4 DEF HostFlows, Event
<1>4. CASE ~Live(Main)
  <2>1. PICK m : m = <<"error", 0>>
    OBVIOUS
  <2>2. m \in Replies /\ m \in Answers /\ m[1] # "piece" /\ <<m>> \in Seq(Replies)
    BY <2>1 DEF Replies, Answers
  <2>3. Tally(<<m>>, Answers) = 1 /\ Carried(<<m>>) = <<>>
    <3>1. Tally(<<m>>, Answers) = 1
      BY <2>2, TallyOne
    <3>2. Carried(<<m>>) = <<>>
      BY <2>2, CarriedOne, ReplyIs
    <3> QED BY <3>1, <3>2
  <2>4. Flows(host[Main], host[Main], <<m>>, 1)
    <3>1. \A x \in Seq(1 .. Pieces) : x \o <<>> = x
      BY ConcatEmptySeq
    <3>2. Out(host[Main].waiter) \in Nat
      BY DEF Out
    <3>3. 1 + Out(host[Main].waiter) = Out(host[Main].waiter) + 1
      BY <3>2
    <3> QED BY <1>2, <2>2, <2>3, <3>1, <3>3 DEF Flows
  <2>5. Reply(Main, <<m>>) /\ host' = [host EXCEPT ![Main] = host[Main]]
    BY <1>4, <2>1 DEF Read, BridgeInv, HostOK
  <2> QED BY <1>1, <2>4, <2>5 DEF HostFlows
<1> QED BY <1>3, <1>4

\* a read that was posted before the disposal is not answered after it
LEMMA ReadDead == ASSUME BridgeInv, PipeInv, Read, disposed PROVE PipeInv'
<1>1. UNCHANGED <<guestVars, disposed>> /\ down' = down
  BY DEF Read, fateVars, Event, Reply
<1>2. host \in [Socks -> SocketType] /\ host[Main] \in SocketType /\ host[Main].queue \in Seq(PieceChunks)
  BY PipeTypes, MainAssumption DEF BridgeInv, HostOK
<1>3. PICK t : host' = [host EXCEPT ![Main] = t] /\ t.queue \in Seq(PieceChunks)
  <2>1. CASE Live(Main)
    <3>1. PICK t : t = Served(host[Main]).h
      OBVIOUS
    <3>2. host' = [host EXCEPT ![Main] = t]
      BY <2>1, <3>1 DEF Read, Event
    <3>3. t.queue \in Seq(PieceChunks)
      BY <1>2, <3>1, ReadFlows DEF ServesOne
    <3> QED BY <3>2, <3>3
  <2>2. CASE ~Live(Main)
    <3>1. host' = [host EXCEPT ![Main] = host[Main]]
      BY <1>2, <2>2 DEF Read
    <3> QED BY <1>2, <3>1
  <2> QED BY <2>1, <2>2
<1>4. host'[Main] = t /\ \A s \in Socks \ {Main} : host'[s] = host[s]
  BY <1>2, <1>3, MainAssumption
<1>5. \A s \in Socks : host'[s].queue \in Seq(PieceChunks)
  BY <1>3, <1>4 DEF PipeInv
<1>6. PipeTyped' /\ Unread'
  BY <1>1, <1>4 DEF PipeInv, PipeTyped, Unread, guestVars
<1> QED BY <1>1, <1>5, <1>6 DEF PipeInv

\* a disposal leaves every socket's queue, and nothing on its way
LEMMA DisposeFlows == ASSUME BridgeInv, PipeInv, Dispose PROVE PipeInv'
<1> DEFINE After(s) == CASE Live(s) -> Release(host[s])
                         [] host[s].phase = "dial" ->
                              [host[s] EXCEPT !.phase = "refused", !.text = NoText]
                         [] OTHER -> host[s]
<1>1. host' = [s \in Socks |-> After(s)] /\ down' = [s \in Socks |-> <<>>] /\ disposed'
      /\ UNCHANGED guestVars
  BY DEF Dispose
<1>2. ASSUME NEW s \in Socks
      PROVE  After(s).queue = host[s].queue /\ After(s).waiter = host[s].waiter
  BY PipeTypes DEF SocketType, Release
<1> HIDE DEF After
<1>3. \A s \in Socks : host'[s].queue \in Seq(PieceChunks)
  BY <1>1, <1>2 DEF PipeInv
<1>4. down' \in [Socks -> Seq(Replies)]
  <2>1. <<>> \in Seq(Replies)
    OBVIOUS
  <2> QED BY <1>1, <2>1
<1>5. PipeTyped'
  BY <1>1 DEF PipeInv, PipeTyped, guestVars
<1>6. Unread'
  <2>1. Tally(<<>>, Answers) = 0
    BY TallyOne
  <2> QED BY <1>1, <1>2, <2>1 DEF PipeInv, Unread
<1> QED BY <1>1, <1>3, <1>4, <1>5, <1>6 DEF PipeInv

-----------------------------------------------------------------------------

(* The guest's steps *)

LEMMA QuietKinds ==
  ASSUME NEW kinds \in Seq(Kinds), \A i \in 1 .. Len(kinds) : kinds[i] # "read"
  PROVE  Tally(kinds, {"read"}) = 0
<1>1. DOMAIN kinds = 1 .. Len(kinds)
  BY LenProperties
<1>2. {i \in DOMAIN kinds : kinds[i] \in {"read"}} = {}
  BY <1>1
<1> QED BY <1>2, FS_EmptySet DEF Tally

LEMMA QuietPost ==
  ASSUME BridgeInv, NEW s \in Socks, NEW kinds \in Seq(Kinds),
         \A i \in 1 .. Len(kinds) : kinds[i] # "read", Post(s, kinds)
  PROVE  Tally(up'[Main], {"read"}) = Tally(up[Main], {"read"})
<1>1. up \in [Socks -> Seq(Kinds)] /\ up' = [up EXCEPT ![s] = up[s] \o kinds]
  BY DEF BridgeInv, Calls, Post
<1>2. CASE s # Main
  <2>1. up'[Main] = up[Main]
    BY <1>1, <1>2, MainAssumption
  <2> QED BY <2>1
<1>3. CASE s = Main
  <2>1. up'[Main] = up[Main] \o kinds /\ up[Main] \in Seq(Kinds)
    BY <1>1, <1>3
  <2>2. /\ Tally(up[Main] \o kinds, {"read"}) = Tally(up[Main], {"read"}) + Tally(kinds, {"read"})
        /\ Tally(up[Main], {"read"}) \in Nat
    BY <2>1, TallyConcat
  <2>3. Tally(kinds, {"read"}) = 0
    BY QuietKinds
  <2>4. Tally(up[Main] \o kinds, {"read"}) = Tally(up[Main], {"read"})
    BY <2>2, <2>3
  <2> QED BY <2>1, <2>4
<1> QED BY <1>2, <1>3

\* a step of the guest that asks for no read; a stream that it closes is dropped
LEMMA QuietGuest ==
  ASSUME BridgeInv, PipeInv, UNCHANGED <<host, down, disposed, got, reader>>,
         Tally(up'[Main], {"read"}) = Tally(up[Main], {"read"}),
         guest[Main].dropped => guest'[Main].dropped,
         stream' = stream \/ (/\ stream' = [stream EXCEPT !.closed = TRUE, !.queue = <<>>]
                              /\ guest'[Main].dropped)
  PROVE  PipeInv'
<1>1. /\ stream'.puller = stream.puller /\ stream'.errored = stream.errored
      /\ stream'.queue = <<>> /\ stream' \in StreamType
      /\ stream'.closed = stream.closed \/ guest'[Main].dropped
  <2>1. CASE stream' = stream
    BY <2>1 DEF PipeInv, PipeTyped
  <2>2. CASE /\ stream' = [stream EXCEPT !.closed = TRUE, !.queue = <<>>]
             /\ guest'[Main].dropped
    <3>1. <<>> \in Seq(1 .. Pieces)
      OBVIOUS
    <3> QED BY <2>2, <3>1 DEF PipeInv, PipeTyped, StreamType
  <2> QED BY <2>1, <2>2
<1>2. PipeTyped'
  BY <1>1 DEF PipeInv, PipeTyped
<1>3. ASSUME ~disposed PROVE Flowing'
  <2>1. Flowing
    BY <1>3 DEF PipeInv
  <2> QED BY <1>1, <2>1 DEF Flowing
<1>4. Unread'
  BY DEF PipeInv, Unread
<1> QED BY <1>2, <1>3, <1>4 DEF PipeInv

LEMMA GuestConnectFlows ==
  ASSUME BridgeInv, PipeInv, NEW s \in Socks, GuestConnect(s)
  PROVE  PipeInv'
<1>1. /\ guest' = [guest EXCEPT ![s].state = "asked"] /\ Post(s, <<"connect">>)
      /\ UNCHANGED <<host, down, stream, reader, got, disposed>>
  BY DEF GuestConnect, fateVars
<1>2. <<"connect">> \in Seq(Kinds) /\ \A i \in 1 .. Len(<<"connect">>) : <<"connect">>[i] # "read"
  BY DEF Kinds
<1>3. guest'[Main].dropped = guest[Main].dropped
  BY <1>1, MainAssumption DEF BridgeInv, Calls, GuestType
<1> QED BY <1>1, <1>2, <1>3, QuietPost, QuietGuest

LEMMA GuestDropFlows ==
  ASSUME BridgeInv, PipeInv, NEW s \in Socks, GuestClose(s) \/ (s = Main /\ GuestCancel)
  PROVE  PipeInv'
<1>1. /\ guest' = [guest EXCEPT ![s].dropped = TRUE] /\ Post(s, <<"close">>)
      /\ UNCHANGED <<host, down, reader, got, disposed>>
      /\ stream' = stream
           \/ (s = Main /\ stream' = [stream EXCEPT !.closed = TRUE, !.queue = <<>>])
  BY DEF GuestClose, GuestCancel, fateVars
<1>2. <<"close">> \in Seq(Kinds) /\ \A i \in 1 .. Len(<<"close">>) : <<"close">>[i] # "read"
  BY DEF Kinds
<1>3. /\ guest[Main].dropped => guest'[Main].dropped
      /\ s = Main => guest'[Main].dropped
  BY <1>1, MainAssumption DEF BridgeInv, Calls, GuestType
<1> QED BY <1>1, <1>2, <1>3, QuietPost, QuietGuest

LEMMA GuestWriteFlows ==
  ASSUME BridgeInv, PipeInv, NEW asks \in Writes, GuestWrite(asks)
  PROVE  PipeInv'
<1>1. asks \in Seq(Kinds) /\ \A i \in 1 .. Len(asks) : asks[i] # "read"
  <2>1. CASE asks = <<"write">>
    BY <2>1 DEF Kinds
  <2>2. CASE asks = <<"write", "end">>
    BY <2>2 DEF Kinds
  <2>3. CASE asks = <<"end", "write">>
    BY <2>3 DEF Kinds
  <2> QED BY <2>1, <2>2, <2>3 DEF Writes
<1>2. /\ guest' = [guest EXCEPT ![Main].write = "asked"] /\ Post(Main, asks)
      /\ UNCHANGED <<host, down, stream, reader, got, disposed>>
  BY DEF GuestWrite, fateVars
<1>3. guest'[Main].dropped = guest[Main].dropped
  BY <1>2, MainAssumption DEF BridgeInv, Calls, GuestType
<1> QED BY <1>1, <1>2, <1>3, QuietPost, QuietGuest, MainAssumption

-----------------------------------------------------------------------------

(* The turns of the guest's readers *)

Pipes ==
  [stream : StreamType, reader : [Readers -> {"idle", "reading", "done", "failed"}],
   got : Seq(1 .. Pieces), asks : BOOLEAN]

\* a turn changes nothing but the reader
Leaves(t, u) == u.stream = t.stream /\ u.got = t.got /\ u.asks = t.asks

\* what a turn of t's stream does, by what it finds
Turned(t, u, r) ==
  /\ u \in Pipes
  /\ t.stream.errored => Leaves(t, u)
  /\ ~t.stream.errored /\ t.stream.queue # <<>> =>
       /\ u.stream = [t.stream EXCEPT !.queue = Tail(@)]
       /\ u.got = Append(t.got, Head(t.stream.queue)) /\ u.asks = t.asks
  /\ ~t.stream.errored /\ t.stream.queue = <<>> /\ t.stream.closed => Leaves(t, u)
  /\ ~t.stream.errored /\ t.stream.queue = <<>> /\ ~t.stream.closed =>
       /\ u.got = t.got
       /\ \/ /\ t.stream.puller = None
             /\ u.stream = [t.stream EXCEPT !.puller = r] /\ u.asks = TRUE
          \/ /\ t.stream.puller # None /\ u.asks = t.asks
             /\ u.stream = [t.stream EXCEPT !.waiters = Append(@, r)]

LEMMA PipeFields ==
  ASSUME NEW t \in Pipes
  PROVE  /\ t.stream \in StreamType /\ t.got \in Seq(1 .. Pieces) /\ t.asks \in BOOLEAN
         /\ t.reader \in [Readers -> {"idle", "reading", "done", "failed"}]
         /\ t.stream.queue \in Seq(1 .. Pieces) /\ t.stream.closed \in BOOLEAN
         /\ t.stream.errored \in BOOLEAN /\ t.stream.puller \in Readers \cup {None}
         /\ t.stream.waiters \in Seq(Readers)
BY DEF Pipes, StreamType

LEMMA TurnIs ==
  ASSUME NEW t \in Pipes, NEW r \in Readers
  PROVE  Turned(t, Turn(t, r), r)
<1>1. PICK st : st = t.stream
  OBVIOUS
<1>2. PICK u : u = Turn(t, r)
  OBVIOUS
<1>3. ASSUME NEW how \in {"idle", "reading", "done", "failed"}
      PROVE  /\ [t EXCEPT !.reader[r] = how] \in Pipes /\ Leaves(t, [t EXCEPT !.reader[r] = how])
  BY DEF Pipes, Leaves
<1>4. CASE st.errored
  <2>1. u = [t EXCEPT !.reader[r] = "failed"]
    BY <1>1, <1>2, <1>4 DEF Turn
  <2> QED BY <1>1, <1>2, <1>3, <1>4, <2>1 DEF Turned
<1>5. CASE ~st.errored /\ st.queue # <<>>
  <2>1. PICK m : m = [t EXCEPT !.reader[r] = "idle"]
    OBVIOUS
  <2>2. m \in Pipes /\ Leaves(t, m)
    BY <1>3, <2>1
  <2>3. u = [m EXCEPT !.got = Append(@, Head(st.queue)), !.stream.queue = Tail(@)]
    BY <1>1, <1>2, <1>5, <2>1 DEF Turn
  <2>4. PICK rest, got2 : rest = Tail(st.queue) /\ got2 = Append(t.got, Head(st.queue))
    OBVIOUS
  <2>5. rest \in Seq(1 .. Pieces) /\ got2 \in Seq(1 .. Pieces)
    <3>1. PICK S : S = 1 .. Pieces
      OBVIOUS
    <3>2. st.queue \in Seq(S) /\ t.got \in Seq(S)
      BY <1>1, <3>1, PipeFields
    <3>3. Head(st.queue) \in S /\ Tail(st.queue) \in Seq(S)
      BY <1>5, <3>2, HeadTailProperties
    <3>4. Append(t.got, Head(st.queue)) \in Seq(S)
      BY <3>2, <3>3, AppendProperties
    <3> QED BY <2>4, <3>1, <3>3, <3>4
  <2>6. PICK st2 : st2 = [st EXCEPT !.queue = rest]
    OBVIOUS
  <2>7. st2 \in StreamType
    BY <1>1, <2>5, <2>6, PipeFields DEF StreamType
  <2>8. u = [m EXCEPT !.got = got2, !.stream = st2]
    BY <1>1, <2>2, <2>3, <2>4, <2>6 DEF Leaves, Pipes
  <2>9. u \in Pipes /\ u.stream = st2 /\ u.got = got2 /\ u.asks = t.asks
    BY <2>2, <2>5, <2>7, <2>8 DEF Pipes, Leaves
  <2>10. st2 = [t.stream EXCEPT !.queue = Tail(@)]
    BY <1>1, <2>4, <2>6
  <2> QED BY <1>1, <1>2, <1>5, <2>4, <2>9, <2>10 DEF Turned
<1>6. CASE ~st.errored /\ st.queue = <<>> /\ st.closed
  <2>1. u = [t EXCEPT !.reader[r] = "done"]
    BY <1>1, <1>2, <1>6 DEF Turn
  <2> QED BY <1>1, <1>2, <1>3, <1>6, <2>1 DEF Turned
<1>7. CASE ~st.errored /\ st.queue = <<>> /\ ~st.closed
  <2>1. PICK m : m = [t EXCEPT !.reader[r] = "reading"]
    OBVIOUS
  <2>2. m \in Pipes /\ Leaves(t, m)
    BY <1>3, <2>1
  <2>3. CASE st.puller = None
    <3>1. u = [m EXCEPT !.stream.puller = r, !.asks = TRUE]
      BY <1>1, <1>2, <1>7, <2>1, <2>3 DEF Turn
    <3>2. PICK st2 : st2 = [st EXCEPT !.puller = r]
      OBVIOUS
    <3>3. st2 \in StreamType
      BY <1>1, <3>2, PipeFields DEF StreamType
    <3>4. u = [m EXCEPT !.stream = st2, !.asks = TRUE]
      BY <1>1, <2>2, <3>1, <3>2 DEF Leaves, Pipes
    <3>5. u \in Pipes /\ u.stream = st2 /\ u.got = t.got /\ u.asks = TRUE
      BY <2>2, <3>3, <3>4 DEF Pipes, Leaves
    <3> QED BY <1>1, <1>2, <1>7, <2>3, <3>2, <3>5 DEF Turned
  <2>4. CASE st.puller # None
    <3>1. u = [m EXCEPT !.stream.waiters = Append(@, r)]
      BY <1>1, <1>2, <1>7, <2>1, <2>4 DEF Turn
    <3>2. PICK st2 : st2 = [st EXCEPT !.waiters = Append(@, r)]
      OBVIOUS
    <3>3. st2 \in StreamType
      <4>1. Append(st.waiters, r) \in Seq(Readers)
        BY <1>1, PipeFields, AppendProperties
      <4> QED BY <1>1, <3>2, <4>1, PipeFields DEF StreamType
    <3>4. u = [m EXCEPT !.stream = st2]
      BY <1>1, <2>2, <3>1, <3>2 DEF Leaves, Pipes
    <3>5. u \in Pipes /\ u.stream = st2 /\ u.got = t.got /\ u.asks = t.asks
      BY <2>2, <3>3, <3>4 DEF Pipes, Leaves
    <3> QED BY <1>1, <1>2, <1>7, <2>4, <3>2, <3>5 DEF Turned
  <2> QED BY <2>3, <2>4
<1> QED BY <1>4, <1>5, <1>6, <1>7

\* f are the pipes as the readers of rs take their turns
TakesTurns(f, t, rs, n) ==
  f = [k \in 0 .. n |-> IF k = 0 THEN t ELSE Turn(f[k - 1], rs[k])]

LEMMA TurnsExist ==
  ASSUME NEW t \in Pipes, NEW rs \in Seq(Readers)
  PROVE  \E f : TakesTurns(f, t, rs, Len(rs))
<1> DEFINE Begun(f, n) == f \in [0 .. n -> Pipes] /\ TakesTurns(f, t, rs, n)
           I == {n \in Nat : n <= Len(rs) => \E f : Begun(f, n)}
<1>1. Len(rs) \in Nat /\ \A i \in 1 .. Len(rs) : rs[i] \in Readers
  BY LenProperties, ElementOfSeq
<1>2. 0 \in I
  <2>1. PICK f : f = [k \in 0 .. 0 |-> t]
    OBVIOUS
  <2>2. f = [k \in 0 .. 0 |-> IF k = 0 THEN t ELSE Turn(f[k - 1], rs[k])]
    BY <2>1
  <2> QED BY <2>1, <2>2 DEF TakesTurns
<1>3. ASSUME NEW n \in I, n < Len(rs) PROVE n + 1 \in I
  <2>1. n \in Nat /\ n + 1 \in 1 .. Len(rs) /\ rs[n + 1] \in Readers
    BY <1>1, <1>3
  <2>2. PICK f : Begun(f, n)
    BY <1>1, <1>3
  <2>3. PICK x : x = Turn(f[n], rs[n + 1])
    OBVIOUS
  <2>4. f[n] \in Pipes
    BY <2>1, <2>2
  <2>5. x \in Pipes
    BY <2>1, <2>3, <2>4, TurnIs DEF Turned
  <2>6. PICK g : g = [k \in 0 .. n + 1 |-> IF k = n + 1 THEN x ELSE f[k]]
    OBVIOUS
  <2>7. g \in [0 .. n + 1 -> Pipes]
    <3>1. f \in [0 .. n -> Pipes]
      BY <2>2
    <3>2. \A k \in 0 .. n + 1 : k = n + 1 \/ k \in 0 .. n
      BY <2>1
    <3> QED BY <2>5, <2>6, <3>1, <3>2
  <2>8. ASSUME NEW k \in 0 .. n + 1
        PROVE  g[k] = IF k = 0 THEN t ELSE Turn(g[k - 1], rs[k])
    <3>1. CASE k = n + 1
      <4>1. k # 0 /\ k - 1 = n /\ n \in 0 .. n + 1 /\ n # n + 1
        BY <2>1, <3>1
      <4>2. g[k] = x /\ g[n] = f[n]
        BY <2>6, <3>1, <4>1
      <4> QED BY <2>3, <3>1, <4>1, <4>2
    <3>2. CASE k \in 0 .. n
      <4>1. k # n + 1 /\ (k # 0 => k - 1 \in 0 .. n + 1 /\ k - 1 # n + 1)
        BY <2>1, <3>2
      <4>2. g[k] = f[k] /\ (k # 0 => g[k - 1] = f[k - 1])
        BY <2>6, <4>1
      <4>3. f[k] = IF k = 0 THEN t ELSE Turn(f[k - 1], rs[k])
        BY <2>2, <3>2 DEF TakesTurns
      <4> QED BY <4>2, <4>3
    <3> QED BY <2>1, <3>1, <3>2
  <2>9. TakesTurns(g, t, rs, n + 1)
    <3>1. g = [k \in 0 .. n + 1 |-> g[k]]
      BY <2>7
    <3> QED BY <2>8, <3>1 DEF TakesTurns
  <2> QED BY <2>1, <2>7, <2>9
<1>4. Len(rs) \in I
  <2>1. I \in SUBSET Nat
    OBVIOUS
  <2>2. \A k \in 0 .. Len(rs) : k \in I
    <3> HIDE DEF I
    <3> QED BY <1>1, <1>2, <1>3, <2>1, InductiveSet
  <2> HIDE DEF I
  <2> QED BY <1>1, <2>2
<1> QED BY <1>1, <1>4

LEMMA TurnsAre ==
  ASSUME NEW t \in Pipes, NEW rs \in Seq(Readers)
  PROVE  \E f : TakesTurns(f, t, rs, Len(rs)) /\ Turns(t, rs) = f[Len(rs)]
<1> DEFINE f == CHOOSE f : f = [k \in 0 .. Len(rs) |-> IF k = 0 THEN t ELSE Turn(f[k - 1], rs[k])]
<1>1. PICK g : TakesTurns(g, t, rs, Len(rs))
  BY TurnsExist
<1>2. g = [k \in 0 .. Len(rs) |-> IF k = 0 THEN t ELSE Turn(g[k - 1], rs[k])]
  BY <1>1 DEF TakesTurns
<1>3. f = [k \in 0 .. Len(rs) |-> IF k = 0 THEN t ELSE Turn(f[k - 1], rs[k])]
  BY <1>2
<1>4. Turns(t, rs) = f[Len(rs)]
  BY DEF Turns
<1> HIDE DEF f
<1>5. TakesTurns(f, t, rs, Len(rs))
  BY <1>3 DEF TakesTurns
<1> QED BY <1>4, <1>5

\* none and one
LEMMA TurnsOfOne ==
  ASSUME NEW t \in Pipes, NEW r \in Readers
  PROVE  Turns(t, <<>>) = t /\ Turns(t, <<r>>) = Turn(t, r)
<1>1. Turns(t, <<>>) = t
  <2>1. <<>> \in Seq(Readers) /\ Len(<<>>) = 0
    OBVIOUS
  <2>2. PICK f : TakesTurns(f, t, <<>>, 0) /\ Turns(t, <<>>) = f[0]
    BY <2>1, TurnsAre
  <2>3. f[0] = t
    BY <2>2 DEF TakesTurns
  <2> QED BY <2>2, <2>3
<1>2. Turns(t, <<r>>) = Turn(t, r)
  <2>1. <<r>> \in Seq(Readers) /\ Len(<<r>>) = 1 /\ <<r>>[1] = r
    OBVIOUS
  <2>2. PICK f : TakesTurns(f, t, <<r>>, 1) /\ Turns(t, <<r>>) = f[1]
    BY <2>1, TurnsAre
  <2>3. \A k \in 0 .. 1 : f[k] = IF k = 0 THEN t ELSE Turn(f[k - 1], <<r>>[k])
    BY <2>2 DEF TakesTurns
  <2>4. f[0] = t /\ f[1] = Turn(f[0], <<r>>[1])
    <3>1. 0 \in 0 .. 1 /\ 1 \in 0 .. 1 /\ 1 # 0 /\ 1 - 1 = 0
      OBVIOUS
    <3> QED BY <2>3, <3>1
  <2> QED BY <2>1, <2>2, <2>4
<1> QED BY <1>1, <1>2

\* on a stream that ended or failed a turn finds nothing, and so do they all
LEMMA TurnsLeave ==
  ASSUME NEW t \in Pipes, NEW rs \in Seq(Readers),
         t.stream.queue = <<>>, t.stream.errored \/ t.stream.closed
  PROVE  Turns(t, rs) \in Pipes /\ Leaves(t, Turns(t, rs))
<1>1. PICK f : TakesTurns(f, t, rs, Len(rs)) /\ Turns(t, rs) = f[Len(rs)]
  BY TurnsAre
<1> DEFINE I == {n \in Nat : n <= Len(rs) => f[n] \in Pipes /\ Leaves(t, f[n])}
<1>2. Len(rs) \in Nat /\ \A i \in 1 .. Len(rs) : rs[i] \in Readers
  BY LenProperties, ElementOfSeq
<1>3. \A k \in 0 .. Len(rs) : f[k] = IF k = 0 THEN t ELSE Turn(f[k - 1], rs[k])
  BY <1>1 DEF TakesTurns
<1>4. 0 \in I
  <2>1. f[0] = t
    BY <1>2, <1>3
  <2> QED BY <2>1 DEF Leaves
<1>5. ASSUME NEW n \in I, n < Len(rs) PROVE n + 1 \in I
  <2>1. /\ n \in Nat /\ n + 1 \in 0 .. Len(rs) /\ n + 1 # 0 /\ (n + 1) - 1 = n /\ n <= Len(rs)
        /\ rs[n + 1] \in Readers
    BY <1>2, <1>5
  <2>2. PICK u, v : u = f[n] /\ v = Turn(u, rs[n + 1])
    OBVIOUS
  <2>3. f[n + 1] = v
    BY <1>3, <2>1, <2>2
  <2>4. u \in Pipes /\ Leaves(t, u)
    BY <2>1, <2>2
  <2>5. Turned(u, v, rs[n + 1])
    BY <2>1, <2>2, <2>4, TurnIs
  <2>6. v \in Pipes /\ Leaves(u, v)
    BY <2>4, <2>5, PipeFields DEF Turned, Leaves
  <2>7. f[n + 1] \in Pipes /\ Leaves(t, f[n + 1])
    BY <2>3, <2>4, <2>6 DEF Leaves
  <2> QED BY <2>1, <2>7
<1>6. Len(rs) \in I
  <2>1. I \in SUBSET Nat
    OBVIOUS
  <2>2. \A k \in 0 .. Len(rs) : k \in I
    <3> HIDE DEF I
    <3> QED BY <1>2, <1>4, <1>5, <2>1, InductiveSet
  <2> HIDE DEF I
  <2> QED BY <1>2, <2>2
<1> QED BY <1>1, <1>2, <1>6

(***************************************************************************)
(* A settled pull leaves nothing queued, and what it read is what the      *)
(* reply held, unless the stream was closed; the host is asked just when   *)
(* the read pulls again, on a stream that neither failed nor ended.        *)
(***************************************************************************)
Settled(t, reply, u) ==
  /\ u \in Pipes /\ u.stream.queue = <<>>
  /\ u.asks = TRUE <=> u.stream.puller # None
  /\ u.stream.puller # None => ~u.stream.errored /\ ~u.stream.closed
  /\ ~t.stream.closed => u.got = t.got \o PieceIn(reply)

LEMMA FieldsSet ==
  ASSUME NEW t \in Pipes, NEW st \in StreamType
  PROVE  LET u == [t EXCEPT !.stream = st]
         IN  u \in Pipes /\ u.stream = st /\ u.got = t.got /\ u.asks = t.asks
BY DEF Pipes

LEMMA PullerSet ==
  ASSUME NEW t \in Pipes
  PROVE  LET u == [t EXCEPT !.stream.puller = None]
         IN  /\ u \in Pipes /\ u.got = t.got /\ u.asks = t.asks
             /\ u.stream = [t.stream EXCEPT !.puller = None]
             /\ u.stream.puller = None /\ u.stream.queue = t.stream.queue
             /\ u.stream.closed = t.stream.closed /\ u.stream.errored = t.stream.errored
             /\ u.stream.waiters = t.stream.waiters
<1>1. PICK st : st = [t.stream EXCEPT !.puller = None]
  OBVIOUS
<1>2. /\ st \in StreamType /\ st.puller = None /\ st.queue = t.stream.queue
      /\ st.closed = t.stream.closed /\ st.errored = t.stream.errored
      /\ st.waiters = t.stream.waiters
  BY <1>1, PipeFields DEF StreamType
<1>3. [t EXCEPT !.stream.puller = None] = [t EXCEPT !.stream = st]
  BY <1>1 DEF Pipes
<1> QED BY <1>1, <1>2, <1>3, FieldsSet

LEMMA PulledIs ==
  ASSUME NEW t \in Pipes, t.stream.queue = <<>>, ~t.stream.errored, t.stream.puller # None,
         t.asks = FALSE, NEW reply \in Answers
  PROVE  Settled(t, reply, Pulled(t, reply))
<1>1. PICK st, p : st = t.stream /\ p = st.puller
  OBVIOUS
<1>2. /\ st \in StreamType /\ p \in Readers /\ st.waiters \in Seq(Readers) /\ st.errored = FALSE
      /\ st.closed \in BOOLEAN /\ t.got \in Seq(1 .. Pieces)
  BY <1>1, PipeFields
<1>3. /\ reply \in Replies /\ reply[1] \in {"piece", "done", "error"}
      /\ reply[1] = "piece" => reply[2] \in 1 .. Pieces /\ PieceIn(reply) = <<reply[2]>>
      /\ reply[1] # "piece" => PieceIn(reply) = <<>>
  BY ReplyIs DEF Answers
<1>4. t.got \o <<>> = t.got
  BY <1>2, ConcatEmptySeq
<1>5. CASE reply[1] = "error" \/ (reply[1] = "piece" /\ st.closed)
  <2>1. PICK change : change = [st EXCEPT !.errored = TRUE]
    OBVIOUS
  <2>2. change \in StreamType /\ change.errored = TRUE /\ change.queue = <<>>
    BY <1>1, <1>2, <2>1 DEF StreamType
  <2>3. PICK m : m = [t EXCEPT !.stream = change]
    OBVIOUS
  <2>4. m \in Pipes /\ m.stream = change /\ m.got = t.got /\ m.asks = FALSE
    BY <2>2, <2>3, FieldsSet
  <2>5. PICK n : n = [m EXCEPT !.stream.puller = None]
    OBVIOUS
  <2>6. /\ n \in Pipes /\ n.got = t.got /\ n.asks = FALSE /\ n.stream.puller = None
        /\ n.stream.queue = <<>> /\ n.stream.errored = TRUE
    BY <2>2, <2>4, <2>5, PullerSet
  <2>7. Pulled(t, reply) = Turn(n, p)
    <3>1. Turns(m, <<>>) = m
      BY <1>2, <2>4, TurnsOfOne
    <3> QED BY <1>1, <1>5, <2>1, <2>3, <2>5, <3>1 DEF Pulled
  <2>8. PICK u : u = Turn(n, p)
    OBVIOUS
  <2>9. u \in Pipes /\ u.stream = n.stream /\ u.got = n.got /\ u.asks = n.asks
    BY <1>2, <2>6, <2>8, TurnIs DEF Turned, Leaves
  <2>10. ~t.stream.closed => u.got = t.got \o PieceIn(reply)
    BY <1>1, <1>3, <1>4, <1>5, <2>6, <2>9
  <2> QED BY <2>6, <2>7, <2>8, <2>9, <2>10 DEF Settled
<1>6. CASE reply[1] = "piece" /\ ~st.closed
  <2>1. PICK x : x = reply[2]
    OBVIOUS
  <2>2. x \in 1 .. Pieces /\ PieceIn(reply) = <<x>>
    BY <1>3, <1>6, <2>1
  <2>3. t.got \o <<x>> = Append(t.got, x)
    <3>1. PICK S : S = 1 .. Pieces
      OBVIOUS
    <3>2. t.got \in Seq(S) /\ x \in S
      BY <1>2, <2>2, <3>1
    <3> QED BY <3>2, AppendIsConcat
  <2>4. PICK rest : rest = IF st.waiters = <<>> THEN <<>> ELSE Tail(st.waiters)
    OBVIOUS
  <2>5. rest \in Seq(Readers)
    <3>1. <<>> \in Seq(Readers)
      OBVIOUS
    <3>2. st.waiters # <<>> => Tail(st.waiters) \in Seq(Readers)
      BY <1>2, HeadTailProperties
    <3> QED BY <2>4, <3>1, <3>2
  <2>6. PICK change : change = [st EXCEPT !.queue = <<x>>, !.waiters = rest]
    OBVIOUS
  <2>7. /\ change \in StreamType /\ change.queue = <<x>> /\ change.errored = FALSE
        /\ change.closed = FALSE /\ change.puller = p
    <3>1. <<x>> \in Seq(1 .. Pieces)
      BY <2>2
    <3> QED BY <1>1, <1>2, <1>6, <2>5, <2>6, <3>1 DEF StreamType
  <2>8. change = [st EXCEPT !.queue = Append(@, reply[2]), !.waiters = rest]
    <3>1. Append(<<>>, x) = <<x>>
      OBVIOUS
    <3>2. Append(st.queue, reply[2]) = <<x>>
      BY <1>1, <2>1, <3>1
    <3> QED BY <2>6, <3>2
  <2>9. PICK m : m = [t EXCEPT !.stream = change]
    OBVIOUS
  <2>10. m \in Pipes /\ m.stream = change /\ m.got = t.got /\ m.asks = FALSE
    BY <2>7, <2>9, FieldsSet
  <2>11. Head(<<x>>) = x /\ Tail(<<x>>) = <<>> /\ <<x>> # <<>>
    OBVIOUS
  <2>12. CASE st.waiters = <<>>
    <3>1. PICK n : n = [m EXCEPT !.stream.puller = None]
      OBVIOUS
    <3>2. /\ n \in Pipes /\ n.got = t.got /\ n.asks = FALSE /\ n.stream.puller = None
          /\ n.stream.queue = <<x>> /\ n.stream.errored = FALSE
      BY <2>7, <2>10, <3>1, PullerSet
    <3>3. Pulled(t, reply) = Turn(n, p)
      <4>1. Turns(m, <<>>) = m
        BY <1>2, <2>10, TurnsOfOne
      <4>2. rest = <<>>
        BY <2>4, <2>12
      <4> QED BY <1>1, <1>6, <2>8, <2>9, <2>12, <3>1, <4>1, <4>2 DEF Pulled
    <3>4. PICK u : u = Turn(n, p)
      OBVIOUS
    <3>5. Turned(n, u, p)
      BY <1>2, <3>2, <3>4, TurnIs
    <3>6. /\ u \in Pipes /\ u.stream = [n.stream EXCEPT !.queue = Tail(@)]
          /\ u.got = Append(n.got, Head(n.stream.queue)) /\ u.asks = n.asks
      BY <2>11, <3>2, <3>5 DEF Turned
    <3>7. u.stream.queue = <<>> /\ u.stream.puller = None /\ u.got = Append(t.got, x)
      BY <2>11, <3>2, <3>6, PipeFields DEF StreamType
    <3> QED BY <2>2, <2>3, <3>2, <3>3, <3>4, <3>6, <3>7 DEF Settled
  <2>13. CASE st.waiters # <<>>
    <3>1. PICK w : w = Head(st.waiters)
      OBVIOUS
    <3>2. w \in Readers
      BY <1>2, <2>13, <3>1, HeadTailProperties
    <3>3. PICK v : v = Turn(m, w)
      OBVIOUS
    <3>4. Turned(m, v, w)
      BY <2>10, <3>2, <3>3, TurnIs
    <3>5. /\ v \in Pipes /\ v.stream = [change EXCEPT !.queue = Tail(@)]
          /\ v.got = Append(t.got, x) /\ v.asks = FALSE
      BY <2>7, <2>10, <2>11, <3>4 DEF Turned
    <3>6. v.stream.queue = <<>> /\ v.stream.errored = FALSE /\ v.stream.closed = FALSE
      BY <2>7, <2>11, <3>5 DEF StreamType
    <3>7. PICK n : n = [v EXCEPT !.stream.puller = None]
      OBVIOUS
    <3>8. /\ n \in Pipes /\ n.got = v.got /\ n.asks = FALSE /\ n.stream.puller = None
          /\ n.stream.queue = <<>> /\ n.stream.errored = FALSE /\ n.stream.closed = FALSE
      BY <3>5, <3>6, <3>7, PullerSet
    <3>9. Pulled(t, reply) = Turn(n, p)
      <4>1. Turns(m, <<w>>) = v
        BY <2>10, <3>2, <3>3, TurnsOfOne
      <4>2. rest = Tail(st.waiters)
        BY <2>4, <2>13
      <4> QED BY <1>1, <1>6, <2>8, <2>9, <2>13, <3>1, <3>7, <4>1, <4>2 DEF Pulled
    <3>10. PICK u : u = Turn(n, p)
      OBVIOUS
    <3>11. Turned(n, u, p)
      BY <1>2, <3>8, <3>10, TurnIs
    <3>12. /\ u \in Pipes /\ u.stream = [n.stream EXCEPT !.puller = p]
           /\ u.got = n.got /\ u.asks = TRUE
      BY <3>8, <3>11 DEF Turned
    <3>13. /\ u.stream.queue = <<>> /\ u.stream.puller = p /\ ~u.stream.errored
           /\ ~u.stream.closed /\ u.got = Append(t.got, x) /\ p # None
      BY <1>1, <3>5, <3>8, <3>12, PipeFields DEF StreamType
    <3> QED BY <2>2, <2>3, <3>9, <3>10, <3>12, <3>13 DEF Settled
  <2> QED BY <2>12, <2>13
<1>7. CASE reply[1] = "done"
  <2>1. PICK change : change = [st EXCEPT !.closed = TRUE, !.waiters = <<>>]
    OBVIOUS
  <2>2. change \in StreamType /\ change.closed = TRUE /\ change.queue = <<>> /\ change.errored = FALSE
    <3>1. <<>> \in Seq(Readers)
      OBVIOUS
    <3> QED BY <1>1, <1>2, <2>1, <3>1 DEF StreamType
  <2>3. PICK m : m = [t EXCEPT !.stream = change]
    OBVIOUS
  <2>4. m \in Pipes /\ m.stream = change /\ m.got = t.got /\ m.asks = FALSE
    BY <2>2, <2>3, FieldsSet
  <2>5. PICK v : v = Turns(m, st.waiters)
    OBVIOUS
  <2>6. v \in Pipes /\ v.stream = change /\ v.got = t.got /\ v.asks = FALSE
    BY <1>2, <2>2, <2>4, <2>5, TurnsLeave DEF Leaves
  <2>7. PICK n : n = [v EXCEPT !.stream.puller = None]
    OBVIOUS
  <2>8. /\ n \in Pipes /\ n.got = t.got /\ n.asks = FALSE /\ n.stream.puller = None
        /\ n.stream.queue = <<>> /\ n.stream.closed = TRUE /\ n.stream.errored = FALSE
    BY <2>2, <2>6, <2>7, PullerSet
  <2>9. Pulled(t, reply) = Turn(n, p)
    BY <1>1, <1>7, <2>1, <2>3, <2>5, <2>7 DEF Pulled
  <2>10. PICK u : u = Turn(n, p)
    OBVIOUS
  <2>11. u \in Pipes /\ u.stream = n.stream /\ u.got = n.got /\ u.asks = n.asks
    BY <1>2, <2>8, <2>10, TurnIs DEF Turned, Leaves
  <2>12. u.got = t.got \o PieceIn(reply)
    BY <1>3, <1>4, <1>7, <2>8, <2>11
  <2> QED BY <2>8, <2>9, <2>10, <2>11, <2>12 DEF Settled
<1> QED BY <1>3, <1>5, <1>6, <1>7

-----------------------------------------------------------------------------

(* What the reads of the guest do to its stream *)

LEMMA StreamingTyped == ASSUME PipeInv PROVE Streaming \in Pipes
BY DEF PipeInv, PipeTyped, Streaming, Pipes

LEMMA BecomesAsks ==
  ASSUME BridgeInv, NEW u \in Pipes, Becomes(u)
  PROVE  /\ Tally(up'[Main], {"read"}) = Tally(up[Main], {"read"}) + Out(u.asks)
         /\ Tally(up[Main], {"read"}) \in Nat
<1>1. up \in [Socks -> Seq(Kinds)] /\ up[Main] \in Seq(Kinds) /\ "read" \in Kinds
  BY MainAssumption DEF BridgeInv, Calls, Kinds
<1>2. <<"read">> \in Seq(Kinds) /\ Tally(<<"read">>, {"read"}) = 1
  <2>1. <<"read">> \in Seq(Kinds)
    BY <1>1
  <2> QED BY <2>1, TallyOne
<1>3. /\ Tally(up[Main] \o <<"read">>, {"read"}) = Tally(up[Main], {"read"}) + 1
      /\ Tally(up[Main], {"read"}) \in Nat
  BY <1>1, <1>2, TallyConcat
<1>4. CASE u.asks
  <2>1. up'[Main] = Append(up[Main], "read")
    BY <1>1, <1>4, MainAssumption DEF Becomes
  <2>2. up'[Main] = up[Main] \o <<"read">>
    BY <1>1, <2>1, AppendIsConcat
  <2>3. Out(u.asks) = 1
    BY <1>4 DEF Out
  <2> QED BY <1>3, <2>2, <2>3
<1>5. CASE ~u.asks
  <2>1. up' = up /\ Out(u.asks) = 0
    BY <1>5 DEF Becomes, Out
  <2> QED BY <1>3, <2>1
<1> QED BY <1>4, <1>5

LEMMA GuestReadFlows ==
  ASSUME BridgeInv, PipeInv, NEW r \in Readers, GuestRead(r)
  PROVE  PipeInv'
<1>1. PICK t, u : t = Streaming /\ u = Turn(t, r)
  OBVIOUS
<1>2. /\ t \in Pipes /\ t.stream = stream /\ t.got = got /\ t.asks = FALSE
      /\ stream.queue = <<>> /\ stream \in StreamType
  BY <1>1, StreamingTyped DEF Streaming, PipeInv, PipeTyped
<1>3. Turned(t, u, r)
  BY <1>1, <1>2, TurnIs
<1>4. /\ Becomes(u) /\ ~disposed /\ UNCHANGED <<host, down, guest, disposed>>
  BY <1>1 DEF GuestRead, fateVars
<1>5. stream' = u.stream /\ reader' = u.reader /\ got' = u.got
  BY <1>4 DEF Becomes
<1>6. u \in Pipes /\ Flowing /\ r # None
  BY <1>3, <1>4, ReadersAssumption DEF Turned, PipeInv
<1>7. /\ Tally(up'[Main], {"read"}) = Tally(up[Main], {"read"}) + Out(u.asks)
      /\ Tally(up[Main], {"read"}) \in Nat
  BY <1>4, <1>6, BecomesAsks
<1>8. \/ u.stream = stream /\ u.got = got /\ u.asks = FALSE
      \/ /\ ~stream.errored /\ ~stream.closed /\ u.got = got
         /\ u.stream.queue = <<>> /\ u.stream.errored = stream.errored
         /\ u.stream.closed = stream.closed
         /\ \/ stream.puller = None /\ u.stream.puller = r /\ u.asks = TRUE
            \/ u.stream.puller = stream.puller /\ u.asks = FALSE
  BY <1>2, <1>3 DEF Turned, Leaves, StreamType
<1>9. u.got = got /\ u.stream.queue = <<>>
  BY <1>2, <1>8
<1>10. PipeTyped'
  BY <1>5, <1>6, <1>9, PipeFields DEF PipeTyped
<1>11. Out(FALSE) = 0 /\ Out(TRUE) = 1
  BY DEF Out
<1>12. PICK b, c : b = Tally(down[Main], Answers) /\ c = Out(host[Main].waiter)
  OBVIOUS
<1>13. b \in Nat /\ c \in Nat
  <2>1. Tally(down[Main], Answers) \in Nat
    BY TallyConcat, MainAssumption DEF PipeInv
  <2> QED BY <1>12, <2>1 DEF Out
<1>14. Tally(up'[Main], {"read"}) + b + c = Out(u.stream.puller # None)
  <2>0. Tally(up[Main], {"read"}) + b + c = Out(stream.puller # None)
    BY <1>6, <1>12 DEF Flowing
  <2>1. CASE u.asks = FALSE
    <3>1. u.stream.puller = stream.puller
      BY <1>8, <2>1
    <3>2. Tally(up'[Main], {"read"}) = Tally(up[Main], {"read"})
      <4>1. Out(u.asks) = 0
        BY <1>11, <2>1
      <4> QED BY <1>7, <4>1
    <3> QED BY <2>0, <3>1, <3>2
  <2>2. CASE u.asks = TRUE
    <3>1. stream.puller = None /\ u.stream.puller = r
      BY <1>8, <2>2
    <3>2. Out(stream.puller # None) = 0 /\ Out(u.stream.puller # None) = 1
      BY <1>6, <3>1 DEF Out
    <3>3. Tally(up'[Main], {"read"}) = Tally(up[Main], {"read"}) + 1
      <4>1. Out(u.asks) = 1
        BY <1>11, <2>2
      <4> QED BY <1>7, <4>1
    <3>4. PICK a, d \in Nat : a = Tally(up[Main], {"read"}) /\ d = a + 1
      BY <1>7
    <3>5. a + b + c = 0
      BY <2>0, <3>2, <3>4
    <3>6. d + b + c = 1
      BY <1>13, <3>4, <3>5
    <3> QED BY <3>2, <3>3, <3>4, <3>6
  <2>3. u.asks \in BOOLEAN
    BY <1>6, PipeFields
  <2> QED BY <2>1, <2>2, <2>3
<1>15. u.stream.puller # None => ~u.stream.errored /\ (u.stream.closed => guest[Main].dropped)
  BY <1>6, <1>8 DEF Flowing
<1>16. Flowing'
  BY <1>4, <1>5, <1>6, <1>9, <1>12, <1>14, <1>15 DEF Flowing
<1> QED BY <1>4, <1>10, <1>16 DEF PipeInv, Unread

\* a reply that answers no read reaches the guest
LEMMA QuietDelivery ==
  ASSUME BridgeInv, PipeInv, NEW s \in Socks, Deliver(s), Head(down[s]) \notin Answers
  PROVE  PipeInv'
<1>1. PICK reply : reply = Head(down[s])
  OBVIOUS
<1>2. /\ down \in [Socks -> Seq(Replies)] /\ down[s] \in Seq(Replies) /\ down[s] # <<>>
      /\ down' = [down EXCEPT ![s] = Tail(@)]
      /\ Settle(s, reply) /\ UNCHANGED <<host, disposed>>
  BY <1>1 DEF Deliver, PipeInv, fateVars
<1>3. /\ reply \in Replies /\ Tail(down[s]) \in Seq(Replies)
      /\ Carried(down[s]) = PieceIn(reply) \o Carried(Tail(down[s]))
  BY <1>1, <1>2, CarriedTail
<1>4. PieceIn(reply) = <<>> /\ ~(reply[1] \in {"piece", "done", "error"})
  BY <1>1, <1>3, ReplyIs
<1>5. Carried(Tail(down[s])) = Carried(down[s])
  <2>1. Carried(Tail(down[s])) \in Seq(1 .. Pieces)
    BY <1>3, CarriedConcat
  <2> QED BY <1>3, <1>4, <2>1, ConcatEmptySeq
<1>6. Tally(Tail(down[s]), Answers) = Tally(down[s], Answers)
  <2>1. /\ Tally(down[s], Answers)
             = (IF Head(down[s]) \in Answers THEN 1 ELSE 0) + Tally(Tail(down[s]), Answers)
        /\ Tally(Tail(down[s]), Answers) \in Nat
    BY <1>2, TallyTail
  <2>2. Tally(down[s], Answers) = 0 + Tally(Tail(down[s]), Answers)
    BY <2>1
  <2> QED BY <2>1, <2>2
<1>7. /\ UNCHANGED <<stream, reader, got>>
      /\ Post(s, <<"closed">>) \/ up' = up
  BY <1>1, <1>4 DEF Deliver
<1>8. Tally(up'[Main], {"read"}) = Tally(up[Main], {"read"})
  <2>1. <<"closed">> \in Seq(Kinds) /\ \A i \in 1 .. Len(<<"closed">>) : <<"closed">>[i] # "read"
    BY DEF Kinds
  <2> QED BY <1>7, <2>1, QuietPost
<1>9. guest'[Main].dropped = guest[Main].dropped
  BY <1>2, MainAssumption DEF Settle, BridgeInv, Calls, GuestType
<1>10. /\ down' \in [Socks -> Seq(Replies)]
       /\ \A r \in Socks : /\ Carried(down'[r]) = Carried(down[r])
                           /\ Tally(down'[r], Answers) = Tally(down[r], Answers)
  <2>1. down'[s] = Tail(down[s]) /\ \A r \in Socks \ {s} : down'[r] = down[r]
    BY <1>2
  <2>2. down' \in [Socks -> Seq(Replies)]
    BY <1>2, <1>3
  <2> QED BY <1>5, <1>6, <2>1, <2>2
<1>11. PipeTyped'
  BY <1>7 DEF PipeInv, PipeTyped
<1>12. ASSUME ~disposed PROVE Flowing'
  <2>1. Flowing
    BY <1>12 DEF PipeInv
  <2> QED BY <1>2, <1>7, <1>8, <1>9, <1>10, <2>1, MainAssumption DEF Flowing
<1>13. Unread'
  BY <1>2, <1>10 DEF PipeInv, Unread
<1> QED BY <1>2, <1>10, <1>11, <1>12, <1>13 DEF PipeInv

\* the answer to the read that pulls
LEMMA AnswerFlows ==
  ASSUME BridgeInv, PipeInv, NEW s \in Socks, Deliver(s), Head(down[s]) \in Answers
  PROVE  PipeInv'
<1>1. PICK reply : reply = Head(down[s])
  OBVIOUS
<1>2. /\ down \in [Socks -> Seq(Replies)] /\ down[s] \in Seq(Replies) /\ down[s] # <<>>
      /\ down' = [down EXCEPT ![s] = Tail(@)]
      /\ Settle(s, reply) /\ UNCHANGED <<host, disposed>> /\ ~disposed
  BY <1>1 DEF Deliver, PipeInv, fateVars
<1>3. /\ reply \in Replies /\ Tail(down[s]) \in Seq(Replies)
      /\ Carried(down[s]) = PieceIn(reply) \o Carried(Tail(down[s]))
  BY <1>1, <1>2, CarriedTail
<1>4. PICK b \in Nat : /\ b = Tally(Tail(down[s]), Answers)
                       /\ Tally(down[s], Answers) = 1 + b
  <2>1. /\ Tally(down[s], Answers)
             = (IF Head(down[s]) \in Answers THEN 1 ELSE 0) + Tally(Tail(down[s]), Answers)
        /\ Tally(Tail(down[s]), Answers) \in Nat
    BY <1>2, TallyTail
  <2> QED BY <2>1
<1>5. s = Main
  <2>1. s # Main => Tally(down[s], Answers) = 0
    BY DEF PipeInv, Unread
  <2>2. 1 + b # 0
    BY <1>4
  <2> QED BY <1>4, <2>1, <2>2
<1>6. Flowing /\ stream.queue = <<>> /\ stream \in StreamType /\ got \in Seq(1 .. Pieces)
  BY <1>2 DEF PipeInv, PipeTyped
<1>7. PICK a, c \in Nat : a = Tally(up[Main], {"read"}) /\ c = Out(host[Main].waiter)
  <2>1. Tally(up[Main], {"read"}) \in Nat
    BY TallyConcat, MainAssumption DEF BridgeInv, Calls
  <2>2. Out(host[Main].waiter) \in Nat
    BY DEF Out
  <2> QED BY <2>1, <2>2
<1>8. stream.puller # None /\ a = 0 /\ b = 0 /\ c = 0
  <2>1. a + (1 + b) + c = Out(stream.puller # None)
    BY <1>4, <1>5, <1>6, <1>7 DEF Flowing
  <2>2. Out(stream.puller # None) \in {0, 1}
    BY DEF Out
  <2>3. stream.puller = None => Out(stream.puller # None) = 0
    BY DEF Out
  <2>4. a + (1 + b) + c # 0
    BY <1>4, <1>7
  <2>5. a + (1 + b) + c = 1
    BY <2>1, <2>2, <2>4
  <2> QED BY <1>4, <1>7, <2>1, <2>3, <2>4, <2>5
<1>9. ~stream.errored /\ (stream.closed => guest[Main].dropped)
  BY <1>6, <1>8 DEF Flowing
<1>10. PICK t, u : t = Streaming /\ u = Pulled(t, reply)
  OBVIOUS
<1>11. t \in Pipes /\ t.stream = stream /\ t.got = got /\ t.asks = FALSE
  BY <1>10, StreamingTyped DEF Streaming
<1>12. Settled(t, reply, u)
  BY <1>1, <1>6, <1>8, <1>9, <1>10, <1>11, PulledIs
<1>13. reply[1] \in {"piece", "done", "error"}
  BY <1>1 DEF Answers
<1>14. Becomes(u)
  BY <1>1, <1>10, <1>13 DEF Deliver
<1>15. stream' = u.stream /\ reader' = u.reader /\ got' = u.got /\ u \in Pipes
  BY <1>12, <1>14 DEF Becomes, Settled
<1>16. Tally(up'[Main], {"read"}) = Out(u.asks)
  <2>1. Tally(up'[Main], {"read"}) = Tally(up[Main], {"read"}) + Out(u.asks)
    BY <1>14, <1>15, BecomesAsks
  <2>2. Out(u.asks) \in Nat
    BY DEF Out
  <2> QED BY <1>7, <1>8, <2>1, <2>2
<1>17. guest'[Main].dropped = guest[Main].dropped
  BY <1>2, MainAssumption DEF Settle, BridgeInv, Calls, GuestType
<1>18. /\ down' \in [Socks -> Seq(Replies)] /\ down'[Main] = Tail(down[Main])
       /\ \A r \in Socks \ {Main} : down'[r] = down[r]
  BY <1>2, <1>3, <1>5
<1>19. PipeTyped'
  BY <1>12, <1>15, PipeFields DEF PipeTyped, Settled
<1>20. Tally(up'[Main], {"read"}) + Tally(down'[Main], Answers) + Out(host[Main].waiter)
         = Out(u.stream.puller # None)
  <2>1. Tally(down'[Main], Answers) = 0 /\ Out(host[Main].waiter) = 0
    BY <1>4, <1>5, <1>7, <1>8, <1>18
  <2>2. Out(u.asks) = Out(u.stream.puller # None) /\ Out(u.asks) \in Nat
    BY <1>12 DEF Settled, Out
  <2> QED BY <1>16, <2>1, <2>2
<1>21. ASSUME ~guest[Main].dropped
       PROVE  (u.got \o Carried(down'[Main])) \o FlattenSeq(host[Main].queue)
                = Counting(host[Main].received)
  <2>1. u.got = got \o PieceIn(reply)
    BY <1>9, <1>11, <1>12, <1>21 DEF Settled
  <2>2. PieceIn(reply) \in Seq(1 .. Pieces) /\ Carried(Tail(down[Main])) \in Seq(1 .. Pieces)
    BY <1>3, <1>5, ReplyIs, CarriedConcat
  <2>3. (got \o PieceIn(reply)) \o Carried(Tail(down[Main]))
          = got \o (PieceIn(reply) \o Carried(Tail(down[Main])))
    <3>1. PICK x \in Seq(1 .. Pieces), y \in Seq(1 .. Pieces), z \in Seq(1 .. Pieces) :
            x = got /\ y = PieceIn(reply) /\ z = Carried(Tail(down[Main]))
      BY <1>6, <2>2
    <3>2. (x \o y) \o z = x \o (y \o z)
      BY Associates
    <3> QED BY <3>1, <3>2
  <2>4. (got \o Carried(down[Main])) \o FlattenSeq(host[Main].queue) = Counting(host[Main].received)
    BY <1>6, <1>21 DEF Flowing
  <2> QED BY <1>3, <1>5, <1>18, <2>1, <2>3, <2>4
<1>22. u.stream.puller # None => ~u.stream.errored /\ (u.stream.closed => guest[Main].dropped)
  BY <1>12 DEF Settled
<1>23. Flowing'
  BY <1>2, <1>15, <1>17, <1>20, <1>21, <1>22 DEF Flowing
<1>24. Unread'
  BY <1>2, <1>18 DEF PipeInv, Unread
<1> QED BY <1>2, <1>18, <1>19, <1>23, <1>24 DEF PipeInv

LEMMA PipeAtFirst == Init => PipeInv
<1> SUFFICES ASSUME Init PROVE PipeInv
  OBVIOUS
<1>1. /\ host[Main].queue = <<>> /\ host[Main].received = 0
      /\ \A s \in Socks : host[s].queue = <<>> /\ host[s].waiter = FALSE
      /\ up[Main] = <<>> /\ \A s \in Socks : down[s] = <<>>
      /\ down = [s \in Socks |-> <<>>] /\ got = <<>> /\ stream.puller = None
  BY MainAssumption DEF Init
<1>2. <<"done", 0>> \in Replies
  BY DEF Replies
<1>3. /\ Carried(<<>>) = <<>> /\ Tally(<<>>, Answers) = 0 /\ Tally(<<>>, {"read"}) = 0
      /\ Out(FALSE) = 0
  <2>1. Carried(<<>>) = <<>>
    BY <1>2, CarriedOne
  <2>2. Tally(<<>>, Answers) = 0 /\ Tally(<<>>, {"read"}) = 0
    BY TallyOne
  <2> QED BY <2>1, <2>2 DEF Out
<1>4. FlattenSeq(<<>>) = <<>>
  BY DEF FlattenSeq
<1>5. Counting(0) = <<>> /\ (<<>> \o <<>>) \o <<>> = <<>>
  BY DEF Counting
<1>6. down \in [Socks -> Seq(Replies)]
  <2>1. <<>> \in Seq(Replies)
    OBVIOUS
  <2> QED BY <1>1, <2>1
<1>7. \A s \in Socks : host[s].queue \in Seq(PieceChunks)
  <2>1. <<>> \in Seq(PieceChunks)
    OBVIOUS
  <2> QED BY <1>1, <2>1
<1>8. PipeTyped
  <2>1. <<>> \in Seq(1 .. Pieces) /\ <<>> \in Seq(Readers)
    OBVIOUS
  <2> QED BY <2>1 DEF Init, PipeTyped, StreamType
<1>9. Flowing
  <2>1. down[Main] = <<>> /\ host[Main].waiter = FALSE
    BY <1>1, MainAssumption
  <2>2. Out(stream.puller # None) = 0
    BY <1>1 DEF Out
  <2>3. Tally(up[Main], {"read"}) + Tally(down[Main], Answers) + Out(host[Main].waiter)
          = Out(stream.puller # None)
    <3>1. /\ Tally(up[Main], {"read"}) = 0 /\ Tally(down[Main], Answers) = 0
          /\ Out(host[Main].waiter) = 0
      BY <1>1, <1>3, <2>1
    <3> QED BY <2>2, <3>1
  <2>4. (got \o Carried(down[Main])) \o FlattenSeq(host[Main].queue) = Counting(host[Main].received)
    <3>1. (<<>> \o Carried(<<>>)) \o FlattenSeq(<<>>) = Counting(0)
      BY <1>3, <1>4, <1>5
    <3> QED BY <1>1, <2>1, <3>1
  <2> QED BY <1>1, <2>3, <2>4 DEF Flowing
<1>10. Unread
  BY <1>1, <1>3 DEF Unread
<1> QED BY <1>6, <1>7, <1>8, <1>9, <1>10 DEF PipeInv

LEMMA PipeStep == BridgeInv /\ PipeInv /\ [Next]_vars => PipeInv'
<1> SUFFICES ASSUME BridgeInv, PipeInv, [Next]_vars PROVE PipeInv'
  OBVIOUS
<1>1. ASSUME NEW s \in Socks, Handle(s) PROVE PipeInv'
  BY <1>1, ConnectFlows, AskClosedFlows, CloseFlows, HostFlowsKeeps DEF Handle
<1>2. ASSUME NEW s \in Socks, Lookup(s) \/ Dial(s) \/ Closed(s) PROVE PipeInv'
  BY <1>2, LookupFlows, DialFlows, ClosedFlows, HostFlowsKeeps
<1>3. ASSUME NEW s \in Socks, Deliver(s) PROVE PipeInv'
  BY <1>3, QuietDelivery, AnswerFlows
<1>4. ASSUME NEW s \in Socks, GuestConnect(s) PROVE PipeInv'
  BY <1>4, GuestConnectFlows
<1>5. ASSUME NEW s \in Socks, GuestClose(s) PROVE PipeInv'
  BY <1>5, GuestDropFlows
<1>6. CASE HandleMain \/ Wrote \/ End
  BY <1>6, ReadFlowsOn, ReadDead, WriteFlows, HalfCloseFlows, WroteFlows, EndFlows, HostFlowsKeeps,
     MainAssumption DEF HandleMain
<1>7. CASE Dispose
  BY <1>7, DisposeFlows
<1>8. CASE GuestCancel
  BY <1>8, GuestDropFlows, MainAssumption
<1>9. ASSUME NEW count \in 1 .. 2, Data(count) PROVE PipeInv'
  BY <1>9, DataFlows, HostFlowsKeeps, MainAssumption
<1>10. ASSUME NEW r \in Readers, GuestRead(r) PROVE PipeInv'
  BY <1>10, GuestReadFlows
<1>11. ASSUME NEW asks \in Writes, GuestWrite(asks) PROVE PipeInv'
  BY <1>11, GuestWriteFlows
<1>12. CASE UNCHANGED vars
  BY <1>12 DEF vars, PipeInv, PipeTyped, Flowing, Unread
<1> QED
  BY <1>1, <1>2, <1>3, <1>4, <1>5, <1>6, <1>7, <1>8, <1>9, <1>10, <1>11, <1>12 DEF Next, Writes

LEMMA PipeHolds == BridgeInv /\ PipeInv => StreamIntact
<1> SUFFICES ASSUME BridgeInv, PipeInv PROVE StreamIntact
  OBVIOUS
<1>1. GuestTypeOK
  BY DEF GuestTypeOK, BridgeInv, Calls, PipeInv, PipeTyped
<1>2. Tally(up[Main], {"read"}) = Cardinality({i \in DOMAIN up[Main] : up[Main][i] = "read"})
  <2>1. {i \in DOMAIN up[Main] : up[Main][i] = "read"}
          = {i \in DOMAIN up[Main] : up[Main][i] \in {"read"}}
    OBVIOUS
  <2> QED BY <2>1 DEF Tally
<1>3. Tally(down[Main], Answers)
        = Cardinality({i \in DOMAIN down[Main] : down[Main][i][1] \in {"piece", "done", "error"}})
  <2>1. down[Main] \in Seq(Replies)
    BY MainAssumption DEF PipeInv
  <2>2. \A i \in DOMAIN down[Main] : down[Main][i] \in Replies
    BY <2>1, LenProperties, ElementOfSeq
  <2>3. {i \in DOMAIN down[Main] : down[Main][i][1] \in {"piece", "done", "error"}}
          = {i \in DOMAIN down[Main] : down[Main][i] \in Answers}
    BY <2>2, ReplyIs
  <2> QED BY <2>3 DEF Tally
<1>4. Carried(down[Main]) = InFlight
  BY DEF Carried, PieceIn, InFlight
<1>5. ~disposed => Flowing
  BY DEF PipeInv
<1> QED BY <1>1, <1>2, <1>3, <1>4, <1>5 DEF StreamIntact, Flowing, Counting, Out

(***************************************************************************)
(* While the guest has not dropped the socket, what it has read, what is   *)
(* on its way and what the host has queued are what the peer has sent, in  *)
(* order; and one socket.read is out just while a read pulls, whatever is  *)
(* read, cancelled and closed (host/socket-bridge-host.ts, #read and #wake,*)
(* and ReadableStream of child/prelude.guest.js).                          *)
(***************************************************************************)
THEOREM StreamStaysIntact == Spec => []StreamIntact
<1>1. Init => BridgeInv /\ PipeInv
  BY BridgeAtFirst, PipeAtFirst
<1>2. BridgeInv /\ PipeInv /\ [Next]_vars => BridgeInv' /\ PipeInv'
  BY BridgeStep, PipeStep
<1>3. BridgeInv /\ PipeInv => StreamIntact
  BY PipeHolds
<1> QED BY <1>1, <1>2, <1>3, PTL DEF Spec

-----------------------------------------------------------------------------

(***************************************************************************)
(* The timers, the handles and the fetches of an isolate, for any number   *)
(* of requests and any cap.  The invariant adds to the properties what     *)
(* they rest on: a request that is new is held nowhere, a timer that was   *)
(* cleared is not the guest's any more, and what is in flight or looked up *)
(* and not checked beside another is within the cap.                       *)
(***************************************************************************)

Places ==
  {"new", "asked", "lookup", "fetching", "aborted", "answered", "unanswered", "over"}

Request == [kind : {"none", "timeout", "interval", "fetch"}, at : Places]

IsolateTypeOK ==
  /\ thread \in {"creating", "running", "none", "gone", "terminated"}
  /\ asked \in [Requests -> Request]
  /\ pending \subseteq Requests
  /\ handles \in [Requests -> Int]
  /\ bridge \in BOOLEAN
  /\ channel \in [open : BOOLEAN, told : BOOLEAN]
  /\ inFlight \subseteq Requests
  /\ seen \in [cleared : SUBSET Requests, ranCleared : SUBSET Requests,
               checkedBeside : SUBSET Requests, atEnd : SUBSET Requests]

\* what the timers and the deferreds rest on
Timed ==
  /\ TimersAndHandles
  /\ liveTimers \cap seen.cleared = {}
  /\ \A r \in Requests :
       asked[r].at = "new" => r \notin pending \cup timers \cup liveTimers \cup seen.cleared

\* what the cap has counted: in flight or looked up, and not checked beside another
CountedFetches == (inFlight \cup LookedUp) \ seen.checkedBeside

\* the requests the bridge may still hear of
ToCome ==
  {r \in Requests : \/ asked[r].at = "new"
                    \/ asked[r].kind = "fetch" /\ asked[r].at = "asked"
                    \/ asked[r].at = "lookup"
                    \/ r \in inFlight}

Fetching ==
  /\ Cardinality(CountedFetches) <= MaxFetches
  /\ ~bridge => ToCome \subseteq seen.atEnd

-----------------------------------------------------------------------------

(* The types *)

LEMMA Moved ==
  ASSUME IsolateTypeOK, NEW r \in Requests, NEW where \in Places, Move(r, where)
  PROVE  /\ asked' \in [Requests -> Request]
         /\ asked'[r].at = where /\ asked'[r].kind = asked[r].kind
         /\ \A q \in Requests \ {r} : asked'[q] = asked[q]
BY DEF IsolateTypeOK, Request, Move, Places

LEMMA Replied ==
  ASSUME IsolateTypeOK, NEW r \in Requests, RpcReply(r)
  PROVE  \E where \in {"answered", "unanswered"} : Move(r, where)
BY DEF RpcReply

LEMMA Freed ==
  ASSUME IsolateTypeOK, NEW freed \in SUBSET Requests, Free(freed)
  PROVE  /\ handles' \in [Requests -> Int]
         /\ \A r \in Requests : handles'[r] = IF r \in freed THEN handles[r] - 1 ELSE handles[r]
BY DEF IsolateTypeOK, Free

LEMMA Held ==
  ASSUME IsolateTypeOK, NEW r \in Requests, Hold(r)
  PROVE  /\ handles' \in [Requests -> Int] /\ pending' = pending \cup {r}
         /\ handles'[r] = handles[r] + 1
         /\ \A q \in Requests \ {r} : handles'[q] = handles[q]
BY DEF IsolateTypeOK, Hold

LEMMA IsolateTyped == IsolateInit => IsolateTypeOK
BY DEF IsolateInit, IsolateTypeOK, Request, Places

LEMMA TypeOKStep == IsolateTypeOK /\ [IsolateNext]_isolateVars => IsolateTypeOK'
<1> SUFFICES ASSUME IsolateTypeOK, [IsolateNext]_isolateVars PROVE IsolateTypeOK'
  OBVIOUS
<1>1. ASSUME NEW ok \in BOOLEAN, Boot(ok) PROVE IsolateTypeOK'
  BY <1>1 DEF Boot, IsolateTypeOK, hostVars
<1>2. ASSUME NEW r \in Requests, NEW kind \in {"timeout", "interval", "fetch"}, Ask(r, kind)
      PROVE  IsolateTypeOK'
  <2>1. asked' \in [Requests -> Request]
    BY <1>2 DEF Ask, IsolateTypeOK, Request, Places
  <2>2. handles' \in [Requests -> Int]
    BY <1>2, Held DEF Ask
  <2> QED BY <1>2, <2>1, <2>2, Held DEF Ask, IsolateTypeOK, hostVars
<1>3. ASSUME NEW r \in Requests, Clear(r) PROVE IsolateTypeOK'
  BY <1>3 DEF Clear, IsolateTypeOK, hostVars
<1>4. ASSUME NEW r \in Requests, TimerFires(r) PROVE IsolateTypeOK'
  <2>1. asked' \in [Requests -> Request]
    BY <1>4, Moved DEF TimerFires, Places
  <2> QED BY <1>4, <2>1 DEF TimerFires, IsolateTypeOK, hostVars
<1>5. ASSUME NEW r \in Requests, ReceiveFetch(r) PROVE IsolateTypeOK'
  <2>1. asked' \in [Requests -> Request]
    <3>1. CASE Cardinality(inFlight) >= MaxFetches
      BY <1>5, <3>1, Replied, Moved DEF ReceiveFetch, Places
    <3>2. CASE ~(Cardinality(inFlight) >= MaxFetches)
      BY <1>5, <3>2, Moved DEF ReceiveFetch, Places
    <3> QED BY <3>1, <3>2
  <2> QED BY <1>5, <2>1 DEF ReceiveFetch, IsolateTypeOK, hostVars, threadVars
<1>6. ASSUME NEW r \in Requests, Fetched(r) PROVE IsolateTypeOK'
  <2>1. asked' \in [Requests -> Request]
    BY <1>6, Replied, Moved DEF Fetched, Places
  <2> QED BY <1>6, <2>1 DEF Fetched, IsolateTypeOK, threadVars
<1>7. ASSUME NEW r \in Requests, NEW allowed \in BOOLEAN, Resolve(r, allowed) PROVE IsolateTypeOK'
  <2>1. asked' \in [Requests -> Request]
    <3>1. CASE allowed
      BY <1>7, <3>1, Moved DEF Resolve, Places
    <3>2. CASE ~allowed
      BY <1>7, <3>2, Replied, Moved DEF Resolve, Places
    <3> QED BY <3>1, <3>2
  <2> QED BY <1>7, <2>1 DEF Resolve, IsolateTypeOK, threadVars
<1>8. ASSUME NEW r \in Requests, NEW clears \in BOOLEAN, Finish(r, clears) PROVE IsolateTypeOK'
  <2>1. CASE r \in liveTimers
    <3>1. asked' \in [Requests -> Request]
      BY <1>8, <2>1, Moved DEF Finish, Ticks, Places
    <3>2. handles' \in [Requests -> Int]
      <4>1. CASE asked[r].kind = "interval" /\ ~clears
        BY <1>8, <2>1, <4>1 DEF Finish, Ticks, IsolateTypeOK
      <4>2. CASE ~(asked[r].kind = "interval" /\ ~clears)
        BY <1>8, <2>1, <4>2, Freed DEF Finish, Ticks
      <4> QED BY <4>1, <4>2
    <3>3. pending' \subseteq Requests
      BY <1>8, <2>1 DEF Finish, Ticks, IsolateTypeOK
    <3> QED BY <1>8, <2>1, <3>1, <3>2, <3>3 DEF Finish, IsolateTypeOK, hostVars
  <2>2. CASE r \notin liveTimers
    <3>1. asked' \in [Requests -> Request]
      BY <1>8, <2>2, Moved DEF Finish, Places
    <3>2. handles' \in [Requests -> Int]
      BY <1>8, <2>2, Freed DEF Finish
    <3> QED BY <1>8, <2>2, <3>1, <3>2 DEF Finish, IsolateTypeOK, hostVars
  <2> QED BY <2>1, <2>2
<1>9. ASSUME HostEnds PROVE IsolateTypeOK'
  <2>1. asked' \in [Requests -> Request]
    BY <1>9 DEF HostEnds, IsolateTypeOK, Request, Places
  <2>2. LookedUp \subseteq Requests
    BY DEF LookedUp
  <2> QED BY <1>9, <2>1, <2>2 DEF HostEnds, IsolateTypeOK, threadVars, EmitShutdown, ClosedPort
<1>10. ASSUME Terminate PROVE IsolateTypeOK'
  BY <1>10 DEF Terminate, IsolateTypeOK, hostVars
<1>11. ASSUME Shutdown PROVE IsolateTypeOK'
  BY <1>11, Freed DEF Shutdown, IsolateTypeOK, hostVars
<1>12. ASSUME UNCHANGED isolateVars PROVE IsolateTypeOK'
  BY <1>12 DEF isolateVars, IsolateTypeOK
<1> QED
  BY <1>1, <1>2, <1>3, <1>4, <1>5, <1>6, <1>7, <1>8, <1>9, <1>10, <1>11, <1>12
  DEF IsolateNext, IsolateTypeOK

-----------------------------------------------------------------------------

(* Timers and handles *)

LEMMA TimedAtFirst == IsolateInit => Timed
BY DEF IsolateInit, Timed, TimersAndHandles

\* a request that moves is new no more, and one that stays is what it was
LEMMA TimedStays ==
  ASSUME IsolateTypeOK, Timed,
         UNCHANGED <<thread, liveTimers, timers, pending, handles>>,
         seen'.cleared = seen.cleared, seen'.ranCleared = seen.ranCleared,
         \A r \in Requests : asked'[r].at = "new" => asked[r].at = "new"
  PROVE  Timed'
BY DEF Timed, TimersAndHandles

LEMMA TimedStep ==
  ASSUME IsolateTypeOK, IsolateTypeOK', Timed, [IsolateNext]_isolateVars
  PROVE  Timed'
<1>1. ASSUME NEW ok \in BOOLEAN, Boot(ok) PROVE Timed'
  BY <1>1 DEF Boot, Timed, TimersAndHandles
<1>2. ASSUME NEW r \in Requests, NEW kind \in {"timeout", "interval", "fetch"}, Ask(r, kind)
      PROVE  Timed'
  <2>1. r \notin pending \cup timers \cup liveTimers \cup seen.cleared
    BY <1>2 DEF Ask, Timed
  <2>2. /\ asked'[r].at = "asked"
        /\ \A q \in Requests \ {r} : asked'[q] = asked[q]
    BY <1>2 DEF Ask, IsolateTypeOK
  <2>3. /\ liveTimers' \subseteq liveTimers \cup {r} /\ timers' \subseteq timers \cup {r}
        /\ seen' = seen /\ thread = "running" /\ thread' = thread
    BY <1>2 DEF Ask
  <2>4. \A q \in Requests : handles'[q] = IF q \in pending' THEN 1 ELSE 0
    BY <1>2, <2>1, Held DEF Ask, Timed, TimersAndHandles
  <2>5. pending' = pending \cup {r}
    BY <1>2 DEF Ask, Hold
  <2> QED BY <2>1, <2>2, <2>3, <2>4, <2>5 DEF Timed, TimersAndHandles
<1>3. ASSUME NEW r \in Requests, Clear(r) PROVE Timed'
  <2>1. asked[r].at # "new"
    BY <1>3 DEF Clear, Timed
  <2>2. seen'.cleared = seen.cleared \cup {r} /\ seen'.ranCleared = seen.ranCleared
    BY <1>3 DEF Clear, IsolateTypeOK
  <2> QED BY <1>3, <2>1, <2>2 DEF Clear, Timed, TimersAndHandles
<1>4. ASSUME NEW r \in Requests, TimerFires(r) PROVE Timed'
  <2>1. \A q \in Requests : asked'[q].at = "new" => asked[q].at = "new"
    BY <1>4, Moved DEF TimerFires, Places
  <2> QED BY <1>4, <2>1 DEF TimerFires, Timed, TimersAndHandles
<1>5. ASSUME NEW r \in Requests, ReceiveFetch(r) PROVE Timed'
  <2>1. \E where \in Places \ {"new"} : Move(r, where)
    BY <1>5, Replied DEF ReceiveFetch, Places
  <2>2. \A q \in Requests : asked'[q].at = "new" => asked[q].at = "new"
    BY <2>1, Moved
  <2> QED BY <1>5, <2>2, TimedStays DEF ReceiveFetch, threadVars, IsolateTypeOK
<1>6. ASSUME NEW r \in Requests, Fetched(r) PROVE Timed'
  <2>1. \E where \in Places \ {"new"} : Move(r, where)
    BY <1>6, Replied DEF Fetched, Places
  <2>2. \A q \in Requests : asked'[q].at = "new" => asked[q].at = "new"
    BY <2>1, Moved
  <2> QED BY <1>6, <2>2, TimedStays DEF Fetched, threadVars
<1>7. ASSUME NEW r \in Requests, NEW allowed \in BOOLEAN, Resolve(r, allowed) PROVE Timed'
  <2>1. \E where \in Places \ {"new"} : Move(r, where)
    BY <1>7, Replied DEF Resolve, Places
  <2>2. \A q \in Requests : asked'[q].at = "new" => asked[q].at = "new"
    BY <2>1, Moved
  <2> QED BY <1>7, <2>2, TimedStays DEF Resolve, threadVars
<1>8. ASSUME NEW r \in Requests, NEW clears \in BOOLEAN, Finish(r, clears) PROVE Timed'
  <2>1. thread = "running" /\ thread' = thread /\ r \in pending /\ asked[r].at = "answered"
    BY <1>8 DEF Finish
  <2>2. CASE r \in liveTimers /\ asked[r].kind = "interval" /\ ~clears
    <3>1. /\ timers' = timers \cup {r} /\ Move(r, "asked")
          /\ UNCHANGED <<liveTimers, pending, handles>>
      BY <1>8, <2>2 DEF Finish, Ticks
    <3>2. \A q \in Requests : asked'[q].at = "new" => asked[q].at = "new"
      BY <3>1, Moved DEF Places
    <3>3. r \notin seen.cleared
      BY <2>2 DEF Timed
    <3>4. seen'.cleared = seen.cleared /\ seen'.ranCleared = {}
      BY <1>8, <2>2, <3>3 DEF Finish, IsolateTypeOK, Timed, TimersAndHandles
    <3> QED BY <2>1, <2>2, <3>1, <3>2, <3>3, <3>4 DEF Timed, TimersAndHandles
  <2>3. CASE ~(r \in liveTimers /\ asked[r].kind = "interval" /\ ~clears)
    <3>1. /\ Move(r, "over") /\ pending' = pending \ {r} /\ Free({r})
          /\ liveTimers' = liveTimers \ {r} /\ timers' = timers
      BY <1>8, <2>3 DEF Finish, Ticks
    <3>2. \A q \in Requests : asked'[q].at = "new" => asked[q].at = "new"
      BY <3>1, Moved DEF Places
    <3>3. seen'.cleared = seen.cleared /\ seen'.ranCleared = {}
      <4>1. CASE r \in liveTimers
        BY <1>8, <4>1 DEF Finish, IsolateTypeOK, Timed, TimersAndHandles
      <4>2. CASE r \notin liveTimers
        BY <1>8, <4>2 DEF Finish, Timed, TimersAndHandles
      <4> QED BY <4>1, <4>2
    <3>4. \A q \in Requests : handles'[q] = IF q \in pending' THEN 1 ELSE 0
      BY <2>1, <3>1, Freed DEF Timed, TimersAndHandles
    <3> QED BY <2>1, <3>1, <3>2, <3>3, <3>4 DEF Timed, TimersAndHandles
  <2> QED BY <2>2, <2>3
<1>9. ASSUME HostEnds PROVE Timed'
  <2>1. \A q \in Requests : asked'[q].at = "new" => asked[q].at = "new"
    BY <1>9 DEF HostEnds, IsolateTypeOK, Request
  <2> QED BY <1>9, <2>1, TimedStays DEF HostEnds, threadVars, IsolateTypeOK
<1>10. ASSUME Terminate PROVE Timed'
  BY <1>10 DEF Terminate, Timed, TimersAndHandles
<1>11. ASSUME Shutdown PROVE Timed'
  <2>1. \A q \in Requests : handles'[q] = 0
    BY <1>11, Freed DEF Shutdown, Timed, TimersAndHandles, IsolateTypeOK
  <2> QED BY <1>11, <2>1 DEF Shutdown, Timed, TimersAndHandles
<1>12. ASSUME UNCHANGED isolateVars PROVE Timed'
  BY <1>12 DEF isolateVars, Timed, TimersAndHandles
<1> QED
  BY <1>1, <1>2, <1>3, <1>4, <1>5, <1>6, <1>7, <1>8, <1>9, <1>10, <1>11, <1>12
  DEF IsolateNext

(***************************************************************************)
(* A timer that was cleared never runs its callback and is not armed, and  *)
(* every deferred of a thread that shut down has been freed, once          *)
(* (child/isolate.ts, isolate-thread.ts and prelude.guest.js).             *)
(***************************************************************************)
THEOREM IsolateIsTidy == IsolateSpec => []TimersAndHandles
<1>1. IsolateInit => IsolateTypeOK /\ Timed
  BY IsolateTyped, TimedAtFirst
<1>2. IsolateTypeOK /\ Timed /\ [IsolateNext]_isolateVars => (IsolateTypeOK /\ Timed)'
  BY TypeOKStep, TimedStep
<1>3. IsolateTypeOK /\ Timed => TimersAndHandles
  BY DEF Timed
<1> QED BY <1>1, <1>2, <1>3, PTL DEF IsolateSpec

-----------------------------------------------------------------------------

(* The cap *)

\* parts of a finite set of requests are no larger than it
LEMMA FewerRequests ==
  ASSUME MaxAsked \in Nat, NEW S \in SUBSET Requests, NEW T \in SUBSET S
  PROVE  /\ Cardinality(T) \in Nat /\ Cardinality(S) \in Nat
         /\ Cardinality(T) <= Cardinality(S)
<1>1. IsFiniteSet(Requests)
  BY FS_Interval DEF Requests
<1>2. IsFiniteSet(S)
  BY <1>1, FS_Subset
<1> QED BY <1>2, FS_Subset, FS_CardinalityType

LEMMA OneMoreRequest ==
  ASSUME MaxAsked \in Nat, NEW S \in SUBSET Requests, NEW r \in Requests
  PROVE  Cardinality(S \cup {r}) <= Cardinality(S) + 1
<1>1. IsFiniteSet(Requests)
  BY FS_Interval DEF Requests
<1>2. IsFiniteSet(S)
  BY <1>1, FS_Subset
<1>3. Cardinality(S) \in Nat
  BY <1>2, FS_CardinalityType
<1>4. Cardinality(S \cup {r}) = IF r \in S THEN Cardinality(S) ELSE Cardinality(S) + 1
  BY <1>2, FS_AddElement, Zenon
<1> QED BY <1>3, <1>4

LEMMA CountedTyped == IsolateTypeOK => CountedFetches \subseteq Requests
BY DEF IsolateTypeOK, CountedFetches, LookedUp

\* a step that counts nothing new and brings nothing new to the bridge
LEMMA FetchingStays ==
  ASSUME MaxAsked \in Nat, MaxFetches \in Nat, IsolateTypeOK, Fetching,
         CountedFetches' \subseteq CountedFetches, ToCome' \subseteq ToCome, bridge' = bridge,
         seen'.atEnd = seen.atEnd
  PROVE  Fetching'
<1>1. Cardinality(CountedFetches') <= Cardinality(CountedFetches) /\ Cardinality(CountedFetches) \in Nat
      /\ Cardinality(CountedFetches') \in Nat
  BY CountedTyped, FewerRequests
<1> QED BY <1>1 DEF Fetching

\* one request moves, to where the bridge neither looks it up nor hears of it
LEMMA MovesOn ==
  ASSUME IsolateTypeOK, NEW r \in Requests, NEW where \in Places \ {"new", "lookup"},
         Move(r, where), where = "asked" => asked[r].kind # "fetch"
  PROVE  /\ LookedUp' \subseteq LookedUp
         /\ \A q \in Requests :
              \/ asked'[q].at = "new"
              \/ asked'[q].kind = "fetch" /\ asked'[q].at = "asked"
              \/ asked'[q].at = "lookup"
              => asked'[q] = asked[q]
BY Moved DEF LookedUp, Places

LEMMA MoveKeepsCap ==
  ASSUME MaxAsked \in Nat, MaxFetches \in Nat, IsolateTypeOK, Fetching,
         NEW r \in Requests, NEW where \in Places \ {"new", "lookup"},
         Move(r, where), where = "asked" => asked[r].kind # "fetch",
         inFlight' \subseteq inFlight, bridge' = bridge, seen'.atEnd = seen.atEnd,
         seen.checkedBeside \subseteq seen'.checkedBeside
  PROVE  Fetching'
<1>1. CountedFetches' \subseteq CountedFetches
  BY MovesOn DEF CountedFetches
<1>2. ToCome' \subseteq ToCome
  BY MovesOn DEF ToCome
<1> QED BY <1>1, <1>2, FetchingStays

LEMMA FetchingAtFirst ==
  ASSUME MaxFetches \in Nat, IsolateInit
  PROVE  Fetching
<1>1. CountedFetches = {}
  BY DEF IsolateInit, CountedFetches, LookedUp
<1> QED BY <1>1, FS_EmptySet DEF Fetching, IsolateInit

LEMMA FetchingStep ==
  ASSUME MaxAsked \in Nat, MaxFetches \in Nat,
         IsolateTypeOK, Fetching, [IsolateNext]_isolateVars
  PROVE  Fetching'
<1>1. ASSUME UNCHANGED <<asked, inFlight, bridge>>, seen'.atEnd = seen.atEnd,
             seen'.checkedBeside = seen.checkedBeside
      PROVE  Fetching'
  BY <1>1, FetchingStays DEF CountedFetches, ToCome, LookedUp
<1>2. ASSUME NEW r \in Requests, NEW kind \in {"timeout", "interval", "fetch"}, Ask(r, kind)
      PROVE  Fetching'
  <2>1. /\ asked[r].at = "new" /\ asked'[r].at = "asked"
        /\ \A q \in Requests \ {r} : asked'[q] = asked[q]
        /\ UNCHANGED <<inFlight, bridge, seen>>
    BY <1>2 DEF Ask, hostVars, IsolateTypeOK
  <2>2. CountedFetches' \subseteq CountedFetches /\ ToCome' \subseteq ToCome
    BY <2>1 DEF CountedFetches, LookedUp, ToCome
  <2> QED BY <2>1, <2>2, FetchingStays
<1>3. ASSUME NEW r \in Requests, Clear(r) PROVE Fetching'
  BY <1>1, <1>3 DEF Clear, hostVars, IsolateTypeOK
<1>4. ASSUME NEW r \in Requests, TimerFires(r) PROVE Fetching'
  BY <1>4, MoveKeepsCap DEF TimerFires, hostVars, Places
<1>5. ASSUME NEW r \in Requests, ReceiveFetch(r) PROVE Fetching'
  <2>1. /\ UNCHANGED <<inFlight, bridge>> /\ seen'.atEnd = seen.atEnd
        /\ seen'.checkedBeside = seen.checkedBeside \cup (IF LookedUp = {} THEN {} ELSE {r})
    BY <1>5 DEF ReceiveFetch, hostVars, IsolateTypeOK
  <2>2. CASE Cardinality(inFlight) >= MaxFetches
    <3>1. \E where \in {"answered", "unanswered"} : Move(r, where)
      BY <1>5, <2>2, Replied DEF ReceiveFetch
    <3> QED BY <2>1, <3>1, MoveKeepsCap DEF Places
  <2>3. CASE ~(Cardinality(inFlight) >= MaxFetches)
    <3>1. asked[r].kind = "fetch" /\ asked[r].at = "asked" /\ Move(r, "lookup")
      BY <1>5, <2>3 DEF ReceiveFetch
    <3>2. LookedUp' = LookedUp \cup {r}
      BY <3>1, Moved DEF LookedUp, Places
    <3>3. ToCome' \subseteq ToCome
      BY <2>1, <3>1, Moved DEF ToCome, Places
    <3>4. CASE LookedUp = {}
      <4>1. CountedFetches' \subseteq inFlight \cup {r}
        BY <2>1, <3>2, <3>4 DEF CountedFetches
      <4>2. inFlight \in SUBSET Requests /\ inFlight \cup {r} \in SUBSET Requests
        BY DEF IsolateTypeOK
      <4>3. /\ Cardinality(CountedFetches') <= Cardinality(inFlight \cup {r})
            /\ Cardinality(CountedFetches') \in Nat /\ Cardinality(inFlight \cup {r}) \in Nat
        BY <4>1, <4>2, FewerRequests
      <4>4. /\ Cardinality(inFlight \cup {r}) <= Cardinality(inFlight) + 1
            /\ Cardinality(inFlight) \in Nat
        BY <4>2, OneMoreRequest, FewerRequests
      <4>5. Cardinality(CountedFetches') <= MaxFetches
        BY <2>3, <4>3, <4>4
      <4> QED BY <2>1, <3>3, <4>5 DEF Fetching
    <3>5. CASE LookedUp # {}
      <4>1. CountedFetches' \subseteq CountedFetches
        BY <2>1, <3>2, <3>5 DEF CountedFetches
      <4> QED BY <2>1, <3>3, <4>1, FetchingStays
    <3> QED BY <3>4, <3>5
  <2> QED BY <2>2, <2>3
<1>6. ASSUME NEW r \in Requests, Fetched(r) PROVE Fetching'
  <2>1. \E where \in {"answered", "unanswered"} : Move(r, where)
    BY <1>6, Replied DEF Fetched
  <2> QED BY <1>6, <2>1, MoveKeepsCap DEF Fetched, Places
<1>7. ASSUME NEW r \in Requests, NEW allowed \in BOOLEAN, Resolve(r, allowed) PROVE Fetching'
  <2>1. asked[r].at = "lookup" /\ UNCHANGED <<bridge, seen>>
    BY <1>7 DEF Resolve
  <2>2. CASE allowed
    <3>1. Move(r, "fetching") /\ inFlight' = inFlight \cup {r}
      BY <1>7, <2>2 DEF Resolve
    <3>2. CountedFetches' \subseteq CountedFetches
      BY <2>1, <3>1, MovesOn DEF CountedFetches, LookedUp, Places
    <3>3. ToCome' \subseteq ToCome
      BY <2>1, <3>1, MovesOn DEF ToCome, Places
    <3> QED BY <2>1, <3>2, <3>3, FetchingStays
  <2>3. CASE ~allowed
    <3>1. \E where \in {"answered", "unanswered"} : Move(r, where)
      BY <1>7, <2>3, Replied DEF Resolve
    <3> QED BY <1>7, <2>1, <2>3, <3>1, MoveKeepsCap DEF Resolve, Places
  <2> QED BY <2>2, <2>3
<1>8. ASSUME NEW r \in Requests, NEW clears \in BOOLEAN, Finish(r, clears) PROVE Fetching'
  <2>1. \E where \in {"asked", "over"} :
          Move(r, where) /\ (where = "asked" => asked[r].kind # "fetch")
    BY <1>8 DEF Finish, Ticks
  <2>2. /\ UNCHANGED <<inFlight, bridge>> /\ seen'.atEnd = seen.atEnd
        /\ seen'.checkedBeside = seen.checkedBeside
    BY <1>8 DEF Finish, hostVars, IsolateTypeOK
  <2> QED BY <2>1, <2>2, MoveKeepsCap DEF Places
<1>9. ASSUME HostEnds PROVE Fetching'
  <2>1. /\ inFlight' = {} /\ seen'.checkedBeside = seen.checkedBeside
        /\ seen'.atEnd = LookedUp \cup {r \in Requests : asked[r].at \in {"asked", "new"}}
    BY <1>9 DEF HostEnds, IsolateTypeOK
  <2>2. \A r \in Requests : asked'[r].at = "aborted" \/ asked'[r] = asked[r]
    BY <1>9 DEF HostEnds, IsolateTypeOK, Request
  <2>3. CountedFetches' \subseteq CountedFetches
    BY <2>1, <2>2 DEF CountedFetches, LookedUp
  <2>4. Cardinality(CountedFetches') <= MaxFetches
    <3>1. /\ Cardinality(CountedFetches') <= Cardinality(CountedFetches)
          /\ Cardinality(CountedFetches) \in Nat /\ Cardinality(CountedFetches') \in Nat
      BY <2>3, CountedTyped, FewerRequests
    <3> QED BY <3>1 DEF Fetching
  <2>5. ToCome' \subseteq seen'.atEnd
    BY <2>1, <2>2 DEF ToCome, LookedUp
  <2> QED BY <2>4, <2>5 DEF Fetching
<1>10. ASSUME NEW ok \in BOOLEAN, Boot(ok) PROVE Fetching'
  BY <1>1, <1>10 DEF Boot, hostVars
<1>11. ASSUME Terminate \/ Shutdown PROVE Fetching'
  BY <1>1, <1>11 DEF Terminate, Shutdown, hostVars
<1>12. ASSUME UNCHANGED isolateVars PROVE Fetching'
  BY <1>1, <1>12 DEF isolateVars
<1> QED
  BY <1>2, <1>3, <1>4, <1>5, <1>6, <1>7, <1>8, <1>9, <1>10, <1>11, <1>12 DEF IsolateNext

\* what the cap leaves uncounted was checked beside another
LEMMA WithinCap ==
  ASSUME MaxAsked \in Nat, MaxFetches \in Nat, IsolateTypeOK, Fetching
  PROVE  FetchesBounded
<1> DEFINE Beside == inFlight \cap seen.checkedBeside
           Single == inFlight \ seen.checkedBeside
<1>1. IsFiniteSet(inFlight)
  <2>1. IsFiniteSet(Requests)
    BY FS_Interval DEF Requests
  <2> QED BY <2>1, FS_Subset DEF IsolateTypeOK
<1>2. /\ Cardinality(Single) = Cardinality(inFlight) - Cardinality(Beside)
      /\ Cardinality(inFlight) \in Nat
  BY <1>1, FS_Difference, FS_CardinalityType
<1>3. Single \subseteq CountedFetches /\ CountedFetches \in SUBSET Requests /\ Beside \in SUBSET Requests
  BY CountedTyped DEF CountedFetches, IsolateTypeOK
<1>4. /\ Cardinality(Single) <= Cardinality(CountedFetches) /\ Cardinality(CountedFetches) \in Nat
      /\ Cardinality(Beside) \in Nat
  BY <1>3, FewerRequests
<1>5. Cardinality(inFlight) <= MaxFetches + Cardinality(Beside)
  BY <1>2, <1>4 DEF Fetching
<1>6. ~bridge => inFlight \subseteq seen.atEnd
  BY DEF Fetching, ToCome, IsolateTypeOK
<1> QED BY <1>5, <1>6 DEF FetchesBounded

(***************************************************************************)
(* No more fetches are in flight than the cap allows, but for those that   *)
(* were checked while others were looked up; and none is in flight once    *)
(* the bridge is disposed, but for those that had yet to be looked up then *)
(* (host/fetch-bridge-host.ts).                                            *)
(***************************************************************************)
THEOREM FetchesWithinCap ==
  ASSUME MaxAsked \in Nat, MaxFetches \in Nat
  PROVE  IsolateSpec => []FetchesBounded
<1>1. IsolateInit => IsolateTypeOK /\ Fetching
  BY IsolateTyped, FetchingAtFirst
<1>2. IsolateTypeOK /\ Fetching /\ [IsolateNext]_isolateVars => (IsolateTypeOK /\ Fetching)'
  BY TypeOKStep, FetchingStep
<1>3. IsolateTypeOK /\ Fetching => FetchesBounded
  BY WithinCap
<1> QED BY <1>1, <1>2, <1>3, PTL DEF IsolateSpec

-----------------------------------------------------------------------------

(***************************************************************************)
(* What the guest's streams hold, for any number of reads and any source.  *)
(* At most one chunk is queued, the last that was enqueued, and only until *)
(* the read that pulled it goes on; so that a chunk goes to one read, and  *)
(* a read that waits has somebody to wake it: the one that pulls, or one   *)
(* that was woken and has yet to go around.                                *)
(***************************************************************************)

UnderWay(i) == reads[i].at \in {"pulling", "waiting"}

Got == {i \in Reads : reads[i].at = "got"}

\* the reads that go around again
Awake(waiters) == {i \in Reads : reads[i].at = "waiting" /\ i \notin ToSet(waiters)}

ReadType == [at : {"new", "pulling", "waiting", "got", "done", "threw"}, got : Nat]

BodyType ==
  [queue : Seq(Nat), waiters : Seq(Reads), closed : BOOLEAN, errored : BOOLEAN,
   cancelled : BOOLEAN, puller : Reads \cup {0}]

StreamTyped ==
  /\ reads \in [Reads -> ReadType]
  /\ body \in BodyType
  /\ source \in [pull : {"idle", "running", "pulled", "failed"}, chunks : Nat, pulls : Nat]
  /\ whole \in BOOLEAN /\ overtaken \subseteq Reads

\* who waits does so once, and nobody does for a stream that was closed
Waiters(waiters) ==
  /\ \A k \in DOMAIN waiters : reads[waiters[k]].at = "waiting"
  /\ \A k, l \in DOMAIN waiters : waiters[k] = waiters[l] => k = l

\* what was enqueued was got, or is queued, alone and last
Chunks(b) ==
  /\ \A i \in Got : reads[i].got \in 1 .. source.chunks
  /\ b.queue # <<>> =>
       /\ b.queue = <<source.chunks>> /\ source.chunks > 0
       /\ \A i \in Got : reads[i].got < source.chunks
  /\ \A i, j \in Got : reads[i].got = reads[j].got => i = j
  /\ ~b.cancelled => \A n \in 1 .. source.chunks : b.queue = <<n>> \/ \E i \in Got : reads[i].got = n

\* reads that were not overtaken, nor overtook another, got their chunks in order
InTurn(o) ==
  \A i, j \in Got \ o : i < j => reads[i].got < reads[j].got

\* one of them pulls; what is queued is there until it goes on
Pulls ==
  /\ \A i \in Reads : reads[i].at = "pulling" <=> body.puller = i
  /\ source.pull = "running" => body.puller # 0
  /\ body.queue # <<>> =>
       body.puller # 0 /\ source.pull = "pulled" /\ (body.waiters = <<>> \/ Awake(body.waiters) # {})
  /\ body.errored => body.puller = 0

\* nobody waits for nothing
NotStranded ==
  /\ body.closed /\ ~body.cancelled => body.waiters = <<>>
  /\ body.puller = 0 /\ body.waiters # <<>> => Awake(body.waiters) # {} \/ body.errored \/ body.cancelled

\* reads are made in order, and who is under way when another is made is overtaken
MadeInOrder ==
  \A i, j \in Reads : i < j /\ reads[j].at # "new" =>
    reads[i].at # "new" /\ (UnderWay(i) => i \in overtaken)

\* one after the other, if the whole is read
Whole ==
  whole =>
    /\ ~body.cancelled
    /\ \A i, j \in Reads : i < j /\ reads[j].at # "new" => reads[i].at = "got"
    /\ \A i \in Got : reads[i].got = i

StreamInv ==
  /\ StreamTyped /\ Waiters(body.waiters) /\ Chunks(body) /\ InTurn(overtaken)
  /\ Pulls /\ NotStranded /\ MadeInOrder /\ Whole

-----------------------------------------------------------------------------

\* the same while read i goes around, the stream being `now` and o overtaken
Goes(i, now, o) ==
  /\ i \in Reads /\ reads[i].at \in {"new", "pulling", "waiting"}
  /\ o \subseteq Reads /\ overtaken \subseteq o
  /\ now \in BodyType
  /\ Waiters(now.waiters) /\ i \notin ToSet(now.waiters) /\ Chunks(now) /\ InTurn(o)
  /\ now.puller # i /\ \A j \in Reads \ {i} : reads[j].at = "pulling" <=> now.puller = j
  /\ source.pull = "running" => now.puller # 0
  /\ now.queue # <<>> => source.pull = "pulled" /\ ~now.errored
  /\ now.puller = 0 /\ now.queue # <<>> => now.waiters = <<>> \/ Awake(now.waiters) \ {i} # {}
  /\ now.errored => now.puller = 0
  /\ now.closed /\ ~now.cancelled => now.waiters = <<>>
  /\ \A j, k \in Reads : j < k /\ (reads[k].at # "new" \/ k = i) =>
       /\ reads[j].at # "new" \/ j = i
       /\ UnderWay(j) \/ j = i => j \in o
  /\ whole => /\ ~now.cancelled
              /\ \A j, k \in Reads : j < k /\ (reads[k].at # "new" \/ k = i) => reads[j].at = "got"
              /\ \A j \in Got : reads[j].got = j

\* a new read goes around with the stream as it is
LEMMA ReadGoes ==
  ASSUME MaxReads \in Nat, StreamInv, NEW i \in Reads, Begin(i)
  PROVE  Goes(i, body, overtaken') /\ Around(i, body) /\ whole' = whole
<1>1. /\ reads[i].at = "new" /\ \A j \in 1 .. (i - 1) : reads[j].at # "new"
      /\ whole => ReadsOn(i)
      /\ overtaken' = IF ReadsUnderWay = {} THEN overtaken
                      ELSE overtaken \cup ReadsUnderWay \cup {i}
      /\ Around(i, body) /\ whole' = whole
  BY DEF Begin
<1>2. ReadsUnderWay = {j \in Reads : UnderWay(j)}
  BY DEF ReadsUnderWay, ReadSettled, UnderWay, StreamInv, StreamTyped, ReadType, Reads
<1>3. /\ overtaken \subseteq overtaken' /\ overtaken' \subseteq Reads
      /\ \A j \in Reads : UnderWay(j) => j \in overtaken'
  BY <1>1, <1>2 DEF StreamInv, StreamTyped
<1>4. i \in Nat /\ i # 0 /\ \A j \in Reads : j \in Nat /\ (j < i => reads[j].at # "new")
  BY <1>1 DEF Reads
<1>5. \A j, k \in Reads : j < k /\ (reads[k].at # "new" \/ k = i) =>
       /\ reads[j].at # "new" \/ j = i
       /\ UnderWay(j) \/ j = i => j \in overtaken'
  BY <1>1, <1>3, <1>4 DEF StreamInv, MadeInOrder
<1>6. i \notin ToSet(body.waiters) /\ Awake(body.waiters) \ {i} = Awake(body.waiters)
  BY <1>1 DEF ToSet, StreamInv, Waiters, Awake
<1>7. whole => /\ ~body.cancelled
               /\ \A j, k \in Reads : j < k /\ (reads[k].at # "new" \/ k = i) => reads[j].at = "got"
               /\ \A j \in Got : reads[j].got = j
  <2>. SUFFICES ASSUME whole PROVE \A j \in Reads : j < i => reads[j].at = "got"
    BY DEF StreamInv, Whole
  <2>1. SUFFICES ASSUME NEW j \in Reads, j < i PROVE reads[j].at = "got"
    OBVIOUS
  <2>2. i > 1 /\ i - 1 \in Reads /\ reads[i - 1].at = "got"
    <3>1. i \in 1 .. MaxReads /\ j \in 1 .. MaxReads
      BY DEF Reads
    <3>2. i > 1 /\ i - 1 \in 1 .. MaxReads
      BY MaxReads \in Nat, <2>1, <3>1
    <3>. QED  BY <1>1, <3>2 DEF ReadsOn, Reads
  <2>3. j = i - 1 \/ j < i - 1
    BY <1>4, <2>1 DEF Reads
  <2>. QED  BY <2>2, <2>3 DEF StreamInv, Whole
<1>8. body.puller # i /\ \A j \in Reads : reads[j].at = "pulling" <=> body.puller = j
  BY <1>1 DEF StreamInv, Pulls
<1>9. /\ source.pull = "running" => body.puller # 0
      /\ body.queue # <<>> => source.pull = "pulled" /\ ~body.errored /\ body.puller # 0
      /\ body.errored => body.puller = 0
      /\ body.closed /\ ~body.cancelled => body.waiters = <<>>
  BY DEF StreamInv, Pulls, NotStranded
<1>10. InTurn(overtaken')
  BY <1>3 DEF StreamInv, InTurn
<1>11. body \in BodyType /\ Waiters(body.waiters) /\ Chunks(body)
  BY DEF StreamInv, StreamTyped
<1>. QED  BY <1>1, <1>3, <1>5, <1>6, <1>7, <1>8, <1>9, <1>10, <1>11 DEF Goes

\* so does one that was woken
LEMMA WokenGoes ==
  ASSUME StreamInv, NEW i \in Reads, Awoken(i)
  PROVE  Goes(i, body, overtaken') /\ Around(i, body) /\ whole' = whole
<1>1. reads[i].at = "waiting" /\ i \notin ToSet(body.waiters) /\ overtaken' = overtaken
      /\ Around(i, body) /\ whole' = whole
  BY DEF Awoken
<1>2. \A j, k \in Reads : j < k /\ (reads[k].at # "new" \/ k = i) =>
       /\ reads[j].at # "new" \/ j = i
       /\ UnderWay(j) \/ j = i => j \in overtaken'
  BY <1>1 DEF StreamInv, MadeInOrder, UnderWay
<1>3. whole => /\ ~body.cancelled
               /\ \A j, k \in Reads : j < k /\ (reads[k].at # "new" \/ k = i) => reads[j].at = "got"
               /\ \A j \in Got : reads[j].got = j
  BY <1>1 DEF StreamInv, Whole
<1>4. body.puller # i /\ \A j \in Reads : reads[j].at = "pulling" <=> body.puller = j
  BY <1>1 DEF StreamInv, Pulls
<1>5. /\ source.pull = "running" => body.puller # 0
      /\ body.queue # <<>> => source.pull = "pulled" /\ ~body.errored /\ body.puller # 0
      /\ body.errored => body.puller = 0
      /\ body.closed /\ ~body.cancelled => body.waiters = <<>>
  BY DEF StreamInv, Pulls, NotStranded
<1>6. /\ body \in BodyType /\ Waiters(body.waiters) /\ Chunks(body)
      /\ InTurn(overtaken') /\ overtaken' \subseteq Reads
  BY <1>1 DEF StreamInv, StreamTyped
<1>. QED  BY <1>1, <1>2, <1>3, <1>4, <1>5, <1>6 DEF Goes

\* a read whose pull settled goes around with nobody pulling
LEMMA ResumeGoes ==
  ASSUME StreamInv, NEW i \in Reads, Resume(i)
  PROVE  \E now \in BodyType : Goes(i, now, overtaken') /\ Around(i, now) /\ whole' = whole
<1>. DEFINE now == [body EXCEPT !.puller = 0, !.errored = @ \/ source.pull = "failed"]
<1>1. body.puller = i /\ source.pull \in {"pulled", "failed"} /\ overtaken' = overtaken
      /\ Around(i, now) /\ whole' = whole
  BY DEF Resume
<1>2. reads[i].at = "pulling" /\ i # 0
  BY <1>1 DEF StreamInv, Pulls, Reads
<1>3. /\ now \in BodyType
      /\ now.queue = body.queue /\ now.waiters = body.waiters /\ now.closed = body.closed
      /\ now.cancelled = body.cancelled /\ now.puller = 0
      /\ now.errored = (body.errored \/ source.pull = "failed")
  BY DEF StreamInv, StreamTyped, BodyType
<1>. HIDE DEF now
<1>4. \A j, k \in Reads : j < k /\ (reads[k].at # "new" \/ k = i) =>
       /\ reads[j].at # "new" \/ j = i
       /\ UnderWay(j) \/ j = i => j \in overtaken'
  BY <1>1, <1>2 DEF StreamInv, MadeInOrder, UnderWay
<1>5. whole => /\ ~now.cancelled
               /\ \A j, k \in Reads : j < k /\ (reads[k].at # "new" \/ k = i) => reads[j].at = "got"
               /\ \A j \in Got : reads[j].got = j
  BY <1>1, <1>2, <1>3 DEF StreamInv, Whole
<1>6. now.puller # i /\ \A j \in Reads \ {i} : reads[j].at = "pulling" <=> now.puller = j
  BY <1>1, <1>2, <1>3 DEF StreamInv, Pulls, Reads
<1>7. i \notin ToSet(now.waiters) /\ Awake(now.waiters) \ {i} = Awake(now.waiters)
  BY <1>2, <1>3 DEF ToSet, StreamInv, Waiters, Awake
<1>8. /\ now.queue # <<>> => source.pull = "pulled" /\ ~now.errored
      /\ now.queue # <<>> => now.waiters = <<>> \/ Awake(now.waiters) \ {i} # {}
      /\ now.closed /\ ~now.cancelled => now.waiters = <<>>
  <2>1. body.errored => body.puller = 0
    BY DEF StreamInv, Pulls
  <2>2. /\ body.queue # <<>> => source.pull = "pulled" /\ (body.waiters = <<>> \/ Awake(body.waiters) # {})
        /\ body.closed /\ ~body.cancelled => body.waiters = <<>>
    BY DEF StreamInv, Pulls, NotStranded
  <2>. QED  BY <1>1, <1>2, <1>3, <1>7, <2>1, <2>2
<1>9. Waiters(now.waiters) /\ Chunks(now) /\ InTurn(overtaken') /\ overtaken' \subseteq Reads
  BY <1>1, <1>3 DEF StreamInv, StreamTyped, Chunks
<1>10. Goes(i, now, overtaken')
  BY <1>1, <1>2, <1>3, <1>4, <1>5, <1>6, <1>7, <1>8, <1>9 DEF Goes
<1>. QED  BY <1>1, <1>3, <1>10

\* what becomes of read i, at `where` with n
Went(i, where, n) == reads' = [reads EXCEPT ![i] = [at |-> where, got |-> n]]

\* it settles, pulls or waits
LEMMA AroundGoes ==
  ASSUME NEW i, NEW now, Around(i, now)
  PROVE  \/ now.errored /\ Went(i, "threw", 0) /\ body' = now /\ source' = source
         \/ /\ ~now.errored /\ now.queue # <<>> /\ Went(i, "got", Head(now.queue))
            /\ body' = [now EXCEPT !.queue = Tail(@)] /\ source' = source
         \/ now.queue = <<>> /\ now.closed /\ Went(i, "done", 0) /\ body' = now /\ source' = source
         \/ /\ ~now.errored /\ now.queue = <<>> /\ ~now.closed /\ now.puller = 0 /\ Went(i, "pulling", 0)
            /\ body' = [now EXCEPT !.puller = i]
            /\ source' = [source EXCEPT !.pull = "running", !.pulls = @ + 1]
         \/ /\ ~now.errored /\ now.queue = <<>> /\ ~now.closed /\ now.puller # 0 /\ Went(i, "waiting", 0)
            /\ body' = [now EXCEPT !.waiters = Append(@, i)] /\ source' = source
BY DEF Around, Went

\* a read that went keeps the types
LEMMA WentTyped ==
  ASSUME StreamTyped, NEW i, NEW now, Goes(i, now, overtaken'), whole' = whole,
         NEW where \in {"pulling", "waiting", "got", "done", "threw"}, NEW n \in Nat, Went(i, where, n),
         body' \in BodyType,
         source' \in [pull : {"idle", "running", "pulled", "failed"}, chunks : Nat, pulls : Nat]
  PROVE  StreamTyped'
<1>1. i \in Reads /\ overtaken' \subseteq Reads
  BY DEF Goes
<1>2. [at |-> where, got |-> n] \in ReadType
  BY DEF ReadType
<1>3. reads' \in [Reads -> ReadType]
  BY <1>1, <1>2 DEF StreamTyped, Went
<1>. QED  BY <1>1, <1>3 DEF StreamTyped

\* it is there, with what it got, and the others are where they were
LEMMA WentThere ==
  ASSUME StreamTyped, NEW i \in Reads, NEW where, NEW n, Went(i, where, n)
  PROVE  /\ reads'[i].at = where /\ reads'[i].got = n
         /\ \A j \in Reads \ {i} : reads'[j] = reads[j] /\ (UnderWay(j)' <=> UnderWay(j))
         /\ Got' = IF where = "got" THEN Got \cup {i} ELSE Got \ {i}
BY DEF StreamTyped, Went, Got, UnderWay

\* the others wait as they did
LEMMA WaitersStay ==
  ASSUME NEW i, NEW w \in Seq(Reads), Waiters(w), i \notin ToSet(w),
         \A j \in Reads \ {i} : reads'[j] = reads[j]
  PROVE  /\ \A k \in DOMAIN w : reads'[w[k]].at = "waiting"
         /\ \A k, l \in DOMAIN w : w[k] = w[l] => k = l
<1>1. \A k \in DOMAIN w : w[k] \in Reads \ {i}
  BY DEF ToSet
<1>. QED  BY <1>1 DEF Waiters

\* a read that ends without a chunk
LEMMA EndsWithout ==
  ASSUME StreamTyped, NEW i \in Reads, NEW now \in BodyType,
         Goes(i, now, overtaken'), whole' = whole,
         NEW where \in {"done", "threw"}, Went(i, where, 0), body' = now, source' = source,
         now.errored \/ (now.closed /\ now.queue = <<>>)
  PROVE  StreamInv'
<1>1. /\ reads'[i].at = where
      /\ \A j \in Reads \ {i} : reads'[j] = reads[j] /\ (UnderWay(j)' <=> UnderWay(j))
      /\ Got' = Got
  BY WentThere DEF Goes, Got
<1>2. StreamTyped'
  BY WentTyped DEF StreamTyped
<1>3. Waiters(body.waiters)'
  BY <1>1 DEF Goes, Waiters, BodyType, ToSet
<1>4. Chunks(body)' /\ InTurn(overtaken)'
  BY <1>1 DEF Goes, Chunks, InTurn, Got
<1>5. Pulls'
  BY <1>1 DEF Goes, Pulls
<1>6. NotStranded'
  BY <1>1 DEF Goes, NotStranded
<1>7. MadeInOrder'
  BY <1>1 DEF Goes, MadeInOrder, UnderWay
<1>8. Whole'
  BY <1>1 DEF Goes, Whole, Got
<1>. QED  BY <1>2, <1>3, <1>4, <1>5, <1>6, <1>7, <1>8 DEF StreamInv

\* a read that gets the chunk
LEMMA GetsChunk ==
  ASSUME MaxReads \in Nat, StreamTyped, NEW i \in Reads, NEW now \in BodyType,
         Goes(i, now, overtaken'), whole' = whole,
         ~now.errored, now.queue # <<>>, Went(i, "got", Head(now.queue)),
         body' = [now EXCEPT !.queue = Tail(@)], source' = source
  PROVE  StreamInv'
<1>. DEFINE n == source.chunks
<1>1. now.queue = <<n>> /\ n \in Nat /\ n > 0 /\ \A j \in Got : reads[j].got < n /\ reads[j].got \in 1 .. n
  BY DEF Goes, Chunks, StreamTyped
<1>2. Head(now.queue) = n /\ Tail(now.queue) = <<>>
  BY <1>1
<1>3. /\ reads'[i].at = "got" /\ reads'[i].got = n
      /\ \A j \in Reads \ {i} : reads'[j] = reads[j] /\ (UnderWay(j)' <=> UnderWay(j))
      /\ Got' = Got \cup {i} /\ i \notin Got
  BY <1>2, WentThere DEF Goes, Got
<1>4. /\ body'.queue = <<>> /\ body'.waiters = now.waiters /\ body'.closed = now.closed
      /\ body'.errored = now.errored /\ body'.cancelled = now.cancelled /\ body'.puller = now.puller
      /\ body' \in BodyType
  <2>. DEFINE q == Tail(now.queue)
  <2>1. q \in Seq(Nat) /\ q = <<>>
    <3>1. now.queue \in Seq(Nat)
      BY DEF BodyType
    <3>. QED  BY <1>2, <3>1, HeadTailProperties
  <2>2. body' = [now EXCEPT !.queue = q]
    OBVIOUS
  <2>. HIDE DEF q
  <2>. QED  BY <2>1, <2>2 DEF BodyType
<1>5. StreamTyped'
  BY <1>1, <1>2, <1>4, WentTyped DEF StreamTyped
<1>6. Waiters(body.waiters)'
  <2>1. now.waiters \in Seq(Reads) /\ Waiters(now.waiters) /\ i \notin ToSet(now.waiters)
    BY DEF Goes, BodyType
  <2>2. /\ \A k \in DOMAIN now.waiters : reads'[now.waiters[k]].at = "waiting"
        /\ \A k, l \in DOMAIN now.waiters : now.waiters[k] = now.waiters[l] => k = l
    BY <1>3, <2>1, WaitersStay
  <2>. QED  BY <1>4, <2>2 DEF Waiters
<1>7. Chunks(body)'
  <2>1. \A j \in Got' : reads'[j].got \in 1 .. n
    BY <1>1, <1>3 DEF Got
  <2>2. \A j, k \in Got' : reads'[j].got = reads'[k].got => j = k
    BY <1>1, <1>3 DEF Goes, Chunks, Got
  <2>3. ~now.cancelled => \A m \in 1 .. n : \E j \in Got' : reads'[j].got = m
    <3>. SUFFICES ASSUME ~now.cancelled, NEW m \in 1 .. n PROVE \E j \in Got' : reads'[j].got = m
      OBVIOUS
    <3>1. now.queue = <<m>> \/ \E j \in Got : reads[j].got = m
      BY DEF Goes, Chunks
    <3>. QED  BY <1>1, <1>3, <3>1 DEF Got
  <2>. QED  BY <1>4, <2>1, <2>2, <2>3 DEF Chunks
<1>8. InTurn(overtaken)'
  <2>1. \A k \in Reads : i < k /\ k \in Got => i \in overtaken'
    BY DEF Goes, Got
  <2>. QED  BY <1>1, <1>3, <2>1 DEF Goes, InTurn, Got
<1>9. Pulls'
  BY <1>3, <1>4 DEF Goes, Pulls
<1>10. NotStranded'
  <2>1. Awake(now.waiters) \ {i} \subseteq Awake(now.waiters)'
    BY <1>3 DEF Awake
  <2>. QED  BY <1>3, <1>4, <2>1 DEF Goes, NotStranded
<1>11. MadeInOrder'
  BY <1>3 DEF Goes, MadeInOrder, UnderWay
<1>12. Whole'
  <2>. SUFFICES ASSUME whole
                PROVE /\ ~body'.cancelled
                      /\ \A k, j \in Reads : k < j /\ reads'[j].at # "new" => reads'[k].at = "got"
                      /\ \A j \in Got' : reads'[j].got = j
    BY DEF Whole
  <2>1. /\ ~now.cancelled
        /\ \A k, j \in Reads : k < j /\ (reads[j].at # "new" \/ j = i) => reads[k].at = "got"
        /\ \A j \in Got : reads[j].got = j
    BY DEF Goes
  <2>2. \A j \in Reads : j \in Got <=> j < i
    <3>1. \A j \in Reads : j \in Int /\ (j = i \/ j < i \/ i < j)
      BY DEF Reads
    <3>2. i \notin Got /\ reads[i].at # "got"
      BY <1>3 DEF Got
    <3>. QED  BY <2>1, <3>1, <3>2 DEF Got
  <2>3. n = i
    <3>1. i \in Nat /\ i > 0
      BY DEF Reads
    <3>2. \A m \in 1 .. n : m = n \/ m \in Got
      <4>1. \A m \in 1 .. n : now.queue = <<m>> \/ \E j \in Got : reads[j].got = m
        BY <2>1 DEF Goes, Chunks
      <4>. QED  BY <4>1, <1>1, <2>1
    <3>3. ~(n > i)
      BY <3>1, <3>2, <1>1, <1>3
    <3>4. ~(n < i)
      <4>1. n < i => n \in Reads
        BY MaxReads \in Nat, <1>1, <3>1 DEF Reads
      <4>. QED  BY <1>1, <2>1, <2>2, <4>1
    <3>. QED  BY <1>1, <3>1, <3>3, <3>4
  <2>. QED  BY <1>3, <1>4, <2>1, <2>3 DEF Got
<1>. QED  BY <1>5, <1>6, <1>7, <1>8, <1>9, <1>10, <1>11, <1>12 DEF StreamInv

\* a read that asks the source
LEMMA PullsNow ==
  ASSUME StreamTyped, NEW i \in Reads, NEW now \in BodyType,
         Goes(i, now, overtaken'), whole' = whole,
         ~now.errored, now.queue = <<>>, ~now.closed, now.puller = 0, Went(i, "pulling", 0),
         body' = [now EXCEPT !.puller = i],
         source' = [source EXCEPT !.pull = "running", !.pulls = @ + 1]
  PROVE  StreamInv'
<1>1. /\ reads'[i].at = "pulling"
      /\ \A j \in Reads \ {i} : reads'[j] = reads[j] /\ (UnderWay(j)' <=> UnderWay(j))
      /\ Got' = Got
  BY WentThere DEF Goes, Got
<1>2. /\ body'.queue = <<>> /\ body'.waiters = now.waiters /\ body'.closed = now.closed
      /\ body'.errored = now.errored /\ body'.cancelled = now.cancelled /\ body'.puller = i
      /\ body' \in BodyType
  BY DEF BodyType
<1>3. /\ source' \in [pull : {"idle", "running", "pulled", "failed"}, chunks : Nat, pulls : Nat]
      /\ source'.chunks = source.chunks
  <2>. DEFINE p == source.pulls + 1
  <2>1. p \in Nat /\ source' = [source EXCEPT !.pull = "running", !.pulls = p]
    BY DEF StreamTyped
  <2>. HIDE DEF p
  <2>. QED  BY <2>1 DEF StreamTyped
<1>4. StreamTyped'
  BY <1>2, <1>3, WentTyped
<1>5. Waiters(body.waiters)'
  <2>1. now.waiters \in Seq(Reads) /\ Waiters(now.waiters) /\ i \notin ToSet(now.waiters)
    BY DEF Goes, BodyType
  <2>2. /\ \A k \in DOMAIN now.waiters : reads'[now.waiters[k]].at = "waiting"
        /\ \A k, l \in DOMAIN now.waiters : now.waiters[k] = now.waiters[l] => k = l
    BY <1>1, <2>1, WaitersStay
  <2>. QED  BY <1>2, <2>2 DEF Waiters
<1>6. Chunks(body)' /\ InTurn(overtaken)'
  BY <1>1, <1>2, <1>3 DEF Goes, Chunks, InTurn, Got
<1>7. Pulls'
  BY <1>1, <1>2 DEF Goes, Pulls, Reads
<1>8. NotStranded'
  BY <1>1, <1>2 DEF Goes, NotStranded, Reads
<1>9. MadeInOrder'
  BY <1>1 DEF Goes, MadeInOrder, UnderWay
<1>10. Whole'
  BY <1>1, <1>2 DEF Goes, Whole, Got
<1>. QED  BY <1>4, <1>5, <1>6, <1>7, <1>8, <1>9, <1>10 DEF StreamInv

\* a read that waits behind the one that pulls
LEMMA WaitsBehind ==
  ASSUME StreamTyped, NEW i \in Reads, NEW now \in BodyType,
         Goes(i, now, overtaken'), whole' = whole,
         ~now.errored, now.queue = <<>>, ~now.closed, now.puller # 0, Went(i, "waiting", 0),
         body' = [now EXCEPT !.waiters = Append(@, i)], source' = source
  PROVE  StreamInv'
<1>. DEFINE w == Append(now.waiters, i)
<1>1. /\ reads'[i].at = "waiting"
      /\ \A j \in Reads \ {i} : reads'[j] = reads[j] /\ (UnderWay(j)' <=> UnderWay(j))
      /\ Got' = Got
  BY WentThere DEF Goes, Got
<1>2. now.waiters \in Seq(Reads) /\ Waiters(now.waiters) /\ i \notin ToSet(now.waiters)
  BY DEF Goes, BodyType
<1>3. w \in Seq(Reads)
  BY <1>2, AppendProperties
<1>4. /\ body'.queue = <<>> /\ body'.waiters = w /\ body'.closed = now.closed
      /\ body'.errored = now.errored /\ body'.cancelled = now.cancelled /\ body'.puller = now.puller
      /\ body' \in BodyType
  BY <1>3 DEF BodyType
<1>5. StreamTyped'
  BY <1>4, WentTyped DEF StreamTyped
<1>6. Waiters(body.waiters)'
  <2>1. /\ \A k \in DOMAIN now.waiters : reads'[now.waiters[k]].at = "waiting" /\ now.waiters[k] # i
        /\ \A k, l \in DOMAIN now.waiters : now.waiters[k] = now.waiters[l] => k = l
    BY <1>1, <1>2, WaitersStay DEF ToSet
  <2>2. \A k \in DOMAIN w : w[k] = i \/ (k \in DOMAIN now.waiters /\ w[k] = now.waiters[k])
    BY <1>2, AppendProperties
  <2>3. \A k, l \in DOMAIN w : w[k] = i /\ w[l] = i => k = l
    <3>1. Len(now.waiters) \in Nat /\ Len(w) = Len(now.waiters) + 1 /\ DOMAIN w = 1 .. Len(w)
      BY <1>2, <1>3, AppendProperties, LenProperties
    <3>2. \A k \in 1 .. Len(now.waiters) : w[k] = now.waiters[k] /\ k \in DOMAIN now.waiters
      BY <1>2, AppendProperties, LenProperties
    <3>. HIDE DEF w
    <3>3. \A k \in DOMAIN w : w[k] = i => k = Len(w)
      BY <3>1, <3>2, <2>1
    <3>. QED  BY <3>3
  <2>. HIDE DEF w
  <2>4. \A k \in DOMAIN w : reads'[w[k]].at = "waiting"
    BY <1>1, <2>1, <2>2
  <2>5. \A k, l \in DOMAIN w : w[k] = w[l] => k = l
    BY <2>1, <2>2, <2>3
  <2>. QED  BY <1>4, <2>4, <2>5 DEF Waiters
<1>. HIDE DEF w
<1>7. Chunks(body)' /\ InTurn(overtaken)'
  <2>1. Chunks(now) /\ InTurn(overtaken') /\ \A j \in Got : reads'[j] = reads[j]
    BY <1>1 DEF Goes, Got
  <2>. QED  BY <1>1, <1>4, <2>1 DEF Chunks, InTurn
<1>8. Pulls'
  BY <1>1, <1>4 DEF Goes, Pulls
<1>9. NotStranded'
  BY <1>1, <1>4 DEF Goes, NotStranded
<1>10. MadeInOrder'
  BY <1>1 DEF Goes, MadeInOrder, UnderWay
<1>11. Whole'
  BY <1>1, <1>4 DEF Goes, Whole, Got
<1>. QED  BY <1>5, <1>6, <1>7, <1>8, <1>9, <1>10, <1>11 DEF StreamInv

\* a read made, resumed or woken keeps the invariant
LEMMA ReadStep ==
  ASSUME MaxReads \in Nat, StreamInv, NEW i \in Reads, Begin(i) \/ Resume(i) \/ Awoken(i)
  PROVE  StreamInv'
<1>1. PICK now \in BodyType : Goes(i, now, overtaken') /\ Around(i, now) /\ whole' = whole
  <2>1. body \in BodyType
    BY DEF StreamInv, StreamTyped
  <2>. QED  BY <2>1, ReadGoes, WokenGoes, ResumeGoes
<1>2. StreamTyped
  BY DEF StreamInv
<1>3. CASE now.errored /\ Went(i, "threw", 0) /\ body' = now /\ source' = source
  BY <1>1, <1>2, <1>3, EndsWithout
<1>4. CASE /\ ~now.errored /\ now.queue # <<>> /\ Went(i, "got", Head(now.queue))
           /\ body' = [now EXCEPT !.queue = Tail(@)] /\ source' = source
  BY <1>1, <1>2, <1>4, GetsChunk
<1>5. CASE now.queue = <<>> /\ now.closed /\ Went(i, "done", 0) /\ body' = now /\ source' = source
  BY <1>1, <1>2, <1>5, EndsWithout
<1>6. CASE /\ ~now.errored /\ now.queue = <<>> /\ ~now.closed /\ now.puller = 0 /\ Went(i, "pulling", 0)
           /\ body' = [now EXCEPT !.puller = i]
           /\ source' = [source EXCEPT !.pull = "running", !.pulls = @ + 1]
  BY <1>1, <1>2, <1>6, PullsNow
<1>7. CASE /\ ~now.errored /\ now.queue = <<>> /\ ~now.closed /\ now.puller # 0 /\ Went(i, "waiting", 0)
           /\ body' = [now EXCEPT !.waiters = Append(@, i)] /\ source' = source
  BY <1>1, <1>2, <1>7, WaitsBehind
<1>. QED  BY <1>1, <1>3, <1>4, <1>5, <1>6, <1>7, AroundGoes

\* the source enqueues a chunk
LEMMA ChunkEnqueued ==
  ASSUME StreamInv, source.pull = "running", ~body.closed,
         source' = [source EXCEPT !.pull = "pulled", !.chunks = @ + 1],
         body' = [body EXCEPT !.queue = Append(@, source.chunks + 1),
                              !.waiters = IF @ = <<>> THEN @ ELSE Tail(@)],
         UNCHANGED <<reads, whole, overtaken>>
  PROVE  StreamInv'
<1>. DEFINE n == source.chunks + 1
            w == IF body.waiters = <<>> THEN body.waiters ELSE Tail(body.waiters)
            q == Append(body.queue, n)
<1>1. /\ source.chunks \in Nat /\ n \in Nat /\ n > 0
      /\ body.waiters \in Seq(Reads) /\ body.queue = <<>> /\ body.puller # 0
      /\ reads \in [Reads -> ReadType]
  BY DEF StreamInv, StreamTyped, BodyType, Pulls
<1>2. q = <<n>> /\ q \in Seq(Nat)
  BY <1>1
<1>3. w \in Seq(Reads) /\ (body.waiters = <<>> => w = <<>>)
  BY <1>1, HeadTailProperties
<1>4. body.waiters # <<>> =>
        /\ \A k \in DOMAIN w : k + 1 \in DOMAIN body.waiters /\ w[k] = body.waiters[k + 1]
        /\ 1 \in DOMAIN body.waiters /\ \A k \in DOMAIN w : k \in Nat /\ k + 1 # 1
  <2>. SUFFICES ASSUME body.waiters # <<>>
                PROVE  /\ \A k \in DOMAIN w : k + 1 \in DOMAIN body.waiters /\ w[k] = body.waiters[k + 1]
                       /\ 1 \in DOMAIN body.waiters /\ \A k \in DOMAIN w : k \in Nat /\ k + 1 # 1
    OBVIOUS
  <2>1. w = Tail(body.waiters)
    OBVIOUS
  <2>. HIDE DEF w
  <2>2. /\ Len(w) = Len(body.waiters) - 1 /\ \A k \in 1 .. Len(w) : w[k] = body.waiters[k + 1]
        /\ DOMAIN w = 1 .. Len(w) /\ DOMAIN body.waiters = 1 .. Len(body.waiters)
        /\ Len(w) \in Nat /\ Len(body.waiters) \in Nat
    BY <1>1, <1>3, <2>1, HeadTailProperties, LenProperties
  <2>. QED  BY <2>2
<1>5. /\ source' \in [pull : {"idle", "running", "pulled", "failed"}, chunks : Nat, pulls : Nat]
      /\ source'.chunks = n /\ source'.pull = "pulled"
  <2>1. source' = [source EXCEPT !.pull = "pulled", !.chunks = n]
    OBVIOUS
  <2>. HIDE DEF n
  <2>. QED  BY <1>1, <2>1 DEF StreamInv, StreamTyped
<1>6. body' = [body EXCEPT !.queue = q, !.waiters = w]
  OBVIOUS
<1>. HIDE DEF q, w
<1>7. /\ body'.queue = <<n>> /\ body'.waiters = w /\ ~body'.closed /\ body'.errored = body.errored
      /\ body'.cancelled = body.cancelled /\ body'.puller = body.puller /\ body' \in BodyType
  BY <1>2, <1>3, <1>6 DEF StreamInv, StreamTyped, BodyType
<1>8. /\ reads' = reads /\ whole' = whole /\ overtaken' = overtaken /\ Got' = Got
      /\ \A i \in Reads : UnderWay(i)' <=> UnderWay(i)
  BY DEF Got, UnderWay
<1>9. StreamTyped'
  BY <1>5, <1>7, <1>8 DEF StreamInv, StreamTyped
<1>10. Waiters(w)
  <2>1. CASE body.waiters = <<>>
    BY <1>3, <2>1 DEF Waiters
  <2>2. CASE body.waiters # <<>>
    BY <1>4, <2>2 DEF StreamInv, Waiters
  <2>. QED  BY <2>1, <2>2
<1>11. w = <<>> \/ Awake(w) # {}
  <2>1. CASE body.waiters = <<>>
    BY <1>3, <2>1
  <2>2. CASE body.waiters # <<>>
    <3>. DEFINE i == body.waiters[1]
    <3>1. i \in Reads /\ reads[i].at = "waiting"
      BY <1>1, <1>4, <2>2 DEF StreamInv, Waiters
    <3>2. i \notin ToSet(w)
      BY <1>4, <2>2 DEF StreamInv, Waiters, ToSet
    <3>. QED  BY <3>1, <3>2 DEF Awake
  <2>. QED  BY <2>1, <2>2
<1>12. Chunks(body)'
  <2>1. \A i \in Got : reads[i].got \in 1 .. n /\ reads[i].got < n
    BY <1>1 DEF StreamInv, Chunks
  <2>2. ~body.cancelled => \A m \in 1 .. n : m = n \/ \E i \in Got : reads[i].got = m
    BY <1>1 DEF StreamInv, Chunks
  <2>3. \A i, j \in Got : reads[i].got = reads[j].got => i = j
    BY DEF StreamInv, Chunks
  <2>. HIDE DEF n
  <2>. QED  BY <1>1, <1>5, <1>7, <1>8, <2>1, <2>2, <2>3 DEF Chunks
<1>13. (Waiters(body.waiters) /\ InTurn(overtaken))'
  BY <1>7, <1>8, <1>10 DEF StreamInv, Waiters, InTurn
<1>14. Awake(body.waiters)' = Awake(w)
  BY <1>7, <1>8 DEF Awake
<1>15. Pulls' /\ NotStranded'
  BY <1>1, <1>5, <1>7, <1>8, <1>11, <1>14 DEF StreamInv, Pulls, NotStranded, Awake
<1>16. MadeInOrder' /\ Whole'
  BY <1>7, <1>8 DEF StreamInv, MadeInOrder, Whole
<1>. QED  BY <1>9, <1>12, <1>13, <1>15, <1>16 DEF StreamInv

\* the pull settles without a chunk, and the stream is closed with it or not
LEMMA PullSettles ==
  ASSUME StreamInv, source.pull = "running", NEW how \in {"pulled", "failed"},
         source' = [source EXCEPT !.pull = how],
         body' = body \/ body' = [body EXCEPT !.closed = TRUE, !.waiters = <<>>],
         UNCHANGED <<reads, whole, overtaken>>
  PROVE  StreamInv'
<1>1. /\ source' \in [pull : {"idle", "running", "pulled", "failed"}, chunks : Nat, pulls : Nat]
      /\ source'.chunks = source.chunks /\ source'.pull = how
  BY DEF StreamInv, StreamTyped
<1>2. body \in BodyType /\ body.queue = <<>> /\ body.puller # 0
  BY DEF StreamInv, StreamTyped, Pulls
<1>3. /\ body'.queue = body.queue /\ body'.errored = body.errored
      /\ body'.cancelled = body.cancelled /\ body'.puller = body.puller /\ body' \in BodyType
      /\ \/ body'.waiters = body.waiters /\ body'.closed = body.closed
         \/ body'.waiters = <<>> /\ body'.closed
  <2>1. <<>> \in Seq(Reads)
    OBVIOUS
  <2>. QED  BY <1>2, <2>1 DEF BodyType
<1>4. /\ reads' = reads /\ whole' = whole /\ overtaken' = overtaken /\ Got' = Got
      /\ \A i \in Reads : UnderWay(i)' <=> UnderWay(i)
  BY DEF Got, UnderWay
<1>5. StreamTyped'
  BY <1>1, <1>3, <1>4 DEF StreamInv, StreamTyped
<1>6. (Waiters(body.waiters) /\ InTurn(overtaken))'
  BY <1>3, <1>4 DEF StreamInv, Waiters, InTurn
<1>7. Chunks(body)'
  BY <1>1, <1>3, <1>4 DEF StreamInv, Chunks
<1>8. Pulls' /\ NotStranded'
  BY <1>1, <1>2, <1>3, <1>4 DEF StreamInv, Pulls, NotStranded
<1>9. MadeInOrder' /\ Whole'
  BY <1>3, <1>4 DEF StreamInv, MadeInOrder, Whole
<1>. QED  BY <1>5, <1>6, <1>7, <1>8, <1>9 DEF StreamInv

\* a cancel keeps it
LEMMA CancelKeeps ==
  ASSUME StreamInv, Cancel
  PROVE  StreamInv'
<1>1. /\ ~whole /\ body' = [body EXCEPT !.closed = TRUE, !.cancelled = TRUE, !.queue = <<>>]
      /\ UNCHANGED <<reads, source, whole, overtaken>>
  BY DEF Cancel
<1>2. body \in BodyType /\ <<>> \in Seq(Nat)
  BY DEF StreamInv, StreamTyped
<1>3. /\ body'.queue = <<>> /\ body'.waiters = body.waiters /\ body'.closed /\ body'.errored = body.errored
      /\ body'.cancelled /\ body'.puller = body.puller /\ body' \in BodyType
  BY <1>1, <1>2 DEF BodyType
<1>4. /\ reads' = reads /\ whole' = whole /\ overtaken' = overtaken /\ Got' = Got /\ source' = source
      /\ \A i \in Reads : UnderWay(i)' <=> UnderWay(i)
  BY <1>1 DEF Got, UnderWay
<1>5. StreamTyped'
  BY <1>3, <1>4 DEF StreamInv, StreamTyped
<1>6. (Waiters(body.waiters) /\ InTurn(overtaken))'
  BY <1>3, <1>4 DEF StreamInv, Waiters, InTurn
<1>7. Chunks(body)'
  BY <1>3, <1>4 DEF StreamInv, Chunks
<1>8. Pulls' /\ NotStranded'
  BY <1>3, <1>4 DEF StreamInv, Pulls, NotStranded
<1>9. MadeInOrder' /\ Whole'
  BY <1>1, <1>3, <1>4 DEF StreamInv, MadeInOrder, Whole
<1>. QED  BY <1>5, <1>6, <1>7, <1>8, <1>9 DEF StreamInv

\* every step of the stream keeps the invariant
LEMMA StreamStep ==
  ASSUME MaxReads \in Nat, StreamInv, [StreamNext]_streamVars
  PROVE  StreamInv'
<1>1. ASSUME NEW i \in Reads, Begin(i) \/ Resume(i) \/ Awoken(i) PROVE StreamInv'
  BY <1>1, ReadStep
<1>2. CASE PullEnqueues
  <2>1. CASE body.closed
    BY <1>2, <2>1, PullSettles DEF PullEnqueues
  <2>2. CASE ~body.closed
    BY <1>2, <2>2, ChunkEnqueued DEF PullEnqueues
  <2>. QED  BY <2>1, <2>2
<1>3. CASE PullsNothing \/ PullCloses \/ PullFails
  BY <1>3, PullSettles DEF PullsNothing, PullCloses, PullFails
<1>4. CASE Cancel
  BY <1>4, CancelKeeps
<1>5. CASE UNCHANGED streamVars
  BY <1>5 DEF streamVars, StreamInv, StreamTyped, Waiters, Chunks, InTurn, Pulls, NotStranded,
              MadeInOrder, Whole, Got, UnderWay, Awake
<1>. QED  BY <1>1, <1>2, <1>3, <1>4, <1>5 DEF StreamNext, Reads

\* it holds at first
LEMMA StreamAtFirst == MaxReads \in Nat /\ StreamInit => StreamInv
<1>. SUFFICES ASSUME MaxReads \in Nat, StreamInit PROVE StreamInv
  OBVIOUS
<1>1. /\ \A i \in Reads : reads[i].at = "new"
      /\ reads \in [Reads -> ReadType]
  BY DEF StreamInit, ReadType, Reads
<1>2. /\ body.queue = <<>> /\ body.waiters = <<>> /\ ~body.closed /\ ~body.errored
      /\ ~body.cancelled /\ body.puller = 0 /\ body \in BodyType
      /\ source.pull = "idle" /\ source.chunks = 0 /\ overtaken = {} /\ whole \in BOOLEAN
      /\ source \in [pull : {"idle", "running", "pulled", "failed"}, chunks : Nat, pulls : Nat]
  BY DEF StreamInit, BodyType
<1>3. Got = {}
  BY <1>1 DEF Got
<1>4. StreamTyped
  BY <1>1, <1>2 DEF StreamTyped
<1>5. Waiters(body.waiters) /\ InTurn(overtaken) /\ Chunks(body)
  BY <1>2, <1>3 DEF Waiters, InTurn, Chunks
<1>6. Pulls /\ NotStranded /\ MadeInOrder /\ Whole
  BY <1>1, <1>2, <1>3 DEF Pulls, NotStranded, MadeInOrder, Whole, Reads
<1>. QED  BY <1>4, <1>5, <1>6 DEF StreamInv

\* it is strong enough
LEMMA StreamHolds == StreamInv => StreamDelivers
<1>. SUFFICES ASSUME StreamInv PROVE StreamDelivers
  OBVIOUS
<1>1. Got = {i \in Reads : reads[i].at = "got"}
  BY DEF Got, Reads
<1>2. \A i, j \in Got : i # j => reads[i].got # reads[j].got
  BY DEF StreamInv, Chunks
<1>3. ~body.cancelled => {reads[i].got : i \in Got} \cup ToSet(body.queue) = 1 .. source.chunks
  <2>. SUFFICES ASSUME ~body.cancelled
                PROVE  {reads[i].got : i \in Got} \cup ToSet(body.queue) = 1 .. source.chunks
    OBVIOUS
  <2>1. source.chunks \in Nat
    BY DEF StreamInv, StreamTyped
  <2>2. CASE body.queue = <<>>
    <3>1. ToSet(body.queue) = {}
      BY <2>2 DEF ToSet
    <3>. QED  BY <2>2, <3>1 DEF StreamInv, Chunks
  <2>3. CASE body.queue # <<>>
    <3>1. body.queue = <<source.chunks>> /\ source.chunks \in 1 .. source.chunks
      BY <2>1, <2>3 DEF StreamInv, Chunks
    <3>2. ToSet(body.queue) = {source.chunks}
      BY <3>1 DEF ToSet
    <3>3. \A n \in 1 .. source.chunks : n = source.chunks \/ \E i \in Got : reads[i].got = n
      BY <3>1 DEF StreamInv, Chunks
    <3>4. \A i \in Got : reads[i].got \in 1 .. source.chunks
      BY DEF StreamInv, Chunks
    <3>. QED  BY <3>1, <3>2, <3>3, <3>4
  <2>. QED  BY <2>2, <2>3
<1>4. \A i, j \in Got \ overtaken : i < j => reads[i].got < reads[j].got
  BY DEF StreamInv, InTurn
<1>5. Stranded # {} => body.errored \/ body.cancelled
  <2>1. body.waiters = <<>> => ToSet(body.waiters) = {}
    BY DEF ToSet
  <2>. QED  BY <2>1 DEF Stranded, StreamInv, NotStranded, Awake, Reads
<1>6. ASSUME whole, NEW d \in Reads, reads[d].at = "done"
      PROVE  Collected = [n \in 1 .. source.chunks |-> n]
  <2>1. /\ ~body.cancelled /\ \A i \in Got : reads[i].got = i
        /\ \A i \in Got : i \in Reads /\ (reads[i].got \in 1 .. source.chunks)
    BY <1>6 DEF StreamInv, Whole, Chunks, Got
  <2>2. body.queue = <<>>
    <3>1. SUFFICES ASSUME body.queue # <<>> PROVE FALSE
      OBVIOUS
    <3>2. body.puller # 0 /\ body.puller \in Reads
      BY <3>1 DEF StreamInv, Pulls, StreamTyped, BodyType
    <3>3. PICK p \in Reads : reads[p].at = "pulling"
      BY <3>2 DEF StreamInv, Pulls
    <3>4. p < d \/ d < p
      <4>1. p # d
        BY <1>6, <3>3
      <4>. QED  BY <4>1 DEF Reads
    <3>. QED  BY <1>6, <3>3, <3>4 DEF StreamInv, Whole
  <2>3. Got = 1 .. source.chunks
    <3>1. \A n \in 1 .. source.chunks : \E i \in Got : reads[i].got = n
      BY <2>1, <2>2 DEF StreamInv, Chunks
    <3>2. \A n \in 1 .. source.chunks : n \in Got
      BY <2>1, <3>1
    <3>3. \A i \in Got : i \in 1 .. source.chunks
      BY <2>1
    <3>. QED  BY <3>2, <3>3
  <2>. QED  BY <1>1, <2>1, <2>3 DEF Collected
<1>. QED  BY <1>1, <1>2, <1>3, <1>4, <1>5, <1>6 DEF StreamDelivers, Reads

(***************************************************************************)
(* Each chunk the source enqueued is got once, or queued, or was dropped   *)
(* by a cancel; reads that did not overlap got theirs in order; a read     *)
(* waits for nobody only after a failed pull or a cancel; and who read the *)
(* whole has every chunk, in order (prelude.guest.js, ReadableStream).     *)
(***************************************************************************)
THEOREM ReadsDeliver ==
  ASSUME MaxReads \in Nat
  PROVE  StreamSpec => []StreamDelivers
<1>1. StreamInit => StreamInv
  BY StreamAtFirst
<1>2. StreamInv /\ [StreamNext]_streamVars => StreamInv'
  BY StreamStep
<1>. QED  BY <1>1, <1>2, StreamHolds, PTL DEF StreamSpec

=============================================================================
