-------------------------- MODULE BrowserServicesProofs --------------------------
(***************************************************************************)
(* The connections and streams of a browser worker, for any number of      *)
(* requests: the registries hold what is open and nothing else, and the    *)
(* worker has a handle on it, or will have, and is told of its end.        *)
(*                                                                         *)
(* The inductive invariant is ServicesInv.  A request makes one way        *)
(* through the port, the client and the port again, so that a handle's     *)
(* "resolved" comes once and ahead of its "closed".  Left is what holds of *)
(* the requests that the host serves though the worker is gone.            *)
(*                                                                         *)
(* And its storage: the ordered store of all workers is, at this worker's  *)
(* address, a map of its own (StoreInv).                                   *)
(***************************************************************************)
EXTENDS BrowserServices, CallQueueTheorems

CallType ==
  [state : {"new"}] \cup [state : {"pending", "resolved", "rejected", "aborted"}, op : Ops]

ObjectType ==
  [kind : {"conn", "stream", "none"}, parent : Calls \cup {None},
   state : {"none", "open", "closed"}, kept : BOOLEAN, early : BOOLEAN]

ToHost == {"req", "abort"} \X Calls

ToWorker == {"closed", "resolved", "rejected"} \X Calls

\* in a sequence each y has an x before it
After(s, x, y) == \A i \in 1 .. Len(s) : s[i] = y => \E j \in 1 .. (i - 1) : s[j] = x

\* a request is posted once
Once == {p \in ToHost \X ToHost : p[1] = p[2] => p[1][1] # "req"}

\* the requests the worker has made
Made == {c \in Calls : call[c].state # "new"}

Typed ==
  /\ uses \in Services
  /\ call \in [Calls -> CallType]
  /\ object \in [Calls -> ObjectType]
  /\ proxy \in [Calls -> {"none", "waiting", "told"}]
  /\ up \in Seq(ToHost) /\ down \in Seq(ToWorker)
  /\ \A c \in Calls, what \in {"req", "abort"} : Contains(up, <<what, c>>) => c \in Made
  /\ running \subseteq {c \in Made : call[c].op.name \notin Stored}
  /\ backend \in [state : {"new", "opening", "open", "failed"}, waiting : Seq(Calls)]
  /\ disposed \in BOOLEAN /\ late \subseteq Calls

Requested(c) == Contains(up, <<"req", c>>)

Sent(what, c) == Contains(down, <<what, c>>)

\* what a request has made
Objects ==
  \A c \in Calls : LET o == object[c] IN
    /\ o.kind = "none" => o.state = "none" /\ ~o.kept /\ proxy[c] = "none"
    /\ o.kind # "none" => o.state # "none" /\ c \in Made /\ call[c].op.name \in Makes
    /\ o.kept <=> o.state = "open"
    /\ o.state = "open" => ~o.early
    /\ disposed => (o.state = "open" \/ c \in running => c \in late)

\* storage makes none, and the KPS client none of storage's answers
Apart ==
  IF uses = "kps" THEN backend = [state |-> "new", waiting |-> <<>>] ELSE running = {}

\* a request of the KPS client is in one place, and is answered once
Passage(c) ==
  /\ Requested(c) \/ c \in running =>
       /\ object[c].kind = "none" /\ ~Sent("resolved", c) /\ ~Sent("rejected", c)
       /\ call[c].state \in {"pending", "aborted"}
  /\ Requested(c) => c \notin running
  /\ Sent("resolved", c) \/ Sent("rejected", c) => c \in Made
  /\ Sent("resolved", c) /\ call[c].op.name \in Makes => object[c].kind # "none"
  /\ Sent("rejected", c) => object[c].kind = "none"
  /\ Sent("closed", c) => object[c].kind # "none"

\* what a request has made is known to the worker when the answer is there
Shared(c) ==
  object[c].kind # "none" =>
    /\ call[c].state = "pending" => Sent("resolved", c)
    /\ call[c].state \in {"pending", "aborted"} \/ proxy[c] # "none"
    /\ object[c].state = "closed" /\ ~object[c].early
       /\ (call[c].state = "pending" \/ proxy[c] = "waiting") => Sent("closed", c)
    /\ call[c].state = "pending" /\ ~object[c].early =>
         After(down, <<"resolved", c>>, <<"closed", c>>)

ServicesInv ==
  /\ Typed /\ Objects /\ Apart
  /\ ~disposed /\ uses = "kps" => InOrder(up, Once) /\ \A c \in Calls : Passage(c) /\ Shared(c)

(***************************************************************************)
(* The host serves what was posted before it closed the worker: none of it *)
(* has made anything yet, and of the registries it finds nothing.          *)
(***************************************************************************)
LeftOver(c) ==
  /\ Requested(c) \/ c \in running => object[c].kind = "none"
  /\ Requested(c) =>
       /\ c \notin running
       /\ call[c].op.name \in OnConn \cup OnStream => object[call[c].op.on].state = "closed"
       /\ call[c].op.name \in {"dial", "openStream"} => c \in late

Left ==
  uses = "kps" =>
    /\ \A c \in Made : call[c].op.name \in OnConn \cup OnStream => object[call[c].op.on].kind # "none"
    /\ disposed => InOrder(up, Once) /\ \A c \in Calls : LeftOver(c)

-----------------------------------------------------------------------------

(* The port to the worker *)

(***************************************************************************)
(* What is posted stands behind what was there.                            *)
(***************************************************************************)
LEMMA ConcatContains ==
  ASSUME NEW S, NEW s \in Seq(S), NEW t \in Seq(S)
  PROVE  /\ s \o t \in Seq(S)
         /\ \A x : Contains(s \o t, x) <=> Contains(s, x) \/ Contains(t, x)
         /\ \A x, y : After(s, x, y) /\ (Contains(s, x) \/ ~Contains(t, y)) => After(s \o t, x, y)
<1>. DEFINE u == s \o t
<1>1. /\ Len(s) \in Nat /\ Len(t) \in Nat /\ u \in Seq(S) /\ Len(u) = Len(s) + Len(t)
      /\ \A i \in 1 .. Len(u) : u[i] = IF i <= Len(s) THEN s[i] ELSE t[i - Len(s)]
  BY LenProperties, ConcatProperties
<1>2. \A i \in 1 .. Len(s) : i \in 1 .. Len(u) /\ u[i] = s[i]
  BY <1>1
<1>3. \A i \in 1 .. Len(t) : Len(s) + i \in 1 .. Len(u) /\ u[Len(s) + i] = t[i]
  BY <1>1
<1>4. \A i \in 1 .. Len(u) : i \in 1 .. Len(s) \/ (i > Len(s) /\ i - Len(s) \in 1 .. Len(t) /\ u[i] = t[i - Len(s)])
  BY <1>1
<1>. HIDE DEF u
<1>5. ASSUME NEW x PROVE Contains(u, x) <=> Contains(s, x) \/ Contains(t, x)
  BY <1>2, <1>3, <1>4 DEF Contains
<1>6. ASSUME NEW x, NEW y, After(s, x, y), Contains(s, x) \/ ~Contains(t, y) PROVE After(u, x, y)
  <2>. SUFFICES ASSUME NEW i \in 1 .. Len(u), u[i] = y PROVE \E j \in 1 .. (i - 1) : u[j] = x
    BY DEF After
  <2>1. CASE i \in 1 .. Len(s)
    <3>1. PICK j \in 1 .. (i - 1) : s[j] = x
      BY <2>1, <1>2, <1>6 DEF After
    <3>2. j \in 1 .. Len(s)
      BY <2>1, <1>1
    <3>. QED  BY <3>1, <3>2, <1>2
  <2>2. CASE i > Len(s) /\ i - Len(s) \in 1 .. Len(t) /\ u[i] = t[i - Len(s)]
    <3>1. Contains(t, y)
      BY <2>2 DEF Contains
    <3>2. PICK j \in 1 .. Len(s) : s[j] = x
      BY <3>1, <1>6 DEF Contains
    <3>3. j \in 1 .. (i - 1) /\ u[j] = s[j]
      BY <2>2, <1>1, <1>2
    <3>. QED  BY <3>2, <3>3
  <2>. QED  BY <2>1, <2>2, <1>4
<1>. QED  BY <1>1, <1>5, <1>6 DEF u

(***************************************************************************)
(* The first is no y, and when it is no x either, the rest is as before.   *)
(***************************************************************************)
LEMMA TailAfter ==
  ASSUME NEW S, NEW s \in Seq(S), s # <<>>, NEW x, NEW y, After(s, x, y)
  PROVE  Head(s) # y /\ (Head(s) # x => After(Tail(s), x, y))
<1>1. /\ Len(s) \in Nat /\ Len(s) > 0 /\ Head(s) = s[1] /\ Len(Tail(s)) = Len(s) - 1
      /\ \A i \in 1 .. Len(Tail(s)) : Tail(s)[i] = s[i + 1]
  BY LenProperties, HeadTailProperties, EmptySeq
<1>2. Head(s) # y
  BY <1>1 DEF After
<1>3. ASSUME Head(s) # x, NEW i \in 1 .. Len(Tail(s)), Tail(s)[i] = y
      PROVE  \E j \in 1 .. (i - 1) : Tail(s)[j] = x
  <2>1. i + 1 \in 1 .. Len(s) /\ s[i + 1] = y
    BY <1>1, <1>3
  <2>2. PICK j \in 1 .. ((i + 1) - 1) : s[j] = x
    BY <2>1 DEF After
  <2>3. j # 1
    BY <1>1, <1>3, <2>2
  <2>4. j - 1 \in 1 .. (i - 1) /\ j - 1 \in 1 .. Len(Tail(s)) /\ (j - 1) + 1 = j
    BY <1>1, <2>2, <2>3
  <2>. QED  BY <1>1, <2>2, <2>4
<1>. QED  BY <1>2, <1>3 DEF After

(***************************************************************************)
(* The events of a closing are those of what was open.                     *)
(***************************************************************************)
LEMMA EventsOfClosing ==
  ASSUME NEW gone \in SUBSET Calls
  PROVE  /\ ClosedEvents(gone) \in Seq(ToWorker)
         /\ \A x : Contains(ClosedEvents(gone), x)
                     <=> \E y \in gone : object[y].kept /\ x = <<"closed", y>>
<1>. DEFINE events == {<<"closed", x>> : x \in {y \in gone : object[y].kept}}
<1>1. IsFiniteSet({"closed"} \X Calls)
  <2>1. IsFiniteSet(Calls)
    BY FS_Interval, CallsAssumption DEF Calls
  <2>. QED  BY <2>1, FS_Singleton, FS_Product
<1>2. events \in SUBSET ({"closed"} \X Calls)
  OBVIOUS
<1>3. IsFiniteSet(events)
  BY <1>1, <1>2, FS_Subset
<1>4. events \subseteq ToWorker
  BY DEF ToWorker
<1>5. SetToSeq(events) \in Seq(events) /\ \A x : Contains(SetToSeq(events), x) <=> x \in events
  BY <1>3, SequenceOfSet
<1>6. SetToSeq(events) \in Seq(ToWorker)
  BY <1>4, <1>5, SeqMonotonic
<1>. QED  BY <1>5, <1>6 DEF ClosedEvents

(***************************************************************************)
(* A reply to one request.                                                 *)
(***************************************************************************)
LEMMA ReplyToOne ==
  ASSUME NEW how, NEW c, Reply(how, <<c>>)
  PROVE  Post(<<<<how, c>>>>)
<1>1. [i \in DOMAIN <<c>> |-> <<how, <<c>>[i]>>] = <<<<how, c>>>>
  OBVIOUS
<1>. QED  BY <1>1 DEF Reply

(***************************************************************************)
(* Replies to several.                                                     *)
(***************************************************************************)
LEMMA ReplyType ==
  ASSUME Typed, NEW how \in {"resolved", "rejected"}, NEW cs \in Seq(Calls), Reply(how, cs)
  PROVE  down' \in Seq(ToWorker)
<1>1. DOMAIN cs = 1 .. Len(cs) /\ Len(cs) \in Nat /\ \A i \in 1 .. Len(cs) : cs[i] \in Calls
  BY LenProperties, ElementOfSeq
<1>2. [i \in 1 .. Len(cs) |-> <<how, cs[i]>>] \in Seq(ToWorker)
  BY <1>1, IsASeq DEF ToWorker
<1>3. down \o [i \in 1 .. Len(cs) |-> <<how, cs[i]>>] \in Seq(ToWorker)
  BY <1>2, ConcatProperties DEF Typed
<1>. QED  BY <1>1, <1>3 DEF Reply, Post, Typed

(***************************************************************************)
(* How the worker sees the messages that are posted: what closes, what is  *)
(* answered, and nothing out of order.                                     *)
(***************************************************************************)
Posts(more) ==
  /\ down' \in Seq(ToWorker)
  /\ \A what, c : Sent(what, c)' <=> Sent(what, c) \/ Contains(more, <<what, c>>)
  /\ \A x, y : After(down, x, y) /\ (Contains(down, x) \/ ~Contains(more, y)) => After(down', x, y)

LEMMA PostPosts ==
  ASSUME Typed, NEW more \in Seq(ToWorker), Post(more)
  PROVE  down' \in Seq(ToWorker) /\ (~disposed => Posts(more))
<1>1. /\ down \o more \in Seq(ToWorker)
      /\ \A x : Contains(down \o more, x) <=> Contains(down, x) \/ Contains(more, x)
      /\ \A x, y : After(down, x, y) /\ (Contains(down, x) \/ ~Contains(more, y)) => After(down \o more, x, y)
  BY ConcatContains DEF Typed
<1>2. CASE disposed
  BY <1>2 DEF Post, Typed
<1>3. CASE ~disposed
  <2>1. down' = down \o more
    BY <1>3 DEF Post
  <2>. QED  BY <1>1, <2>1 DEF Posts, Sent
<1>. QED  BY <1>2, <1>3

(***************************************************************************)
(* A reply alone, and one behind an event.                                 *)
(***************************************************************************)
LEMMA ReplyPosts ==
  ASSUME Typed, NEW how \in {"resolved", "rejected"}, NEW c \in Calls, Reply(how, <<c>>)
  PROVE  /\ down' \in Seq(ToWorker)
         /\ ~disposed => Posts(<<<<how, c>>>>)
         /\ \A x : Contains(<<<<how, c>>>>, x) <=> x = <<how, c>>
<1>1. <<<<how, c>>>> \in Seq(ToWorker)
  BY DEF ToWorker
<1>2. \A x : Contains(<<<<how, c>>>>, x) <=> x = <<how, c>>
  BY DEF Contains
<1>. QED  BY <1>1, <1>2, ReplyToOne, PostPosts

-----------------------------------------------------------------------------

(* The types *)

LEMMA OpsType ==
  /\ \A op \in Ops : op.name \notin Stored <=> uses = "kps"
  /\ \A op \in Ops : op.name \in OnConn \cup OnStream => op.on \in Calls
  /\ Makes \cap Stored = {}
BY DEF Ops, OnConn, OnStream, Stored, Makes

LEMMA InvInit == Init => ServicesInv
<1>. SUFFICES ASSUME Init PROVE ServicesInv
  OBVIOUS
<1>1. \A x : ~Contains(up, x) /\ ~Contains(down, x)
  BY DEF Init, Contains
<1>2. /\ \A c \in Calls : call[c] = [state |-> "new"] /\ proxy[c] = "none"
      /\ \A c \in Calls : object[c] = [kind |-> "none", parent |-> None, state |-> "none",
                                        kept |-> FALSE, early |-> FALSE]
  BY DEF Init
<1>3. Typed
  <2>1. call \in [Calls -> CallType]
    BY DEF Init, CallType
  <2>2. object \in [Calls -> ObjectType]
    BY DEF Init, ObjectType
  <2>3. backend \in [state : {"new", "opening", "open", "failed"}, waiting : Seq(Calls)]
    BY DEF Init
  <2>4. up \in Seq(ToHost) /\ down \in Seq(ToWorker)
    BY DEF Init
  <2>5. uses \in Services /\ running = {} /\ disposed = FALSE /\ late = {}
        /\ proxy \in [Calls -> {"none", "waiting", "told"}]
    BY DEF Init
  <2>. QED  BY <1>1, <2>1, <2>2, <2>3, <2>4, <2>5 DEF Typed
<1>4. Objects
  BY <1>2 DEF Init, Objects
<1>5. Apart
  BY DEF Init, Apart
<1>6. \A c \in Calls : Passage(c) /\ Shared(c)
  BY <1>1, <1>2 DEF Init, Passage, Shared, Requested, Sent
<1>7. InOrder(up, Once)
  BY DEF Init, InOrder
<1>. QED  BY <1>3, <1>4, <1>5, <1>6, <1>7 DEF ServicesInv

-----------------------------------------------------------------------------

(* The worker's steps *)

(***************************************************************************)
(* What is posted to the host.                                             *)
(***************************************************************************)
LEMMA AskPosts ==
  ASSUME Typed, NEW what \in {"req", "abort"}, NEW c \in Calls, up' = Append(up, <<what, c>>)
  PROVE  /\ up' \in Seq(ToHost)
         /\ \A x : Contains(up, x)' <=> Contains(up, x) \/ x = <<what, c>>
         /\ InOrder(up, Once) /\ (what = "req" => ~Requested(c)) => InOrder(up', Once)
<1>1. up \in Seq(ToHost) /\ <<what, c>> \in ToHost
  BY DEF Typed, ToHost
<1>2. /\ \A x : Contains(up', x) <=> Contains(up, x) \/ x = <<what, c>>
      /\ \A R : InOrder(up, R) /\ (\A x : Contains(up, x) => <<x, <<what, c>>>> \in R) => InOrder(up', R)
  BY <1>1, AppendContains, SMTT(20)
<1>3. ASSUME what = "req" => ~Requested(c), NEW x, Contains(up, x) PROVE <<x, <<what, c>>>> \in Once
  <2>1. x \in ToHost
    BY <1>1, <1>3, ContainsType
  <2>2. x = <<what, c>> => what = "abort"
    BY <1>3 DEF Requested
  <2>3. <<x, <<what, c>>>> \in ToHost \X ToHost
    BY <1>1, <2>1
  <2>4. x = <<what, c>> => x[1] # "req"
    BY <2>2
  <2>. QED  BY <2>3, <2>4 DEF Once
<1>4. Append(up, <<what, c>>) \in Seq(ToHost)
  BY <1>1, AppendProperties
<1>5. up' \in Seq(ToHost)
  BY <1>4
<1>6. InOrder(up, Once) /\ (what = "req" => ~Requested(c)) => InOrder(up', Once)
  BY <1>2, <1>3
<1>7. \A x : Contains(up, x)' <=> Contains(up, x) \/ x = <<what, c>>
  BY <1>2
<1>. QED  BY <1>5, <1>6, <1>7

LEMMA AskKeeps ==
  ASSUME ServicesInv, NEW c \in Calls, NEW op \in Ops, Ask(c, op)
  PROVE  ServicesInv'
<1>1. /\ Typed /\ ~disposed /\ c \notin Made /\ call[c].state = "new"
      /\ call' = [call EXCEPT ![c] = [state |-> "pending", op |-> op]]
      /\ up' = Append(up, <<"req", c>>)
      /\ UNCHANGED <<uses, running, object, proxy, down, backend, disposed, late>>
  BY DEF ServicesInv, Ask, storageVars, Made
<1>2. /\ Ops' = Ops /\ CallType' = CallType
      /\ \A d \in Calls \ {c} : call'[d] = call[d]
      /\ call'[c] = [state |-> "pending", op |-> op]
      /\ call' \in [Calls -> CallType]
      /\ Made' = Made \cup {c}
  <2>1. Ops' = Ops /\ CallType' = CallType
    BY <1>1 DEF Ops, CallType
  <2>2. [state |-> "pending", op |-> op] \in CallType
    BY DEF CallType
  <2>3. call \in [Calls -> CallType]
    BY <1>1 DEF Typed
  <2>4. /\ \A d \in Calls \ {c} : call'[d] = call[d]
        /\ call'[c] = [state |-> "pending", op |-> op]
        /\ call' \in [Calls -> CallType]
    BY <1>1, <2>2, <2>3
  <2>. QED  BY <2>1, <2>4 DEF Made
<1>3. ~Requested(c) /\ c \notin running
  BY <1>1 DEF Typed, Requested
<1>4. /\ up' \in Seq(ToHost) /\ (InOrder(up, Once) => InOrder(up', Once))
      /\ \A x : Contains(up, x)' <=> Contains(up, x) \/ x = <<"req", c>>
  BY <1>1, <1>3, AskPosts
<1>5. Typed'
  BY <1>1, <1>2, <1>4 DEF Typed
<1>6. Objects'
  BY <1>1, <1>2 DEF ServicesInv, Objects
<1>7. Apart'
  BY <1>1 DEF ServicesInv, Apart
<1>8. ASSUME uses = "kps", NEW d \in Calls PROVE Passage(d)' /\ Shared(d)'
  <2>1. Passage(d) /\ Shared(d)
    BY <1>1, <1>8 DEF ServicesInv
  <2>2. Requested(d)' <=> Requested(d) \/ d = c
    BY <1>4 DEF Requested
  <2>3. \A what : Sent(what, d)' <=> Sent(what, d)
    BY <1>1 DEF Sent
  <2>4. object[c].kind = "none"
    BY <1>1 DEF ServicesInv, Objects
  <2>5. CASE d = c
    BY <1>1, <1>2, <1>3, <2>1, <2>2, <2>3, <2>4, <2>5 DEF Passage, Shared
  <2>6. CASE d # c
    BY <1>1, <1>2, <2>1, <2>2, <2>3, <2>6 DEF Passage, Shared
  <2>. QED  BY <2>5, <2>6
<1>. QED  BY <1>1, <1>4, <1>5, <1>6, <1>7, <1>8 DEF ServicesInv, Once

LEMMA AbortKeeps ==
  ASSUME ServicesInv, NEW c \in Calls, Abort(c)
  PROVE  ServicesInv'
<1>1. /\ Typed /\ ~disposed /\ c \in Made /\ call[c].state = "pending"
      /\ call' = [call EXCEPT ![c].state = "aborted"]
      /\ up' = Append(up, <<"abort", c>>)
      /\ UNCHANGED <<uses, running, object, proxy, down, backend, disposed, late>>
  BY DEF ServicesInv, Abort, storageVars, Made
<1>2. /\ Ops' = Ops /\ CallType' = CallType
      /\ \A d \in Calls \ {c} : call'[d] = call[d]
      /\ call'[c].state = "aborted" /\ call'[c].op = call[c].op
      /\ call' \in [Calls -> CallType]
      /\ Made' = Made
  <2>1. Ops' = Ops /\ CallType' = CallType
    BY <1>1 DEF Ops, CallType
  <2>2. call \in [Calls -> CallType]
    BY <1>1 DEF Typed
  <2>3. call[c] \in [state : {"pending", "resolved", "rejected", "aborted"}, op : Ops]
    BY <1>1, <2>2 DEF CallType
  <2>4. [call[c] EXCEPT !.state = "aborted"] \in CallType
    BY <2>3 DEF CallType
  <2>5. /\ \A d \in Calls \ {c} : call'[d] = call[d]
        /\ call'[c] = [call[c] EXCEPT !.state = "aborted"]
        /\ call' \in [Calls -> CallType]
    BY <1>1, <2>2, <2>4
  <2>6. call'[c].state = "aborted" /\ call'[c].op = call[c].op
    BY <2>3, <2>5
  <2>. QED  BY <1>1, <2>1, <2>5, <2>6 DEF Made
<1>3. /\ up' \in Seq(ToHost) /\ (InOrder(up, Once) => InOrder(up', Once))
      /\ \A x : Contains(up, x)' <=> Contains(up, x) \/ x = <<"abort", c>>
  BY <1>1, AskPosts
<1>4. Typed'
  <2>1. \A d \in Calls : call'[d].op = call[d].op
    BY <1>2
  <2>2. running' \subseteq {d \in Made' : call'[d].op.name \notin Stored}
    BY <1>1, <1>2, <2>1 DEF Typed, Made
  <2>3. \A d \in Calls, what \in {"req", "abort"} : Contains(up, <<what, d>>)' => d \in Made'
    BY <1>1, <1>2, <1>3 DEF Typed
  <2>. QED  BY <1>1, <1>2, <1>3, <2>2, <2>3 DEF Typed
<1>5. Objects'
  BY <1>1, <1>2 DEF ServicesInv, Objects
<1>6. Apart'
  BY <1>1 DEF ServicesInv, Apart
<1>7. ASSUME uses = "kps", NEW d \in Calls PROVE Passage(d)' /\ Shared(d)'
  <2>1. Passage(d) /\ Shared(d)
    BY <1>1, <1>7 DEF ServicesInv
  <2>2. Requested(d)' <=> Requested(d)
    BY <1>3 DEF Requested
  <2>3. \A what : Sent(what, d)' <=> Sent(what, d)
    BY <1>1 DEF Sent
  <2>4. object[c].kind # "none" /\ proxy[c] = "waiting" /\ object[c].state = "closed" /\ ~object[c].early
          => Sent("closed", c)
    BY <1>1, <1>7 DEF ServicesInv, Shared
  <2>5. CASE d = c
    BY <1>1, <1>2, <2>1, <2>2, <2>3, <2>4, <2>5 DEF Passage, Shared
  <2>6. CASE d # c
    BY <1>1, <1>2, <2>1, <2>2, <2>3, <2>6 DEF Passage, Shared
  <2>. QED  BY <2>5, <2>6
<1>. QED  BY <1>1, <1>3, <1>4, <1>5, <1>6, <1>7 DEF ServicesInv

(***************************************************************************)
(* A message that arrives: nothing of it is left on the way, and a request *)
(* that was settled, or aborted, is not touched.                           *)
(***************************************************************************)
LEMMA DeliverTakes ==
  ASSUME Typed, Deliver
  PROVE  \E what \in {"closed", "resolved", "rejected"}, c \in Calls :
           /\ Head(down) = <<what, c>> /\ down # <<>>
           /\ down' \in Seq(ToWorker) /\ down' = Tail(down)
           /\ \A x : Contains(down, x) <=> Contains(down', x) \/ x = <<what, c>>
           /\ call' \in [Calls -> CallType] /\ Made' = Made
           /\ \A d \in Calls \ {c} : call'[d] = call[d] /\ proxy'[d] = proxy[d]
           /\ \A d \in Made : call'[d].op = call[d].op
           /\ what = "closed" => /\ call' = call
                                 /\ proxy'[c] = IF proxy[c] = "waiting" THEN "told" ELSE proxy[c]
           /\ what # "closed" =>
                /\ call'[c].state = IF call[c].state = "pending" THEN what ELSE call[c].state
                /\ proxy'[c] = IF call[c].state = "pending" /\ what = "resolved" /\ call[c].op.name \in Makes
                               THEN "waiting" ELSE proxy[c]
           /\ proxy' \in [Calls -> {"none", "waiting", "told"}]
<1>1. down \in Seq(ToWorker) /\ down # <<>> /\ down' = Tail(down)
  BY DEF Typed, Deliver
<1>2. Head(down) \in ToWorker /\ down' \in Seq(ToWorker)
  BY <1>1, HeadTailProperties
<1>3. PICK what \in {"closed", "resolved", "rejected"}, c \in Calls : Head(down) = <<what, c>>
  BY <1>2 DEF ToWorker
<1>4. \A x : Contains(down, x) <=> Contains(down', x) \/ x = <<what, c>>
  BY <1>1, <1>3, TailContains
<1>5. Head(down)[1] = what /\ Head(down)[2] = c
  BY <1>3
<1>6. /\ call \in [Calls -> CallType] /\ proxy \in [Calls -> {"none", "waiting", "told"}]
      /\ call[c] \in CallType
  BY DEF Typed
<1>7. CASE what = "closed"
  <2>1. call' = call /\ proxy' = [proxy EXCEPT ![c] = IF @ = "waiting" THEN "told" ELSE @]
    BY <1>5, <1>7 DEF Deliver
  <2>2. CallType' = CallType
    BY DEF Deliver, CallType, Ops
  <2>3. Made' = Made
    BY <2>1 DEF Made
  <2>4. /\ proxy' \in [Calls -> {"none", "waiting", "told"}]
        /\ proxy'[c] = IF proxy[c] = "waiting" THEN "told" ELSE proxy[c]
        /\ \A d \in Calls \ {c} : proxy'[d] = proxy[d]
    BY <1>6, <2>1
  <2>. QED  BY <1>1, <1>2, <1>3, <1>4, <1>6, <1>7, <2>1, <2>2, <2>3, <2>4
<1>8. CASE what # "closed"
  <2>1. /\ call' = [call EXCEPT ![c].state = IF @ = "pending" THEN what ELSE @]
        /\ proxy' = [proxy EXCEPT ![c] =
             IF call[c].state = "pending" /\ what = "resolved" /\ call[c].op.name \in Makes
             THEN "waiting" ELSE @]
    BY <1>5, <1>8 DEF Deliver
  <2>2. CallType' = CallType
    BY DEF Deliver, CallType, Ops
  <2>3. DEFINE next == [call[c] EXCEPT !.state = IF @ = "pending" THEN what ELSE @]
  <2>4. /\ next \in CallType
        /\ next.state = IF call[c].state = "pending" THEN what ELSE call[c].state
        /\ call[c].state # "new" => next.op = call[c].op
    BY <1>6, <1>8 DEF CallType
  <2>5. call'[c] = next /\ call' \in [Calls -> CallType] /\ \A d \in Calls \ {c} : call'[d] = call[d]
    BY <1>6, <2>1, <2>4
  <2>. HIDE DEF next
  <2>6. Made' = Made
    <3>1. call'[c].state # "new" <=> call[c].state # "new"
      BY <1>8, <2>4, <2>5
    <3>. QED  BY <2>5, <3>1 DEF Made
  <2>7. \A d \in Made : call'[d].op = call[d].op
    BY <2>4, <2>5 DEF Made
  <2>8. /\ proxy' \in [Calls -> {"none", "waiting", "told"}]
        /\ proxy'[c] = IF call[c].state = "pending" /\ what = "resolved" /\ call[c].op.name \in Makes
                       THEN "waiting" ELSE proxy[c]
        /\ \A d \in Calls \ {c} : proxy'[d] = proxy[d]
    BY <1>6, <2>1
  <2>. QED  BY <1>1, <1>2, <1>3, <1>4, <1>8, <2>2, <2>4, <2>5, <2>6, <2>7, <2>8
<1>. QED  BY <1>7, <1>8

LEMMA DeliverKeeps ==
  ASSUME ServicesInv, Deliver
  PROVE  ServicesInv'
<1>1. /\ Typed /\ ~disposed
      /\ UNCHANGED <<uses, running, object, up, backend, disposed, late>>
  BY DEF ServicesInv, Deliver, storageVars
<1>2. PICK what \in {"closed", "resolved", "rejected"}, c \in Calls :
        /\ Head(down) = <<what, c>> /\ down # <<>>
        /\ down' \in Seq(ToWorker) /\ down' = Tail(down)
        /\ \A x : Contains(down, x) <=> Contains(down', x) \/ x = <<what, c>>
        /\ call' \in [Calls -> CallType] /\ Made' = Made
        /\ \A d \in Calls \ {c} : call'[d] = call[d] /\ proxy'[d] = proxy[d]
        /\ \A d \in Made : call'[d].op = call[d].op
        /\ what = "closed" => /\ call' = call
                              /\ proxy'[c] = IF proxy[c] = "waiting" THEN "told" ELSE proxy[c]
        /\ what # "closed" =>
             /\ call'[c].state = IF call[c].state = "pending" THEN what ELSE call[c].state
             /\ proxy'[c] = IF call[c].state = "pending" /\ what = "resolved" /\ call[c].op.name \in Makes
                            THEN "waiting" ELSE proxy[c]
        /\ proxy' \in [Calls -> {"none", "waiting", "told"}]
  BY <1>1, DeliverTakes
<1>3. CallType' = CallType
  BY <1>1 DEF CallType, Ops
<1>4. Sent(what, c) /\ \A w, d : Sent(w, d) <=> Sent(w, d)' \/ <<w, d>> = <<what, c>>
  BY <1>2 DEF Sent
<1>5. Typed'
  <2>1. running' \subseteq {d \in Made' : call'[d].op.name \notin Stored}
    BY <1>1, <1>2 DEF Typed
  <2>. QED  BY <1>1, <1>2, <1>3, <2>1 DEF Typed
<1>6. call[c].state = "pending" /\ what = "resolved" /\ call[c].op.name \in Makes => object[c].kind # "none"
  <2>. SUFFICES ASSUME call[c].state = "pending", what = "resolved", call[c].op.name \in Makes
                PROVE  object[c].kind # "none"
    OBVIOUS
  <2>1. call[c].op \in Ops
    BY <1>1 DEF Typed, CallType
  <2>2. uses = "kps"
    BY <2>1, OpsType
  <2>. QED  BY <1>1, <1>4, <2>2 DEF ServicesInv, Passage
<1>7. Objects'
  <2>1. ASSUME NEW d \in Calls, object[d].kind = "none" PROVE proxy'[d] = "none"
    BY <1>2, <1>6, <2>1 DEF ServicesInv, Objects
  <2>. QED  BY <1>1, <1>2, <2>1 DEF ServicesInv, Objects
<1>8. Apart'
  BY <1>1 DEF ServicesInv, Apart
<1>9. ASSUME uses = "kps", NEW d \in Calls PROVE Passage(d)' /\ Shared(d)'
  <2>1. Passage(d) /\ Shared(d) /\ (object[d].kind # "none" => d \in Made /\ call[d].op.name \in Makes)
    BY <1>1, <1>9 DEF ServicesInv, Objects
  <2>2. \A w : Sent(w, d)' => Sent(w, d)
    BY <1>4
  <2>3. Requested(d)' <=> Requested(d)
    BY <1>1 DEF Requested
  <2>4. Passage(d)'
    <3>1. d \in Made => call'[d].op = call[d].op
      BY <1>2
    <3>2. Requested(d) \/ d \in running => call'[d].state = call[d].state
      BY <1>2, <1>4, <2>1 DEF Passage
    <3>. QED  BY <1>1, <1>2, <2>1, <2>2, <2>3, <3>1, <3>2 DEF Passage
  <2>5. ASSUME object[d].kind # "none", call'[d].state = "pending"
        PROVE  call[d].state = "pending" /\ (d = c => what = "closed")
    BY <1>2, <2>5
  <2>6. ASSUME object[d].kind # "none", call'[d].state = "pending" PROVE Sent("resolved", d)'
    BY <1>4, <2>1, <2>5, <2>6 DEF Shared
  <2>7. ASSUME object[d].kind # "none", call'[d].state = "pending", ~object[d].early
        PROVE  After(down', <<"resolved", d>>, <<"closed", d>>) /\ Head(down) # <<"closed", d>>
    <3>1. After(down, <<"resolved", d>>, <<"closed", d>>)
      BY <2>1, <2>5, <2>7 DEF Shared
    <3>2. Head(down) # <<"resolved", d>>
      BY <1>2, <2>5, <2>7
    <3>3. down \in Seq(ToWorker)
      BY <1>1 DEF Typed
    <3>. QED  BY <1>2, <3>1, <3>2, <3>3, TailAfter
  <2>8. ASSUME object[d].kind # "none" PROVE call'[d].state \in {"pending", "aborted"} \/ proxy'[d] # "none"
    <3>1. CASE d # c
      BY <1>2, <2>1, <2>8, <3>1 DEF Shared
    <3>2. CASE d = c /\ what = "closed"
      BY <1>2, <2>1, <2>8, <3>2 DEF Shared
    <3>3. CASE d = c /\ what = "resolved"
      BY <1>2, <2>1, <2>8, <3>3 DEF Shared
    <3>4. CASE d = c /\ what = "rejected"
      BY <1>4, <2>1, <2>8, <3>4 DEF Passage
    <3>. QED  BY <3>1, <3>2, <3>3, <3>4
  <2>9. ASSUME object[d].kind # "none", object[d].state = "closed", ~object[d].early,
               call'[d].state = "pending" \/ proxy'[d] = "waiting"
        PROVE  Sent("closed", d)'
    <3>1. CASE call'[d].state = "pending"
      <4>1. call[d].state = "pending" /\ Head(down) # <<"closed", d>>
        BY <2>5, <2>7, <2>9, <3>1
      <4>2. Sent("closed", d)
        BY <2>1, <2>9, <4>1 DEF Shared
      <4>. QED  BY <1>2, <1>4, <4>1, <4>2
    <3>2. CASE proxy'[d] = "waiting"
      <4>1. (call[d].state = "pending" \/ proxy[d] = "waiting") /\ <<"closed", d>> # <<what, c>>
        <5>1. CASE d # c
          BY <1>2, <3>2, <5>1
        <5>2. CASE d = c /\ what = "closed"
          BY <1>2, <3>2, <5>2
        <5>3. CASE d = c /\ what # "closed"
          BY <1>2, <3>2, <5>3
        <5>. QED  BY <5>1, <5>2, <5>3
      <4>2. Sent("closed", d)
        BY <2>1, <2>9, <4>1 DEF Shared
      <4>. QED  BY <1>4, <4>1, <4>2
    <3>. QED  BY <2>9, <3>1, <3>2
  <2>10. Shared(d)'
    BY <1>1, <2>6, <2>7, <2>8, <2>9 DEF Shared
  <2>. QED  BY <2>4, <2>10
<1>10. InOrder(up, Once) => InOrder(up', Once)
  BY <1>1
<1>. QED  BY <1>1, <1>5, <1>7, <1>8, <1>9, <1>10 DEF ServicesInv, Once

-----------------------------------------------------------------------------

(* The host's steps *)

(***************************************************************************)
(* Of the port to the host a step of the host takes what is first, if any. *)
(***************************************************************************)
Takes ==
  /\ up' \in Seq(ToHost)
  /\ \A x : Contains(up', x) => Contains(up, x)
  /\ InOrder(up, Once) => InOrder(up', Once)

LEMMA TakesFirst ==
  ASSUME Typed, up # <<>>, up' = Tail(up)
  PROVE  /\ Takes
         /\ \E what \in {"req", "abort"}, c \in Made :
              /\ Head(up) = <<what, c>> /\ Contains(up, <<what, c>>)
              /\ InOrder(up, Once) /\ what = "req" => ~Contains(up', <<"req", c>>)
<1>1. up \in Seq(ToHost)
  BY DEF Typed
<1>2. Head(up) \in ToHost /\ up' \in Seq(ToHost)
  BY <1>1, HeadTailProperties
<1>3. PICK what \in {"req", "abort"}, c \in Calls : Head(up) = <<what, c>>
  BY <1>2 DEF ToHost
<1>4. /\ \A x : Contains(up, x) <=> Contains(up', x) \/ x = <<what, c>>
      /\ InOrder(up, Once) => /\ InOrder(up', Once)
                              /\ \A x : Contains(up', x) => <<<<what, c>>, x>> \in Once
  <2>1. /\ \A x : Contains(up, x) <=> Contains(Tail(up), x) \/ x = Head(up)
        /\ InOrder(up, Once) => /\ InOrder(Tail(up), Once)
                                /\ \A x : Contains(Tail(up), x) => <<Head(up), x>> \in Once
    BY <1>1, TailContains
  <2>. QED  BY <1>3, <2>1
<1>5. c \in Made
  BY <1>4 DEF Typed
<1>6. ASSUME InOrder(up, Once), what = "req", Contains(up', <<"req", c>>) PROVE FALSE
  <2>1. <<<<what, c>>, <<"req", c>>>> \in Once
    BY <1>4, <1>6
  <2>. QED  BY <1>6, <2>1 DEF Once
<1>. QED  BY <1>2, <1>3, <1>4, <1>5, <1>6 DEF Takes

LEMMA StillTyped ==
  ASSUME Typed, UNCHANGED <<uses, call, proxy, disposed>>, Takes, running' \subseteq running
  PROVE  /\ CallType' = CallType /\ Made' = Made
         /\ object' \in [Calls -> ObjectType] /\ down' \in Seq(ToWorker) /\ late' \subseteq Calls
            /\ backend' \in [state : {"new", "opening", "open", "failed"}, waiting : Seq(Calls)]
              => Typed'
<1>1. CallType' = CallType /\ Made' = Made
  BY DEF CallType, Ops, Made
<1>. QED  BY <1>1 DEF Typed, Takes

(***************************************************************************)
(* What is done for storage makes nothing, and is of storage's requests.   *)
(***************************************************************************)
LEMMA StorageKeeps ==
  ASSUME ServicesInv, uses # "kps", Takes, down' \in Seq(ToWorker),
         UNCHANGED <<uses, call, proxy, object, running, disposed, late>>,
         backend' \in [state : {"new", "opening", "open", "failed"}, waiting : Seq(Calls)]
  PROVE  ServicesInv'
<1>1. Typed'
  BY StillTyped DEF ServicesInv, Typed
<1>2. Objects'
  BY DEF ServicesInv, Objects, Made
<1>3. Apart'
  BY DEF ServicesInv, Apart
<1>. QED  BY <1>1, <1>2, <1>3 DEF ServicesInv

(***************************************************************************)
(* The client takes a request.                                             *)
(***************************************************************************)
LEMMA AcceptKeeps ==
  ASSUME ServicesInv, uses = "kps", Takes, NEW c \in Made, Requested(c), ~Requested(c)',
         disposed => c \in late,
         running' = running \cup {c}, UNCHANGED <<uses, call, proxy, object, down, backend, disposed, late>>
  PROVE  ServicesInv'
<1>1. CallType' = CallType /\ Made' = Made /\ c \in Calls
  BY DEF CallType, Ops, Made
<1>2. Typed'
  <2>1. call[c].op.name \notin Stored
    <3>1. call[c].op \in Ops
      BY <1>1 DEF ServicesInv, Typed, CallType, Made
    <3>. QED  BY <3>1, OpsType
  <2>. QED  BY <1>1, <2>1 DEF ServicesInv, Typed, Takes
<1>3. Objects'
  BY <1>1 DEF ServicesInv, Objects
<1>4. Apart'
  BY DEF ServicesInv, Apart
<1>5. ASSUME ~disposed, NEW d \in Calls PROVE Passage(d)' /\ Shared(d)'
  <2>1. Passage(d) /\ Shared(d) /\ (Requested(d)' => Requested(d)) /\ \A what : Sent(what, d)' <=> Sent(what, d)
    BY <1>5 DEF ServicesInv, Takes, Requested, Sent
  <2>. QED  BY <1>1, <2>1 DEF Passage, Shared
<1>6. ~disposed => InOrder(up', Once)
  BY DEF ServicesInv, Takes
<1>. QED  BY <1>2, <1>3, <1>4, <1>5, <1>6 DEF ServicesInv, Once

(***************************************************************************)
(* A request that has made nothing, and will not, is refused; or nothing   *)
(* happens.                                                                *)
(***************************************************************************)
LEMMA RefuseKeeps ==
  ASSUME ServicesInv, uses = "kps", Takes, NEW c \in Made,
         UNCHANGED <<uses, call, proxy, object, backend, disposed, late>>,
         running' = running \ {c},
         \/ UNCHANGED down
         \/ /\ Reply("rejected", <<c>>)
            /\ ~disposed => object[c].kind = "none" /\ ~Requested(c)'
  PROVE  ServicesInv'
<1>1. CallType' = CallType /\ Made' = Made /\ c \in Calls
  BY DEF CallType, Ops, Made
<1>2. down' \in Seq(ToWorker)
  BY <1>1, ReplyPosts DEF ServicesInv, Typed
<1>3. Typed'
  BY <1>2, StillTyped DEF ServicesInv, Typed
<1>4. Objects'
  BY <1>1 DEF ServicesInv, Objects
<1>5. Apart'
  BY DEF ServicesInv, Apart
<1>6. ASSUME ~disposed, NEW d \in Calls PROVE Passage(d)' /\ Shared(d)'
  <2>1. Passage(d) /\ Shared(d) /\ (Requested(d)' => Requested(d))
    BY <1>6 DEF ServicesInv, Takes, Requested
  <2>2. CASE UNCHANGED down
    BY <1>1, <2>1, <2>2 DEF Passage, Shared, Sent
  <2>3. CASE Reply("rejected", <<c>>) /\ object[c].kind = "none" /\ ~Requested(c)'
    <3>1. /\ Posts(<<<<"rejected", c>>>>)
          /\ \A x : Contains(<<<<"rejected", c>>>>, x) <=> x = <<"rejected", c>>
      BY <1>1, <1>6, <2>3, ReplyPosts DEF ServicesInv
    <3>2. /\ \A what : Sent(what, d)' <=> Sent(what, d) \/ (what = "rejected" /\ d = c)
          /\ \A x, y : After(down, x, y) /\ y # <<"rejected", c>> => After(down', x, y)
      <4>1. \A what : <<what, d>> = <<"rejected", c>> <=> what = "rejected" /\ d = c
        OBVIOUS
      <4>2. \A what : Sent(what, d)' <=> Sent(what, d) \/ <<what, d>> = <<"rejected", c>>
        BY <3>1 DEF Posts
      <4>3. \A x, y : After(down, x, y) /\ y # <<"rejected", c>> => After(down', x, y)
        BY <3>1 DEF Posts
      <4>. QED  BY <4>1, <4>2, <4>3
    <3>3. Passage(d)'
      BY <1>1, <2>1, <2>3, <3>2 DEF Passage
    <3>4. Shared(d)'
      BY <1>1, <2>1, <3>2 DEF Shared
    <3>. QED  BY <3>3, <3>4
  <2>. QED  BY <1>6, <2>2, <2>3
<1>7. InOrder(up, Once) => InOrder(up', Once)
  BY DEF Takes
<1>. QED  BY <1>3, <1>4, <1>5, <1>6, <1>7 DEF ServicesInv, Once

LEMMA HandleKeeps ==
  ASSUME ServicesInv, Left, Handle
  PROVE  ServicesInv'
<1>1. /\ Typed /\ up # <<>> /\ up' = Tail(up)
      /\ UNCHANGED <<uses, call, proxy, object, disposed, late>>
  BY DEF ServicesInv, Handle, workerVars
<1>2. Takes
  BY <1>1, TakesFirst
<1>3. PICK what \in {"req", "abort"}, c \in Made :
        /\ Head(up) = <<what, c>> /\ Contains(up, <<what, c>>)
        /\ InOrder(up, Once) /\ what = "req" => ~Contains(up', <<"req", c>>)
  BY <1>1, TakesFirst
<1>4. Head(up)[1] = what /\ Head(up)[2] = c /\ c \in Calls
  BY <1>3 DEF Made
<1>5. call[c].op \in Ops
  BY <1>1, <1>3 DEF Typed, CallType, Made
<1>6. CASE what = "abort"
  <2>1. HandleAbort(c)
    BY <1>4, <1>6 DEF Handle
  <2>2. UNCHANGED backend /\ running' = running \ {c}
    BY <2>1 DEF HandleAbort, storageVars
  <2>3. CASE uses = "kps" /\ c \in running
    <3>1. Reply("rejected", <<c>>)
      BY <2>1, <2>3 DEF HandleAbort
    <3>2. ~disposed => object[c].kind = "none" /\ ~Requested(c)
      BY <1>1, <1>4, <2>3 DEF ServicesInv, Passage
    <3>3. ~disposed => ~Requested(c)'
      BY <1>2, <3>2 DEF Takes, Requested
    <3>. QED  BY <1>1, <1>2, <1>3, <2>2, <2>3, <3>1, <3>2, <3>3, RefuseKeeps
  <2>4. CASE uses = "kps" /\ c \notin running
    <3>1. UNCHANGED down
      BY <2>1, <2>4 DEF HandleAbort
    <3>. QED  BY <1>1, <1>2, <1>3, <2>2, <2>4, <3>1, RefuseKeeps
  <2>5. CASE uses # "kps"
    <3>1. running = {}
      BY <2>5 DEF ServicesInv, Apart
    <3>2. UNCHANGED <<down, running>>
      BY <2>1, <2>2, <3>1 DEF HandleAbort
    <3>. QED  BY <1>1, <1>2, <2>2, <2>5, <3>2, StorageKeeps DEF Typed
  <2>. QED  BY <2>3, <2>4, <2>5
<1>7. CASE what = "req" /\ uses # "kps"
  <2>1. HandleStorage(c)
    BY <1>4, <1>5, <1>7, OpsType DEF Handle
  <2>2. UNCHANGED running
    BY <2>1 DEF HandleStorage
  <2>3. backend.state \in {"new", "opening", "open", "failed"} /\ backend.waiting \in Seq(Calls)
    BY <1>1 DEF Typed
  <2>4. CASE backend.state \in {"new", "opening"}
    <3>1. UNCHANGED down /\ backend' = [state |-> "opening", waiting |-> Append(backend.waiting, c)]
      BY <2>1, <2>4 DEF HandleStorage
    <3>2. Append(backend.waiting, c) \in Seq(Calls)
      BY <1>4, <2>3, AppendProperties
    <3>3. down' \in Seq(ToWorker)
      BY <1>1, <3>1 DEF Typed
    <3>4. backend' \in [state : {"new", "opening", "open", "failed"}, waiting : Seq(Calls)]
      BY <3>1, <3>2
    <3>. QED  BY <1>1, <1>2, <1>7, <2>2, <3>3, <3>4, StorageKeeps
  <2>5. CASE backend.state = "open"
    <3>1. Reply("resolved", <<c>>) /\ UNCHANGED backend
      BY <2>1, <2>5 DEF HandleStorage, StoresAll
    <3>2. down' \in Seq(ToWorker)
      BY <1>1, <1>4, <3>1, ReplyPosts
    <3>. QED  BY <1>1, <1>2, <1>7, <2>2, <3>1, <3>2, StorageKeeps DEF Typed
  <2>6. CASE backend.state = "failed"
    <3>1. Reply("rejected", <<c>>) /\ UNCHANGED backend
      BY <2>1, <2>6 DEF HandleStorage, storageVars
    <3>2. down' \in Seq(ToWorker)
      BY <1>1, <1>4, <3>1, ReplyPosts
    <3>. QED  BY <1>1, <1>2, <1>7, <2>2, <3>1, <3>2, StorageKeeps DEF Typed
  <2>. QED  BY <2>3, <2>4, <2>5, <2>6
<1>8. CASE what = "req" /\ uses = "kps"
  <2>1. HandleKps(c)
    BY <1>4, <1>5, <1>8, OpsType DEF Handle
  <2>2. Requested(c) /\ ~Requested(c)' /\ c \notin running /\ object[c].kind = "none"
    <3>1. Requested(c)
      BY <1>3, <1>8 DEF Requested
    <3>2. CASE ~disposed
      BY <1>1, <1>3, <1>4, <1>8, <3>1, <3>2 DEF ServicesInv, Passage, Requested
    <3>3. CASE disposed
      BY <1>1, <1>3, <1>4, <1>8, <3>1, <3>3 DEF Left, LeftOver, Requested
    <3>. QED  BY <3>2, <3>3
  <2>3. UNCHANGED backend
    BY <2>1 DEF HandleKps, storageVars
  <2>4. CASE Known(call[c].op)
    <3>1. running' = running \cup {c} /\ UNCHANGED down
      BY <2>1, <2>4 DEF HandleKps
    <3>2. disposed => c \in late
      <4>1. call[c].op.name \notin OnConn \cup OnStream => call[c].op.name \in {"dial", "openStream"}
        BY <1>5, <1>8 DEF Ops, OnConn, OnStream
      <4>2. ASSUME disposed, call[c].op.name \in OnConn \cup OnStream PROVE FALSE
        <5>1. object[call[c].op.on].kept /\ call[c].op.on \in Calls
          BY <1>5, <2>4, <4>2, OpsType DEF Known
        <5>2. object[call[c].op.on].state = "open"
          BY <5>1 DEF ServicesInv, Objects
        <5>3. object[call[c].op.on].state = "closed"
          BY <1>4, <1>8, <2>2, <4>2 DEF Left, LeftOver
        <5>. QED  BY <5>2, <5>3
      <4>. QED  BY <1>4, <1>8, <2>2, <4>1, <4>2 DEF Left, LeftOver
    <3>. QED  BY <1>1, <1>2, <1>3, <1>8, <2>2, <2>3, <3>1, <3>2, AcceptKeeps
  <2>5. CASE ~Known(call[c].op)
    <3>1. Reply("rejected", <<c>>) /\ running' = running \ {c}
      BY <2>1, <2>2, <2>5 DEF HandleKps
    <3>. QED  BY <1>1, <1>2, <1>3, <1>8, <2>2, <2>3, <3>1, RefuseKeeps
  <2>. QED  BY <2>4, <2>5
<1>. QED  BY <1>6, <1>7, <1>8

(***************************************************************************)
(* The database opens, or does not.                                        *)
(***************************************************************************)
LEMMA OpenKeeps ==
  ASSUME ServicesInv, Opened \/ OpenFails
  PROVE  ServicesInv'
<1>1. /\ Typed /\ backend.state = "opening"
      /\ UNCHANGED <<uses, call, proxy, running, object, up, disposed, late>>
  BY DEF ServicesInv, Opened, OpenFails, workerVars
<1>2. uses # "kps"
  BY <1>1 DEF ServicesInv, Apart
<1>3. Takes
  BY <1>1 DEF Takes, Typed
<1>4. backend.waiting \in Seq(Calls)
  BY <1>1 DEF Typed
<1>5. Reply("resolved", backend.waiting) \/ Reply("rejected", backend.waiting)
  BY DEF Opened, OpenFails, StoresAll
<1>6. down' \in Seq(ToWorker)
  BY <1>1, <1>4, <1>5, ReplyType
<1>7. backend' \in [state : {"new", "opening", "open", "failed"}, waiting : Seq(Calls)]
  <2>1. \E state \in {"open", "failed"} : backend' = [state |-> state, waiting |-> <<>>]
    BY DEF Opened, OpenFails
  <2>2. <<>> \in Seq(Calls)
    OBVIOUS
  <2>. QED  BY <2>1, <2>2
<1>. QED  BY <1>1, <1>2, <1>3, <1>6, <1>7, StorageKeeps

-----------------------------------------------------------------------------

(* The KPS client's steps *)

LEMMA FailsKeeps ==
  ASSUME ServicesInv, NEW c \in Calls, Fails(c)
  PROVE  ServicesInv'
<1>1. /\ c \in running /\ running' = running \ {c} /\ Reply("rejected", <<c>>)
      /\ UNCHANGED <<uses, call, proxy, up, backend, disposed, late, object>>
  BY DEF Fails, Settles, workerVars, storageVars
<1>2. c \in Made /\ uses = "kps" /\ Typed
  BY <1>1 DEF ServicesInv, Typed, Apart
<1>3. Takes
  BY <1>1, <1>2 DEF Takes, Typed
<1>4. ~disposed => object[c].kind = "none" /\ ~Requested(c)'
  BY <1>1, <1>2 DEF ServicesInv, Passage, Requested
<1>. QED  BY <1>1, <1>2, <1>3, <1>4, RefuseKeeps

(***************************************************************************)
(* A connection or a stream is made.                                       *)
(***************************************************************************)
Answer(c, closed) == (IF closed THEN <<<<"closed", c>>>> ELSE <<>>) \o <<<<"resolved", c>>>>

LEMMA AnswerContains ==
  ASSUME NEW c \in Calls, NEW closed \in BOOLEAN
  PROVE  /\ Answer(c, closed) \in Seq(ToWorker)
         /\ \A x : Contains(Answer(c, closed), x) <=> x = <<"resolved", c>> \/ (closed /\ x = <<"closed", c>>)
<1>1. <<<<"closed", c>>>> \in Seq(ToWorker) /\ <<<<"resolved", c>>>> \in Seq(ToWorker) /\ <<>> \in Seq(ToWorker)
  BY DEF ToWorker
<1>2. \A x : /\ Contains(<<<<"closed", c>>>>, x) <=> x = <<"closed", c>>
             /\ Contains(<<<<"resolved", c>>>>, x) <=> x = <<"resolved", c>>
             /\ ~Contains(<<>>, x)
  BY DEF Contains
<1>3. CASE closed
  <2>1. Answer(c, closed) = <<<<"closed", c>>>> \o <<<<"resolved", c>>>>
    BY <1>3 DEF Answer
  <2>2. ASSUME NEW first, NEW second, first = <<<<"closed", c>>>>, second = <<<<"resolved", c>>>>
        PROVE  /\ first \o second \in Seq(ToWorker)
               /\ \A x : Contains(first \o second, x) <=> Contains(first, x) \/ Contains(second, x)
    <3>1. first \in Seq(ToWorker) /\ second \in Seq(ToWorker)
      BY <1>1, <2>2
    <3>. HIDE <2>2
    <3>. QED  BY <3>1, ConcatContains
  <2>3. /\ Answer(c, closed) \in Seq(ToWorker)
        /\ \A x : Contains(Answer(c, closed), x)
                    <=> Contains(<<<<"closed", c>>>>, x) \/ Contains(<<<<"resolved", c>>>>, x)
    BY <2>1, <2>2
  <2>. QED  BY <1>2, <1>3, <2>3
<1>4. CASE ~closed
  <2>1. Answer(c, closed) = <<>> \o <<<<"resolved", c>>>>
    BY <1>4 DEF Answer
  <2>. QED  BY <1>1, <1>2, <1>4, <2>1, ConcatContains
<1>. QED  BY <1>3, <1>4

LEMMA EstablishedKeeps ==
  ASSUME ServicesInv, NEW c \in Calls, NEW closed \in BOOLEAN, Established(c, closed)
  PROVE  ServicesInv'
<1>. DEFINE parent == IF call[c].op.name = "acceptStream" THEN call[c].op.on ELSE None
            made == [kind |-> IF call[c].op.name = "dial" THEN "conn" ELSE "stream", parent |-> parent,
                     state |-> IF closed THEN "closed" ELSE "open", kept |-> ~closed, early |-> closed]
<1>1. /\ c \in running /\ call[c].op.name \in Makes /\ running' = running \ {c}
      /\ UNCHANGED <<uses, call, proxy, up, backend, disposed, late>>
      /\ object' = [object EXCEPT ![c] = made] /\ Post(Answer(c, closed))
  BY DEF Established, Settles, workerVars, storageVars, Answer
<1>2. c \in Made /\ uses = "kps" /\ Typed
  BY <1>1 DEF ServicesInv, Typed, Apart
<1>3. call[c].op \in Ops
  BY <1>2 DEF Typed, CallType, Made
<1>4. made \in ObjectType
  <2>1. parent \in Calls \cup {None}
    BY <1>3, OpsType DEF OnConn
  <2>. QED  BY <2>1 DEF ObjectType
<1>5. made.kind # "none" /\ made.state = (IF closed THEN "closed" ELSE "open") /\ made.kept = ~closed
      /\ made.early = closed
  OBVIOUS
<1>. HIDE DEF made
<1>6. /\ object' \in [Calls -> ObjectType] /\ object'[c] = made
      /\ \A d \in Calls \ {c} : object'[d] = object[d]
  BY <1>1, <1>2, <1>4 DEF Typed
<1>7. /\ Answer(c, closed) \in Seq(ToWorker)
      /\ \A x : Contains(Answer(c, closed), x) <=> x = <<"resolved", c>> \/ (closed /\ x = <<"closed", c>>)
  BY AnswerContains
<1>8. down' \in Seq(ToWorker) /\ (~disposed => Posts(Answer(c, closed)))
  BY <1>1, <1>2, <1>7, PostPosts
<1>9. Takes
  BY <1>1, <1>2 DEF Takes, Typed
<1>10. Made' = Made
  BY <1>1, <1>2, <1>9, StillTyped
<1>11. Typed'
  BY <1>1, <1>2, <1>6, <1>8, <1>9, StillTyped DEF Typed
<1>12. Objects'
  <2>1. ASSUME NEW d \in Calls, d # c
        PROVE  LET o == object'[d] IN
          /\ o.kind = "none" => o.state = "none" /\ ~o.kept /\ proxy'[d] = "none"
          /\ o.kind # "none" => o.state # "none" /\ d \in Made' /\ call'[d].op.name \in Makes
          /\ o.kept <=> o.state = "open"
          /\ o.state = "open" => ~o.early
          /\ disposed' => (o.state = "open" \/ d \in running' => d \in late')
    BY <1>1, <1>6, <1>10, <2>1 DEF ServicesInv, Objects
  <2>2. disposed => c \in late
    BY <1>1 DEF ServicesInv, Objects
  <2>. QED  BY <1>1, <1>2, <1>5, <1>6, <1>10, <2>1, <2>2 DEF Objects
<1>13. Apart'
  BY <1>1, <1>2 DEF ServicesInv, Apart
<1>14. ASSUME ~disposed, NEW d \in Calls PROVE Passage(d)' /\ Shared(d)'
  <2>1. Passage(d) /\ Shared(d) /\ Passage(c) /\ Shared(c)
    BY <1>2, <1>14 DEF ServicesInv
  <2>2. /\ \A what, e : Sent(what, e)' <=> \/ Sent(what, e)
                                           \/ <<what, e>> = <<"resolved", c>>
                                           \/ closed /\ <<what, e>> = <<"closed", c>>
        /\ \A x, y : After(down, x, y) /\ y # <<"resolved", c>> /\ (closed => y # <<"closed", c>>)
                        => After(down', x, y)
    BY <1>7, <1>8, <1>14 DEF Posts
  <2>3. (Requested(d)' <=> Requested(d)) /\ (c \in running /\ c \notin running')
    BY <1>1 DEF Requested
  <2>4. CASE d # c
    <3>1. \A what : Sent(what, d)' <=> Sent(what, d)
      BY <2>2, <2>4
    <3>2. After(down, <<"resolved", d>>, <<"closed", d>>) => After(down', <<"resolved", d>>, <<"closed", d>>)
      BY <2>2, <2>4
    <3>3. Passage(d)'
      BY <1>1, <1>6, <1>10, <2>1, <2>3, <2>4, <3>1 DEF Passage
    <3>4. Shared(d)'
      BY <1>1, <1>6, <2>1, <2>4, <3>1, <3>2 DEF Shared
    <3>. QED  BY <3>3, <3>4
  <2>5. CASE d = c
    <3>1. /\ object[c].kind = "none" /\ ~Sent("rejected", c) /\ ~Sent("closed", c) /\ ~Requested(c)
          /\ call[c].state \in {"pending", "aborted"}
      BY <1>1, <2>1 DEF Passage
    <3>2. Sent("resolved", c)' /\ ~Sent("rejected", c)' /\ (Sent("closed", c)' => closed)
      BY <2>2, <3>1
    <3>3. ~closed => After(down', <<"resolved", c>>, <<"closed", c>>)
      BY <3>2 DEF After, Sent, Contains
    <3>4. Passage(c)'
      BY <1>1, <1>2, <1>5, <1>6, <1>10, <2>3, <2>5, <3>1, <3>2 DEF Passage
    <3>5. Shared(c)'
      BY <1>1, <1>5, <1>6, <3>1, <3>2, <3>3 DEF Shared
    <3>. QED  BY <2>5, <3>4, <3>5
  <2>. QED  BY <2>4, <2>5
<1>15. InOrder(up, Once) => InOrder(up', Once)
  BY <1>1
<1>. QED  BY <1>11, <1>12, <1>13, <1>14, <1>15, <1>1 DEF ServicesInv, Once

(***************************************************************************)
(* What closes is closed, and in no registry; the rest is as it was.       *)
(***************************************************************************)
LEMMA ShutIs ==
  ASSUME Typed, NEW gone, object' = Shut(gone)
  PROVE  /\ object' \in [Calls -> ObjectType]
         /\ \A d \in Calls : /\ object'[d].kind = object[d].kind /\ object'[d].early = object[d].early
                             /\ object'[d].state = IF d \in gone THEN "closed" ELSE object[d].state
                             /\ object'[d].kept = (d \notin gone /\ object[d].kept)
<1>1. \A d \in Calls : object[d] \in ObjectType
  BY DEF Typed
<1>2. \A d \in Calls : object'[d] = IF d \in gone THEN [object[d] EXCEPT !.state = "closed", !.kept = FALSE]
                                    ELSE object[d]
  BY DEF Shut
<1>3. \A d \in Calls : object'[d] \in ObjectType
  <2>1. ASSUME NEW o \in ObjectType PROVE [o EXCEPT !.state = "closed", !.kept = FALSE] \in ObjectType
    BY DEF ObjectType
  <2>. QED  BY <1>1, <1>2, <2>1
<1>4. object' = [x \in Calls |-> object'[x]]
  BY DEF Shut
<1>5. \A d \in Calls : object'[d].kind = object[d].kind /\ object'[d].early = object[d].early
  BY <1>1, <1>2, ZenonT(60) DEF ObjectType
<1>6. \A d \in Calls : /\ object'[d].state = IF d \in gone THEN "closed" ELSE object[d].state
                       /\ object'[d].kept = (d \notin gone /\ object[d].kept)
  BY <1>1, <1>2 DEF ObjectType
<1>. QED  BY <1>3, <1>4, <1>5, <1>6

(***************************************************************************)
(* What is open closes: its events are posted, and behind them the answers *)
(* to requests that make nothing.                                          *)
(***************************************************************************)
LEMMA ShutKeeps ==
  ASSUME ServicesInv, NEW gone \in SUBSET {x \in Calls : object[x].state = "open"}, object' = Shut(gone),
         NEW done \in SUBSET running, running' = running \ done,
         \A c \in done : call[c].op.name \notin Makes,
         UNCHANGED <<uses, call, proxy, up, backend, disposed, late>>,
         NEW more \in Seq(ToWorker), Post(more),
         \A x : Contains(more, x) <=> \/ \E y \in gone : x = <<"closed", y>>
                                      \/ \E y \in done : x = <<"resolved", y>>
  PROVE  ServicesInv'
<1>1. Typed /\ running \subseteq Made
  BY DEF ServicesInv, Typed
<1>2. /\ object' \in [Calls -> ObjectType]
      /\ \A d \in Calls : /\ object'[d].kind = object[d].kind /\ object'[d].early = object[d].early
                          /\ object'[d].state = IF d \in gone THEN "closed" ELSE object[d].state
                          /\ object'[d].kept = (d \notin gone /\ object[d].kept)
  BY <1>1, ShutIs
<1>3. Takes
  BY <1>1 DEF Takes, Typed
<1>4. down' \in Seq(ToWorker) /\ (~disposed => Posts(more))
  BY <1>1, PostPosts
<1>5. Made' = Made
  BY <1>1, <1>3, StillTyped
<1>6. Typed'
  BY <1>1, <1>2, <1>3, <1>4, StillTyped DEF Typed
<1>7. Objects'
  <2>. SUFFICES ASSUME NEW d \in Calls
                PROVE  LET o == object'[d] IN
                  /\ o.kind = "none" => o.state = "none" /\ ~o.kept /\ proxy'[d] = "none"
                  /\ o.kind # "none" => o.state # "none" /\ d \in Made' /\ call'[d].op.name \in Makes
                  /\ o.kept <=> o.state = "open"
                  /\ o.state = "open" => ~o.early
                  /\ disposed' => (o.state = "open" \/ d \in running' => d \in late')
    BY DEF Objects
  <2>1. LET o == object[d] IN
          /\ o.kind = "none" => o.state = "none" /\ ~o.kept /\ proxy[d] = "none"
          /\ o.kind # "none" => o.state # "none" /\ d \in Made /\ call[d].op.name \in Makes
          /\ o.kept <=> o.state = "open"
          /\ o.state = "open" => ~o.early
          /\ disposed => (o.state = "open" \/ d \in running => d \in late)
    BY DEF ServicesInv, Objects
  <2>2. d \in gone => object[d].state = "open"
    OBVIOUS
  <2>. QED  BY <1>2, <1>5, <2>1, <2>2
<1>8. Apart'
  BY DEF ServicesInv, Apart
<1>9. ASSUME ~disposed, uses = "kps", NEW d \in Calls PROVE Passage(d)' /\ Shared(d)'
  <2>1. Passage(d) /\ Shared(d)
    BY <1>9 DEF ServicesInv
  <2>2. /\ Sent("closed", d)' <=> Sent("closed", d) \/ d \in gone
        /\ Sent("resolved", d)' <=> Sent("resolved", d) \/ d \in done
        /\ Sent("rejected", d)' <=> Sent("rejected", d)
        /\ \A x, y : After(down, x, y) /\ (Contains(down, x) \/ ~Contains(more, y)) => After(down', x, y)
    <3>1. /\ \A what, x : Sent(what, x)' <=> Sent(what, x) \/ Contains(more, <<what, x>>)
          /\ \A x, y : After(down, x, y) /\ (Contains(down, x) \/ ~Contains(more, y)) => After(down', x, y)
      BY <1>4, <1>9 DEF Posts
    <3>2. /\ Contains(more, <<"closed", d>>) <=> d \in gone
          /\ Contains(more, <<"resolved", d>>) <=> d \in done
          /\ ~Contains(more, <<"rejected", d>>)
      OBVIOUS
    <3>. QED  BY <3>1, <3>2
  <2>3. Requested(d)' <=> Requested(d)
    BY DEF Requested
  <2>4. /\ object[d].state = "open" => object[d].kind # "none" /\ ~object[d].early
        /\ object[d].kind # "none" => call[d].op.name \in Makes
    BY DEF ServicesInv, Objects
  <2>5. d \in gone => object[d].state = "open"
    OBVIOUS
  <2>6. d \in done => d \in running /\ d \notin running' /\ d \in Made /\ call[d].op.name \notin Makes
    BY <1>1
  <2>7. Passage(d)'
    BY <1>2, <1>5, <2>1, <2>2, <2>3, <2>4, <2>5, <2>6 DEF Passage
  <2>8. object[d].kind # "none" /\ call[d].state = "pending" /\ ~object[d].early
          => After(down', <<"resolved", d>>, <<"closed", d>>)
    BY <2>1, <2>2 DEF Shared, Sent
  <2>9. Shared(d)'
    BY <1>2, <2>1, <2>2, <2>4, <2>5, <2>8 DEF Shared
  <2>. QED  BY <2>7, <2>9
<1>10. InOrder(up, Once) => InOrder(up', Once)
  OBVIOUS
<1>. QED  BY <1>6, <1>7, <1>8, <1>9, <1>10 DEF ServicesInv, Once

LEMMA ClosingEvents ==
  ASSUME ServicesInv, NEW gone \in SUBSET {x \in Calls : object[x].state = "open"}
  PROVE  /\ ClosedEvents(gone) \in Seq(ToWorker)
         /\ \A x : Contains(ClosedEvents(gone), x) <=> \E y \in gone : x = <<"closed", y>>
<1>1. gone \in SUBSET Calls /\ \A y \in gone : object[y].kept
  BY DEF ServicesInv, Objects
<1>. QED  BY <1>1, EventsOfClosing

LEMMA ActsKeeps ==
  ASSUME ServicesInv, NEW c \in Calls, ActsOn(c)
  PROVE  ServicesInv'
<1>1. c \in running /\ call[c].op.name \notin Makes
  BY DEF ActsOn, Makes
<1>2. PICK gone \in {{}, Closing(call[c].op.on)} : Acts(c, gone)
  BY DEF ActsOn
<1>3. gone \in SUBSET {x \in Calls : object[x].state = "open"}
  BY DEF Closing
<1>4. /\ object' = Shut(gone) /\ running' = running \ {c}
      /\ Post(Append(ClosedEvents(gone), <<"resolved", c>>))
      /\ UNCHANGED <<uses, call, proxy, up, backend, disposed, late>>
  BY <1>2 DEF Acts, Settles, workerVars, storageVars
<1>5. /\ ClosedEvents(gone) \in Seq(ToWorker)
      /\ \A x : Contains(ClosedEvents(gone), x) <=> \E y \in gone : x = <<"closed", y>>
  BY <1>3, ClosingEvents
<1>6. <<"resolved", c>> \in ToWorker
  BY DEF ToWorker
<1>7. /\ Append(ClosedEvents(gone), <<"resolved", c>>) \in Seq(ToWorker)
      /\ \A x : Contains(Append(ClosedEvents(gone), <<"resolved", c>>), x)
                  <=> Contains(ClosedEvents(gone), x) \/ x = <<"resolved", c>>
  BY <1>5, <1>6, AppendProperties, AppendContains
<1>8. \A x : Contains(Append(ClosedEvents(gone), <<"resolved", c>>), x)
               <=> (\E y \in gone : x = <<"closed", y>>) \/ (\E y \in {c} : x = <<"resolved", y>>)
  BY <1>5, <1>7
<1>. QED  BY <1>1, <1>3, <1>4, <1>7, <1>8, ShutKeeps

LEMMA ClosesKeeps ==
  ASSUME ServicesInv, NEW c \in Calls, ClosesItself(c)
  PROVE  ServicesInv'
<1>1. /\ object' = Shut(Closing(c)) /\ running' = running \ {} /\ Post(ClosedEvents(Closing(c)))
      /\ UNCHANGED <<uses, call, proxy, up, backend, disposed, late>>
  BY DEF ClosesItself, workerVars, storageVars
<1>2. Closing(c) \in SUBSET {x \in Calls : object[x].state = "open"}
  BY DEF Closing
<1>3. /\ ClosedEvents(Closing(c)) \in Seq(ToWorker)
      /\ \A x : Contains(ClosedEvents(Closing(c)), x) <=> \E y \in Closing(c) : x = <<"closed", y>>
  BY <1>2, ClosingEvents
<1>4. \A x : Contains(ClosedEvents(Closing(c)), x)
               <=> (\E y \in Closing(c) : x = <<"closed", y>>) \/ (\E y \in {} : x = <<"resolved", y>>)
  BY <1>3
<1>5. {} \in SUBSET running /\ \A y \in {} : call[y].op.name \notin Makes
  OBVIOUS
<1>. QED  BY <1>1, <1>2, <1>3, <1>4, <1>5, ShutKeeps

(***************************************************************************)
(* The end of the worker: what is open is in a registry, and is closed.    *)
(***************************************************************************)
LEMMA DisposeKeeps ==
  ASSUME ServicesInv, Dispose
  PROVE  ServicesInv'
<1>. DEFINE gone == UNION {Closing(o) : o \in {x \in Calls : object[x].kept}}
<1>1. /\ disposed' = TRUE /\ late' = running \cup Posted /\ object' = Shut(gone) /\ down' = <<>>
      /\ UNCHANGED <<uses, call, proxy, running, up, backend>>
  BY DEF Dispose, workerVars, storageVars
<1>2. \A d \in Calls : d \in gone <=> object[d].state = "open"
  BY DEF ServicesInv, Objects, Closing
<1>. HIDE DEF gone
<1>3. Typed
  BY DEF ServicesInv
<1>6. /\ object' \in [Calls -> ObjectType]
      /\ \A d \in Calls : /\ object'[d].kind = object[d].kind /\ object'[d].early = object[d].early
                          /\ object'[d].state = IF d \in gone THEN "closed" ELSE object[d].state
                          /\ object'[d].kept = (d \notin gone /\ object[d].kept)
  BY <1>1, <1>3, ShutIs
<1>8. CallType' = CallType /\ Made' = Made
  BY <1>1 DEF CallType, Ops, Made
<1>9. Typed'
  <2>1. down' \in Seq(ToWorker) /\ late' \subseteq Calls /\ disposed' \in BOOLEAN
    BY <1>1, <1>3 DEF Typed, Posted, Made
  <2>2. /\ up' \in Seq(ToHost)
        /\ \A c \in Calls, what \in {"req", "abort"} : Contains(up, <<what, c>>)' => c \in Made'
    BY <1>1, <1>3, <1>8 DEF Typed
  <2>3. /\ uses' \in Services /\ call' \in [Calls -> CallType]'
        /\ proxy' \in [Calls -> {"none", "waiting", "told"}]
        /\ backend' \in [state : {"new", "opening", "open", "failed"}, waiting : Seq(Calls)]
    BY <1>1, <1>3, <1>8 DEF Typed
  <2>4. running' \subseteq {d \in Made' : call'[d].op.name \notin Stored}
    BY <1>1, <1>3, <1>8 DEF Typed
  <2>. QED  BY <1>6, <2>1, <2>2, <2>3, <2>4 DEF Typed
<1>10. Objects'
  <2>1. \A d \in Calls : object'[d].state # "open"
    BY <1>2, <1>6
  <2>. QED  BY <1>1, <1>2, <1>6, <1>8, <2>1, ZenonT(60) DEF ServicesInv, Objects
<1>11. Apart'
  BY <1>1 DEF ServicesInv, Apart
<1>. QED  BY <1>1, <1>9, <1>10, <1>11 DEF ServicesInv

-----------------------------------------------------------------------------

(* What is left over when the worker is gone *)

(***************************************************************************)
(* A step of the host or of the client takes requests up, and makes things *)
(* for those it took.                                                      *)
(***************************************************************************)
LEMMA LeftStays ==
  ASSUME ServicesInv, Left, uses = "kps", UNCHANGED <<uses, call, disposed, late>>, Takes,
         \A d \in Calls : object[d].kind # "none" => object'[d].kind # "none",
         ASSUME disposed, NEW d \in Calls
         PROVE  /\ Requested(d)' \/ d \in running' =>
                     (Requested(d) \/ d \in running) /\ object'[d].kind = object[d].kind
                /\ Requested(d)' => d \notin running'
                /\ object[d].state = "closed" => object'[d].state = "closed"
  PROVE  Left'
<1>1. Made' = Made /\ Ops' = Ops
  BY DEF Made, Ops
<1>2. \A c \in Made : c \in Calls /\ call[c].op \in Ops
  BY DEF ServicesInv, Typed, CallType, Made
<1>3. ASSUME NEW c \in Made', call'[c].op.name \in OnConn \cup OnStream
      PROVE  object'[call'[c].op.on].kind # "none"
  BY <1>1, <1>2, <1>3, OpsType DEF Left
<1>4. ASSUME disposed, NEW c \in Calls PROVE LeftOver(c)'
  <2>1. LeftOver(c) /\ (Requested(c)' => Requested(c))
    BY <1>4 DEF Left, Takes, Requested
  <2>2. Requested(c)' => c \in Made
    BY <2>1 DEF ServicesInv, Typed, Requested
  <2>3. Requested(c)' /\ call[c].op.name \in OnConn \cup OnStream => object'[call[c].op.on].state = "closed"
    BY <1>2, <1>4, <2>1, <2>2, OpsType DEF LeftOver
  <2>. QED  BY <1>4, <2>1, <2>3 DEF LeftOver
<1>5. disposed => InOrder(up', Once)
  BY DEF Left, Takes
<1>. QED  BY <1>3, <1>4, <1>5 DEF Left, Once

LEMMA UsesStays == [Next]_vars => uses' = uses
<1>. SUFFICES ASSUME [Next]_vars PROVE uses' = uses
  OBVIOUS
<1>1. ASSUME NEW c \in Calls, NEW op \in Ops, Ask(c, op) PROVE uses' = uses
  BY <1>1 DEF Ask
<1>2. ASSUME NEW c \in Calls, Abort(c) \/ Fails(c) \/ ActsOn(c) \/ ClosesItself(c) PROVE uses' = uses
  BY <1>2 DEF Abort, Fails, ActsOn, Acts, ClosesItself, Settles, workerVars
<1>3. ASSUME NEW c \in Calls, NEW closed \in BOOLEAN, Established(c, closed) PROVE uses' = uses
  BY <1>3 DEF Established, Settles, workerVars
<1>4. ASSUME Deliver \/ Handle \/ Opened \/ OpenFails \/ Dispose PROVE uses' = uses
  BY <1>4 DEF Deliver, Handle, Opened, OpenFails, Dispose, workerVars
<1>5. ASSUME UNCHANGED vars PROVE uses' = uses
  BY <1>5 DEF vars
<1>. QED  BY <1>1, <1>2, <1>3, <1>4, <1>5 DEF Next

LEMMA LeftStep == ServicesInv /\ Left /\ [Next]_vars => Left'
<1>. SUFFICES ASSUME ServicesInv, Left, [Next]_vars, uses = "kps" PROVE Left'
  BY UsesStays DEF Left
<1>0. Typed /\ \A c \in Made : c \in Calls /\ call[c].op \in Ops
  BY DEF ServicesInv, Typed, CallType, Made
<1>1. CASE UNCHANGED vars
  <2>1. UNCHANGED <<uses, call, running, object, proxy, up, disposed, late>>
    BY <1>1 DEF vars
  <2>2. Made' = Made /\ \A c \in Calls : LeftOver(c)' <=> LeftOver(c)
    BY <2>1 DEF Made, LeftOver, Requested
  <2>. QED  BY <2>1, <2>2 DEF Left, Once
<1>2. ASSUME NEW c \in Calls, NEW op \in Ops, Ask(c, op) PROVE Left'
  <2>1. /\ ~disposed' /\ object' = object /\ c \notin Made
        /\ call' = [call EXCEPT ![c] = [state |-> "pending", op |-> op]]
    BY <1>2 DEF Ask, Made
  <2>2. /\ call'[c] = [state |-> "pending", op |-> op] /\ \A d \in Calls \ {c} : call'[d] = call[d]
    BY <1>0, <2>1 DEF Typed
  <2>3. op.name \in OnConn \cup OnStream => object[op.on].kind # "none"
    BY <1>2, OpsType DEF Ask, ServicesInv, Objects
  <2>4. ASSUME NEW d \in Made', call'[d].op.name \in OnConn \cup OnStream
        PROVE  object'[call'[d].op.on].kind # "none"
    <3>1. CASE d = c
      BY <2>1, <2>2, <2>3, <2>4, <3>1
    <3>2. CASE d # c
      BY <2>1, <2>2, <2>4, <3>2 DEF Left, Made
    <3>. QED  BY <3>1, <3>2
  <2>. QED  BY <2>1, <2>4 DEF Left
<1>3. ASSUME NEW c \in Calls, Abort(c) PROVE Left'
  <2>1. /\ ~disposed' /\ object' = object /\ c \in Made
        /\ call' = [call EXCEPT ![c].state = "aborted"]
    BY <1>3 DEF Abort, Made
  <2>2. call[c] \in [state : {"pending", "resolved", "rejected", "aborted"}, op : Ops]
    BY <1>0, <2>1 DEF Typed, CallType, Made
  <2>3. call'[c].op = call[c].op /\ \A d \in Calls \ {c} : call'[d] = call[d]
    BY <1>0, <2>1, <2>2 DEF Typed
  <2>4. ASSUME NEW d \in Made' PROVE d \in Made /\ call'[d].op = call[d].op
    BY <2>1, <2>3 DEF Made
  <2>. QED  BY <2>1, <2>4 DEF Left
<1>4. CASE Deliver
  <2>1. /\ ~disposed' /\ object' = object
    BY <1>4 DEF Deliver
  <2>2. Made' = Made /\ \A d \in Made : call'[d].op = call[d].op
    BY <1>0, <1>4, DeliverTakes
  <2>. QED  BY <2>1, <2>2 DEF Left
<1>5. ASSUME up' = up PROVE Takes /\ \A d \in Calls : Requested(d)' <=> Requested(d)
  BY <1>0, <1>5 DEF Takes, Typed, Requested
<1>6. ASSUME NEW c \in Calls, Fails(c) PROVE Left'
  <2>1. /\ running' = running \ {c} /\ UNCHANGED <<uses, call, disposed, late, up, object>>
    BY <1>6 DEF Fails, Settles, workerVars
  <2>. QED  BY <1>5, <2>1, LeftStays DEF Left, LeftOver
<1>7. ASSUME NEW gone, object' = Shut(gone), running' \subseteq running,
             UNCHANGED <<uses, call, disposed, late, up>>
      PROVE  Left'
  <2>1. \A d \in Calls : /\ object'[d].kind = object[d].kind
                         /\ object'[d].state = IF d \in gone THEN "closed" ELSE object[d].state
    BY <1>0, <1>7, ShutIs
  <2>. QED  BY <1>5, <1>7, <2>1, LeftStays DEF Left, LeftOver
<1>8. ASSUME NEW c \in Calls, ActsOn(c) \/ ClosesItself(c) PROVE Left'
  <2>1. \E gone : object' = Shut(gone)
    BY <1>8 DEF ActsOn, Acts, ClosesItself
  <2>2. running' \subseteq running /\ UNCHANGED <<uses, call, disposed, late, up>>
    BY <1>8 DEF ActsOn, Acts, ClosesItself, Settles, workerVars
  <2>. QED  BY <1>7, <2>1, <2>2
<1>9. ASSUME NEW c \in Calls, NEW closed \in BOOLEAN, Established(c, closed) PROVE Left'
  <2>1. /\ c \in running /\ running' = running \ {c} /\ UNCHANGED <<uses, call, disposed, late, up>>
        /\ \E made : made.kind # "none" /\ object' = [object EXCEPT ![c] = made]
    <3>1. PICK made : /\ object' = [object EXCEPT ![c] = made]
                      /\ made.kind # "none"
      <4>. DEFINE kind == IF call[c].op.name = "dial" THEN "conn" ELSE "stream"
                  made(parent) == [kind |-> kind, parent |-> parent,
                                   state |-> IF closed THEN "closed" ELSE "open",
                                   kept |-> ~closed, early |-> closed]
      <4>1. PICK parent : object' = [object EXCEPT ![c] = made(parent)]
        BY <1>9 DEF Established
      <4>2. made(parent).kind # "none"
        OBVIOUS
      <4>. HIDE DEF made
      <4>. QED  BY <4>1, <4>2
    <3>3. c \in running /\ Settles(c)
      BY <1>9 DEF Established
    <3>4. running' = running \ {c} /\ UNCHANGED <<uses, call, disposed, late, up>>
      BY <3>3 DEF Settles, workerVars
    <3>. QED  BY <3>1, <3>3, <3>4
  <2>2. object'[c].kind # "none" /\ \A d \in Calls \ {c} : object'[d] = object[d]
    BY <1>0, <2>1 DEF Typed
  <2>3. disposed => object[c].kind = "none" /\ ~Requested(c)
    BY <2>1 DEF Left, LeftOver
  <2>4. object[c].kind = "none" => object[c].state # "closed"
    BY DEF ServicesInv, Objects
  <2>. QED  BY <1>5, <2>1, <2>2, <2>3, <2>4, LeftStays DEF Left, LeftOver
<1>10. CASE Handle
  <2>1. up # <<>> /\ up' = Tail(up) /\ UNCHANGED <<uses, call, object, disposed, late>>
    BY <1>10 DEF Handle, workerVars
  <2>2. Takes /\ \A d \in Calls : Requested(d)' => Requested(d)
    BY <1>0, <2>1, TakesFirst DEF Takes, Requested
  <2>3. PICK what \in {"req", "abort"}, c \in Made :
          /\ Head(up) = <<what, c>> /\ Contains(up, <<what, c>>)
          /\ InOrder(up, Once) /\ what = "req" => ~Contains(up', <<"req", c>>)
    BY <1>0, <2>1, TakesFirst
  <2>4. Head(up)[1] = what /\ Head(up)[2] = c /\ c \in Calls
    BY <1>0, <2>3
  <2>5. CASE what = "abort"
    <3>1. running' = running \ {c}
      BY <1>10, <2>4, <2>5 DEF Handle, HandleAbort
    <3>. QED  BY <2>1, <2>2, <3>1, LeftStays DEF Left, LeftOver
  <2>6. CASE what = "req"
    <3>1. HandleKps(c)
      BY <1>0, <1>10, <2>4, <2>6, OpsType DEF Handle
    <3>2. running' = running \cup {c} \/ running' = running
      BY <3>1 DEF HandleKps
    <3>3. Requested(c) /\ (disposed => ~Requested(c)')
      BY <2>3, <2>6 DEF Requested, Left
    <3>. QED  BY <2>1, <2>2, <3>2, <3>3, LeftStays DEF Left, LeftOver
  <2>. QED  BY <2>5, <2>6
<1>11. CASE Opened \/ OpenFails
  <2>1. backend.state = "opening"
    BY <1>11 DEF Opened, OpenFails
  <2>. QED  BY <2>1 DEF ServicesInv, Apart
<1>12. CASE Dispose
  <2>. DEFINE gone == UNION {Closing(o) : o \in {x \in Calls : object[x].kept}}
  <2>1. /\ ~disposed /\ late' = running \cup Posted /\ object' = Shut(gone)
        /\ UNCHANGED <<call, proxy, running, up>>
    BY <1>12 DEF Dispose, workerVars
  <2>2. \A d \in Calls : d \in gone <=> object[d].state = "open"
    BY DEF ServicesInv, Objects, Closing
  <2>. HIDE DEF gone
  <2>3. \A d \in Calls : /\ object'[d].kind = object[d].kind
                         /\ object'[d].state = IF d \in gone THEN "closed" ELSE object[d].state
    BY <1>0, <2>1, ShutIs
  <2>4. Made' = Made /\ \A d : Requested(d)' <=> Requested(d)
    BY <2>1 DEF Made, Requested
  <2>5. ASSUME NEW c \in Made, call[c].op.name \in OnConn \cup OnStream
        PROVE  object'[call[c].op.on].kind # "none" /\ object'[call[c].op.on].state = "closed"
    <3>1. PICK o \in Calls : o = call[c].op.on
      BY <1>0, <2>5, OpsType
    <3>2. object[o].kind # "none"
      BY <2>5, <3>1 DEF Left
    <3>3. object[o].state \in {"open", "closed"}
      BY <1>0, <3>2 DEF ServicesInv, Objects, Typed, ObjectType
    <3>. QED  BY <2>2, <2>3, <3>1, <3>2, <3>3
  <2>6. ASSUME NEW c \in Calls PROVE LeftOver(c)'
    <3>1. Passage(c) /\ (Requested(c) => c \in Made)
      BY <1>0, <2>1 DEF ServicesInv, Typed, Requested
    <3>2. Requested(c) /\ call[c].op.name \in {"dial", "openStream"} => c \in Posted
      BY DEF Posted, Requested
    <3>. QED  BY <2>1, <2>3, <2>4, <2>5, <3>1, <3>2 DEF LeftOver, Passage
  <2>7. InOrder(up', Once)
    BY <2>1 DEF ServicesInv
  <2>. QED  BY <2>1, <2>4, <2>5, <2>6, <2>7 DEF Left, Once
<1>. QED  BY <1>1, <1>2, <1>3, <1>4, <1>6, <1>8, <1>9, <1>10, <1>11, <1>12 DEF Next

LEMMA LeftInit == Init => Left
BY DEF Init, Left, Made

-----------------------------------------------------------------------------

LEMMA InvStep == ServicesInv /\ Left /\ [Next]_vars => ServicesInv'
<1>. SUFFICES ASSUME ServicesInv, Left, [Next]_vars PROVE ServicesInv'
  OBVIOUS
<1>1. CASE UNCHANGED vars
  <2>1. UNCHANGED <<uses, call, running, object, proxy, up, down, backend, disposed, late>>
    BY <1>1 DEF vars
  <2>2. Typed' /\ Objects' /\ Apart'
    BY <2>1 DEF ServicesInv, Typed, CallType, Ops, Made, Objects, Apart
  <2>3. \A c \in Calls : /\ Passage(c)' <=> Passage(c)
                         /\ Shared(c)' <=> Shared(c)
    BY <2>1 DEF Passage, Shared, Requested, Sent, Made
  <2>. QED  BY <2>1, <2>2, <2>3 DEF ServicesInv, Once
<1>2. ASSUME NEW c \in Calls, NEW op \in Ops, Ask(c, op) PROVE ServicesInv'
  BY <1>2, AskKeeps
<1>3. ASSUME NEW c \in Calls, Abort(c) PROVE ServicesInv'
  BY <1>3, AbortKeeps
<1>4. ASSUME NEW c \in Calls, Fails(c) PROVE ServicesInv'
  BY <1>4, FailsKeeps
<1>5. ASSUME NEW c \in Calls, ActsOn(c) PROVE ServicesInv'
  BY <1>5, ActsKeeps
<1>6. ASSUME NEW c \in Calls, ClosesItself(c) PROVE ServicesInv'
  BY <1>6, ClosesKeeps
<1>7. ASSUME NEW c \in Calls, NEW closed \in BOOLEAN, Established(c, closed) PROVE ServicesInv'
  BY <1>7, EstablishedKeeps
<1>8. CASE Deliver
  BY <1>8, DeliverKeeps
<1>9. CASE Handle
  BY <1>9, HandleKeeps
<1>10. CASE Opened \/ OpenFails
  BY <1>10, OpenKeeps
<1>11. CASE Dispose
  BY <1>11, DisposeKeeps
<1>. QED  BY <1>1, <1>2, <1>3, <1>4, <1>5, <1>6, <1>7, <1>8, <1>9, <1>10, <1>11 DEF Next

LEMMA AlwaysInv == Spec => []ServicesInv
BY InvInit, InvStep, LeftInit, LeftStep, PTL DEF Spec

(***************************************************************************)
(* The host's registries (kps-bridge-host.ts) hold what is open and        *)
(* nothing else, and what is open after the worker's end was being made    *)
(* then, or was asked for by a dial or an openStream that was posted.      *)
(***************************************************************************)
THEOREM RegistriesExact == Spec => []RegistryExact
<1>1. ASSUME ServicesInv PROVE RegistryExact
  <2>1. ASSUME NEW c \in Calls
        PROVE  /\ call[c].state \in {"new", "pending", "resolved", "rejected", "aborted"}
               /\ call[c].state # "new" => call[c].op \in Ops
    <3>1. call[c] \in CallType
      BY <1>1 DEF ServicesInv, Typed
    <3>. QED  BY <3>1 DEF CallType
  <2>2. \A c \in Calls : object[c] \in ObjectType /\ (proxy[c] # "none" => object[c].kind # "none")
    BY <1>1 DEF ServicesInv, Typed, Objects
  <2>3. TypeOK
    BY <1>1, <2>1, <2>2 DEF ServicesInv, Typed, TypeOK, ObjectType, Made
  <2>. QED  BY <1>1, <2>3 DEF ServicesInv, Objects, RegistryExact
<1>. QED  BY <1>1, AlwaysInv, PTL

(***************************************************************************)
(* SPEC.md:479: a worker that holds a connection or a stream is told of    *)
(* its end (anon-rpc-worker-api.ts), and what is open it has a handle on,  *)
(* or will have, unless it gave the request up.                            *)
(***************************************************************************)
THEOREM HandlesShared == Spec => []HandlesAreShared
<1>1. ASSUME ServicesInv PROVE HandlesAreShared
  <2>. SUFFICES ASSUME ~disposed, NEW c \in Calls
                PROVE  /\ proxy[c] = "waiting" /\ object[c].state = "closed" /\ ~object[c].early =>
                            Sent("closed", c)
                       /\ proxy[c] = "none" /\ object[c].state = "open" =>
                            call[c].state = "aborted" \/ Sent("resolved", c)
    BY DEF HandlesAreShared, Sent
  <2>1. object[c].state # "none" => object[c].kind # "none"
    BY <1>1 DEF ServicesInv, Objects
  <2>2. object[c].kind # "none" => uses = "kps"
    <3>1. object[c].kind # "none" => c \in Made /\ call[c].op.name \in Makes
      BY <1>1 DEF ServicesInv, Objects
    <3>2. c \in Made => call[c].op \in Ops
      BY <1>1 DEF ServicesInv, Typed, CallType, Made
    <3>. QED  BY <3>1, <3>2, OpsType
  <2>3. uses = "kps" => Shared(c)
    BY <1>1 DEF ServicesInv
  <2>. QED  BY <2>1, <2>2, <2>3 DEF Shared
<1>. QED  BY <1>1, AlwaysInv, PTL

-----------------------------------------------------------------------------

(* Storage *)

(***************************************************************************)
(* A string with a prefix does not come before it, and comes before what   *)
(* follows the prefix and lacks it.                                        *)
(***************************************************************************)
LEMMA StringOrder ==
  ASSUME NEW a \in Seq(Nat), NEW b \in Seq(Nat), NEW p \in Seq(Nat), IsPrefix(p, a)
  PROVE  /\ ~StringBelow(a, p)
         /\ ~IsPrefix(p, b) /\ ~StringBelow(b, p) => StringBelow(a, b)
<1>1. /\ Len(a) \in Nat /\ Len(b) \in Nat /\ Len(p) \in Nat
      /\ DOMAIN a = 1 .. Len(a) /\ DOMAIN b = 1 .. Len(b) /\ DOMAIN p = 1 .. Len(p)
      /\ \A i \in 1 .. Len(a) : a[i] \in Nat
      /\ \A i \in 1 .. Len(b) : b[i] \in Nat
      /\ \A i \in 1 .. Len(p) : p[i] \in Nat
  BY LenProperties, ElementOfSeq
<1>2. Len(p) <= Len(a) /\ \A i \in 1 .. Len(p) : p[i] = a[i]
  BY PrefixIs
<1>3. ~StringBelow(a, p)
  <2>1. ASSUME IsPrefix(a, p) PROVE a = p
    <3>1. Len(a) <= Len(p) /\ \A i \in 1 .. Len(a) : a[i] = p[i]
      BY <2>1, PrefixIs
    <3>2. Len(a) = Len(p)
      <4>1. Len(a) \in Nat /\ Len(p) \in Nat /\ Len(a) <= Len(p) /\ Len(p) <= Len(a)
        BY <1>1, <1>2, <3>1
      <4>. QED  BY <4>1
    <3>. QED  BY <3>1, <3>2, SeqEqual
  <2>2. ASSUME NEW i \in DOMAIN a \cap DOMAIN p PROVE ~(a[i] < p[i])
    BY <1>1, <1>2
  <2>. QED  BY <2>1, <2>2 DEF StringBelow
<1>4. ASSUME ~IsPrefix(p, b), ~StringBelow(b, p) PROVE StringBelow(a, b)
  <2>1. ~IsPrefix(b, p)
    <3>1. b = p => IsPrefix(p, b)
      BY <1>1, PrefixIs
    <3>. QED  BY <1>4, <3>1 DEF StringBelow
  <2>. DEFINE D == {i \in 1 .. Len(p) : i <= Len(b) /\ b[i] # p[i]}
  <2>2. D # {}
    <3>1. CASE Len(p) <= Len(b)
      <4>1. PICK i \in 1 .. Len(p) : p[i] # b[i]
        BY <1>4, <3>1, PrefixIs
      <4>2. i \in D
        BY <1>1, <3>1, <4>1
      <4>. QED  BY <4>2
    <3>2. CASE Len(b) <= Len(p)
      <4>1. PICK i \in 1 .. Len(b) : b[i] # p[i]
        BY <2>1, <3>2, PrefixIs
      <4>2. i \in D
        BY <1>1, <3>2, <4>1
      <4>. QED  BY <4>2
    <3>. QED  BY <1>1, <3>1, <3>2
  <2>3. Min(D) \in D /\ \A i \in D : Min(D) <= i
    <3>1. D \subseteq Nat
      OBVIOUS
    <3>. HIDE DEF D
    <3>. QED  BY <2>2, <3>1, LeastExists
  <2>4. PICK m \in 1 .. Len(p) : m <= Len(b) /\ b[m] # p[m] /\ \A i \in D : m <= i
    BY <2>3
  <2>5. /\ m \in 1 .. Len(b) /\ m \in 1 .. Len(a)
        /\ \A j \in 1 .. m - 1 : b[j] = p[j] /\ a[j] = p[j]
    <3>1. m \in 1 .. Len(b) /\ m \in 1 .. Len(a)
      BY <1>1, <1>2, <2>4
    <3>2. ASSUME NEW j \in 1 .. m - 1 PROVE b[j] = p[j] /\ a[j] = p[j]
      <4>1. j \in 1 .. Len(p) /\ j <= Len(b) /\ ~(m <= j)
        BY <1>1, <2>4
      <4>2. b[j] = p[j]
        BY <2>4, <4>1
      <4>. QED  BY <1>2, <4>1, <4>2
    <3>. QED  BY <3>1, <3>2
  <2>6. ~(b[m] < p[m])
    BY <1>1, <1>4, <2>4, <2>5 DEF StringBelow
  <2>7. a[m] < b[m]
    <3>1. a[m] = p[m] /\ a[m] \in Nat /\ b[m] \in Nat
      BY <1>1, <1>2, <2>4, <2>5
    <3>. QED  BY <2>4, <2>6, <3>1
  <2>. QED  BY <1>1, <2>5, <2>7 DEF StringBelow
<1>. QED  BY <1>3, <1>4

(***************************************************************************)
(* The cursor visits an address's records under a prefix and no others:    *)
(* they stand together in the store's order.                               *)
(***************************************************************************)
LEMMA WalkIs ==
  ASSUME NEW d, DOMAIN d \subseteq Nat \X Seq(Nat), NEW o \in Nat, NEW p \in Seq(Nat)
  PROVE  Walk(d, o, p) = {x \in DOMAIN d : x[1] = o /\ IsPrefix(p, x[2])}
<1>. DEFINE ahead == {x \in DOMAIN d : ~Below(x, <<o, p>>)}
            past == {x \in ahead : x[1] # o \/ ~IsPrefix(p, x[2])}
<1>1. \A x \in DOMAIN d : x[1] \in Nat /\ x[2] \in Seq(Nat)
  OBVIOUS
<1>2. ASSUME NEW a \in Seq(Nat), NEW b \in Seq(Nat)
      PROVE  ~StringBelow(a, a)
  <2>1. IsPrefix(a, a)
    BY PrefixIs, LenProperties
  <2>. QED  BY <2>1, StringOrder
<1>3. ASSUME NEW x \in ahead, \A y \in past : Below(x, y) PROVE x[1] = o /\ IsPrefix(p, x[2])
  <2>1. ~Below(x, x)
    BY <1>1, <1>2 DEF Below
  <2>. QED  BY <1>3, <2>1
<1>4. ASSUME NEW x \in DOMAIN d, x[1] = o, IsPrefix(p, x[2])
      PROVE  x \in ahead /\ \A y \in past : Below(x, y)
  <2>1. ~StringBelow(x[2], p)
    BY <1>1, <1>4, StringOrder
  <2>2. x \in ahead
    BY <1>4, <2>1 DEF Below
  <2>3. ASSUME NEW y \in past PROVE Below(x, y)
    <3>1. y[1] \in Nat /\ y[2] \in Seq(Nat) /\ ~Below(y, <<o, p>>) /\ (y[1] # o \/ ~IsPrefix(p, y[2]))
      BY <1>1
    <3>2. ~(y[1] < o) /\ (y[1] = o => ~StringBelow(y[2], p))
      BY <3>1 DEF Below
    <3>3. CASE y[1] = o
      BY <1>1, <1>4, <3>1, <3>2, <3>3, StringOrder DEF Below
    <3>4. CASE y[1] # o
      BY <1>4, <3>1, <3>2, <3>4 DEF Below
    <3>. QED  BY <3>3, <3>4
  <2>. QED  BY <2>2, <2>3
<1>5. Walk(d, o, p) = {x \in ahead : \A y \in past : Below(x, y)}
  BY DEF Walk
<1>. QED  BY <1>3, <1>4, <1>5

\* the store d holds an address's own map s, and what the others have stored
Agrees(d, s) ==
  /\ DOMAIN d \subseteq Nat \X Seq(Nat) /\ DOMAIN s \subseteq Seq(Nat)
  /\ \A k \in Seq(Nat) : <<Own, k>> \in DOMAIN d <=> k \in DOMAIN s
  /\ \A k \in DOMAIN s : d[<<Own, k>>] = s[k]
  /\ \A x \in DOMAIN Others : x \in DOMAIN d /\ d[x] = Others[x]

(***************************************************************************)
(* The others' records are under other addresses.                          *)
(***************************************************************************)
LEMMA OthersApart ==
  \A x \in DOMAIN Others : x[1] \in Nat /\ x[1] # Own /\ x[2] \in Seq(Nat) /\ x = <<x[1], x[2]>>
BY OthersAssumption

(***************************************************************************)
(* What the cursor visits is what the map lists.                           *)
(***************************************************************************)
LEMMA WalkOfOwn ==
  ASSUME NEW d, NEW s, Agrees(d, s), NEW p \in Seq(Nat)
  PROVE  Walk(d, Own, p) = {<<Own, k>> : k \in MemoryList(s, p)}
<1>1. DOMAIN d \subseteq Nat \X Seq(Nat) /\ DOMAIN s \subseteq Seq(Nat)
  BY DEF Agrees
<1>2. Walk(d, Own, p) = {x \in DOMAIN d : x[1] = Own /\ IsPrefix(p, x[2])}
  BY <1>1, WalkIs, KeysAssumption
<1>3. ASSUME NEW x \in DOMAIN d, x[1] = Own, IsPrefix(p, x[2])
      PROVE  x \in {<<Own, k>> : k \in MemoryList(s, p)}
  <2>1. x = <<Own, x[2]>> /\ x[2] \in Seq(Nat)
    BY <1>1, <1>3
  <2>2. x[2] \in DOMAIN s
    BY <2>1 DEF Agrees
  <2>. QED  BY <1>3, <2>1, <2>2 DEF MemoryList
<1>4. ASSUME NEW k \in MemoryList(s, p)
      PROVE  LET x == <<Own, k>> IN x \in DOMAIN d /\ x[1] = Own /\ IsPrefix(p, x[2])
  <2>1. k \in DOMAIN s /\ k \in Seq(Nat) /\ IsPrefix(p, k)
    BY <1>1, <1>4 DEF MemoryList
  <2>. QED  BY <2>1 DEF Agrees
<1>. QED  BY <1>2, <1>3, <1>4

(***************************************************************************)
(* A record is put into both.                                              *)
(***************************************************************************)
LEMMA PutAgrees ==
  ASSUME NEW d, NEW s, Agrees(d, s), NEW k \in Seq(Nat), NEW v
  PROVE  Agrees(Put(d, <<Own, k>>, v), Put(s, k, v))
<1>. DEFINE e == Put(d, <<Own, k>>, v)
            t == Put(s, k, v)
<1>1. /\ DOMAIN e = DOMAIN d \cup {<<Own, k>>} /\ \A x \in DOMAIN e : e[x] = IF x = <<Own, k>> THEN v ELSE d[x]
      /\ DOMAIN t = DOMAIN s \cup {k} /\ \A x \in DOMAIN t : t[x] = IF x = k THEN v ELSE s[x]
  BY DEF Put
<1>. HIDE DEF e, t
<1>2. Own \in Nat /\ \A j : <<Own, j>> = <<Own, k>> <=> j = k
  BY KeysAssumption
<1>3. DOMAIN e \subseteq Nat \X Seq(Nat) /\ DOMAIN t \subseteq Seq(Nat)
  BY <1>1, <1>2 DEF Agrees
<1>4. \A j \in Seq(Nat) : <<Own, j>> \in DOMAIN e <=> j \in DOMAIN t
  BY <1>1, <1>2 DEF Agrees
<1>5. ASSUME NEW j \in DOMAIN t PROVE e[<<Own, j>>] = t[j]
  <2>1. <<Own, j>> \in DOMAIN e
    BY <1>3, <1>4
  <2>2. e[<<Own, j>>] = IF j = k THEN v ELSE d[<<Own, j>>]
    BY <1>1, <1>2, <2>1
  <2>3. j # k => d[<<Own, j>>] = s[j]
    BY <1>1 DEF Agrees
  <2>. QED  BY <1>1, <2>2, <2>3
<1>6. ASSUME NEW x \in DOMAIN Others PROVE x \in DOMAIN e /\ e[x] = Others[x]
  <2>1. x \in DOMAIN d /\ d[x] = Others[x]
    BY DEF Agrees
  <2>2. x # <<Own, k>>
    BY OthersApart
  <2>. QED  BY <1>1, <2>1, <2>2
<1>7. Agrees(e, t)
  BY <1>3, <1>4, <1>5, <1>6 DEF Agrees
<1>. QED  BY <1>7 DEF e, t

(***************************************************************************)
(* Records are taken from both.                                            *)
(***************************************************************************)
LEMMA WithoutAgrees ==
  ASSUME NEW d, NEW s, Agrees(d, s), NEW G \in SUBSET Seq(Nat)
  PROVE  Agrees(Without(d, {<<Own, k>> : k \in G}), Without(s, G))
<1>. DEFINE e == Without(d, {<<Own, k>> : k \in G})
            t == Without(s, G)
<1>1. /\ DOMAIN e = DOMAIN d \ {<<Own, k>> : k \in G} /\ \A x \in DOMAIN e : e[x] = d[x]
      /\ DOMAIN t = DOMAIN s \ G /\ \A x \in DOMAIN t : t[x] = s[x]
  BY DEF Without
<1>. HIDE DEF e, t
<1>2. \A j : <<Own, j>> \in {<<Own, k>> : k \in G} <=> j \in G
  OBVIOUS
<1>3. DOMAIN e \subseteq Nat \X Seq(Nat) /\ DOMAIN t \subseteq Seq(Nat)
  BY <1>1 DEF Agrees
<1>4. \A j \in Seq(Nat) : <<Own, j>> \in DOMAIN e <=> j \in DOMAIN t
  BY <1>1, <1>2 DEF Agrees
<1>5. ASSUME NEW j \in DOMAIN t PROVE e[<<Own, j>>] = t[j]
  <2>1. <<Own, j>> \in DOMAIN e
    BY <1>3, <1>4
  <2>. QED  BY <1>1, <2>1 DEF Agrees
<1>6. ASSUME NEW x \in DOMAIN Others PROVE x \in DOMAIN e /\ e[x] = Others[x]
  <2>1. x \in DOMAIN d /\ d[x] = Others[x]
    BY DEF Agrees
  <2>2. x \notin {<<Own, k>> : k \in G}
    BY OthersApart
  <2>. QED  BY <1>1, <2>1, <2>2
<1>7. Agrees(e, t)
  BY <1>3, <1>4, <1>5, <1>6 DEF Agrees
<1>. QED  BY <1>7 DEF e, t

(***************************************************************************)
(* One request on both.                                                    *)
(***************************************************************************)
LEMMA StoresAgree ==
  ASSUME NEW st, Agrees(st.db, st.space), NEW c, call[c].op.key \in Seq(Nat)
  PROVE  Agrees(Stores(st, c).db, Stores(st, c).space)
<1>. DEFINE op == call[c].op
            r == Stores(st, c)
<1>1. PICK d, s, k : d = st.db /\ s = st.space /\ k = op.key
  OBVIOUS
<1>2. Agrees(d, s) /\ k \in Seq(Nat)
  BY <1>1
<1>3. /\ r.db = CASE op.name = "set" -> Put(d, <<Own, k>>, c)
                  [] op.name = "delete" -> Without(d, {<<Own, k>>})
                  [] op.name = "clear" -> Without(d, Walk(d, Own, k))
                  [] OTHER -> d
      /\ r.space = CASE op.name = "set" -> Put(s, k, c)
                     [] op.name = "delete" -> Without(s, {k})
                     [] op.name = "clear" -> Without(s, MemoryList(s, k))
                     [] OTHER -> s
  BY <1>1 DEF Stores, IdbSet, IdbDelete, IdbClear, MemoryClear
<1>. HIDE DEF op, r
<1>4. CASE op.name = "set"
  <2>1. r.db = Put(d, <<Own, k>>, c) /\ r.space = Put(s, k, c)
    BY <1>3, <1>4
  <2>2. Agrees(r.db, r.space)
    BY <1>2, <2>1, PutAgrees
  <2>. QED  BY <2>2 DEF r
<1>5. CASE op.name = "delete"
  <2>1. r.db = Without(d, {<<Own, k>>}) /\ r.space = Without(s, {k})
    BY <1>3, <1>5
  <2>2. {<<Own, k>>} = {<<Own, j>> : j \in {k}} /\ {k} \in SUBSET Seq(Nat)
    BY <1>2
  <2>3. Agrees(r.db, r.space)
    BY <1>2, <2>1, <2>2, WithoutAgrees
  <2>. QED  BY <2>3 DEF r
<1>6. CASE op.name = "clear"
  <2>1. r.db = Without(d, Walk(d, Own, k)) /\ r.space = Without(s, MemoryList(s, k))
    BY <1>3, <1>6
  <2>2. Walk(d, Own, k) = {<<Own, j>> : j \in MemoryList(s, k)}
    BY <1>2, WalkOfOwn
  <2>3. MemoryList(s, k) \in SUBSET Seq(Nat)
    BY <1>2 DEF MemoryList, Agrees
  <2>4. Agrees(r.db, r.space)
    BY <1>2, <2>1, <2>2, <2>3, WithoutAgrees
  <2>. QED  BY <2>4 DEF r
<1>7. CASE op.name \notin {"set", "delete", "clear"}
  <2>1. r.db = d /\ r.space = s
    BY <1>3, <1>7
  <2>. QED  BY <1>2, <2>1 DEF r
<1>. QED  BY <1>4, <1>5, <1>6, <1>7

\* f are the two stores as the requests of cs are done
StoresInTurn(f, cs, n) ==
  f = [k \in 0 .. n |-> IF k = 0 THEN [db |-> db, space |-> space] ELSE Stores(f[k - 1], cs[k])]

(***************************************************************************)
(* The recursive function of StoresAll exists.                             *)
(***************************************************************************)
LEMMA StoresExist ==
  ASSUME NEW cs, Len(cs) \in Nat
  PROVE  \E f : StoresInTurn(f, cs, Len(cs))
<1>. DEFINE I == {n \in Nat : \E f : StoresInTurn(f, cs, n)}
<1>1. 0 \in I
  <2>1. PICK f : f = [k \in 0 .. 0 |-> [db |-> db, space |-> space]]
    OBVIOUS
  <2>2. f = [k \in 0 .. 0 |-> IF k = 0 THEN [db |-> db, space |-> space] ELSE Stores(f[k - 1], cs[k])]
    BY <2>1
  <2>. QED  BY <2>2 DEF StoresInTurn
<1>2. ASSUME NEW n \in I PROVE n + 1 \in I
  <2>1. PICK f : StoresInTurn(f, cs, n)
    OBVIOUS
  <2>2. PICK x : x = Stores(f[n], cs[n + 1])
    OBVIOUS
  <2>3. PICK g : g = [k \in 0 .. n + 1 |-> IF k = n + 1 THEN x ELSE f[k]]
    OBVIOUS
  <2>4. n \in Nat /\ n + 1 \in 0 .. n + 1 /\ n + 1 # 0 /\ (n + 1) - 1 = n /\ n \in 0 .. n + 1 /\ n # n + 1
    OBVIOUS
  <2>5. ASSUME NEW k \in 0 .. n + 1
        PROVE  g[k] = IF k = 0 THEN [db |-> db, space |-> space] ELSE Stores(g[k - 1], cs[k])
    <3>1. CASE k = n + 1
      BY <2>2, <2>3, <2>4, <3>1
    <3>2. CASE k # n + 1
      <4>1. k \in 0 .. n /\ (k # 0 => k - 1 \in 0 .. n + 1 /\ k - 1 # n + 1)
        BY <2>4, <3>2
      <4>2. g[k] = f[k] /\ (k # 0 => g[k - 1] = f[k - 1])
        BY <2>3, <3>2, <4>1
      <4>3. f[k] = IF k = 0 THEN [db |-> db, space |-> space] ELSE Stores(f[k - 1], cs[k])
        BY <2>1, <4>1 DEF StoresInTurn
      <4>. QED  BY <4>2, <4>3
    <3>. QED  BY <3>1, <3>2
  <2>6. g = [k \in 0 .. n + 1 |-> g[k]]
    BY <2>3
  <2>7. StoresInTurn(g, cs, n + 1)
    BY <2>5, <2>6 DEF StoresInTurn
  <2>. QED  BY <2>4, <2>7
<1>3. Len(cs) \in I
  <2>1. I \in SUBSET Nat
    OBVIOUS
  <2>. HIDE DEF I
  <2>2. \A k \in 0 .. Len(cs) : k \in I
    BY <1>1, <1>2, <2>1, InductiveSet
  <2>. QED  BY <2>2
<1>. QED  BY <1>3

(***************************************************************************)
(* Several requests on both.                                               *)
(***************************************************************************)
LEMMA StoresAllAgree ==
  ASSUME NEW cs, Len(cs) \in Nat, StoresAll(cs), Agrees(db, space),
         \A i \in 1 .. Len(cs) : call[cs[i]].op.key \in Seq(Nat)
  PROVE  Agrees(db, space)'
<1>. DEFINE f == CHOOSE f : f = [k \in 0 .. Len(cs) |->
                   IF k = 0 THEN [db |-> db, space |-> space] ELSE Stores(f[k - 1], cs[k])]
<1>1. PICK g : StoresInTurn(g, cs, Len(cs))
  BY StoresExist
<1>2. g = [k \in 0 .. Len(cs) |->
             IF k = 0 THEN [db |-> db, space |-> space] ELSE Stores(g[k - 1], cs[k])]
  BY <1>1 DEF StoresInTurn
<1>3. f = [k \in 0 .. Len(cs) |->
             IF k = 0 THEN [db |-> db, space |-> space] ELSE Stores(f[k - 1], cs[k])]
  BY <1>2
<1>4. db' = f[Len(cs)].db /\ space' = f[Len(cs)].space
  BY DEF StoresAll
<1>. HIDE DEF f
<1>. DEFINE I == {n \in Nat : n <= Len(cs) => Agrees(f[n].db, f[n].space)}
<1>5. \A k \in 0 .. Len(cs) :
        f[k] = IF k = 0 THEN [db |-> db, space |-> space] ELSE Stores(f[k - 1], cs[k])
  BY <1>3
<1>6. 0 \in I
  <2>1. f[0] = [db |-> db, space |-> space]
    BY <1>5
  <2>2. f[0].db = db /\ f[0].space = space
    BY <2>1
  <2>. QED  BY <2>2
<1>7. ASSUME NEW n \in I, n < Len(cs) PROVE n + 1 \in I
  <2>1. n \in Nat /\ n + 1 \in 1 .. Len(cs) /\ n + 1 \in 0 .. Len(cs) /\ n + 1 # 0 /\ (n + 1) - 1 = n
    BY <1>7
  <2>2. f[n + 1] = Stores(f[n], cs[n + 1])
    BY <1>5, <2>1
  <2>3. Agrees(f[n].db, f[n].space)
    BY <1>7, <2>1
  <2>4. call[cs[n + 1]].op.key \in Seq(Nat)
    BY <2>1
  <2>5. Agrees(f[n + 1].db, f[n + 1].space)
    BY <2>2, <2>3, <2>4, StoresAgree
  <2>. QED  BY <2>1, <2>5
<1>8. Len(cs) \in I
  <2>1. I \in SUBSET Nat
    OBVIOUS
  <2>. HIDE DEF I
  <2>2. \A k \in 0 .. Len(cs) : k \in I
    BY <1>6, <1>7, <2>1, InductiveSet
  <2>. QED  BY <2>2
<1>9. Agrees(f[Len(cs)].db, f[Len(cs)].space)
  BY <1>8
<1>. QED  BY <1>4, <1>9 DEF Agrees

-----------------------------------------------------------------------------

(***************************************************************************)
(* The stores agree, and what waits for the database was asked for.        *)
(***************************************************************************)
StoreInv ==
  /\ Agrees(db, space)
  /\ \A i \in 1 .. Len(backend.waiting) : backend.waiting[i] \in Made

LEMMA StoreInit == Init => StoreInv
<1>. SUFFICES ASSUME Init PROVE StoreInv
  OBVIOUS
<1>1. db = Others /\ space = <<>> /\ backend.waiting = <<>>
  BY DEF Init
<1>2. Agrees(Others, <<>>)
  <2>1. DOMAIN Others \subseteq Nat \X Seq(Nat) /\ DOMAIN <<>> = {}
    BY OthersAssumption
  <2>2. \A k \in Seq(Nat) : <<Own, k>> \notin DOMAIN Others
    BY OthersApart
  <2>. QED  BY <2>1, <2>2 DEF Agrees
<1>. QED  BY <1>1, <1>2 DEF StoreInv

(***************************************************************************)
(* A request, once made, stays so.                                         *)
(***************************************************************************)
LEMMA MadeStays ==
  ASSUME Typed, [Next]_vars
  PROVE  Made \subseteq Made'
<1>1. ASSUME UNCHANGED call PROVE Made' = Made
  BY <1>1 DEF Made
<1>2. call \in [Calls -> CallType]
  BY DEF Typed
<1>3. ASSUME NEW c \in Calls, NEW op \in Ops, Ask(c, op) PROVE Made \subseteq Made'
  <2>1. call' = [call EXCEPT ![c] = [state |-> "pending", op |-> op]]
    BY <1>3 DEF Ask
  <2>2. \A d \in Calls : call'[d] = IF d = c THEN [state |-> "pending", op |-> op] ELSE call[d]
    BY <1>2, <2>1
  <2>. QED  BY <2>2 DEF Made
<1>4. ASSUME NEW c \in Calls, Abort(c) PROVE Made \subseteq Made'
  <2>1. call' = [call EXCEPT ![c].state = "aborted"] /\ call[c].state = "pending"
    BY <1>4 DEF Abort
  <2>2. call[c] \in [state : {"pending", "resolved", "rejected", "aborted"}, op : Ops]
    BY <1>2, <2>1 DEF CallType
  <2>3. \A d \in Calls : call'[d] = IF d = c THEN [call[c] EXCEPT !.state = "aborted"] ELSE call[d]
    BY <1>2, <2>1
  <2>4. [call[c] EXCEPT !.state = "aborted"].state = "aborted"
    BY <2>2
  <2>. QED  BY <2>3, <2>4 DEF Made
<1>5. CASE Deliver
  BY <1>5, DeliverTakes
<1>6. ASSUME NEW c \in Calls, NEW closed \in BOOLEAN,
             Fails(c) \/ ActsOn(c) \/ ClosesItself(c) \/ Established(c, closed)
      PROVE  UNCHANGED call
  BY <1>6 DEF Fails, ActsOn, Acts, ClosesItself, Established, Settles, workerVars
<1>7. CASE Handle \/ Opened \/ OpenFails \/ Dispose
  BY <1>1, <1>7 DEF Handle, Opened, OpenFails, Dispose, workerVars
<1>8. CASE UNCHANGED vars
  BY <1>1, <1>8 DEF vars
<1>. QED  BY <1>1, <1>3, <1>4, <1>5, <1>6, <1>7, <1>8 DEF Next

LEMMA StoreStands ==
  ASSUME StoreInv, Made \subseteq Made', UNCHANGED storageVars
  PROVE  StoreInv'
<1>1. UNCHANGED <<backend, db, space>>
  BY DEF storageVars
<1>2. Agrees(db, space)'
  BY <1>1 DEF StoreInv, Agrees
<1>3. \A i \in 1 .. Len(backend'.waiting) : backend'.waiting[i] \in Made'
  BY <1>1 DEF StoreInv
<1>. QED  BY <1>2, <1>3 DEF StoreInv

(***************************************************************************)
(* A request of storage has a key.                                         *)
(***************************************************************************)
LEMMA KeysOfStorage ==
  ASSUME ServicesInv, NEW c \in Made, uses # "kps"
  PROVE  call[c].op.key \in Seq(Nat)
<1>1. call[c].op \in Ops
  BY DEF ServicesInv, Typed, CallType, Made
<1>2. call[c].op.key \in Keys \cup {<<>>}
  BY <1>1 DEF Ops
<1>3. <<>> \in Seq(Nat)
  OBVIOUS
<1>. QED  BY <1>2, <1>3, KeysAssumption

LEMMA HandleStores ==
  ASSUME ServicesInv, StoreInv, Made \subseteq Made', Handle
  PROVE  StoreInv'
<1>1. Typed /\ up # <<>> /\ up' = Tail(up)
  BY DEF ServicesInv, Handle
<1>2. PICK what \in {"req", "abort"}, c \in Made : Head(up) = <<what, c>>
  BY <1>1, TakesFirst
<1>3. Head(up)[1] = what /\ Head(up)[2] = c
  BY <1>2
<1>4. call[c].op \in Ops
  BY <1>1, <1>2 DEF Typed, CallType, Made
<1>5. HandleAbort(c) \/ HandleStorage(c) \/ HandleKps(c)
  BY <1>3 DEF Handle
<1>6. (what = "req" /\ call[c].op.name \in Stored) \/ UNCHANGED storageVars
  BY <1>3 DEF Handle, HandleAbort, HandleKps
<1>7. CASE UNCHANGED storageVars
  BY <1>7, StoreStands
<1>8. CASE what = "req" /\ call[c].op.name \in Stored
  <2>1. HandleStorage(c) /\ uses # "kps"
    BY <1>3, <1>4, <1>8, OpsType DEF Handle
  <2>2. backend.state \in {"new", "opening", "open", "failed"} /\ backend.waiting \in Seq(Calls)
    BY <1>1 DEF Typed
  <2>3. CASE backend.state \in {"new", "opening"}
    <3>0. UNCHANGED <<db, space>> /\ backend' = [state |-> "opening", waiting |-> Append(backend.waiting, c)]
      BY <2>1, <2>3 DEF HandleStorage
    <3>1. UNCHANGED <<db, space>> /\ backend'.waiting = Append(backend.waiting, c)
      BY <3>0
    <3>2. Agrees(db, space)'
      BY <3>1 DEF StoreInv, Agrees
    <3>3. /\ Len(backend.waiting) \in Nat /\ Len(backend'.waiting) = Len(backend.waiting) + 1
          /\ \A i \in 1 .. Len(backend'.waiting) :
               backend'.waiting[i] = IF i <= Len(backend.waiting) THEN backend.waiting[i] ELSE c
      BY <1>2, <2>2, <3>1, AppendProperties, LenProperties DEF Made
    <3>4. \A i \in 1 .. Len(backend'.waiting) : backend'.waiting[i] \in Made'
      BY <3>3 DEF StoreInv
    <3>. QED  BY <3>2, <3>4 DEF StoreInv
  <2>4. CASE backend.state = "open"
    <3>1. StoresAll(<<c>>) /\ UNCHANGED backend
      BY <2>1, <2>4 DEF HandleStorage
    <3>2. Len(<<c>>) \in Nat /\ \A i \in 1 .. Len(<<c>>) : <<c>>[i] = c
      OBVIOUS
    <3>3. \A i \in 1 .. Len(<<c>>) : call[<<c>>[i]].op.key \in Seq(Nat)
      BY <2>1, <3>2, KeysOfStorage
    <3>4. Agrees(db, space)'
      BY <3>1, <3>2, <3>3, StoresAllAgree DEF StoreInv
    <3>5. \A i \in 1 .. Len(backend'.waiting) : backend'.waiting[i] \in Made'
      BY <3>1 DEF StoreInv
    <3>. QED  BY <3>4, <3>5 DEF StoreInv
  <2>5. CASE backend.state = "failed"
    <3>1. UNCHANGED storageVars
      BY <2>1, <2>5 DEF HandleStorage
    <3>. QED  BY <3>1, StoreStands
  <2>. QED  BY <2>2, <2>3, <2>4, <2>5
<1>. QED  BY <1>6, <1>7, <1>8

LEMMA OpenStores ==
  ASSUME ServicesInv, StoreInv, Made \subseteq Made', Opened \/ OpenFails
  PROVE  StoreInv'
<1>1. backend'.waiting = <<>>
  BY DEF Opened, OpenFails
<1>2. CASE Opened
  <2>1. StoresAll(backend.waiting) /\ backend.state = "opening"
    BY <1>2 DEF Opened
  <2>2. uses # "kps"
    BY <2>1 DEF ServicesInv, Apart
  <2>3. backend.waiting \in Seq(Calls)
    BY DEF ServicesInv, Typed
  <2>4. Len(backend.waiting) \in Nat
    BY <2>3, LenProperties
  <2>5. \A i \in 1 .. Len(backend.waiting) : call[backend.waiting[i]].op.key \in Seq(Nat)
    BY <2>2, KeysOfStorage DEF StoreInv
  <2>6. Agrees(db, space)'
    BY <2>1, <2>4, <2>5, StoresAllAgree DEF StoreInv
  <2>. QED  BY <1>1, <2>6 DEF StoreInv
<1>3. CASE OpenFails
  <2>1. UNCHANGED <<db, space>>
    BY <1>3 DEF OpenFails
  <2>2. Agrees(db, space)'
    BY <2>1 DEF StoreInv, Agrees
  <2>. QED  BY <1>1, <2>2 DEF StoreInv
<1>. QED  BY <1>2, <1>3

LEMMA StoreStep == ServicesInv /\ StoreInv /\ [Next]_vars => StoreInv'
<1>. SUFFICES ASSUME ServicesInv, StoreInv, [Next]_vars PROVE StoreInv'
  OBVIOUS
<1>1. Made \subseteq Made'
  BY MadeStays DEF ServicesInv
<1>2. CASE Handle
  BY <1>1, <1>2, HandleStores
<1>3. CASE Opened \/ OpenFails
  BY <1>1, <1>3, OpenStores
<1>4. CASE ~Handle /\ ~Opened /\ ~OpenFails
  <2>1. ASSUME NEW c \in Calls, NEW op \in Ops, Ask(c, op) PROVE UNCHANGED storageVars
    BY <2>1 DEF Ask
  <2>2. ASSUME NEW c \in Calls, NEW closed \in BOOLEAN,
               Abort(c) \/ Fails(c) \/ ActsOn(c) \/ ClosesItself(c) \/ Established(c, closed)
        PROVE  UNCHANGED storageVars
    BY <2>2 DEF Abort, Fails, ActsOn, Acts, ClosesItself, Established, Settles
  <2>3. ASSUME Deliver \/ Dispose PROVE UNCHANGED storageVars
    BY <2>3 DEF Deliver, Dispose
  <2>4. ASSUME UNCHANGED vars PROVE UNCHANGED storageVars
    BY <2>4 DEF vars, storageVars
  <2>5. UNCHANGED storageVars
    BY <1>4, <2>1, <2>2, <2>3, <2>4 DEF Next
  <2>. QED  BY <1>1, <2>5, StoreStands
<1>. QED  BY <1>2, <1>3, <1>4

(***************************************************************************)
(* SPEC.md 11: a worker's namespace in the store that all workers share    *)
(* (idb-storage.ts) is what a map of its own would be, under every prefix, *)
(* and the other workers' records are untouched.                           *)
(***************************************************************************)
THEOREM BackendsAlike == Spec => []BackendsAgree
<1>1. ASSUME StoreInv PROVE BackendsAgree
  <2>1. Agrees(db, space)
    BY <1>1 DEF StoreInv
  <2>2. ASSUME NEW p \in Keys PROVE IdbList(db, Own, p) = MemoryList(space, p)
    <3>1. Walk(db, Own, p) = {<<Own, k>> : k \in MemoryList(space, p)}
      BY <2>1, WalkOfOwn, KeysAssumption
    <3>2. IdbList(db, Own, p) = {x[2] : x \in {<<Own, k>> : k \in MemoryList(space, p)}}
      BY <3>1 DEF IdbList
    <3>3. \A k : <<Own, k>>[2] = k
      OBVIOUS
    <3>. QED  BY <3>2, <3>3
  <2>. QED  BY <2>1, <2>2 DEF BackendsAgree, Agrees
<1>2. ServicesInv /\ StoreInv /\ [Next]_vars => StoreInv'
  BY StoreStep
<1>3. Init => StoreInv
  BY StoreInit
<1>. QED  BY <1>1, <1>2, <1>3, AlwaysInv, PTL DEF Spec

=============================================================================
