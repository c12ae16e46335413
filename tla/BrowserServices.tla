---------------------------- MODULE BrowserServices ----------------------------
(***************************************************************************)
(* What a browser worker asks of its host besides calls: KPS connections   *)
(* and streams, and storage.  The worker's proxies                         *)
(* (browser-harness/src/worker/anon-rpc-worker-api.ts), the host's         *)
(* handlers (host/kps-bridge-host.ts, host/AnonRpcWorker.ts) and the       *)
(* requests, aborts and events between them (protocol.ts).                 *)
(*                                                                         *)
(* A connection or a stream is named by the request that made it.  The KPS *)
(* client behind the host is external: an operation settles or fails at    *)
(* any time, a connection or a stream closes at any time, and one that is  *)
(* accepted may have closed already.                                       *)
(*                                                                         *)
(* A definition named X_Why is X with a plausible slip, which a property   *)
(* has to notice; the specification uses none of them.                     *)
(***************************************************************************)
EXTENDS StorageBackend

CONSTANTS
  MaxCalls,  \* how many requests the worker makes (bound)
  Own,       \* the worker's specifier address
  Others,    \* the records that workers at other addresses have stored
  Keys,      \* the storage keys, and prefixes, that it uses
  Services   \* the two, of which a worker uses one here (bound: they share the port only)

None == 0

ASSUME CallsAssumption == MaxCalls \in Nat
ASSUME OthersAssumption == DOMAIN Others \subseteq (Nat \ {Own}) \X Seq(Nat)
ASSUME KeysAssumption == Own \in Nat /\ Keys \subseteq Seq(Nat)

\* the n-th request
Calls == 1 .. MaxCalls

VARIABLES
  uses,      \* the service the worker uses
  call,      \* each request at the worker
  running,   \* the requests whose KPS operation the host waits for
  object,    \* the connection or stream each request made; `early`, history: closed before
  proxy,     \* the worker's handle on it, and whether its `closed` is told
  up,        \* the port, to the host
  down,      \* the port, to the worker
  backend,   \* #storage, and the storage requests that wait for it to open
  db,        \* the records of IndexedDB
  space,     \* reference: what MemoryBackend would hold for this worker
  disposed,  \* the host has closed the worker, which is gone with its frame
  late       \* history: the requests that were under way then and may still open something

vars == <<uses, call, running, object, proxy, up, down, backend, db, space, disposed, late>>

Makes == {"dial", "openStream", "acceptStream"}
OnConn == {"acceptStream", "conn.close", "datagram"}
OnStream == {"half-close", "stream.close"}
Abortable == {"dial", "openStream", "acceptStream", "datagram"}
\* "read" is get, has and list
Stored == {"set", "delete", "clear", "read"}

Ops ==
  IF uses = "kps"
  THEN [name : {"dial", "openStream"}, on : {None}] \cup [name : OnConn \cup OnStream, on : Calls]
  ELSE [name : Stored \ {"read"}, key : Keys] \cup [name : {"read"}, key : {<<>>}]

TypeOK ==
  /\ uses \in Services
  /\ \A c \in Calls :
       /\ call[c].state \in {"new", "pending", "resolved", "rejected", "aborted"}
       /\ call[c].state # "new" => call[c].op \in Ops
       /\ object[c] \in [kind : {"conn", "stream", "none"}, parent : Calls \cup {None},
                         state : {"none", "open", "closed"}, kept : BOOLEAN, early : BOOLEAN]
       /\ proxy[c] # "none" => object[c].kind # "none"
  /\ running \subseteq Calls
  /\ proxy \in [Calls -> {"none", "waiting", "told"}]
  /\ backend.state \in {"new", "opening", "open", "failed"} /\ backend.waiting \in Seq(Calls)
  /\ disposed \in BOOLEAN /\ late \subseteq Calls

Init ==
  /\ uses \in Services
  /\ call = [c \in Calls |-> [state |-> "new"]]
  /\ running = {}
  /\ object = [c \in Calls |->
       [kind |-> "none", parent |-> None, state |-> "none", kept |-> FALSE, early |-> FALSE]]
  /\ proxy = [c \in Calls |-> "none"]
  /\ up = <<>> /\ down = <<>>
  /\ backend = [state |-> "new", waiting |-> <<>>] /\ db = Others /\ space = <<>>
  /\ disposed = FALSE /\ late = {}

storageVars == <<backend, db, space>>
workerVars == <<uses, call, proxy>>

-----------------------------------------------------------------------------
(* The worker *)

\* the worker calls a method of a handle it holds
Ask(c, op) ==
  /\ ~disposed
  /\ call[c].state = "new" /\ \A d \in 1 .. (c - 1) : call[d].state # "new"
  /\ op.name \in OnConn \cup OnStream =>
       /\ proxy[op.on] # "none"
       /\ (op.name \in OnConn <=> object[op.on].kind = "conn")
  /\ call' = [call EXCEPT ![c] = [state |-> "pending", op |-> op]]
  /\ up' = Append(up, <<"req", c>>)
  /\ UNCHANGED <<uses, running, object, proxy, down, storageVars, disposed, late>>

\* the caller is rejected at once, and the host is told
Abort(c) ==
  /\ ~disposed /\ call[c].state = "pending"
  /\ call[c].op.name \in Abortable \cup Stored
  /\ call' = [call EXCEPT ![c].state = "aborted"]
  /\ up' = Append(up, <<"abort", c>>)
  /\ UNCHANGED <<uses, running, object, proxy, down, storageVars, disposed, late>>

Deliver_AllButAccepted ==
  LET m == Head(down)
      c == m[2]
  IN  /\ ~disposed /\ down # <<>>
      /\ down' = Tail(down)
      /\ IF m[1] = "closed"
         THEN /\ proxy' = [proxy EXCEPT ![c] = IF @ = "waiting" THEN "told" ELSE @]
              /\ UNCHANGED call
         ELSE /\ call' = [call EXCEPT ![c].state = IF @ = "pending" THEN m[1] ELSE @]
              /\ proxy' = [proxy EXCEPT ![c] =
                   IF call[c].state = "pending" /\ m[1] = "resolved"
                      /\ call[c].op.name \in Makes \ {"acceptStream"}
                   THEN "waiting" ELSE @]
      /\ UNCHANGED <<uses, running, object, up, storageVars, disposed, late>>

\* a late reply is ignored, and an event about a handle that is not there
Deliver ==
  LET m == Head(down)
      c == m[2]
  IN  /\ ~disposed /\ down # <<>>
      /\ down' = Tail(down)
      /\ IF m[1] = "closed"
         THEN /\ proxy' = [proxy EXCEPT ![c] = IF @ = "waiting" THEN "told" ELSE @]
              /\ UNCHANGED call
         ELSE /\ call' = [call EXCEPT ![c].state = IF @ = "pending" THEN m[1] ELSE @]
              /\ proxy' = [proxy EXCEPT ![c] =
                   IF call[c].state = "pending" /\ m[1] = "resolved" /\ call[c].op.name \in Makes
                   THEN "waiting" ELSE @]
      /\ UNCHANGED <<uses, running, object, up, storageVars, disposed, late>>

-----------------------------------------------------------------------------
(* The host *)

Post(messages) == down' = IF disposed THEN down ELSE down \o messages

(***************************************************************************)
(* A connection or a stream closes: it leaves its registry, and the worker *)
(* is told.  A closed connection closes its streams.                       *)
(***************************************************************************)
Closing(o) == {x \in Calls : object[x].state = "open" /\ (x = o \/ object[x].parent = o)}

Shut_KeepsEntry(gone) ==
  [x \in Calls |-> IF x \in gone THEN [object[x] EXCEPT !.state = "closed"] ELSE object[x]]

Shut(gone) ==
  [x \in Calls |-> IF x \in gone THEN [object[x] EXCEPT !.state = "closed", !.kept = FALSE]
                   ELSE object[x]]

ClosedEvents(gone) ==
  SetToSeq({<<"closed", x>> : x \in {y \in gone : object[y].kept}})

Known(op) == op.name \in OnConn \cup OnStream => object[op.on].kept

Reply(how, cs) == Post([i \in DOMAIN cs |-> <<how, cs[i]>>])

\* one storage request on the open backend
Stores(st, c) ==
  LET op == call[c].op
  IN  [db |-> CASE op.name = "set" -> IdbSet(st.db, Own, op.key, c)
                [] op.name = "delete" -> IdbDelete(st.db, Own, op.key)
                [] op.name = "clear" -> IdbClear(st.db, Own, op.key)
                [] OTHER -> st.db,
       space |-> CASE op.name = "set" -> Put(st.space, op.key, c)
                   [] op.name = "delete" -> Without(st.space, {op.key})
                   [] op.name = "clear" -> MemoryClear(st.space, op.key)
                   [] OTHER -> st.space]

\* several, one after the other
StoresAll(cs) ==
  LET st[n \in 0 .. Len(cs)] ==
        IF n = 0 THEN [db |-> db, space |-> space] ELSE Stores(st[n - 1], cs[n])
  IN  db' = st[Len(cs)].db /\ space' = st[Len(cs)].space /\ Reply("resolved", cs)

HandleStorage(c) ==
  /\ CASE backend.state \in {"new", "opening"} ->
            /\ backend' = [state |-> "opening", waiting |-> Append(backend.waiting, c)]
            /\ UNCHANGED <<down, db, space>>
       [] backend.state = "open" -> StoresAll(<<c>>) /\ UNCHANGED backend
       [] backend.state = "failed" -> Reply("rejected", <<c>>) /\ UNCHANGED storageVars
  /\ UNCHANGED running

HandleKps(c) ==
  /\ IF Known(call[c].op) THEN running' = running \cup {c} /\ UNCHANGED down
     ELSE Reply("rejected", <<c>>) /\ UNCHANGED running
  /\ UNCHANGED storageVars

\* the signal fails the client's operation; storage does not look at it
HandleAbort(c) ==
  /\ running' = running \ {c}
  /\ IF c \in running THEN Reply("rejected", <<c>>) ELSE UNCHANGED down
  /\ UNCHANGED storageVars

\* close() leaves the port and its handlers: what was posted before it is still served
Handle ==
  LET c == Head(up)[2]
  IN  /\ up # <<>>
      /\ up' = Tail(up)
      /\ CASE Head(up)[1] = "abort" -> HandleAbort(c)
           [] Head(up)[1] = "req" /\ call[c].op.name \in Stored -> HandleStorage(c)
           [] OTHER -> HandleKps(c)
      /\ UNCHANGED <<workerVars, object, disposed, late>>

\* what waited for the database is done in order
Opened ==
  /\ backend.state = "opening"
  /\ backend' = [state |-> "open", waiting |-> <<>>]
  /\ StoresAll(backend.waiting)
  /\ UNCHANGED <<workerVars, running, object, up, disposed, late>>

\* the failed promise is kept: no request opens the database again
OpenFails ==
  /\ backend.state = "opening"
  /\ backend' = [state |-> "failed", waiting |-> <<>>]
  /\ Reply("rejected", backend.waiting)
  /\ UNCHANGED <<workerVars, running, object, up, db, space, disposed, late>>

-----------------------------------------------------------------------------
(* The KPS client's operations settle *)

Settles(c) == running' = running \ {c} /\ UNCHANGED <<workerVars, up, storageVars, disposed, late>>

Fails(c) ==
  /\ c \in running
  /\ Settles(c)
  /\ Reply("rejected", <<c>>)
  /\ UNCHANGED object

\* a stream that is accepted may be closed already: its event is posted before the reply
Established(c, closed) ==
  LET op == call[c].op
      parent == IF op.name = "acceptStream" THEN op.on ELSE None
  IN  /\ c \in running /\ op.name \in Makes
      /\ closed => op.name = "acceptStream"
      /\ parent # None => object[parent].state = "open"
      /\ Settles(c)
      /\ object' = [object EXCEPT ![c] =
           [kind |-> IF op.name = "dial" THEN "conn" ELSE "stream", parent |-> parent,
            state |-> IF closed THEN "closed" ELSE "open", kept |-> ~closed, early |-> closed]]
      /\ Post((IF closed THEN <<<<"closed", c>>>> ELSE <<>>) \o <<<<"resolved", c>>>>)

\* an operation on a handle, which may close it
Acts(c, gone) ==
  LET op == call[c].op
  IN  /\ object[op.on].state = "open"
      /\ Settles(c)
      /\ object' = Shut(gone)
      /\ Post(Append(ClosedEvents(gone), <<"resolved", c>>))

\* closeWrite, cancelRead and resetWrite close the stream when they end its other half
ActsOn(c) ==
  LET op == call[c].op
  IN  /\ c \in running
      /\ \/ op.name \in {"datagram", "half-close"} /\ Acts(c, {})
         \/ op.name \in {"conn.close", "half-close", "stream.close"} /\ Acts(c, Closing(op.on))

ClosesItself(o) ==
  /\ object[o].state = "open"
  /\ object' = Shut(Closing(o))
  /\ Post(ClosedEvents(Closing(o)))
  /\ UNCHANGED <<workerVars, running, up, storageVars, disposed, late>>

\* the dials and openStreams that have been posted and not taken up
Posted == {c \in Calls : Contains(up, <<"req", c>>) /\ call[c].op.name \in {"dial", "openStream"}}

\* what the registries hold is closed; neither an operation under way nor a request
\* that was posted is stopped, and nothing reaches the worker any more
Dispose ==
  LET gone == UNION {Closing(o) : o \in {x \in Calls : object[x].kept}}
  IN  /\ ~disposed
      /\ disposed' = TRUE /\ late' = running \cup Posted
      /\ object' = Shut(gone)
      /\ down' = <<>>
      /\ UNCHANGED <<workerVars, running, up, storageVars>>

Next ==
  \/ \E c \in Calls : \/ \E op \in Ops : Ask(c, op)
                      \/ Abort(c) \/ Fails(c) \/ ActsOn(c) \/ ClosesItself(c)
                      \/ \E closed \in BOOLEAN : Established(c, closed)
  \/ Deliver \/ Handle \/ Opened \/ OpenFails \/ Dispose

Spec == Init /\ [][Next]_vars

-----------------------------------------------------------------------------

(***************************************************************************)
(* The registries hold what is open and nothing else, whoever closed it;   *)
(* what is open after the host has closed the worker was being made then,  *)
(* or its dial or openStream had been posted.                              *)
(***************************************************************************)
RegistryExact ==
  /\ TypeOK
  /\ \A c \in Calls :
       /\ object[c].kept <=> object[c].state = "open"
       /\ disposed /\ object[c].state = "open" => c \in late

(***************************************************************************)
(* SPEC.md:479: "The `closed` promises on connections and streams MUST     *)
(* resolve".  A worker that holds a closed connection or stream is told,   *)
(* or the event is on its way, except where it was posted before the reply *)
(* that named the handle.  And nothing stays open that the worker cannot   *)
(* close: what it has no handle on is on its way to it, or was made for a  *)
(* request that it aborted.                                                *)
(***************************************************************************)
HandlesAreShared ==
  ~disposed => \A c \in Calls :
    /\ proxy[c] = "waiting" /\ object[c].state = "closed" /\ ~object[c].early =>
         Contains(down, <<"closed", c>>)
    /\ proxy[c] = "none" /\ object[c].state = "open" =>
         call[c].state = "aborted" \/ Contains(down, <<"resolved", c>>)

(***************************************************************************)
(* SPEC.md 11: whatever the order of its requests, and whether they waited *)
(* for the database or not, a worker's namespace in the shared store is    *)
(* what a map of its own would be, every prefix lists the same keys, and   *)
(* the other workers' records are untouched.                               *)
(***************************************************************************)
BackendsAgree ==
  /\ \A prefix \in Keys : IdbList(db, Own, prefix) = MemoryList(space, prefix)
  /\ \A k \in DOMAIN space : db[<<Own, k>>] = space[k]
  /\ \A x \in DOMAIN Others : x \in DOMAIN db /\ db[x] = Others[x]

=============================================================================
