----------------------------- MODULE OffscreenHost -----------------------------
(***************************************************************************)
(* The offscreen document of the extension harness                         *)
(* (browser-extension-harness/src/offscreen/mount.ts): the workers it has  *)
(* booted, shared by the connections that ask for the same one, and kept   *)
(* for a while after the last of them is gone.                             *)
(*                                                                         *)
(* A connection is one OffscreenWorker of some service worker: it boots    *)
(* once and ends once, by its close message or with its port.  A worker's  *)
(* specifier is read through the provider of the connection it was booted  *)
(* for.  Every action is one task of the document with the promise jobs it *)
(* leads to; messages of different connections are not ordered, so that    *)
(* the ports need no queues here.  The calls are OffscreenCalls'.          *)
(*                                                                         *)
(* A definition named X_Why is X with a plausible slip, which a property   *)
(* has to notice; the specification uses none of them.                     *)
(***************************************************************************)
EXTENDS SequencesExt, FiniteSets, Naturals

CONSTANTS
  Conns,     \* the connections that are ever made
  Workers,   \* the AnonRpcWorkers that are ever constructed
  Keys,      \* the cache keys: address, iframe and config
  MaxLogs    \* how many entries a worker logs (bound)

None == "none"

ASSUME NoneAssumption == None \notin Workers \cup Keys
ASSUME FiniteAssumption == IsFiniteSet(Conns)
ASSUME BoundAssumption == MaxLogs \in Nat

VARIABLES
  conn,      \* each connection: how far it is, its entry, what it was told
  entry,     \* each worker's cache entry
  cache,     \* the cached worker of each key
  logs       \* each worker's log: entries retained, takers, how many it wrote

hostVars == <<conn, entry, cache, logs>>

\* `forwarded` and `swallowed` are history: the log entries sent, and not sent
ConnType ==
  [state : {"new", "attached", "ended"}, worker : Workers \cup {None},
   told : {"nothing", "ready", "failed"}, forwarded : Nat, swallowed : Nat]

\* The worker's #boot() has yet to make the frame while `booting`, and waits
\* for the provider while `reading`; it is `live` until it fails or is closed.
EntryType ==
  [key : Keys \cup {None}, refs : Nat, reaper : BOOLEAN, provider : Conns \cup {None},
   reading : BOOLEAN, booting : BOOLEAN, frame : BOOLEAN,
   ready : {"pending", "resolved", "rejected"}, live : BOOLEAN]

LogType == [retained : 0 .. MaxLogs, takers : Seq(Conns), written : 0 .. MaxLogs]

HostTypeOK ==
  /\ conn \in [Conns -> ConnType]
  /\ entry \in [Workers -> EntryType]
  /\ cache \in [Keys -> Workers \cup {None}]
  /\ logs \in [Workers -> LogType]

HostInit ==
  /\ conn = [k \in Conns |-> [state |-> "new", worker |-> None, told |-> "nothing",
                              forwarded |-> 0, swallowed |-> 0]]
  /\ entry = [w \in Workers |-> [key |-> None, refs |-> 0, reaper |-> FALSE, provider |-> None,
                                 reading |-> FALSE, booting |-> FALSE, frame |-> FALSE,
                                 ready |-> "pending", live |-> FALSE]]
  /\ cache = [key \in Keys |-> None]
  /\ logs = [w \in Workers |-> [retained |-> 0, takers |-> <<>>, written |-> 0]]

-----------------------------------------------------------------------------

Attached(k) == conn[k].state = "attached"

Users(w) == {k \in Conns : Attached(k) /\ conn[k].worker = w}

Fresh(w) == entry[w].key = None

(***************************************************************************)
(* A worker that is closed rejects a pending `ready`, and the connections  *)
(* that wait for it are told; its log takers are rejected.  Its frame is   *)
(* removed, when there is one: a boot that has yet to make it goes on.     *)
(***************************************************************************)
Dead(e) == [e EXCEPT !.live = FALSE, !.frame = FALSE,
                     !.ready = IF @ = "pending" THEN "rejected" ELSE @]

\* a worker whose boot has failed is closed, and boots no more
Over(e) == [Dead(e) EXCEPT !.reading = FALSE, !.booting = FALSE]

Tell(cs, w, what) ==
  [k \in Conns |-> IF cs[k].state = "attached" /\ cs[k].worker = w /\ cs[k].told = "nothing"
                   THEN [cs[k] EXCEPT !.told = what] ELSE cs[k]]

TellDead(cs, w) == IF entry[w].ready = "pending" THEN Tell(cs, w, "failed") ELSE cs

Silenced(ls, w) == [ls EXCEPT ![w].takers = <<>>]

Evicted(w) == IF cache[entry[w].key] = w THEN [cache EXCEPT ![entry[w].key] = None] ELSE cache

\* the pump of a connection takes what the worker has retained, then waits
Pump(k, w) ==
  [logs EXCEPT ![w].retained = 0, ![w].takers = IF entry[w].live THEN Append(@, k) ELSE @]

\* boot, and the cache has the worker: the armed reaper is not cleared
Reuse_ReaperArmed(k, key) ==
  /\ conn[k].state = "new"
  /\ cache[key] # None
  /\ LET w == cache[key] IN
       /\ entry' = [entry EXCEPT ![w].refs = @ + 1]
       /\ conn' = [conn EXCEPT ![k] = [@ EXCEPT !.state = "attached", !.worker = w,
                     !.told = IF entry[w].ready = "resolved" THEN "ready" ELSE "nothing",
                     !.forwarded = @ + logs[w].retained]]
       /\ logs' = Pump(k, w)
  /\ UNCHANGED cache

\* a connection that finds its worker is told what is known of it
Found(c, w) ==
  [c EXCEPT !.state = "attached", !.worker = w, !.forwarded = @ + logs[w].retained,
            !.told = CASE entry[w].ready = "resolved" -> "ready"
                       [] entry[w].ready = "rejected" -> "failed"
                       [] OTHER -> "nothing"]

(***************************************************************************)
(* boot with `reuse`, and the cache has the worker, booted or not: no      *)
(* reaper ends it, and the connection is told at once or when it is ready. *)
(***************************************************************************)
Reuse(k, key) ==
  /\ conn[k].state = "new"
  /\ cache[key] # None
  /\ LET w == cache[key] IN
       /\ entry' = [entry EXCEPT ![w].refs = @ + 1, ![w].reaper = FALSE]
       /\ conn' = [conn EXCEPT ![k] = Found(@, w)]
       /\ logs' = Pump(k, w)
  /\ UNCHANGED cache

(***************************************************************************)
(* boot of a worker that is not cached, or without `reuse`: the cached one *)
(* is closed, whoever uses it, and a new one constructed.                  *)
(***************************************************************************)
Boot(k, key, w) ==
  /\ conn[k].state = "new"
  /\ Fresh(w)
  /\ LET old == cache[key]
         new == [entry[w] EXCEPT !.key = key, !.refs = 1, !.provider = k,
                                 !.reading = TRUE, !.booting = TRUE, !.live = TRUE]
         cs == [conn EXCEPT ![k].state = "attached", ![k].worker = w]
         ls == [logs EXCEPT ![w].takers = <<k>>] IN
       IF old = None
       THEN entry' = [entry EXCEPT ![w] = new] /\ conn' = cs /\ logs' = ls
       ELSE /\ entry' = [entry EXCEPT ![w] = new, ![old] = Dead(@)]
            /\ conn' = TellDead(cs, old)
            /\ logs' = Silenced(ls, old)
  /\ cache' = [cache EXCEPT ![key] = w]

\* the specifier has been read through the connection's provider
ProviderAnswers(w) ==
  /\ entry[w].reading
  /\ entry' = [entry EXCEPT ![w].reading = FALSE]
  /\ UNCHANGED <<conn, cache, logs>>

\* the bundle is here: the frame is made, and the worker in it, closed or not
Starts(w) ==
  /\ entry[w].booting /\ ~entry[w].reading
  /\ entry' = [entry EXCEPT ![w].booting = FALSE, ![w].frame = TRUE]
  /\ UNCHANGED <<conn, cache, logs>>

\* only the connection that booted the worker is told
WorkerReady_TellsBooter(w) ==
  /\ entry[w].live /\ entry[w].frame
  /\ entry[w].ready = "pending"
  /\ entry' = [entry EXCEPT ![w].ready = "resolved"]
  /\ conn' = [conn EXCEPT ![entry[w].provider].told = "ready"]
  /\ UNCHANGED <<cache, logs>>

(***************************************************************************)
(* The worker is ready: every connection that waits for it is told.        *)
(***************************************************************************)
WorkerReady(w) ==
  /\ entry[w].live /\ entry[w].frame
  /\ entry[w].ready = "pending"
  /\ entry' = [entry EXCEPT ![w].ready = "resolved"]
  /\ conn' = Tell(conn, w, "ready")
  /\ UNCHANGED <<cache, logs>>

\* a worker that never became ready stays in the cache
WorkerFails_Kept(w) ==
  /\ entry[w].live
  /\ entry' = [entry EXCEPT ![w] = IF @.ready = "pending" THEN Over(@) ELSE [@ EXCEPT !.live = FALSE]]
  /\ conn' = TellDead(conn, w)
  /\ logs' = Silenced(logs, w)
  /\ UNCHANGED cache

(***************************************************************************)
(* The worker fails.  One that never became ready leaves the cache and is  *)
(* closed; one that did stays, failed but in its frame, for the next       *)
(* connection to find.                                                     *)
(***************************************************************************)
WorkerFails(w) ==
  /\ entry[w].live
  /\ entry' = [entry EXCEPT ![w] = IF @.ready = "pending" THEN Over(@) ELSE [@ EXCEPT !.live = FALSE]]
  /\ cache' = IF entry[w].ready = "pending" THEN Evicted(w) ELSE cache
  /\ conn' = TellDead(conn, w)
  /\ logs' = Silenced(logs, w)

\* the connection's share in its worker is not given back
Detach_KeepsRef(k) ==
  /\ Attached(k)
  /\ conn' = [conn EXCEPT ![k].state = "ended"]
  /\ UNCHANGED <<entry, cache, logs>>

(***************************************************************************)
(* The port is gone: the service worker was killed.  Its provider call, if *)
(* one is pending, fails the boot it is for.  The last connection of a     *)
(* worker arms the reaper.                                                 *)
(***************************************************************************)
Detach(k) ==
  /\ Attached(k)
  /\ LET w == conn[k].worker
         cs == [conn EXCEPT ![k].state = "ended"]
         e == [entry[w] EXCEPT !.refs = @ - 1, !.reaper = (entry[w].refs = 1)] IN
       IF entry[w].reading /\ entry[w].provider = k
       THEN /\ entry' = [entry EXCEPT ![w] = Over(e)]
            /\ cache' = Evicted(w)
            /\ conn' = TellDead(cs, w)
            /\ logs' = Silenced(logs, w)
       ELSE /\ entry' = [entry EXCEPT ![w] = e]
            /\ conn' = cs
            /\ UNCHANGED <<cache, logs>>

(***************************************************************************)
(* The close message: the last connection of a cached worker closes it; of *)
(* one others use, it ends a boot that reads through this connection.      *)
(***************************************************************************)
Close(k) ==
  /\ Attached(k)
  /\ LET w == conn[k].worker
         cs == [conn EXCEPT ![k].state = "ended"]
         e == [entry[w] EXCEPT !.refs = @ - 1]
         closes == entry[w].refs = 1 /\ cache[entry[w].key] = w
         fails == entry[w].reading /\ entry[w].provider = k IN
       IF closes \/ fails
       THEN /\ entry' = [entry EXCEPT ![w] = IF fails THEN Over(e) ELSE Dead(e)]
            /\ cache' = Evicted(w)
            /\ conn' = TellDead(cs, w)
            /\ logs' = Silenced(logs, w)
       ELSE /\ entry' = [entry EXCEPT ![w] = e]
            /\ conn' = cs
            /\ UNCHANGED <<cache, logs>>

\* the reaper's timer: closes a worker that is still cached and still unused
Reap(w) ==
  /\ entry[w].reaper
  /\ IF entry[w].refs = 0 /\ cache[entry[w].key] = w
     THEN /\ entry' = [entry EXCEPT ![w] = [Dead(@) EXCEPT !.reaper = FALSE]]
          /\ cache' = Evicted(w)
          /\ logs' = Silenced(logs, w)
     ELSE entry' = [entry EXCEPT ![w].reaper = FALSE] /\ UNCHANGED <<cache, logs>>
  /\ UNCHANGED conn

(***************************************************************************)
(* The worker logs an entry.  It is retained, or given to the pump that    *)
(* has waited longest; one whose connection has ended does nothing with    *)
(* it, and is over.                                                        *)
(***************************************************************************)
Log(w) ==
  /\ entry[w].live
  /\ logs[w].written < MaxLogs
  /\ LET ls == [logs EXCEPT ![w].written = @ + 1] IN
       IF logs[w].takers = <<>>
       THEN logs' = [ls EXCEPT ![w].retained = @ + 1] /\ UNCHANGED conn
       ELSE LET k == Head(logs[w].takers) IN
              IF Attached(k)
              THEN /\ logs' = [ls EXCEPT ![w].takers = Append(Tail(@), k)]
                   /\ conn' = [conn EXCEPT ![k].forwarded = @ + 1]
              ELSE /\ logs' = [ls EXCEPT ![w].takers = Tail(@)]
                   /\ conn' = [conn EXCEPT ![k].swallowed = @ + 1]
  /\ UNCHANGED <<entry, cache>>

HostNext ==
  \/ \E k \in Conns, key \in Keys :
       Reuse(k, key) \/ \E w \in Workers : Boot(k, key, w)
  \/ \E k \in Conns : Detach(k) \/ Close(k)
  \/ \E w \in Workers :
       \/ ProviderAnswers(w) \/ Starts(w) \/ WorkerReady(w) \/ WorkerFails(w)
       \/ Reap(w) \/ Log(w)

HostSpec == HostInit /\ [][HostNext]_hostVars

(***************************************************************************)
(* The provider answers, the bundle comes, and a boot ends one way or the  *)
(* other.                                                                  *)
(***************************************************************************)
FairSpec ==
  /\ HostSpec
  /\ \A w \in Workers :
       /\ WF_hostVars(ProviderAnswers(w)) /\ WF_hostVars(Starts(w))
       /\ WF_hostVars(WorkerReady(w) \/ (entry[w].ready = "pending" /\ WorkerFails(w)))

-----------------------------------------------------------------------------

(***************************************************************************)
(* A worker's reference count is the number of connections that use it:    *)
(* none is counted twice, given back twice or forgotten, whichever way it  *)
(* ends and whatever became of the worker meanwhile.                       *)
(***************************************************************************)
RefsExact == \A w \in Workers : entry[w].refs = Cardinality(Users(w))

\* closed while it booted, and started nevertheless
Stray(w) == entry[w].frame /\ entry[w].ready = "rejected"

Running(w) == entry[w].live \/ (entry[w].frame /\ ~Stray(w))

(***************************************************************************)
(* A worker that boots or is in a frame can be found, in the cache and by  *)
(* its key only, and its reaper is armed exactly while nobody uses it:     *)
(* none runs for ever unused, and none is taken from a connection that     *)
(* came back in time.  (But for one that was closed before its frame was   *)
(* made: AnonRpcWorker.close() does not stop its boot, and what starts     *)
(* then is known to nobody.)                                               *)
(***************************************************************************)
RunningIsCached ==
  \A w \in Workers : Running(w) =>
    /\ \A key \in Keys : cache[key] = w <=> key = entry[w].key
    /\ entry[w].reaper <=> entry[w].refs = 0

(***************************************************************************)
(* mount.ts, boot: a retry after a failed boot is a real retry, no worker  *)
(* that failed to boot is found in the cache; and no connection misses, or *)
(* mistakes, what became of the boot it waits for.                         *)
(***************************************************************************)
RetryIsReal ==
  /\ \A key \in Keys : cache[key] # None => entry[cache[key]].ready # "rejected"
  /\ \A w \in Workers : \A k \in Users(w) :
       conn[k].told = CASE entry[w].ready = "pending" -> "nothing"
                        [] entry[w].ready = "resolved" -> "ready"
                        [] entry[w].ready = "rejected" -> "failed"

(***************************************************************************)
(* Every connection that stays hears how its boot ended.                   *)
(***************************************************************************)
BootIsAnswered ==
  \A k \in Conns : Attached(k) ~> (conn[k].told # "nothing" \/ ~Attached(k))

=============================================================================
