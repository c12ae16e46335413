------------------------------ MODULE DemoWatcher ------------------------------
(***************************************************************************)
(* The demo extension's service worker (demo-extension/src/background.ts)  *)
(* as its popup drives it: start, poll and stop requests, each a chain of  *)
(* awaits over one cached worker and the session's store, any of which may *)
(* overlap, in a service worker the browser may kill.                      *)
(*                                                                         *)
(* An action is a request up to its next await.  Each request boots at     *)
(* most one worker, named by the request.  The prefill in local storage is *)
(* left out.                                                               *)
(***************************************************************************)
EXTENDS FiniteSets, Integers

CONSTANTS
  MaxRequests,   \* how many requests are ever made (bound)
  Settings       \* what identifies a worker: specifier and config

Requests == 1 .. MaxRequests
NoWorker == 0

ASSUME SettingsAssumption == IsFiniteSet(Settings) /\ Settings # {}

VARIABLES
  request,   \* each request: its kind, settings, where it is, and its worker
  boot,      \* the worker each request boots
  cache,     \* worker and workerKey
  session,   \* session storage: the settings in use, and whether it is running
  overlap    \* history: a boot was begun while another was under way

watchVars == <<request, boot, cache, session, overlap>>

NewRequest == [kind |-> "none", key |-> {}, at |-> "new", worker |-> NoWorker]

WatchInit ==
  /\ request = [r \in Requests |-> NewRequest]
  /\ boot = [r \in Requests |-> "none"]
  /\ cache = [worker |-> NoWorker, key |-> {}]
  /\ session = [active |-> {}, running |-> FALSE]
  /\ overlap = FALSE

\* of a request that is over, only that is kept
Over == {"answered", "refused"}

Go(r, where) ==
  request' = [request EXCEPT ![r] = IF where \in Over THEN [NewRequest EXCEPT !.at = where]
                                    ELSE [@ EXCEPT !.at = where]]

UnderWay(r) == request[r].at \notin {"new"} \cup Over

Booting(r) == request[r].at \in {"probe", "boot"}

\* close() on whatever is cached
ClosedCached ==
  [r \in Requests |-> IF r = cache.worker /\ boot[r] = "ready" THEN "closed" ELSE boot[r]]

\* a request arrives; a stop closes the worker at once
Receive(r, kind, key) ==
  /\ request[r].at = "new" /\ \A q \in 1 .. (r - 1) : request[q].at # "new"
  /\ request' = [request EXCEPT ![r] =
       [kind |-> kind, key |-> IF kind = "start" THEN {key} ELSE {},
        at |-> CASE kind = "start" -> "saveActive" [] kind = "poll" -> "load"
                 [] OTHER -> "saveStopped",
        worker |-> NoWorker]]
  /\ IF kind = "stop" THEN boot' = ClosedCached /\ cache' = [worker |-> NoWorker, key |-> {}]
     ELSE UNCHANGED <<boot, cache>>
  /\ UNCHANGED <<session, overlap>>

SaveActive(r) ==
  /\ request[r].at = "saveActive"
  /\ session' = [session EXCEPT !.active = request[r].key]
  /\ Go(r, "saveRunning")
  /\ UNCHANGED <<boot, cache, overlap>>

SaveRunning(r) ==
  /\ request[r].at \in {"saveRunning", "saveServed"}
  /\ session' = [session EXCEPT !.running = TRUE]
  /\ Go(r, IF request[r].at = "saveRunning" THEN "ensure" ELSE "answered")
  /\ UNCHANGED <<boot, cache, overlap>>

SaveStopped_OnlyStops(r) ==
  /\ request[r].at = "saveStopped"
  /\ request[r].kind = "stop"
  /\ session' = [session EXCEPT !.running = FALSE]
  /\ Go(r, "answered")
  /\ UNCHANGED <<boot, cache, overlap>>

\* a stop that was asked for, or a start that failed
SaveStopped(r) ==
  /\ request[r].at = "saveStopped"
  /\ session' = [session EXCEPT !.running = FALSE]
  /\ Go(r, IF request[r].kind = "stop" THEN "answered" ELSE "refused")
  /\ UNCHANGED <<boot, cache, overlap>>

LoadRuntime(r) ==
  /\ request[r].at = "load"
  /\ Go(r, IF session.running THEN "loadActive" ELSE "refused")
  /\ UNCHANGED <<boot, cache, session, overlap>>

LoadActive(r) ==
  /\ request[r].at = "loadActive"
  /\ request' = [request EXCEPT ![r].at = "ensure", ![r].key = session.active]
  /\ UNCHANGED <<boot, cache, session, overlap>>

EnsureWorker_NoClose(r) ==
  /\ request[r].at = "ensure"
  /\ IF cache.worker # NoWorker /\ cache.key = request[r].key
     THEN /\ request' = [request EXCEPT ![r].at = "booted", ![r].worker = cache.worker]
          /\ UNCHANGED <<boot, overlap>>
     ELSE /\ Go(r, "probe")
          /\ overlap' = (overlap \/ \E q \in Requests : Booting(q))
          /\ UNCHANGED boot
  /\ UNCHANGED <<cache, session>>

\* the cached worker if it is for these settings, else it is closed and another booted
EnsureWorker(r) ==
  /\ request[r].at = "ensure"
  /\ IF cache.worker # NoWorker /\ cache.key = request[r].key
     THEN /\ request' = [request EXCEPT ![r].at = "booted", ![r].worker = cache.worker]
          /\ UNCHANGED <<boot, overlap>>
     ELSE /\ boot' = ClosedCached
          /\ Go(r, "probe")
          /\ overlap' = (overlap \/ \E q \in Requests : Booting(q))
  /\ UNCHANGED <<cache, session>>

Failed(r) == IF request[r].kind = "start" THEN "saveStopped" ELSE "refused"

\* the bootstrap endpoint says which chain it is on
ChainAnswers(r, right) ==
  /\ request[r].at = "probe"
  /\ boot' = [boot EXCEPT ![r] = IF right THEN "booting" ELSE @]
  /\ Go(r, IF right THEN "boot" ELSE Failed(r))
  /\ UNCHANGED <<cache, session, overlap>>

\* `ready` settles: only then is the worker cached
ReadySettles(r, ok) ==
  /\ request[r].at = "boot"
  /\ boot' = [boot EXCEPT ![r] = IF ok THEN "ready" ELSE "rejected"]
  /\ cache' = IF ok THEN [worker |-> r, key |-> request[r].key] ELSE cache
  /\ IF ok THEN request' = [request EXCEPT ![r].at = "booted", ![r].worker = r]
     ELSE Go(r, Failed(r))
  /\ UNCHANGED <<session, overlap>>

\* a start is done, a poll asks for the balance through its worker
Serve(r, ok) ==
  /\ request[r].at = "booted"
  /\ request[r].kind = "poll" /\ ok => boot[request[r].worker] = "ready"
  /\ request[r].kind = "start" => ok
  /\ Go(r, IF ok THEN "saveServed" ELSE "refused")
  /\ UNCHANGED <<boot, cache, session, overlap>>

WorkerFails(w) ==
  /\ boot[w] = "ready"
  /\ boot' = [boot EXCEPT ![w] = "failed"]
  /\ UNCHANGED <<request, cache, session, overlap>>

\* the browser stops the service worker: the session's store outlives it
Kill ==
  /\ \E r \in Requests : UnderWay(r) \/ boot[r] = "ready"
  /\ request' = [r \in Requests |-> IF UnderWay(r) THEN [NewRequest EXCEPT !.at = "refused"]
                                    ELSE request[r]]
  /\ boot' = [r \in Requests |-> IF boot[r] \in {"booting", "ready"} THEN "closed" ELSE boot[r]]
  /\ cache' = [worker |-> NoWorker, key |-> {}]
  /\ UNCHANGED <<session, overlap>>

Proceed(r) ==
  \/ SaveActive(r) \/ SaveRunning(r) \/ SaveStopped(r) \/ LoadRuntime(r) \/ LoadActive(r)
  \/ EnsureWorker(r)
  \/ \E ok \in BOOLEAN : ChainAnswers(r, ok) \/ ReadySettles(r, ok) \/ Serve(r, ok)

WatchNext ==
  \/ \E r \in Requests :
       \/ \E kind \in {"start", "poll", "stop"}, key \in Settings : Receive(r, kind, key)
       \/ Proceed(r) \/ WorkerFails(r)
  \/ Kill

-----------------------------------------------------------------------------

(***************************************************************************)
(* background.ts:228: a worker whose `ready` rejects is never the cached   *)
(* one, so that a retry boots anew.  As long as no boot was begun while    *)
(* another was under way, at most one worker lives, and it is cached.      *)
(***************************************************************************)
OneWorkerUnlessOverlap ==
  /\ cache.worker # NoWorker => boot[cache.worker] \in {"ready", "failed", "closed"}
  /\ ~overlap => \A r \in Requests : boot[r] = "ready" => cache.worker = r

(***************************************************************************)
(* Every request is answered, however many overlap and whenever the        *)
(* service worker is killed, if what it waits for settles: as requests are *)
(* finitely many, there are always times ahead when none is under way.     *)
(***************************************************************************)
EventuallyAnswered ==
  []<>(\A r \in Requests : ~UnderWay(r))

=============================================================================
