-------------------------- MODULE DemoExtensionProofs --------------------------
(***************************************************************************)
(* Theorems about DemoExtension, for every number of requests, of rows, of *)
(* asks and of contexts: one worker lives unless boots overlapped, no row  *)
(* of the log is lost, a lost race to create the offscreen document is no  *)
(* failure, and the popup runs what was started and not stopped.           *)
(***************************************************************************)
EXTENDS DemoExtension, SequenceTheorems, TLAPS

-----------------------------------------------------------------------------
(* The offscreen document. *)

\* a creation that looks again for a document that is gone has missed its close
Races ==
  /\ document \in BOOLEAN
  /\ creation \in [Contexts -> {"none", "asking", "creating", "checking", "done", "failed"}]
  /\ \A k \in Contexts :
       creation[k] = "failed" \/ (creation[k] = "checking" /\ ~document) => k \in closures

-----------------------------------------------------------------------------
(* The service worker. *)

Waits ==
  {"new", "saveActive", "saveRunning", "saveServed", "saveStopped", "load", "loadActive", "ensure",
   "probe", "boot", "booted"} \cup Over

\* where a request is before it boots anything
Before == {"new", "saveActive", "saveRunning", "load", "loadActive", "ensure", "probe"}

RequestType ==
  [kind : {"none", "start", "poll", "stop"}, key : SUBSET Settings, at : Waits, worker : Requests \cup {NoWorker}]

WatcherTypeOK ==
  /\ request \in [Requests -> RequestType]
  /\ boot \in [Requests -> {"none", "booting", "ready", "rejected", "failed", "closed"}]
  /\ cache \in [worker : Requests \cup {NoWorker}, key : SUBSET Settings]
  /\ session \in [active : SUBSET Settings, running : BOOLEAN]
  /\ overlap \in BOOLEAN

\* what a request boots follows the request, and only what is ready is ever cached
Boots ==
  /\ \A r \in Requests : request[r].at \in Before => boot[r] = "none"
  /\ \A r \in Requests : request[r].at = "boot" => boot[r] = "booting"
  /\ cache.worker # NoWorker => boot[cache.worker] \in {"ready", "failed", "closed"}

\* as long as boots did not overlap there is one at a time, with nothing else alive beside it
Single ==
  ~overlap =>
    /\ \A q, r \in Requests : Booting(q) /\ Booting(r) => q = r
    /\ \A q, r \in Requests : Booting(q) => boot[r] # "ready"
    /\ \A r \in Requests : boot[r] = "ready" => cache.worker = r

-----------------------------------------------------------------------------
(* The log. *)

\* rows are as far apart as their places at least, up to the last that was appended
Apart(s, last) ==
  /\ s \in Seq(1 .. last)
  /\ \A i, j \in 1 .. Len(s) : i <= j => s[j] - s[i] >= j - i

\* the rows that count: those since the last clear, up to the buffer's limit
Holds(s, since, last) ==
  \A n \in 1 .. last : n > since /\ n > last - LogRows => \E i \in 1 .. Len(s) : s[i] = n

\* what is stored, and what the append under way is about to store
Logged ==
  /\ tail \in [asked : Nat, begun : Nat, stored : Nat, loaded : Seq(Seq(Nat))]
  /\ cleared \in Nat /\ cleared <= tail.begun
  /\ Apart(rows, tail.stored) /\ Holds(rows, cleared, tail.stored)
  /\ \/ tail.begun = tail.stored /\ tail.loaded = <<>>
     \/ /\ tail.begun = tail.stored + 1 /\ Len(tail.loaded) = 1
        /\ Apart(tail.loaded[1], tail.begun) /\ Holds(tail.loaded[1], cleared, tail.begun)

-----------------------------------------------------------------------------
(* The popup's watch. *)

Balance == [of : Int, for : Int]
Ask == [kind : {"none", "start", "poll"}, at : {"new", "sent", "saved", "read", "answered", "refused", "over"},
        got : Balance, heard : BOOLEAN]
Session == [running : BOOLEAN, account : Int, last : Balance]

Popup == [opening : {"status", "logs", "done"}, told : Session, running : BOOLEAN, starting : BOOLEAN,
          intervals : Int, timer : BOOLEAN, account : Int, eager : BOOLEAN]

WatchTypeOK ==
  /\ popup \in Popup
  /\ service \in Session
  /\ ask \in [Asks -> Ask]
  /\ shown \in Balance
  /\ wanted \in BOOLEAN /\ revived \in BOOLEAN /\ crossed \in BOOLEAN

\* the account that was running at first, or of a start that was clicked
Clicked(account) == account = 0 \/ (account \in Asks /\ ask[account].at # "new")

\* a request is made by the popup, and answered to it, or is none; they are made in order
Asking ==
  /\ \A r \in Asks :
       /\ ask[r].kind = "none" <=> ask[r].at \in {"new", "over"}
       /\ ask[r].at \in {"answered", "refused"} => ask[r].heard
       /\ ask[r].at = "saved" => ask[r].kind = "start"
       /\ ask[r].at = "read" => ask[r].kind = "poll"
       /\ \A q \in Asks : q < r /\ ask[q].at = "new" => ask[r].at = "new"
  /\ Clicked(service.account) /\ Clicked(popup.account)

One(condition) == IF condition THEN 1 ELSE 0

\* how many intervals there are, and what may add one
OneInterval ==
  /\ popup.intervals >= One(popup.running)
  /\ popup.intervals + One(popup.running /\ popup.starting) <= One(popup.running) + One(popup.eager)
  /\ popup.running => popup.timer
  /\ popup.opening # "done" =>
       /\ popup.intervals = One(popup.running)
       /\ popup.running \/ popup.starting => popup.eager
       /\ ~(popup.running /\ popup.starting)
  /\ popup.starting => wanted
  /\ \A r \in Asks : ask[r].kind = "start" /\ ask[r].heard => popup.starting
  /\ \A q, r \in Asks :
       ask[q].kind = "start" /\ ask[q].heard /\ ask[r].kind = "start" /\ ask[r].heard => q = r

\* a balance is of the account that was watched when it was asked for, or of a later one
Stands(b) == b.of # Nothing /\ b.for <= b.of /\ b.of <= service.account

\* what is running was wanted, and which account's it is
OneAccount ==
  ~crossed =>
    /\ service.running \/ popup.running => wanted \/ revived
    /\ popup.running => popup.account = service.account
    /\ popup.opening = "logs" /\ popup.told.running /\ ~popup.eager =>
         popup.account = service.account /\ (wanted \/ revived)
    /\ \A r \in Asks : ask[r].kind = "start" /\ ask[r].heard =>
         /\ ~popup.running /\ popup.account = r
         /\ ask[r].at # "sent" => service.account = r
    /\ \A r \in Asks : ask[r].kind = "start" /\ ask[r].at = "sent" =>
         /\ wanted /\ service.account < r
         /\ ~ask[r].heard => popup.opening = "status" /\ ~popup.starting /\ ~popup.running
         /\ \A q \in Asks : ask[q].kind = "start" /\ ask[q].at = "sent" => q = r

\* every balance that was got, stored, told and shown
Balances ==
  ~crossed =>
    /\ \A r \in Asks : ask[r].kind = "poll" =>
         /\ ask[r].got.for <= service.account
         /\ ask[r].at \in {"read", "answered"} => Stands(ask[r].got)
    /\ \A b \in {service.last, popup.told.last, shown} : b = NoBalance \/ Stands(b)

-----------------------------------------------------------------------------
(* Who loses the race to create the document. *)

LEMMA RacesInit == DocumentInit => Races
BY DEF DocumentInit, Races

LEMMA RacesStep ==
  ASSUME Races, [DocumentNext]_documentVars
  PROVE  Races'
<1>1. CASE UNCHANGED documentVars
  BY <1>1 DEF Races, documentVars
<1>2. ASSUME NEW k \in Contexts, EnsureOffscreenDocument(k) PROVE Races'
  BY <1>2 DEF Races, EnsureOffscreenDocument, To
<1>3. ASSUME NEW k \in Contexts, HasDocument(k) PROVE Races'
  BY <1>3 DEF Races, HasDocument, To
<1>4. ASSUME NEW k \in Contexts, CreateDocument(k) PROVE Races'
  BY <1>4 DEF Races, CreateDocument, To
<1>5. ASSUME NEW k \in Contexts, StillThere(k) PROVE Races'
  BY <1>5 DEF Races, StillThere, To
<1>6. CASE CloseOffscreenDocument
  BY <1>6 DEF Races, CloseOffscreenDocument
<1>. QED  BY <1>1, <1>2, <1>3, <1>4, <1>5, <1>6 DEF DocumentNext

-----------------------------------------------------------------------------
(* Which workers live. *)

Watcher == WatcherTypeOK /\ Boots /\ Single

LEMMA WatcherInit == WatchInit => Watcher
<1>. SUFFICES ASSUME WatchInit PROVE Watcher
  OBVIOUS
<1>1. /\ \A r \in Requests : request[r].at = "new" /\ boot[r] = "none"
      /\ cache.worker = NoWorker
  BY DEF WatchInit, NewRequest
<1>2. WatcherTypeOK
  BY DEF WatchInit, NewRequest, WatcherTypeOK, RequestType, Waits
<1>3. Boots /\ Single
  BY <1>1 DEF Boots, Single, Booting
<1>. QED  BY <1>2, <1>3 DEF Watcher

(***************************************************************************)
(* A request goes on, or is over: nothing else of it changes then.         *)
(***************************************************************************)
LEMMA Goes ==
  ASSUME WatcherTypeOK, NEW r \in Requests, NEW where \in Waits, Go(r, where)
  PROVE  /\ request' \in [Requests -> RequestType]
         /\ request'[r].at = where
         /\ \A q \in Requests : q # r => request'[q] = request[q]
BY DEF WatcherTypeOK, RequestType, Go, NewRequest

(***************************************************************************)
(* What close() leaves of the workers.                                     *)
(***************************************************************************)
LEMMA CloseLeaves ==
  ASSUME WatcherTypeOK
  PROVE  /\ ClosedCached \in [Requests -> {"none", "booting", "ready", "rejected", "failed", "closed"}]
         /\ \A r \in Requests : ClosedCached[r] # boot[r] =>
              r = cache.worker /\ boot[r] = "ready" /\ ClosedCached[r] = "closed"
         /\ cache.worker \in Requests => ClosedCached[cache.worker] # "ready"
BY DEF WatcherTypeOK, ClosedCached

(***************************************************************************)
(* A step of a request that neither boots nor closes anything.             *)
(***************************************************************************)
LEMMA OnlyGoes ==
  ASSUME Watcher, NEW r \in Requests,
         UNCHANGED <<boot, cache, overlap>>, session' \in [active : SUBSET Settings, running : BOOLEAN],
         request' \in [Requests -> RequestType],
         \A q \in Requests : q # r => request'[q] = request[q],
         request'[r].at \in Before => request[r].at \in Before,
         request'[r].at \notin {"probe", "boot"}
  PROVE  Watcher'
<1>1. WatcherTypeOK'
  BY DEF Watcher, WatcherTypeOK
<1>2. Boots'
  BY DEF Watcher, Boots
<1>3. \A q \in Requests : Booting(q)' => Booting(q)
  BY DEF Booting
<1>4. Single'
  BY <1>3 DEF Watcher, Single
<1>. QED  BY <1>1, <1>2, <1>4 DEF Watcher

(***************************************************************************)
(* A request whose place, and one more field, changes.                     *)
(***************************************************************************)
LEMMA Places ==
  ASSUME WatcherTypeOK, NEW r \in Requests, NEW where \in Waits,
         \/ \E w \in Requests \cup {NoWorker} : request' = [request EXCEPT ![r].at = where, ![r].worker = w]
         \/ \E key \in SUBSET Settings : request' = [request EXCEPT ![r].at = where, ![r].key = key]
  PROVE  /\ request' \in [Requests -> RequestType]
         /\ request'[r].at = where
         /\ \A q \in Requests : q # r => request'[q] = request[q]
<1>1. request \in [Requests -> RequestType] /\ request[r] \in RequestType
  BY DEF WatcherTypeOK
<1>2. ASSUME NEW w \in Requests \cup {NoWorker}, request' = [request EXCEPT ![r].at = where, ![r].worker = w]
      PROVE  request' = [request EXCEPT ![r] = [request[r] EXCEPT !.at = where, !.worker = w]]
  BY <1>1, <1>2
<1>3. ASSUME NEW key \in SUBSET Settings, request' = [request EXCEPT ![r].at = where, ![r].key = key]
      PROVE  request' = [request EXCEPT ![r] = [request[r] EXCEPT !.at = where, !.key = key]]
  BY <1>1, <1>3
<1>4. ASSUME NEW w \in Requests \cup {NoWorker}
      PROVE  [request[r] EXCEPT !.at = where, !.worker = w] \in RequestType
             /\ [request[r] EXCEPT !.at = where, !.worker = w].at = where
  BY <1>1 DEF RequestType
<1>5. ASSUME NEW key \in SUBSET Settings
      PROVE  [request[r] EXCEPT !.at = where, !.key = key] \in RequestType
             /\ [request[r] EXCEPT !.at = where, !.key = key].at = where
  BY <1>1 DEF RequestType
<1>6. ASSUME NEW to \in RequestType, to.at = where, request' = [request EXCEPT ![r] = to]
      PROVE  /\ request' \in [Requests -> RequestType]
             /\ request'[r].at = where
             /\ \A q \in Requests : q # r => request'[q] = request[q]
  BY <1>1, <1>6
<1>. QED  BY <1>2, <1>3, <1>4, <1>5, <1>6

LEMMA WatcherStep ==
  ASSUME Watcher, [WatchNext]_watchVars
  PROVE  Watcher'
<1>. USE DEF NoWorker
<1>1. /\ WatcherTypeOK /\ Boots /\ Single
      /\ request \in [Requests -> RequestType]
      /\ boot \in [Requests -> {"none", "booting", "ready", "rejected", "failed", "closed"}]
      /\ cache \in [worker : Requests \cup {NoWorker}, key : SUBSET Settings]
      /\ session \in [active : SUBSET Settings, running : BOOLEAN]
      /\ overlap \in BOOLEAN
      /\ \A r \in Requests : request[r].key \in SUBSET Settings
  BY DEF Watcher, WatcherTypeOK, RequestType
<1>2. CASE UNCHANGED watchVars
  BY <1>2 DEF watchVars, Watcher, WatcherTypeOK, Boots, Single, Booting
<1>3. ASSUME NEW r \in Requests, NEW kind \in {"start", "poll", "stop"}, NEW key \in Settings, Receive(r, kind, key)
      PROVE  Watcher'
  <2>. DEFINE new == [kind |-> kind, key |-> IF kind = "start" THEN {key} ELSE {},
                      at |-> CASE kind = "start" -> "saveActive" [] kind = "poll" -> "load"
                               [] OTHER -> "saveStopped",
                      worker |-> NoWorker]
  <2>1. /\ new \in RequestType
        /\ new.at \in {"saveActive", "load", "saveStopped"}
    BY DEF RequestType, Waits
  <2>2. request' = [request EXCEPT ![r] = new] /\ request[r].at = "new"
    BY <1>3 DEF Receive
  <2>. HIDE DEF new
  <2>3. /\ request' \in [Requests -> RequestType]
        /\ \A q \in Requests : q # r => request'[q] = request[q]
        /\ request'[r].at \in {"saveActive", "load", "saveStopped"}
    BY <1>1, <2>1, <2>2
  <2>4. CASE kind # "stop"
    <3>1. UNCHANGED <<boot, cache, session, overlap>>
      BY <1>3, <2>4 DEF Receive
    <3>. QED  BY <1>1, <2>2, <2>3, <3>1, OnlyGoes DEF Before
  <2>5. CASE kind = "stop"
    <3>1. boot' = ClosedCached /\ cache' = [worker |-> NoWorker, key |-> {}] /\ UNCHANGED <<session, overlap>>
      BY <1>3, <2>5 DEF Receive
    <3>2. WatcherTypeOK'
      BY <1>1, <2>3, <3>1, CloseLeaves DEF WatcherTypeOK
    <3>3. \A q \in Requests : boot'[q] = boot[q] \/ (boot[q] = "ready" /\ boot'[q] = "closed")
      BY <1>1, <3>1, CloseLeaves
    <3>4. \A q \in Requests : request'[q].at \in Before \cup {"boot"} =>
            request[q].at \in Before \cup {"boot"} /\ (request'[q].at = "boot" <=> request[q].at = "boot")
      BY <2>2, <2>3 DEF Before
    <3>5. Boots'
      BY <1>1, <3>1, <3>3, <3>4 DEF Boots, Before
    <3>6. \A q \in Requests : Booting(q)' => Booting(q)
      BY <2>2, <2>3 DEF Booting
    <3>7. ASSUME ~overlap, NEW q \in Requests PROVE boot'[q] # "ready"
      BY <1>1, <3>1, <3>3, <3>7, CloseLeaves DEF Single
    <3>8. Single'
      BY <1>1, <3>1, <3>6, <3>7 DEF Single
    <3>. QED  BY <3>2, <3>5, <3>8 DEF Watcher
  <2>. QED  BY <2>4, <2>5
<1>4. ASSUME NEW r \in Requests,
             SaveActive(r) \/ SaveRunning(r) \/ SaveStopped(r) \/ LoadRuntime(r) \/ LoadActive(r)
      PROVE  Watcher'
  <2>1. CASE LoadActive(r)
    <3>1. request' = [request EXCEPT ![r].at = "ensure", ![r].key = session.active]
          /\ UNCHANGED <<boot, cache, session, overlap>> /\ request[r].at = "loadActive"
      BY <2>1 DEF LoadActive
    <3>2. /\ request' \in [Requests -> RequestType]
          /\ \A q \in Requests : q # r => request'[q] = request[q]
          /\ request'[r].at = "ensure"
      BY <1>1, <3>1, Places DEF Waits
    <3>. QED  BY <1>1, <3>1, <3>2, OnlyGoes DEF Before
  <2>2. ASSUME NEW where \in Waits \ {"probe", "boot"}, Go(r, where), UNCHANGED <<boot, cache, overlap>>,
               session' \in [active : SUBSET Settings, running : BOOLEAN],
               where \in Before => request[r].at \in Before
        PROVE  Watcher'
    BY <1>1, <2>2, Goes, OnlyGoes
  <2>3. CASE SaveActive(r)
    <3>1. /\ Go(r, "saveRunning") /\ UNCHANGED <<boot, cache, overlap>> /\ request[r].at \in Before
          /\ session' \in [active : SUBSET Settings, running : BOOLEAN]
      <4>1. session' = [session EXCEPT !.active = request[r].key]
        BY <2>3 DEF SaveActive
      <4>. QED  BY <1>1, <2>3, <4>1 DEF SaveActive, Before
    <3>. QED  BY <2>2, <3>1 DEF Waits
  <2>4. CASE SaveRunning(r)
    <3>. DEFINE where == IF request[r].at = "saveRunning" THEN "ensure" ELSE "answered"
    <3>1. /\ Go(r, where) /\ UNCHANGED <<boot, cache, overlap>>
          /\ session' \in [active : SUBSET Settings, running : BOOLEAN]
      BY <1>1, <2>4 DEF SaveRunning
    <3>2. where \in Waits \ {"probe", "boot"} /\ (where \in Before => request[r].at \in Before)
      BY DEF Waits, Before, Over
    <3>. HIDE DEF where
    <3>. QED  BY <2>2, <3>1, <3>2
  <2>5. CASE SaveStopped(r)
    <3>. DEFINE where == IF request[r].kind = "stop" THEN "answered" ELSE "refused"
    <3>1. /\ Go(r, where) /\ UNCHANGED <<boot, cache, overlap>>
          /\ session' \in [active : SUBSET Settings, running : BOOLEAN]
      BY <1>1, <2>5 DEF SaveStopped
    <3>2. where \in (Waits \ {"probe", "boot"}) \ Before
      BY DEF Waits, Before, Over
    <3>. HIDE DEF where
    <3>. QED  BY <2>2, <3>1, <3>2
  <2>6. CASE LoadRuntime(r)
    <3>. DEFINE where == IF session.running THEN "loadActive" ELSE "refused"
    <3>1. /\ Go(r, where) /\ UNCHANGED <<boot, cache, overlap>>
          /\ session' \in [active : SUBSET Settings, running : BOOLEAN]
          /\ request[r].at \in Before
      BY <1>1, <2>6 DEF LoadRuntime, Before
    <3>2. where \in Waits \ {"probe", "boot"}
      BY DEF Waits, Over
    <3>. HIDE DEF where
    <3>. QED  BY <2>2, <3>1, <3>2
  <2>. QED  BY <1>4, <2>1, <2>3, <2>4, <2>5, <2>6
<1>5. ASSUME NEW r \in Requests, EnsureWorker(r) PROVE Watcher'
  <2>1. CASE cache.worker # NoWorker /\ cache.key = request[r].key
    <3>1. /\ request' = [request EXCEPT ![r].at = "booted", ![r].worker = cache.worker]
          /\ UNCHANGED <<boot, overlap, cache, session>>
      BY <1>5, <2>1 DEF EnsureWorker
    <3>2. /\ request' \in [Requests -> RequestType]
          /\ \A q \in Requests : q # r => request'[q] = request[q]
          /\ request'[r].at = "booted"
      BY <1>1, <3>1, Places DEF Waits
    <3>. QED  BY <1>1, <3>1, <3>2, OnlyGoes DEF Before
  <2>2. CASE ~(cache.worker # NoWorker /\ cache.key = request[r].key)
    <3>1. /\ request[r].at = "ensure" /\ boot' = ClosedCached /\ Go(r, "probe")
          /\ overlap' = (overlap \/ \E q \in Requests : Booting(q))
          /\ UNCHANGED <<cache, session>>
      BY <1>5, <2>2 DEF EnsureWorker
    <3>2. /\ request' \in [Requests -> RequestType]
          /\ \A q \in Requests : q # r => request'[q] = request[q]
          /\ request'[r].at = "probe"
      BY <1>1, <3>1, Goes DEF Waits
    <3>3. WatcherTypeOK'
      BY <1>1, <3>1, <3>2, CloseLeaves DEF WatcherTypeOK
    <3>4. \A q \in Requests : boot'[q] = boot[q] \/ (boot[q] = "ready" /\ boot'[q] = "closed")
      BY <1>1, <3>1, CloseLeaves
    <3>5. Boots'
      BY <1>1, <3>1, <3>2, <3>4 DEF Boots, Before
    <3>6. ASSUME ~overlap' PROVE ~overlap /\ \A q \in Requests : ~Booting(q)
      BY <3>1, <3>6
    <3>7. ASSUME ~overlap, NEW q \in Requests PROVE boot'[q] # "ready"
      BY <1>1, <3>1, <3>4, <3>7, CloseLeaves DEF Single
    <3>8. ASSUME ~overlap', NEW q \in Requests, Booting(q)' PROVE q = r
      BY <3>2, <3>6, <3>8 DEF Booting
    <3>9. Single'
      BY <3>6, <3>7, <3>8 DEF Single
    <3>. QED  BY <3>3, <3>5, <3>9 DEF Watcher
  <2>. QED  BY <2>1, <2>2
<1>6. ASSUME NEW r \in Requests, NEW ok \in BOOLEAN, ChainAnswers(r, ok) PROVE Watcher'
  <2>1. /\ request[r].at = "probe" /\ UNCHANGED <<cache, session, overlap>> /\ boot[r] = "none"
    BY <1>1, <1>6 DEF ChainAnswers, Boots, Before
  <2>2. CASE ok
    <3>1. boot' = [boot EXCEPT ![r] = "booting"] /\ Go(r, "boot")
      BY <1>6, <2>2 DEF ChainAnswers
    <3>2. /\ request' \in [Requests -> RequestType]
          /\ \A q \in Requests : q # r => request'[q] = request[q]
          /\ request'[r].at = "boot"
      BY <1>1, <3>1, Goes DEF Waits
    <3>3. WatcherTypeOK'
      BY <1>1, <2>1, <3>1, <3>2 DEF WatcherTypeOK
    <3>4. Boots'
      BY <1>1, <2>1, <3>1, <3>2 DEF Boots, Before
    <3>5. \A q \in Requests : Booting(q)' => Booting(q)
      BY <2>1, <3>2 DEF Booting
    <3>6. \A q \in Requests : boot'[q] = "ready" => boot[q] = "ready"
      BY <1>1, <3>1
    <3>7. Single'
      BY <1>1, <2>1, <3>5, <3>6 DEF Single
    <3>. QED  BY <3>3, <3>4, <3>7 DEF Watcher
  <2>3. CASE ~ok
    <3>1. UNCHANGED boot /\ Go(r, Failed(r)) /\ Failed(r) \in {"saveStopped", "refused"}
      BY <1>1, <1>6, <2>3 DEF ChainAnswers, Failed
    <3>2. /\ request' \in [Requests -> RequestType]
          /\ \A q \in Requests : q # r => request'[q] = request[q]
          /\ request'[r].at = Failed(r)
      BY <1>1, <3>1, Goes DEF Waits, Over
    <3>. QED  BY <1>1, <2>1, <3>1, <3>2, OnlyGoes DEF Before
  <2>. QED  BY <2>2, <2>3
<1>7. ASSUME NEW r \in Requests, NEW ok \in BOOLEAN, ReadySettles(r, ok) PROVE Watcher'
  <2>1. /\ request[r].at = "boot" /\ boot[r] = "booting" /\ UNCHANGED <<session, overlap>> /\ Booting(r)
    BY <1>1, <1>7 DEF ReadySettles, Boots, Booting
  <2>2. cache.worker # r
    BY <1>1, <2>1 DEF Boots, Requests
  <2>3. CASE ok
    <3>1. /\ boot' = [boot EXCEPT ![r] = "ready"] /\ cache' = [worker |-> r, key |-> request[r].key]
          /\ request' = [request EXCEPT ![r].at = "booted", ![r].worker = r]
      BY <1>7, <2>3 DEF ReadySettles
    <3>2. /\ request' \in [Requests -> RequestType]
          /\ \A q \in Requests : q # r => request'[q] = request[q]
          /\ request'[r].at = "booted"
      BY <1>1, <3>1, Places DEF Waits
    <3>3. WatcherTypeOK'
      <4>1. cache' \in [worker : Requests \cup {NoWorker}, key : SUBSET Settings]
        BY <1>1, <3>1
      <4>2. boot' \in [Requests -> {"none", "booting", "ready", "rejected", "failed", "closed"}]
        BY <1>1, <3>1
      <4>. QED  BY <1>1, <2>1, <3>2, <4>1, <4>2 DEF WatcherTypeOK
    <3>4. Boots'
      BY <1>1, <2>1, <3>1, <3>2 DEF Boots, Before
    <3>5. ASSUME ~overlap, NEW q \in Requests PROVE ~Booting(q)' /\ (boot'[q] = "ready" => q = r)
      BY <1>1, <2>1, <3>1, <3>2, <3>5 DEF Single, Booting
    <3>6. Single'
      BY <2>1, <3>1, <3>5 DEF Single
    <3>. QED  BY <3>3, <3>4, <3>6 DEF Watcher
  <2>4. CASE ~ok
    <3>1. /\ boot' = [boot EXCEPT ![r] = "rejected"] /\ UNCHANGED cache /\ Go(r, Failed(r))
          /\ Failed(r) \in {"saveStopped", "refused"}
      BY <1>7, <2>4 DEF ReadySettles, Failed
    <3>2. /\ request' \in [Requests -> RequestType]
          /\ \A q \in Requests : q # r => request'[q] = request[q]
          /\ request'[r].at = Failed(r)
      BY <1>1, <3>1, Goes DEF Waits, Over
    <3>3. WatcherTypeOK'
      BY <1>1, <2>1, <3>1, <3>2 DEF WatcherTypeOK
    <3>4. Boots'
      BY <1>1, <2>1, <2>2, <3>1, <3>2 DEF Boots, Before
    <3>5. \A q \in Requests : Booting(q)' => Booting(q)
      BY <3>1, <3>2 DEF Booting
    <3>6. \A q \in Requests : boot'[q] = "ready" => boot[q] = "ready"
      BY <1>1, <3>1
    <3>7. Single'
      BY <1>1, <2>1, <3>1, <3>5, <3>6 DEF Single
    <3>. QED  BY <3>3, <3>4, <3>7 DEF Watcher
  <2>. QED  BY <2>3, <2>4
<1>8. ASSUME NEW r \in Requests, NEW ok \in BOOLEAN, Serve(r, ok) PROVE Watcher'
  <2>. DEFINE where == IF ok THEN "saveServed" ELSE "refused"
  <2>1. Go(r, where) /\ UNCHANGED <<boot, cache, session, overlap>>
    BY <1>8 DEF Serve
  <2>2. where \in (Waits \ {"probe", "boot"}) \ Before
    BY DEF Waits, Before, Over
  <2>. HIDE DEF where
  <2>. QED  BY <1>1, <2>1, <2>2, Goes, OnlyGoes
<1>9. ASSUME NEW r \in Requests, WorkerFails(r) PROVE Watcher'
  <2>1. boot[r] = "ready" /\ boot' = [boot EXCEPT ![r] = "failed"] /\ UNCHANGED <<request, cache, session, overlap>>
    BY <1>9 DEF WorkerFails
  <2>2. WatcherTypeOK' /\ Boots'
    BY <1>1, <2>1 DEF WatcherTypeOK, Boots, Before
  <2>3. \A q \in Requests : boot'[q] = "ready" => boot[q] = "ready"
    BY <1>1, <2>1
  <2>4. Single'
    BY <1>1, <2>1, <2>3 DEF Single, Booting
  <2>. QED  BY <2>2, <2>4 DEF Watcher
<1>10. CASE Kill
  <2>1. /\ request' = [r \in Requests |-> IF UnderWay(r) THEN [NewRequest EXCEPT !.at = "refused"] ELSE request[r]]
        /\ boot' = [r \in Requests |-> IF boot[r] \in {"booting", "ready"} THEN "closed" ELSE boot[r]]
        /\ cache' = [worker |-> NoWorker, key |-> {}]
        /\ UNCHANGED <<session, overlap>>
    BY <1>10 DEF Kill
  <2>2. [NewRequest EXCEPT !.at = "refused"]
          \in RequestType
        /\ [NewRequest EXCEPT !.at = "refused"].at = "refused"
    BY DEF NewRequest, RequestType, Waits, Over
  <2>3. /\ request' \in [Requests -> RequestType]
        /\ \A r \in Requests : request'[r].at \in Over \/ (request'[r] = request[r] /\ ~UnderWay(r))
    <3>1. \A r \in Requests : request'[r] = IF UnderWay(r) THEN [NewRequest EXCEPT !.at = "refused"] ELSE request[r]
      BY <2>1
    <3>2. \A r \in Requests : request'[r] \in RequestType
      BY <1>1, <2>2, <3>1
    <3>3. request' \in [Requests -> RequestType]
      BY <2>1, <3>2
    <3>4. "refused" \in Over
      BY DEF Over
    <3>5. ASSUME NEW r \in Requests PROVE request'[r].at \in Over \/ (request'[r] = request[r] /\ ~UnderWay(r))
      <4>1. CASE UnderWay(r)
        BY <2>2, <3>1, <3>4, <4>1
      <4>2. CASE ~UnderWay(r)
        BY <3>1, <4>2
      <4>. QED  BY <4>1, <4>2
    <3>. QED  BY <3>3, <3>5
  <2>4. \A r \in Requests : boot'[r] # "ready" /\ (boot[r] = "none" => boot'[r] = "none")
    BY <2>1
  <2>5. WatcherTypeOK'
    BY <1>1, <2>1, <2>3 DEF WatcherTypeOK
  <2>6. \A r \in Requests : ~Booting(r)' /\ request'[r].at # "boot"
    BY <2>3 DEF Booting, UnderWay, Over
  <2>7. Boots'
    BY <1>1, <2>1, <2>3, <2>4, <2>6 DEF Boots, Before, Over
  <2>8. Single'
    BY <2>4, <2>6 DEF Single
  <2>. QED  BY <2>5, <2>7, <2>8 DEF Watcher
<1>. QED  BY <1>2, <1>3, <1>4, <1>5, <1>6, <1>7, <1>8, <1>9, <1>10 DEF WatchNext, Proceed

-----------------------------------------------------------------------------
(* No row is lost. *)

(***************************************************************************)
(* slice(-n): the last n of a list.                                        *)
(***************************************************************************)
LEMMA Slice ==
  ASSUME NEW S, NEW s \in Seq(S), NEW n \in Nat \ {0}
  PROVE  LET from == Max({0, Len(s) - n})
             t == SubSeq(s, from + 1, Len(s))
         IN  /\ from \in Nat /\ from <= Len(s) /\ from >= Len(s) - n
             /\ t \in Seq(S) /\ Len(t) = Len(s) - from
             /\ \A i \in 1 .. Len(t) : t[i] = s[from + i]
             /\ Len(s) - n <= 0 => from = 0
             /\ Len(s) - n > 0 => from = Len(s) - n
<1>. DEFINE from == Max({0, Len(s) - n})
<1>1. Len(s) \in Nat
  BY LenProperties
<1>2. (Len(s) - n <= 0 => from = 0) /\ (Len(s) - n > 0 => from = Len(s) - n)
  <2>1. ASSUME Len(s) - n <= 0 PROVE from = 0
    BY <1>1, <2>1 DEF Max
  <2>2. ASSUME Len(s) - n > 0 PROVE from = Len(s) - n
    BY <1>1, <2>2 DEF Max
  <2>. QED  BY <2>1, <2>2
<1>3. from \in Nat /\ from <= Len(s) /\ from >= Len(s) - n
  BY <1>1, <1>2
<1>. HIDE DEF from
<1>4. SubSeq(s, from + 1, Len(s)) = [i \in 1 .. (Len(s) - from) |-> s[from + i]]
  BY <1>1, <1>3
<1>5. \A i \in 1 .. (Len(s) - from) : from + i \in 1 .. Len(s) /\ s[from + i] \in S
  BY <1>1, <1>3, ElementOfSeq
<1>6. LET t == SubSeq(s, from + 1, Len(s))
      IN  /\ t \in Seq(S) /\ Len(t) = Len(s) - from
          /\ \A i \in 1 .. Len(t) : t[i] = s[from + i]
  BY <1>1, <1>3, <1>4, <1>5, SeqDef, LenProperties
<1>. QED  BY <1>2, <1>3, <1>6 DEF from

(***************************************************************************)
(* A row that is appended is apart from those before it, and none of them  *)
(* is lost.                                                                *)
(***************************************************************************)
LEMMA AppendApart ==
  ASSUME NEW s, NEW last \in Nat, Apart(s, last)
  PROVE  Apart(Append(s, last + 1), last + 1)
<1>. DEFINE t == Append(s, last + 1)
<1>1. /\ s \in Seq(1 .. last) /\ Len(s) \in Nat
      /\ \A i, j \in 1 .. Len(s) : i <= j => s[j] - s[i] >= j - i
      /\ \A i \in 1 .. Len(s) : s[i] \in 1 .. last
  BY LenProperties, ElementOfSeq DEF Apart
<1>2. s \in Seq(1 .. (last + 1))
  BY <1>1, SeqMonotonic
<1>3. /\ t \in Seq(1 .. (last + 1)) /\ Len(t) = Len(s) + 1
      /\ t[Len(s) + 1] = last + 1 /\ \A i \in 1 .. Len(s) : t[i] = s[i]
  BY <1>1, <1>2, AppendProperties
<1>. HIDE DEF t
<1>4. ASSUME NEW i \in 1 .. Len(t), NEW j \in 1 .. Len(t), i <= j PROVE t[j] - t[i] >= j - i
  <2>1. CASE j \in 1 .. Len(s)
    <3>1. i \in 1 .. Len(s)
      BY <1>1, <1>3, <1>4, <2>1
    <3>2. t[i] = s[i] /\ t[j] = s[j]
      BY <1>3, <2>1, <3>1
    <3>3. s[j] - s[i] >= j - i
      BY <1>1, <1>4, <2>1, <3>1
    <3>. QED  BY <3>2, <3>3
  <2>2. CASE j = Len(s) + 1 /\ i = j
    BY <1>3, <2>2
  <2>3. CASE j = Len(s) + 1 /\ i \in 1 .. Len(s)
    <3>. DEFINE newest == s[Len(s)]
                row == s[i]
    <3>1. newest - row >= Len(s) - i /\ newest \in 1 .. last /\ row \in 1 .. last
      <4>1. Len(s) \in 1 .. Len(s) /\ i <= Len(s)
        BY <1>1, <2>3
      <4>. QED  BY <1>1, <2>3, <4>1
    <3>2. t[j] = last + 1 /\ t[i] = row
      BY <1>3, <2>3
    <3>. HIDE DEF newest, row
    <3>3. (last + 1) - row >= (Len(s) + 1) - i
      BY <1>1, <2>3, <3>1
    <3>. QED  BY <2>3, <3>2, <3>3
  <2>. QED  BY <1>1, <1>3, <1>4, <2>1, <2>2, <2>3
<1>. QED  BY <1>3, <1>4 DEF Apart, t

LEMMA AppendHolds ==
  ASSUME NEW s, NEW last \in Nat, NEW since \in Nat, Apart(s, last), Holds(s, since, last)
  PROVE  Holds(Append(s, last + 1), since, last + 1)
<1>. DEFINE t == Append(s, last + 1)
<1>1. s \in Seq(1 .. last) /\ s \in Seq(Nat) /\ Len(s) \in Nat
  <2>1. s \in Seq(1 .. last)
    BY DEF Apart
  <2>. QED  BY <2>1, SeqMonotonic, LenProperties
<1>2. /\ Len(t) = Len(s) + 1 /\ t[Len(s) + 1] = last + 1 /\ \A i \in 1 .. Len(s) : t[i] = s[i]
  BY <1>1, AppendProperties
<1>. HIDE DEF t
<1>3. ASSUME NEW n \in 1 .. (last + 1), n > since, n > (last + 1) - LogRows
      PROVE  \E i \in 1 .. Len(t) : t[i] = n
  <2>1. CASE n = last + 1
    BY <1>1, <1>2, <2>1
  <2>2. CASE n \in 1 .. last
    <3>1. n > last - LogRows
      BY <1>3, <2>2, LogRowsAssumption
    <3>2. PICK i \in 1 .. Len(s) : s[i] = n
      BY <1>3, <2>2, <3>1 DEF Holds
    <3>. QED  BY <1>1, <1>2, <3>2
  <2>. QED  BY <1>3, <2>1, <2>2
<1>. QED  BY <1>3 DEF Holds, t

(***************************************************************************)
(* What slice(-LOG_ROWS) leaves of rows that are apart are the newest.     *)
(***************************************************************************)
LEMMA SliceApart ==
  ASSUME NEW s, NEW last \in Nat, NEW since \in Nat, Apart(s, last), Holds(s, since, last)
  PROVE  LET t == SubSeq(s, Max({0, Len(s) - LogRows}) + 1, Len(s))
         IN  Apart(t, last) /\ Holds(t, since, last)
<1>. DEFINE from == Max({0, Len(s) - LogRows})
            t == SubSeq(s, from + 1, Len(s))
<1>1. /\ s \in Seq(1 .. last) /\ Len(s) \in Nat
      /\ \A i, j \in 1 .. Len(s) : i <= j => s[j] - s[i] >= j - i
      /\ \A i \in 1 .. Len(s) : s[i] \in 1 .. last
      /\ LogRows \in Nat \ {0}
  BY LenProperties, ElementOfSeq, LogRowsAssumption DEF Apart
<1>2. /\ from \in Nat /\ from <= Len(s) /\ from >= Len(s) - LogRows
      /\ t \in Seq(1 .. last) /\ Len(t) = Len(s) - from
      /\ \A i \in 1 .. Len(t) : t[i] = s[from + i]
      /\ Len(s) - LogRows <= 0 => from = 0
      /\ Len(s) - LogRows > 0 => from = Len(s) - LogRows
  BY <1>1, Slice
<1>. HIDE DEF from, t
<1>3. ASSUME NEW i \in 1 .. Len(t), NEW j \in 1 .. Len(t), i <= j PROVE t[j] - t[i] >= j - i
  <2>1. from + i \in 1 .. Len(s) /\ from + j \in 1 .. Len(s) /\ from + i <= from + j
        /\ (from + j) - (from + i) = j - i
    BY <1>1, <1>2, <1>3
  <2>2. s[from + j] - s[from + i] >= (from + j) - (from + i)
    BY <1>1, <2>1
  <2>3. t[i] = s[from + i] /\ t[j] = s[from + j]
    BY <1>2
  <2>. QED  BY <2>1, <2>2, <2>3
<1>4. ASSUME NEW n \in 1 .. last, n > since, n > last - LogRows
      PROVE  \E i \in 1 .. Len(t) : t[i] = n
  <2>1. PICK j \in 1 .. Len(s) : s[j] = n
    BY <1>4 DEF Holds
  <2>2. j > from
    <3>. DEFINE newest == s[Len(s)]
    <3>1. newest - n >= Len(s) - j /\ newest \in 1 .. last
      <4>1. Len(s) \in 1 .. Len(s) /\ j <= Len(s)
        BY <1>1
      <4>2. s[Len(s)] - s[j] >= Len(s) - j
        BY <1>1, <4>1
      <4>. QED  BY <1>1, <2>1, <4>1, <4>2
    <3>. HIDE DEF newest
    <3>2. j > Len(s) - LogRows
      BY <1>1, <1>4, <3>1
    <3>3. CASE Len(s) - LogRows <= 0
      BY <1>2, <3>3
    <3>4. CASE Len(s) - LogRows > 0
      BY <1>2, <3>2, <3>4
    <3>. QED  BY <1>1, <3>3, <3>4
  <2>3. j - from \in 1 .. Len(t) /\ from + (j - from) = j
    BY <1>1, <1>2, <2>2
  <2>4. t[j - from] = s[from + (j - from)]
    BY <1>2, <2>3
  <2>. QED  BY <2>1, <2>3, <2>4
<1>5. Apart(t, last)
  BY <1>2, <1>3 DEF Apart
<1>6. Holds(t, since, last)
  BY <1>4 DEF Holds
<1>. QED  BY <1>5, <1>6 DEF t, from

LEMMA LoggedInit == PopupInit => Logged
<1>. SUFFICES ASSUME PopupInit PROVE Logged
  OBVIOUS
<1>1. /\ rows = <<>> /\ cleared = 0
      /\ tail = [asked |-> 0, begun |-> 0, stored |-> 0, loaded |-> <<>>]
  BY DEF PopupInit
<1>2. Len(<<>>) = 0 /\ <<>> \in Seq(1 .. 0) /\ <<>> \in Seq(Seq(Nat))
  BY EmptySeq
<1>3. Apart(<<>>, 0)
  BY <1>2 DEF Apart
<1>4. Holds(<<>>, 0, 0)
  BY DEF Holds
<1>5. /\ tail \in [asked : Nat, begun : Nat, stored : Nat, loaded : Seq(Seq(Nat))]
      /\ tail.stored = 0 /\ tail.begun = 0 /\ tail.loaded = <<>>
  BY <1>1, <1>2
<1>. QED  BY <1>1, <1>3, <1>4, <1>5 DEF Logged

LEMMA LoggedStep ==
  ASSUME Logged, [LogNext]_logVars
  PROVE  Logged'
<1>1. /\ tail \in [asked : Nat, begun : Nat, stored : Nat, loaded : Seq(Seq(Nat))]
      /\ cleared \in Nat /\ cleared <= tail.begun
      /\ Apart(rows, tail.stored) /\ Holds(rows, cleared, tail.stored)
      /\ \/ tail.begun = tail.stored /\ tail.loaded = <<>>
         \/ /\ tail.begun = tail.stored + 1 /\ Len(tail.loaded) = 1
            /\ Apart(tail.loaded[1], tail.begun) /\ Holds(tail.loaded[1], cleared, tail.begun)
  BY DEF Logged
<1>2. CASE UNCHANGED <<tail, rows, cleared>>
  BY <1>2 DEF Logged
<1>3. CASE AppendLog
  <2>1. tail' = [tail EXCEPT !.asked = tail.asked + 1] /\ UNCHANGED <<rows, cleared>>
    BY <1>3 DEF AppendLog
  <2>2. tail.asked + 1 \in Nat
    BY <1>1
  <2>3. tail' \in [asked : Nat, begun : Nat, stored : Nat, loaded : Seq(Seq(Nat))]
        /\ tail'.begun = tail.begun /\ tail'.stored = tail.stored /\ tail'.loaded = tail.loaded
    BY <1>1, <2>1, <2>2
  <2>. QED  BY <1>1, <2>1, <2>3 DEF Logged
<1>4. CASE AppendLoads
  <2>. DEFINE s == Append(rows, tail.begun + 1)
  <2>1. /\ tail.stored = tail.begun /\ tail.loaded = <<>>
        /\ UNCHANGED <<rows, cleared>>
        /\ tail' = [tail EXCEPT !.begun = tail.begun + 1, !.loaded = Append(<<>>, s)]
        /\ tail.begun + 1 \in Nat
    <3>1. /\ tail.stored = tail.begun /\ UNCHANGED <<rows, cleared>>
          /\ tail' = [tail EXCEPT !.begun = tail.begun + 1, !.loaded = Append(tail.loaded, s)]
      BY <1>4 DEF AppendLoads
    <3>2. tail.begun + 1 \in Nat /\ tail.begun # tail.begun + 1
      BY <1>1
    <3>3. tail.loaded = <<>>
      BY <1>1, <3>1, <3>2
    <3>. QED  BY <3>1, <3>2, <3>3
  <2>2. Apart(s, tail.begun + 1) /\ Holds(s, cleared, tail.begun + 1)
    BY <1>1, <2>1, AppendApart, AppendHolds
  <2>3. s \in Seq(Nat)
    BY <2>2, SeqMonotonic DEF Apart
  <2>. HIDE DEF s
  <2>4. Append(<<>>, s) \in Seq(Seq(Nat)) /\ Len(Append(<<>>, s)) = 1 /\ Append(<<>>, s)[1] = s
    BY <2>3, EmptySeq, AppendProperties
  <2>5. /\ tail' \in [asked : Nat, begun : Nat, stored : Nat, loaded : Seq(Seq(Nat))]
        /\ tail'.begun = tail.begun + 1 /\ tail'.stored = tail.stored
        /\ Len(tail'.loaded) = 1 /\ tail'.loaded[1] = s
    BY <1>1, <2>1, <2>4
  <2>. QED  BY <1>1, <2>1, <2>2, <2>5 DEF Logged
<1>5. CASE AppendStores
  <2>. DEFINE all == Head(tail.loaded)
              t == SubSeq(all, Max({0, Len(all) - LogRows}) + 1, Len(all))
  <2>1. /\ tail.loaded # <<>> /\ rows' = t /\ UNCHANGED cleared
        /\ tail' = [tail EXCEPT !.stored = tail.stored + 1, !.loaded = Tail(tail.loaded)]
    BY <1>5 DEF AppendStores
  <2>2. /\ tail.begun = tail.stored + 1 /\ Len(tail.loaded) = 1
        /\ Apart(all, tail.begun) /\ Holds(all, cleared, tail.begun)
    BY <1>1, <2>1
  <2>3. Apart(t, tail.begun) /\ Holds(t, cleared, tail.begun)
    BY <1>1, <2>2, SliceApart
  <2>. HIDE DEF t
  <2>4. Tail(tail.loaded) = <<>>
    <3>1. Tail(tail.loaded) \in Seq(Seq(Nat)) /\ Len(Tail(tail.loaded)) = Len(tail.loaded) - 1
      BY <1>1, <2>1, HeadTailProperties
    <3>2. Len(Tail(tail.loaded)) = 0
      BY <2>2, <3>1
    <3>. QED  BY <3>1, <3>2, EmptySeq
  <2>5. tail.stored + 1 \in Nat /\ <<>> \in Seq(Seq(Nat))
    BY <1>1, EmptySeq
  <2>6. /\ tail' \in [asked : Nat, begun : Nat, stored : Nat, loaded : Seq(Seq(Nat))]
        /\ tail'.begun = tail.begun /\ tail'.stored = tail.begun /\ tail'.loaded = <<>>
    BY <1>1, <2>1, <2>2, <2>4, <2>5
  <2>. QED  BY <1>1, <2>1, <2>3, <2>6 DEF Logged
<1>6. CASE ClearLogs
  <2>1. rows' = <<>> /\ cleared' = tail.begun /\ UNCHANGED tail
    BY <1>6 DEF ClearLogs
  <2>2. Apart(<<>>, tail.stored)
    BY EmptySeq DEF Apart
  <2>3. tail.begun >= tail.stored
    BY <1>1
  <2>4. Holds(<<>>, tail.begun, tail.stored)
    BY <1>1, <2>3 DEF Holds
  <2>5. \A u : Holds(u, tail.begun, tail.begun)
    BY <1>1 DEF Holds
  <2>. QED  BY <1>1, <2>1, <2>2, <2>3, <2>4, <2>5 DEF Logged
<1>. QED  BY <1>2, <1>3, <1>4, <1>5, <1>6 DEF LogNext, ClearTold, RefreshLogs, LogsArrive, Reopen, logVars

(***************************************************************************)
(* What holds of rows that are apart is what the property asks for.        *)
(***************************************************************************)
LEMMA LoggedKept == Logged => LogKept
<1>. SUFFICES ASSUME Logged PROVE LogKept
  OBVIOUS
<1>1. /\ rows \in Seq(1 .. tail.stored) /\ tail.stored \in Nat
      /\ \A i, j \in 1 .. Len(rows) : i <= j => rows[j] - rows[i] >= j - i
      /\ Holds(rows, cleared, tail.stored)
  BY DEF Logged, Apart
<1>2. /\ DOMAIN rows = 1 .. Len(rows) /\ Len(rows) \in Nat
      /\ \A i \in 1 .. Len(rows) : rows[i] \in 1 .. tail.stored
  BY <1>1, LenProperties, ElementOfSeq
<1>3. ASSUME NEW i \in DOMAIN rows, NEW j \in DOMAIN rows, i < j PROVE rows[i] < rows[j]
  <2>1. i \in 1 .. Len(rows) /\ j \in 1 .. Len(rows) /\ rows[i] \in Int /\ rows[j] \in Int
    BY <1>1, <1>2
  <2>2. rows[j] - rows[i] >= j - i
    BY <1>1, <1>3, <2>1
  <2>. QED  BY <1>3, <2>1, <2>2
<1>4. ASSUME NEW n \in 1 .. tail.stored, n > cleared, n > tail.stored - LogRows PROVE n \in ToSet(rows)
  BY <1>1, <1>2, <1>4 DEF Holds, ToSet
<1>. QED  BY <1>3, <1>4 DEF LogKept

-----------------------------------------------------------------------------
(* What the popup watches. *)

(***************************************************************************)
(* No balance, and no request, are values like any other.                  *)
(***************************************************************************)
LEMMA NothingType ==
  /\ NoBalance \in Balance /\ NotTold \in Session /\ NotTold.last = NoBalance /\ ~NotTold.running
  /\ \A where \in {"new", "over"} :
       Unasked(where) \in Ask /\ Unasked(where).kind = "none" /\ Unasked(where).at = where
BY DEF Nothing, NoBalance, Balance, NotTold, Session, Unasked, Ask

Watch == WatchTypeOK /\ Asking /\ OneInterval /\ OneAccount /\ Balances

LEMMA WatchingStarts == WatchingInit => Watch
<1>. SUFFICES ASSUME WatchingInit PROVE Watch
  OBVIOUS
<1>1. /\ popup = Opening /\ shown = NoBalance /\ revived = FALSE /\ crossed = FALSE
      /\ service.last = NoBalance /\ service.running = wanted /\ service.account = 0
      /\ service \in Session /\ wanted \in BOOLEAN
      /\ ask = [r \in Asks |-> Unasked("new")]
  BY NothingType DEF WatchingInit, Session
<1>2. /\ \A r \in Asks : ask[r].kind = "none" /\ ask[r].at = "new"
      /\ ask \in [Asks -> Ask]
  BY <1>1, NothingType
<1>3. /\ Opening.intervals = 0 /\ ~Opening.running /\ ~Opening.starting /\ Opening.opening = "status"
      /\ Opening.account = 0 /\ ~Opening.eager /\ Opening.told.last = NoBalance
      /\ Opening \in Popup
  BY NothingType DEF Opening, Popup
<1>4. WatchTypeOK
  BY <1>1, <1>2, <1>3, NothingType DEF WatchTypeOK
<1>5. Asking
  BY <1>1, <1>2, <1>3 DEF Asking, Clicked
<1>6. OneInterval
  BY <1>1, <1>2, <1>3 DEF OneInterval, One
<1>7. OneAccount
  BY <1>1, <1>2, <1>3 DEF OneAccount
<1>8. Balances
  BY <1>1, <1>2, <1>3 DEF Balances
<1>. QED  BY <1>4, <1>5, <1>6, <1>7, <1>8 DEF Watch

(***************************************************************************)
(* One request is sent, goes on or is over, and no other changes.          *)
(***************************************************************************)
LEMMA OneAsk ==
  ASSUME WatchTypeOK, NEW r \in Asks, NEW to \in Ask, ask' = [ask EXCEPT ![r] = to]
  PROVE  /\ ask' \in [Asks -> Ask] /\ ask'[r] = to
         /\ \A q \in Asks : q # r => ask'[q] = ask[q]
BY DEF WatchTypeOK

(***************************************************************************)
(* A request that is sent, and one that is over.                           *)
(***************************************************************************)
LEMMA SentType ==
  ASSUME NEW asks \in [Asks -> Ask], NEW r \in Asks, NEW kind \in {"start", "poll"},
         NEW account \in Int, ask' = Sent(asks, r, kind, account)
  PROVE  /\ ask' \in [Asks -> Ask] /\ ask'[r].kind = kind /\ ask'[r].at = "sent" /\ ask'[r].heard
         /\ ask'[r].got.for = account
         /\ \A q \in Asks : q # r => ask'[q] = asks[q]
<1>. DEFINE new == [kind |-> kind, at |-> "sent", heard |-> TRUE, got |-> [of |-> Nothing, for |-> account]]
<1>1. new \in Ask /\ new.kind = kind /\ new.at = "sent" /\ new.heard /\ new.got.for = account
  BY DEF Ask, Balance, Nothing
<1>2. ask' = [asks EXCEPT ![r] = new]
  BY DEF Sent
<1>. HIDE DEF new
<1>. QED  BY <1>1, <1>2

LEMMA IsOver ==
  ASSUME WatchTypeOK, NEW r \in Asks, ask' = [ask EXCEPT ![r] = Unasked("over")]
  PROVE  /\ ask' \in [Asks -> Ask] /\ ask'[r].kind = "none" /\ ask'[r].at = "over"
         /\ \A q \in Asks : q # r => ask'[q] = ask[q]
<1>1. Unasked("over") \in Ask /\ Unasked("over").kind = "none" /\ Unasked("over").at = "over"
  BY NothingType
<1>. QED  BY <1>1, OneAsk

(***************************************************************************)
(* A request goes on: the field of its progress, and no other.             *)
(***************************************************************************)
LEMMA GoesOn ==
  ASSUME WatchTypeOK, NEW r \in Asks, NEW where \in {"saved", "answered", "refused"},
         ask' = [ask EXCEPT ![r] = [ask[r] EXCEPT !.at = where]]
  PROVE  /\ ask' \in [Asks -> Ask]
         /\ \A q \in Asks : q # r => ask'[q] = ask[q]
         /\ ask'[r].at = where /\ ask'[r].kind = ask[r].kind /\ ask'[r].got = ask[r].got
         /\ ask'[r].heard = ask[r].heard
<1>. DEFINE new == [ask[r] EXCEPT !.at = where]
<1>1. ask[r] \in Ask
  BY DEF WatchTypeOK
<1>2. new \in Ask /\ new.at = where /\ new.kind = ask[r].kind /\ new.got = ask[r].got /\ new.heard = ask[r].heard
  BY <1>1 DEF Ask
<1>3. ask' = [ask EXCEPT ![r] = new]
  OBVIOUS
<1>. HIDE DEF new
<1>. QED  BY <1>2, <1>3, OneAsk

(***************************************************************************)
(* An answer is on its way to whoever asked, or to no one.                 *)
(***************************************************************************)
LEMMA Answers ==
  ASSUME WatchTypeOK, NEW r \in Asks, NEW where \in {"answered", "refused"}, Answered(r, where)
  PROVE  /\ ask' \in [Asks -> Ask]
         /\ \A q \in Asks : q # r => ask'[q] = ask[q]
         /\ \/ /\ ask[r].heard /\ ask'[r].heard /\ ask'[r].at = where
               /\ ask'[r].kind = ask[r].kind /\ ask'[r].got = ask[r].got
            \/ ask'[r].kind = "none" /\ ask'[r].at = "over"
<1>1. CASE ask[r].heard
  <2>1. ask' = [ask EXCEPT ![r] = [ask[r] EXCEPT !.at = where]]
    BY <1>1 DEF Answered, WatchTypeOK
  <2>. QED  BY <1>1, <2>1, GoesOn
<1>2. CASE ~ask[r].heard
  <2>1. ask' = [ask EXCEPT ![r] = Unasked("over")]
    BY <1>2 DEF Answered
  <2>. QED  BY <2>1, IsOver
<1>. QED  BY <1>1, <1>2

(***************************************************************************)
(* An interval more, and a poll.                                           *)
(***************************************************************************)
LEMMA Polls ==
  ASSUME NEW p \in Popup, NEW asks, NEW r, BeginPolling(p, asks, r)
  PROVE  /\ popup' \in Popup /\ popup'.running /\ popup'.timer /\ popup'.intervals = p.intervals + 1
         /\ popup'.opening = p.opening /\ popup'.told = p.told /\ popup'.starting = p.starting
         /\ popup'.account = p.account /\ popup'.eager = p.eager
         /\ Asked(r) /\ ask' = Sent(asks, r, "poll", p.account)
<1>1. popup' = [p EXCEPT !.running = TRUE, !.intervals = p.intervals + 1, !.timer = TRUE] /\ p.intervals + 1 \in Int
  BY DEF BeginPolling, Popup
<1>2. /\ popup' \in Popup /\ popup'.running /\ popup'.timer /\ popup'.intervals = p.intervals + 1
      /\ popup'.opening = p.opening /\ popup'.told = p.told /\ popup'.starting = p.starting
      /\ popup'.account = p.account /\ popup'.eager = p.eager
  BY <1>1 DEF Popup
<1>. QED  BY <1>2 DEF BeginPolling

(***************************************************************************)
(* The next request is after every account that was clicked.               *)
(***************************************************************************)
LEMMA NextAsked ==
  ASSUME WatchTypeOK, Asking, NEW r \in Asks, Asked(r)
  PROVE  /\ ask[r].at = "new" /\ ask[r].kind = "none" /\ r \in Int
         /\ \A account \in Int : Clicked(account) => account < r
         /\ \A q \in Asks : q < r => ask[q].at # "new"
<1>1. /\ ask[r].at = "new" /\ ask[r].kind = "none" /\ r \in Int /\ r > 0
      /\ \A q \in Asks : r < q => ask[q].at = "new"
      /\ \A q \in Asks : q \in Int
  BY DEF Asked, Asking, Asks
<1>2. \A q \in Asks : q < r => ask[q].at # "new"
  BY <1>1 DEF Asked, Asks
<1>3. ASSUME NEW account \in Int, Clicked(account) PROVE account < r
  BY <1>1, <1>3 DEF Clicked
<1>. QED  BY <1>1, <1>2, <1>3

LEMMA WatchingStep ==
  ASSUME Watch, [WatchingNext]_watchingVars
  PROVE  Watch'
<1>1. /\ WatchTypeOK /\ Asking /\ OneInterval /\ OneAccount /\ Balances
      /\ popup \in Popup
      /\ service \in Session
      /\ ask \in [Asks -> Ask]
      /\ shown \in Balance
      /\ wanted \in BOOLEAN /\ revived \in BOOLEAN /\ crossed \in BOOLEAN
  BY DEF Watch, WatchTypeOK
<1>a. /\ popup.opening \in {"status", "logs", "done"} /\ popup.told \in Session
      /\ popup.running \in BOOLEAN /\ popup.starting \in BOOLEAN /\ popup.eager \in BOOLEAN
      /\ popup.intervals \in Int /\ popup.account \in Int
      /\ service.account \in Int /\ service.running \in BOOLEAN /\ service.last \in Balance
      /\ popup.told.last \in Balance /\ popup.told.running \in BOOLEAN
      /\ Nothing \in Int
      /\ \A b \in Balance : b.of \in Int /\ b.for \in Int
      /\ \A r \in Asks : r \in Int /\ ask[r].got \in Balance /\ ask[r].heard \in BOOLEAN
  BY <1>1 DEF Popup, Session, Balance, Ask, Asks, Nothing
<1>2. CASE UNCHANGED watchingVars
  BY <1>2 DEF watchingVars, Watch, WatchTypeOK, Asking, Clicked, OneInterval, OneAccount, Balances, Stands
<1>3. CASE StatusArrives
  <2>1. /\ popup.opening = "status" /\ UNCHANGED <<service, ask, shown, wanted, revived>>
        /\ popup' = [popup EXCEPT !.opening = "logs", !.told = service,
                                  !.account = IF service.running THEN service.account ELSE popup.account]
        /\ crossed' = (crossed \/ StartOnItsWay)
    BY <1>3 DEF StatusArrives
  <2>2. /\ popup' \in Popup
        /\ popup'.opening = "logs" /\ popup'.told = service
        /\ (service.running => popup'.account = service.account)
        /\ (~service.running => popup'.account = popup.account)
        /\ popup'.running = popup.running /\ popup'.starting = popup.starting
        /\ popup'.intervals = popup.intervals /\ popup'.timer = popup.timer
        /\ popup'.eager = popup.eager
    BY <1>1, <1>a, <2>1 DEF Popup
  <2>3. WatchTypeOK'
    BY <1>1, <2>1, <2>2 DEF WatchTypeOK
  <2>4. Asking'
    BY <1>1, <2>1, <2>2 DEF Asking, Clicked
  <2>5. OneInterval'
    BY <1>1, <1>a, <2>1, <2>2 DEF OneInterval
  <2>6. ASSUME ~crossed' PROVE ~crossed /\ \A r \in Asks : ~(ask[r].kind = "start" /\ ask[r].at = "sent")
    BY <1>1, <2>1, <2>6 DEF StartOnItsWay
  <2>7. OneAccount'
    BY <1>1, <2>1, <2>2, <2>6 DEF OneAccount
  <2>8. Balances'
    BY <1>1, <2>1, <2>2, <2>6 DEF Balances, Stands
  <2>. QED  BY <2>3, <2>4, <2>5, <2>7, <2>8 DEF Watch
<1>4. CASE OpenedAgain
  <2>. DEFINE to(r) == IF ask[r].at \in {"answered", "refused"} THEN Unasked("over")
                      ELSE [ask[r] EXCEPT !.heard = FALSE]
  <2>1. /\ popup.opening = "done" /\ popup' = Opening /\ shown' = NoBalance
        /\ ask' = [r \in Asks |-> to(r)]
        /\ UNCHANGED <<service, wanted, revived, crossed>>
    BY <1>4 DEF OpenedAgain
  <2>2. /\ Opening \in Popup /\ Opening.opening = "status" /\ Opening.intervals = 0 /\ Opening.account = 0
        /\ Opening.running = FALSE /\ Opening.starting = FALSE /\ Opening.eager = FALSE
        /\ Opening.told.last = NoBalance
    BY NothingType DEF Opening, Popup
  <2>3. ASSUME NEW r \in Asks
        PROVE  /\ to(r) \in Ask
               /\ (to(r).at = "over" /\ to(r).kind = "none" /\ ask[r].at # "new")
                    \/ (/\ to(r).kind = ask[r].kind /\ to(r).at = ask[r].at /\ to(r).got = ask[r].got
                        /\ to(r).heard = FALSE /\ to(r).at \notin {"answered", "refused"})
    <3>1. ask[r] \in Ask
      BY <1>1
    <3>2. CASE ask[r].at \in {"answered", "refused"}
      <4>1. to(r) = Unasked("over")
        BY <3>2
      <4>. QED  BY <3>2, <4>1, NothingType
    <3>3. CASE ask[r].at \notin {"answered", "refused"}
      <4>1. to(r) = [ask[r] EXCEPT !.heard = FALSE]
        BY <3>3
      <4>. HIDE DEF to
      <4>. QED  BY <3>1, <3>3, <4>1 DEF Ask
    <3>. QED  BY <3>2, <3>3
  <2>. HIDE DEF to
  <2>4. \A r \in Asks : ask'[r] = to(r)
    BY <2>1
  <2>5. WatchTypeOK'
    BY <1>1, <2>1, <2>2, <2>3, NothingType DEF WatchTypeOK
  <2>6. /\ \A r \in Asks : ask'[r].at = "new" <=> ask[r].at = "new"
        /\ \A r \in Asks : ask'[r].kind = "start" => ask[r].kind = "start" /\ ask[r].at = ask'[r].at /\ ~ask'[r].heard
        /\ \A r \in Asks : ask'[r].kind = "poll" =>
             ask[r].kind = "poll" /\ ask[r].at = ask'[r].at /\ ask[r].got = ask'[r].got
    BY <1>1, <2>3, <2>4 DEF Asking
  <2>7. Asking'
    <3>1. \A r \in Asks : /\ ask'[r].kind = "none" <=> ask'[r].at \in {"new", "over"}
                          /\ ask'[r].at \notin {"answered", "refused"}
                          /\ ask'[r].at = "saved" => ask'[r].kind = "start"
                          /\ ask'[r].at = "read" => ask'[r].kind = "poll"
      BY <1>1, <2>3, <2>4 DEF Asking
    <3>. QED  BY <1>1, <2>1, <2>2, <2>6, <3>1 DEF Asking, Clicked
  <2>8. OneInterval'
    BY <1>1, <2>1, <2>2, <2>6 DEF OneInterval, One
  <2>9. OneAccount'
    BY <1>1, <2>1, <2>2, <2>6 DEF OneAccount
  <2>10. Balances'
    BY <1>1, <2>1, <2>2, <2>6 DEF Balances, Stands
  <2>. QED  BY <2>5, <2>7, <2>8, <2>9, <2>10 DEF Watch
<1>5. CASE Stop
  <2>1. /\ popup.running /\ ~popup.starting
        /\ popup' = [popup EXCEPT !.running = FALSE, !.timer = FALSE,
                       !.intervals = IF popup.timer THEN popup.intervals - 1 ELSE popup.intervals]
        /\ service' = [service EXCEPT !.running = FALSE, !.last = NoBalance]
        /\ wanted' = FALSE
        /\ UNCHANGED <<ask, shown, revived, crossed>>
    BY <1>5 DEF Stop
  <2>2. /\ popup' \in Popup /\ popup'.running = FALSE /\ popup'.timer = FALSE
        /\ popup'.intervals = popup.intervals - 1
        /\ popup'.opening = popup.opening /\ popup'.told = popup.told /\ popup'.eager = popup.eager
        /\ popup'.starting = FALSE /\ popup'.account = popup.account
    <3>1. popup.timer /\ popup.intervals - 1 \in Int
      BY <1>1, <1>a, <2>1 DEF OneInterval
    <3>2. popup' = [popup EXCEPT !.running = FALSE, !.timer = FALSE, !.intervals = popup.intervals - 1]
      BY <2>1, <3>1
    <3>. QED  BY <1>1, <1>a, <2>1, <3>1, <3>2 DEF Popup
  <2>3. /\ service' \in Session /\ service'.running = FALSE /\ service'.account = service.account
        /\ service'.last = NoBalance
    BY <1>1, <2>1, NothingType DEF Session
  <2>4. WatchTypeOK'
    BY <1>1, <2>1, <2>2, <2>3 DEF WatchTypeOK
  <2>5. Asking'
    BY <1>1, <2>1, <2>2, <2>3 DEF Asking, Clicked
  <2>6. OneInterval'
    BY <1>1, <1>a, <2>1, <2>2 DEF OneInterval, One
  <2>7. OneAccount'
    BY <1>1, <2>1, <2>2, <2>3 DEF OneInterval, OneAccount
  <2>8. Balances'
    BY <1>1, <2>1, <2>2, <2>3 DEF Balances, Stands
  <2>. QED  BY <2>4, <2>5, <2>6, <2>7, <2>8 DEF Watch
<1>6. ASSUME NEW r \in Asks, Opened(r) PROVE Watch'
  <2>. DEFINE p == [popup EXCEPT !.opening = "done", !.told = NotTold]
  <2>1. /\ popup.opening = "logs"
        /\ shown' = IF popup.told.last = NoBalance THEN shown ELSE popup.told.last
        /\ crossed' = (crossed \/ (popup.told.running /\ popup.eager))
        /\ IF popup.told.running THEN BeginPolling(p, ask, r) ELSE popup' = p /\ UNCHANGED ask
        /\ UNCHANGED <<service, wanted, revived>>
    BY <1>6 DEF Opened
  <2>2. /\ p \in Popup /\ p.opening = "done" /\ p.running = popup.running /\ p.starting = popup.starting
        /\ p.intervals = popup.intervals /\ p.account = popup.account /\ p.eager = popup.eager
        /\ p.timer = popup.timer /\ p.told = NotTold
    BY <1>1, <1>a, NothingType DEF Popup
  <2>. HIDE DEF p
  <2>3. shown' \in {shown, popup.told.last} /\ shown' \in Balance
    BY <1>1, <1>a, <2>1
  <2>4. CASE popup.told.running
    <3>1. /\ popup' \in Popup /\ popup'.opening = "done" /\ popup'.running = TRUE /\ popup'.starting = popup.starting
          /\ popup'.intervals = popup.intervals + 1 /\ popup'.timer /\ popup'.account = popup.account
          /\ popup'.eager = popup.eager /\ popup'.told = NotTold
          /\ Asked(r) /\ ask' = Sent(ask, r, "poll", popup.account)
      BY <2>1, <2>2, <2>4, Polls
    <3>2. /\ ask' \in [Asks -> Ask] /\ ask'[r].kind = "poll" /\ ask'[r].at = "sent" /\ ask'[r].heard
          /\ ask'[r].got.for = popup.account
          /\ \A q \in Asks : q # r => ask'[q] = ask[q]
      BY <1>1, <1>a, <3>1, SentType
    <3>3. /\ ask[r].kind = "none" /\ ask[r].at = "new"
          /\ \A q \in Asks : q < r => ask[q].at # "new"
      BY <1>1, <3>1, NextAsked
    <3>4. WatchTypeOK'
      BY <1>1, <2>1, <2>3, <3>1, <3>2 DEF WatchTypeOK
    <3>5. Asking'
      BY <1>1, <1>a, <2>1, <3>1, <3>2, <3>3 DEF Asking, Clicked
    <3>6. OneInterval'
      BY <1>1, <1>a, <2>1, <3>1, <3>2 DEF OneInterval, One
    <3>7. ASSUME ~crossed' PROVE ~crossed /\ ~popup.eager /\ ~popup.running /\ ~popup.starting
      BY <1>1, <2>1, <2>4, <3>7 DEF OneInterval
    <3>8. OneAccount'
      BY <1>1, <2>1, <2>4, <3>1, <3>2, <3>7 DEF OneInterval, OneAccount
    <3>9. Balances'
      <4>1. ASSUME ~crossed' PROVE popup.account <= service.account
        BY <1>1, <1>a, <2>1, <2>4, <3>7, <4>1 DEF OneAccount
      <4>. QED  BY <1>1, <2>1, <2>3, <3>1, <3>2, <3>7, <4>1, NothingType DEF Balances, Stands
    <3>. QED  BY <3>4, <3>5, <3>6, <3>8, <3>9 DEF Watch
  <2>5. CASE ~popup.told.running
    <3>1. popup' = p /\ UNCHANGED ask
      BY <2>1, <2>5
    <3>2. WatchTypeOK'
      BY <1>1, <2>1, <2>2, <2>3, <3>1 DEF WatchTypeOK
    <3>3. Asking'
      BY <1>1, <2>1, <2>2, <3>1 DEF Asking, Clicked
    <3>4. OneInterval'
      BY <1>1, <1>a, <2>1, <2>2, <3>1 DEF OneInterval, One
    <3>5. OneAccount'
      BY <1>1, <2>1, <2>2, <3>1 DEF OneInterval, OneAccount
    <3>6. Balances'
      BY <1>1, <2>1, <2>2, <2>3, <3>1, NothingType DEF Balances, Stands
    <3>. QED  BY <3>2, <3>3, <3>4, <3>5, <3>6 DEF Watch
  <2>. QED  BY <1>a, <2>4, <2>5
<1>7. ASSUME NEW r \in Asks, Start(r) PROVE Watch'
  <2>1. /\ ~popup.running /\ ~popup.starting /\ Asked(r)
        /\ ask' = Sent(ask, r, "start", r)
        /\ popup' = [popup EXCEPT !.starting = TRUE, !.account = r,
                                  !.eager = popup.eager \/ popup.opening # "done"]
        /\ wanted' = TRUE
        /\ crossed' = (crossed \/ StartOnItsWay)
        /\ UNCHANGED <<service, shown, revived>>
    BY <1>7 DEF Start
  <2>2. /\ ask[r].at = "new" /\ ask[r].kind = "none" /\ r \in Int /\ service.account < r
        /\ \A q \in Asks : q < r => ask[q].at # "new"
    BY <1>1, <1>a, <2>1, NextAsked DEF Asking
  <2>3. /\ popup' \in Popup /\ popup'.starting = TRUE /\ popup'.account = r /\ popup'.opening = popup.opening
        /\ popup'.told = popup.told /\ popup'.running = FALSE /\ popup'.intervals = popup.intervals
        /\ popup'.eager = (popup.eager \/ popup.opening # "done")
    BY <1>1, <1>a, <2>1, <2>2 DEF Popup
  <2>e. (popup.eager => popup'.eager) /\ (popup.opening # "done" => popup'.eager)
    BY <1>a, <2>3
  <2>4. /\ ask' \in [Asks -> Ask] /\ ask'[r].kind = "start" /\ ask'[r].at = "sent" /\ ask'[r].heard
        /\ \A q \in Asks : q # r => ask'[q] = ask[q]
    BY <1>1, <2>1, <2>2, SentType
  <2>5. WatchTypeOK'
    BY <1>1, <2>1, <2>3, <2>4 DEF WatchTypeOK
  <2>6. Asking'
    BY <1>1, <1>a, <2>1, <2>2, <2>3, <2>4 DEF Asking, Clicked
  <2>8. ASSUME ~crossed' PROVE ~crossed /\ \A q \in Asks : ~(ask[q].kind = "start" /\ ask[q].at = "sent")
    BY <1>1, <2>1, <2>8 DEF StartOnItsWay
  <2>9. /\ \A q \in Asks : ask[q].kind = "start" => ~ask[q].heard
        /\ \A q \in Asks : ask'[q].kind = "start" /\ ask'[q].heard => q = r
    BY <1>1, <2>1, <2>4 DEF OneInterval
  <2>7. OneInterval'
    <3>1. /\ popup.intervals >= 0
          /\ popup.intervals <= One(popup.eager)
          /\ popup.opening # "done" => popup.intervals = 0
      BY <1>1, <1>a, <2>1 DEF OneInterval, One
    <3>2. popup.intervals <= One(popup'.eager)
      BY <1>a, <2>e, <3>1 DEF One
    <3>3. popup'.starting => wanted'
      BY <2>1
    <3>4. One(popup'.running) = 0 /\ One(popup'.running /\ popup'.starting) = 0
      BY <2>3 DEF One
    <3>5. /\ popup'.intervals >= One(popup'.running)
          /\ popup'.intervals + One(popup'.running /\ popup'.starting)
               <= One(popup'.running) + One(popup'.eager)
          /\ popup'.opening # "done" => popup'.intervals = One(popup'.running)
      <4>1. One(popup'.eager) \in Int
        BY DEF One
      <4>. HIDE DEF One
      <4>. QED  BY <1>a, <2>3, <3>1, <3>2, <3>4, <4>1
    <3>6. /\ popup'.opening # "done" => popup'.eager /\ ~(popup'.running /\ popup'.starting)
          /\ popup'.running => popup'.timer
          /\ \A k \in Asks : ask'[k].kind = "start" /\ ask'[k].heard => popup'.starting
          /\ \A k, q \in Asks :
               ask'[k].kind = "start" /\ ask'[k].heard /\ ask'[q].kind = "start" /\ ask'[q].heard => k = q
      BY <2>3, <2>e, <2>9
    <3>. QED  BY <3>3, <3>5, <3>6 DEF OneInterval
  <2>10. OneAccount'
    <3>1. \A q \in Asks : ask'[q].kind = "start" /\ ask'[q].at = "sent" => (~crossed' => q = r)
      BY <2>4, <2>8
    <3>2. wanted' /\ service' = service /\ shown' = shown /\ revived' = revived
      BY <2>1
    <3>3. CASE crossed'
      BY <3>3 DEF OneAccount
    <3>4. CASE ~crossed'
      <4>1. /\ service'.running \/ popup'.running => wanted' \/ revived'
            /\ popup'.running => popup'.account = service'.account
        BY <2>3, <3>2
      <4>2. popup'.opening = "logs" => popup'.eager
        BY <2>3, <2>e
      <4>3. \A q \in Asks : ask'[q].kind = "start" /\ ask'[q].heard =>
              ~popup'.running /\ popup'.account = q /\ ask'[q].at = "sent"
        BY <2>3, <2>4, <2>9
      <4>4. \A q \in Asks : ask'[q].kind = "start" /\ ask'[q].at = "sent" =>
              wanted' /\ service'.account < q /\ ask'[q].heard /\ q = r
        BY <2>2, <2>4, <3>1, <3>2, <3>4
      <4>. QED  BY <4>1, <4>2, <4>3, <4>4 DEF OneAccount
    <3>. QED  BY <3>3, <3>4
  <2>11. Balances'
    BY <1>1, <2>1, <2>2, <2>3, <2>4, <2>8 DEF Balances, Stands
  <2>. QED  BY <2>5, <2>6, <2>7, <2>10, <2>11 DEF Watch
<1>8. ASSUME NEW r \in Asks, Poll(r) PROVE Watch'
  <2>1. /\ popup.intervals > 0 /\ popup.running /\ Asked(r) /\ ask' = Sent(ask, r, "poll", popup.account)
        /\ UNCHANGED <<popup, service, shown, wanted, revived, crossed>>
    BY <1>8 DEF Poll
  <2>2. /\ ask' \in [Asks -> Ask] /\ ask'[r].kind = "poll" /\ ask'[r].at = "sent"
        /\ ask'[r].got.for = popup.account
        /\ \A q \in Asks : q # r => ask'[q] = ask[q]
    BY <1>1, <1>a, <2>1, SentType
  <2>3. /\ ask[r].kind = "none" /\ ask[r].at = "new"
        /\ \A q \in Asks : q < r => ask[q].at # "new"
    BY <1>1, <2>1, NextAsked
  <2>4. WatchTypeOK'
    BY <1>1, <2>1, <2>2 DEF WatchTypeOK
  <2>5. Asking'
    BY <1>1, <1>a, <2>1, <2>2, <2>3 DEF Asking, Clicked
  <2>6. OneInterval'
    <3>1. \A q \in Asks : ask'[q].kind = "start" => ask[q].kind = "start" /\ ask[q].heard = ask'[q].heard
      BY <2>2
    <3>2. popup' = popup /\ wanted' = wanted
      BY <2>1
    <3>. QED  BY <1>1, <3>1, <3>2 DEF OneInterval
  <2>7. OneAccount'
    BY <1>1, <2>1, <2>2 DEF OneAccount
  <2>8. Balances'
    <3>1. ~crossed => popup.account <= service.account
      BY <1>1, <1>a, <2>1 DEF OneAccount
    <3>. QED  BY <1>1, <2>1, <2>2, <3>1 DEF Balances, Stands
  <2>. QED  BY <2>4, <2>5, <2>6, <2>7, <2>8 DEF Watch
<1>9. ASSUME NEW r \in Asks, PollAnswered(r) PROVE Watch'
  <2>1. /\ ask[r].kind = "poll" /\ ask[r].at \in {"answered", "refused"}
        /\ ask' = [ask EXCEPT ![r] = Unasked("over")]
        /\ shown' = IF popup.running /\ ask[r].at = "answered" THEN ask[r].got ELSE shown
        /\ UNCHANGED <<popup, service, wanted, revived, crossed>>
    BY <1>9 DEF PollAnswered
  <2>2. /\ ask' \in [Asks -> Ask] /\ ask'[r].kind = "none" /\ ask'[r].at = "over"
        /\ \A q \in Asks : q # r => ask'[q] = ask[q]
    BY <1>1, <2>1, IsOver
  <2>3. WatchTypeOK'
    BY <1>1, <1>a, <2>1, <2>2 DEF WatchTypeOK
  <2>4. Asking'
    BY <1>1, <2>1, <2>2 DEF Asking, Clicked
  <2>5. OneInterval'
    BY <1>1, <2>1, <2>2 DEF OneInterval
  <2>6. OneAccount'
    BY <1>1, <2>1, <2>2 DEF OneAccount
  <2>7. Balances'
    BY <1>1, <2>1, <2>2 DEF Balances, Stands
  <2>. QED  BY <2>3, <2>4, <2>5, <2>6, <2>7 DEF Watch
<1>10. ASSUME NEW r \in Asks, StartSaved(r) PROVE Watch'
  <2>1. /\ ask[r].kind = "start" /\ ask[r].at = "sent"
        /\ ask' = [ask EXCEPT ![r] = [ask[r] EXCEPT !.at = "saved"]]
        /\ service' = [running |-> TRUE, account |-> r, last |-> NoBalance]
        /\ UNCHANGED <<popup, shown, wanted, revived, crossed>>
    BY <1>1, <1>10 DEF StartSaved
  <2>2. /\ ask' \in [Asks -> Ask] /\ ask'[r].kind = "start" /\ ask'[r].at = "saved" /\ ask'[r].heard = ask[r].heard
        /\ \A q \in Asks : q # r => ask'[q] = ask[q]
    BY <1>1, <2>1, GoesOn
  <2>3. service' \in Session /\ service'.running /\ service'.account = r /\ service'.last = NoBalance
    BY <1>a, <2>1, NothingType DEF Session
  <2>4. WatchTypeOK'
    BY <1>1, <2>1, <2>2, <2>3 DEF WatchTypeOK
  <2>5. Asking'
    BY <1>1, <2>1, <2>2, <2>3 DEF Asking, Clicked
  <2>6. OneInterval'
    BY <1>1, <2>1, <2>2 DEF OneInterval
  <2>7. ASSUME ~crossed
        PROVE  /\ wanted /\ service.account < r /\ ~popup.running
               /\ popup.opening = "logs" => popup.eager
               /\ \A q \in Asks \ {r} : ask[q].kind = "start" => ask[q].at # "sent" /\ ~(ask[q].heard /\ ask[r].heard)
               /\ ~ask[r].heard => ~popup.starting
    BY <1>1, <2>1, <2>7 DEF OneInterval, OneAccount
  <2>8. OneAccount'
    BY <1>1, <2>1, <2>2, <2>3, <2>7 DEF OneInterval, OneAccount
  <2>9. Balances'
    BY <1>1, <1>a, <2>1, <2>2, <2>3, <2>7 DEF Balances, Stands
  <2>. QED  BY <2>4, <2>5, <2>6, <2>8, <2>9 DEF Watch
<1>11. ASSUME NEW r \in Asks, PollRead(r) PROVE Watch'
  <2>1. /\ ask[r].kind = "poll" /\ ask[r].at = "sent"
        /\ UNCHANGED <<popup, service, shown, wanted, revived, crossed>>
    BY <1>11 DEF PollRead
  <2>2. CASE service.running
    <3>. DEFINE got == [ask[r].got EXCEPT !.of = service.account]
                new == [ask[r] EXCEPT !.at = "read", !.got = got]
    <3>1. got \in Balance /\ got.of = service.account /\ got.for = ask[r].got.for
      BY <1>a DEF Balance
    <3>2. ask' = [ask EXCEPT ![r] = new]
      BY <1>1, <1>11, <2>2 DEF PollRead, Ask
    <3>. HIDE DEF got
    <3>3. new \in Ask /\ new.at = "read" /\ new.got = got /\ new.kind = ask[r].kind /\ new.heard = ask[r].heard
      BY <1>1, <3>1 DEF Ask
    <3>. HIDE DEF new
    <3>4. /\ ask' \in [Asks -> Ask] /\ ask'[r].kind = "poll" /\ ask'[r].at = "read" /\ ask'[r].got = got
          /\ \A q \in Asks : q # r => ask'[q] = ask[q]
      BY <1>1, <2>1, <3>2, <3>3, OneAsk
    <3>5. WatchTypeOK'
      BY <1>1, <2>1, <3>4 DEF WatchTypeOK
    <3>6. Asking'
      BY <1>1, <2>1, <3>4 DEF Asking, Clicked
    <3>7. OneInterval'
      BY <1>1, <2>1, <3>4 DEF OneInterval
    <3>8. OneAccount'
      BY <1>1, <2>1, <3>4 DEF OneAccount
    <3>9. Balances'
      <4>1. service.account # Nothing /\ service.account <= service.account
        BY <1>1, <1>a DEF Asking, Clicked, Asks, Nothing
      <4>. QED  BY <1>1, <2>1, <3>1, <3>4, <4>1 DEF Balances, Stands
    <3>. QED  BY <3>5, <3>6, <3>7, <3>8, <3>9 DEF Watch
  <2>3. CASE ~service.running
    <3>1. Answered(r, "refused")
      BY <1>11, <2>3 DEF PollRead
    <3>2. /\ ask' \in [Asks -> Ask]
          /\ \A q \in Asks : q # r => ask'[q] = ask[q]
          /\ \/ /\ ask[r].heard /\ ask'[r].heard /\ ask'[r].at = "refused" /\ ask'[r].kind = "poll"
                /\ ask'[r].got = ask[r].got
             \/ ask'[r].kind = "none" /\ ask'[r].at = "over"
      BY <1>1, <2>1, <3>1, Answers
    <3>3. WatchTypeOK'
      BY <1>1, <2>1, <3>2 DEF WatchTypeOK
    <3>4. Asking'
      BY <1>1, <2>1, <3>2 DEF Asking, Clicked
    <3>5. OneInterval'
      BY <1>1, <2>1, <3>2 DEF OneInterval
    <3>6. OneAccount'
      BY <1>1, <2>1, <3>2 DEF OneAccount
    <3>7. Balances'
      BY <1>1, <2>1, <3>2 DEF Balances, Stands
    <3>. QED  BY <3>3, <3>4, <3>5, <3>6, <3>7 DEF Watch
  <2>. QED  BY <2>2, <2>3
<1>12. ASSUME NEW r \in Asks, NEW q \in Asks, StartAnswered(r, q) PROVE Watch'
  <2>. DEFINE told == [ask EXCEPT ![r] = Unasked("over")]
              p == [popup EXCEPT !.starting = FALSE]
  <2>1. /\ ask[r].kind = "start" /\ ask[r].at \in {"answered", "refused"}
        /\ IF ask[r].at = "answered" THEN BeginPolling(p, told, q) ELSE popup' = p /\ ask' = told
        /\ UNCHANGED <<service, shown, wanted, revived, crossed>>
    BY <1>12 DEF StartAnswered
  <2>2. /\ p \in Popup /\ p.starting = FALSE /\ p.opening = popup.opening /\ p.running = popup.running
        /\ p.intervals = popup.intervals /\ p.account = popup.account /\ p.told = popup.told
        /\ p.timer = popup.timer /\ p.eager = popup.eager
    BY <1>1 DEF Popup
  <2>3. /\ ask[r].heard /\ popup.starting /\ wanted
        /\ \A k \in Asks \ {r} : ask[k].kind = "start" => ~ask[k].heard
    BY <1>1, <2>1 DEF Asking, OneInterval
  <2>4. /\ told \in [Asks -> Ask] /\ told[r].kind = "none" /\ told[r].at = "over"
        /\ \A k \in Asks : k # r => told[k] = ask[k]
    <3>1. Unasked("over") \in Ask /\ Unasked("over").kind = "none" /\ Unasked("over").at = "over"
      BY NothingType
    <3>. QED  BY <1>1, <3>1
  <2>5. ~crossed => ~popup.running /\ popup.account = r /\ service.account = r
    BY <1>1, <2>1, <2>3 DEF OneAccount
  <2>. HIDE DEF told, p
  <2>6. CASE ask[r].at = "answered"
    <3>1. /\ popup' \in Popup /\ popup'.opening = popup.opening /\ popup'.running = TRUE /\ popup'.starting = FALSE
          /\ popup'.intervals = popup.intervals + 1 /\ popup'.timer /\ popup'.account = popup.account
          /\ popup'.told = popup.told /\ popup'.eager = popup.eager
          /\ Asked(q) /\ ask' = Sent(told, q, "poll", popup.account)
      BY <2>1, <2>2, <2>6, Polls
    <3>2. /\ ask[q].kind = "none" /\ ask[q].at = "new" /\ q # r
          /\ \A k \in Asks : k < q => ask[k].at # "new"
      BY <1>1, <2>6, <3>1, NextAsked
    <3>3. /\ ask' \in [Asks -> Ask] /\ ask'[q].kind = "poll" /\ ask'[q].at = "sent" /\ ask'[q].heard
          /\ ask'[q].got.for = popup.account
          /\ \A k \in Asks : k # q => ask'[k] = told[k]
      BY <1>a, <2>4, <3>1, SentType
    <3>4. /\ ask'[r].kind = "none" /\ ask'[r].at = "over"
          /\ \A k \in Asks : k \notin {q, r} => ask'[k] = ask[k]
      BY <2>4, <3>2, <3>3
    <3>5. WatchTypeOK'
      BY <1>1, <2>1, <3>1, <3>3 DEF WatchTypeOK
    <3>6. Asking'
      BY <1>1, <1>a, <2>1, <3>1, <3>2, <3>3, <3>4 DEF Asking, Clicked
    <3>7. OneInterval'
      <4>1. popup.opening # "done" => ~popup.running /\ popup.eager
        BY <1>1, <2>3 DEF OneInterval
      <4>. QED  BY <1>1, <1>a, <2>1, <2>3, <3>1, <3>3, <3>4, <4>1 DEF OneInterval, One
    <3>8. OneAccount'
      <4>1. popup.opening = "logs" => popup.eager
        BY <1>1, <2>3 DEF OneInterval
      <4>2. ~crossed => \A k \in Asks : ~(ask[k].kind = "start" /\ ask[k].at = "sent")
        BY <1>1, <2>1, <2>3 DEF OneAccount
      <4>. QED  BY <1>1, <2>1, <2>3, <2>5, <3>1, <3>3, <3>4, <4>1, <4>2 DEF OneAccount
    <3>9. Balances'
      <4>1. ~crossed => popup.account <= service.account
        BY <1>a, <2>5
      <4>. QED  BY <1>1, <2>1, <3>1, <3>3, <3>4, <4>1 DEF Balances, Stands
    <3>. QED  BY <3>5, <3>6, <3>7, <3>8, <3>9 DEF Watch
  <2>7. CASE ask[r].at # "answered"
    <3>1. popup' = p /\ ask' = told
      BY <2>1, <2>7
    <3>2. WatchTypeOK'
      BY <1>1, <2>1, <2>2, <2>4, <3>1 DEF WatchTypeOK
    <3>3. Asking'
      BY <1>1, <2>1, <2>2, <2>4, <3>1 DEF Asking, Clicked
    <3>4. OneInterval'
      BY <1>1, <1>a, <2>1, <2>2, <2>3, <2>4, <3>1 DEF OneInterval, One
    <3>5. OneAccount'
      BY <1>1, <2>1, <2>2, <2>3, <2>4, <3>1 DEF OneAccount
    <3>6. Balances'
      BY <1>1, <2>1, <2>2, <2>4, <3>1 DEF Balances, Stands
    <3>. QED  BY <3>2, <3>3, <3>4, <3>5, <3>6 DEF Watch
  <2>. QED  BY <2>6, <2>7
<1>13. ASSUME NEW r \in Asks, NEW ok \in BOOLEAN, StartServed(r, ok) PROVE Watch'
  <2>. DEFINE where == IF ok THEN "answered" ELSE "refused"
  <2>1. /\ ask[r].at = "saved" /\ Answered(r, where)
        /\ service' = [service EXCEPT !.running = ok, !.last = NoBalance]
        /\ revived' = (revived \/ (ok /\ ~service.running))
        /\ UNCHANGED <<popup, shown, wanted, crossed>>
    BY <1>13 DEF StartServed
  <2>2. ask[r].kind = "start"
    BY <1>1, <2>1 DEF Asking
  <2>3. where \in {"answered", "refused"}
    OBVIOUS
  <2>. HIDE DEF where
  <2>4. /\ ask' \in [Asks -> Ask]
        /\ \A q \in Asks : q # r => ask'[q] = ask[q]
        /\ \/ /\ ask[r].heard /\ ask'[r].heard /\ ask'[r].at = where /\ ask'[r].kind = "start"
           \/ ask'[r].kind = "none" /\ ask'[r].at = "over"
    BY <1>1, <2>1, <2>2, <2>3, Answers
  <2>5. /\ service' \in Session /\ service'.account = service.account /\ service'.last = NoBalance
        /\ service'.running = ok
    BY <1>1, <2>1, NothingType DEF Session
  <2>6. WatchTypeOK'
    BY <1>1, <1>a, <2>1, <2>4, <2>5 DEF WatchTypeOK
  <2>7. Asking'
    BY <1>1, <2>1, <2>3, <2>4, <2>5 DEF Asking, Clicked
  <2>8. OneInterval'
    BY <1>1, <2>1, <2>2, <2>4 DEF OneInterval
  <2>9. OneAccount'
    BY <1>1, <2>1, <2>2, <2>3, <2>4, <2>5 DEF OneAccount
  <2>10. Balances'
    BY <1>1, <2>1, <2>2, <2>4, <2>5 DEF Balances, Stands
  <2>. QED  BY <2>6, <2>7, <2>8, <2>9, <2>10 DEF Watch
<1>14. ASSUME NEW r \in Asks, NEW ok \in BOOLEAN, PollServed(r, ok) PROVE Watch'
  <2>. DEFINE where == IF ok THEN "answered" ELSE "refused"
  <2>1. /\ ask[r].at = "read" /\ Answered(r, where)
        /\ service' = IF ok THEN [service EXCEPT !.running = TRUE, !.last = ask[r].got] ELSE service
        /\ revived' = (revived \/ (ok /\ ~service.running))
        /\ UNCHANGED <<popup, shown, wanted, crossed>>
    BY <1>14 DEF PollServed
  <2>2. ask[r].kind = "poll"
    BY <1>1, <2>1 DEF Asking
  <2>3. where \in {"answered", "refused"}
    OBVIOUS
  <2>. HIDE DEF where
  <2>4. /\ ask' \in [Asks -> Ask]
        /\ \A q \in Asks : q # r => ask'[q] = ask[q]
        /\ \/ /\ ask[r].heard /\ ask'[r].heard /\ ask'[r].at = where
              /\ ask'[r].kind = "poll" /\ ask'[r].got = ask[r].got
           \/ ask'[r].kind = "none" /\ ask'[r].at = "over"
    BY <1>1, <2>1, <2>2, <2>3, Answers
  <2>5. /\ service' \in Session /\ service'.account = service.account
        /\ service'.last \in {service.last, ask[r].got}
        /\ service'.running => service.running \/ revived'
    <3>1. CASE ok
      BY <1>1, <1>a, <2>1, <3>1 DEF Session
    <3>2. CASE ~ok
      BY <1>1, <2>1, <3>2
    <3>. QED  BY <3>1, <3>2
  <2>6. WatchTypeOK'
    BY <1>1, <1>a, <2>1, <2>4, <2>5 DEF WatchTypeOK
  <2>7. Asking'
    BY <1>1, <2>1, <2>3, <2>4, <2>5 DEF Asking, Clicked
  <2>8. OneInterval'
    BY <1>1, <2>1, <2>2, <2>4 DEF OneInterval
  <2>9. OneAccount'
    BY <1>1, <2>1, <2>2, <2>4, <2>5 DEF OneAccount
  <2>10. Balances'
    BY <1>1, <2>1, <2>2, <2>4, <2>5 DEF Balances, Stands
  <2>. QED  BY <2>6, <2>7, <2>8, <2>9, <2>10 DEF Watch
<1>. QED  BY <1>2, <1>3, <1>4, <1>5, <1>6, <1>7, <1>8, <1>9, <1>10, <1>11, <1>12, <1>13, <1>14 DEF WatchingNext

-----------------------------------------------------------------------------
(* The theorems. *)

(***************************************************************************)
(* A step of the extension is a step of one part, and leaves the others.   *)
(***************************************************************************)
LEMMA PartSteps ==
  ASSUME [Next]_vars
  PROVE  /\ [WatchNext]_watchVars /\ [LogNext]_logVars
         /\ [WatchingNext]_watchingVars /\ [DocumentNext]_documentVars
BY DEF Next, vars

(***************************************************************************)
(* background.ts:228: a worker whose `ready` rejects is never the cached   *)
(* one, and at most one lives unless boots overlapped.                     *)
(***************************************************************************)
THEOREM OneWorker == Spec => []OneWorkerUnlessOverlap
<1>1. Init => Watcher
  BY WatcherInit DEF Init
<1>2. Watcher /\ [Next]_vars => Watcher'
  BY PartSteps, WatcherStep
<1>3. Watcher => OneWorkerUnlessOverlap
  BY DEF Watcher, Boots, Single, OneWorkerUnlessOverlap
<1>. QED  BY <1>1, <1>2, <1>3, PTL DEF Spec

(***************************************************************************)
(* background.ts:113: no append to the log is lost to another.             *)
(***************************************************************************)
THEOREM NoRowLost == Spec => []LogKept
<1>1. Init => Logged
  BY LoggedInit DEF Init
<1>2. Logged /\ [Next]_vars => Logged'
  BY PartSteps, LoggedStep
<1>. QED  BY <1>1, <1>2, LoggedKept, PTL DEF Spec

(***************************************************************************)
(* offscreen.ts:53: losing the race to create the document is no failure.  *)
(***************************************************************************)
THEOREM LosersSucceed == Spec => []LostRaceIsNoFailure
<1>1. Init => Races
  BY RacesInit DEF Init
<1>2. Races /\ [Next]_vars => Races'
  BY PartSteps, RacesStep
<1>3. Races => LostRaceIsNoFailure
  BY DEF Races, LostRaceIsNoFailure
<1>. QED  BY <1>1, <1>2, <1>3, PTL DEF Spec

(***************************************************************************)
(* popup.ts:321 and 384: the popup polls at one interval while it runs,    *)
(* runs what was started and not stopped, and the balance that its watch   *)
(* asked for is that account's.                                            *)
(***************************************************************************)
THEOREM WatchStaysInForce == Spec => []WatchInForce
<1>1. Init => Watch
  BY WatchingStarts DEF Init
<1>2. Watch /\ [Next]_vars => Watch'
  BY PartSteps, WatchingStep
<1>3. Watch => WatchInForce
  <2>1. SUFFICES ASSUME Watch PROVE WatchInForce
    OBVIOUS
  <2>2. /\ popup \in Popup /\ shown \in Balance /\ service \in Session
        /\ OneInterval /\ OneAccount /\ Balances /\ Clicked(popup.account)
    BY <2>1 DEF Watch, WatchTypeOK, Asking
  <2>3. /\ popup.intervals \in Int /\ popup.running \in BOOLEAN /\ popup.starting \in BOOLEAN
        /\ popup.eager \in BOOLEAN /\ popup.account \in Int /\ service.account \in Int
        /\ shown.of \in Int /\ shown.for \in Int
    BY <2>2 DEF Popup, Balance, Session
  <2>4. /\ popup.intervals >= (IF popup.running THEN 1 ELSE 0)
        /\ popup.intervals <= (IF popup.running THEN 1 ELSE 0) + (IF popup.eager THEN 1 ELSE 0)
    BY <2>2, <2>3 DEF OneInterval, One
  <2>5. ASSUME popup.running, ~crossed
        PROVE  (wanted \/ revived) /\ (shown.for = popup.account => shown.of = popup.account)
    <3>1. (wanted \/ revived) /\ popup.account = service.account
      BY <2>2, <2>5 DEF OneAccount
    <3>2. shown = NoBalance \/ Stands(shown)
      BY <2>2, <2>5 DEF Balances
    <3>3. NoBalance.for = -1 /\ popup.account # -1
      BY <2>2 DEF NoBalance, Nothing, Clicked, Asks
    <3>. QED  BY <2>3, <3>1, <3>2, <3>3 DEF Stands
  <2>. QED  BY <2>4, <2>5 DEF WatchInForce
<1>. QED  BY <1>1, <1>2, <1>3, PTL DEF Spec
=============================================================================
