# anon-rpc in TLA+

`anon-rpc` lets a wallet send its RPC requests through a worker: a bundle of code
whose hash is pinned on chain, run in isolation by a *harness*. `SPEC.md` says what
a harness must do; `impl/` has three of them. The host of a harness calls `fetch`
as if it were the web's, the worker takes the calls with `acceptCall()` and answers
them with `respond()`. Everything between the two is asynchronous message passing,
with aborts from either side and a worker that may fail at any time. Around this
are the services a worker uses (sockets, fetch, timers, KPS, storage), the way a
bundle gets from its publisher to a harness, and a demo extension.

These modules model the code, check it with TLC on small instances and prove some
of it with TLAPS for all instances. Numbers such as "SPEC 8" are sections of
`src/SPEC.md`; paths are relative to `src/impl/`.

- [1 The system](#1-the-system)
- [2 The modules](#2-the-modules)
- [3 What is checked](#3-what-is-checked)
- [4 What is proved](#4-what-is-proved)
- [5 Where the code and its specification differ](#5-where-the-code-and-its-specification-differ)
- [6 Limits](#6-limits)
- [7 Plan](#7-plan)

## 1 The system

### 1.1 Components

| component | source | state it keeps | operations | modelled by |
|---|---|---|---|---|
| call queue | `harness-core/src/call-queue.ts` | items, waiting takers | take, push, pushFront, remove, rejectAll, abort of a taker | `CallQueue` |
| log queue | `harness-core/src/log-queue.ts` | entries, waiting readers, dropped, closed | take and its abort, push, close | `LogQueue`, `WorkerLogs` |
| specifier read | `harness-core/src/specifier.ts` | none | two reads, ABI decoding, the resolver loop | `WorkerSupply`, `AbiDecode` |
| specifier contract | `specifier/src/WorkerSpecifier.sol` | owner, hash, resolvers | setWorker, transferOwnership, renounceOwnership | `WorkerSpecifier` |
| publishing | `specifier/*.mjs` | clones and the bundles branch | store, push, check, deploy | `BundleStore`, `WorkerSupply` |
| plain values | `harness-core/src/plain-value.ts`, `forwarded.ts` | none | copy, encode, decode | `PlainValue`, `PageWorker` |
| browser harness, host | `browser-harness/src/host/AnonRpcWorker.ts` | `#calls`, `#queue`, `#logs`, `#failure`, the frame | fetch, acceptLog, close; handlers of the worker's messages | `BrowserCalls` |
| browser harness, worker | `browser-harness/src/worker/*.ts`, `iframe/iframe-boot.ts` | `callAborts`, `preAborted`, close events of streams | acceptCall, respond, signals, kps, storage, log | `BrowserCalls`, `BrowserServices` |
| port RPC | `browser-harness/src/protocol.ts`, `node-harness/src/protocol.ts` | pending requests, controllers of those served | call, emit, abort, close | in each module that uses it |
| KPS bridge | `browser-harness/src/host/kps-bridge-host.ts` | connections and streams by id | dial, openStream, acceptStream, close, dispose | `BrowserServices` |
| KPS bundle resolver | `browser-harness/src/host/kps-http.ts` | one exchange | request, read to the end, decode | `KpsExchange` |
| storage | `browser-harness/src/host/idb-storage.ts` | the database | get, put, delete, has, listKeys | `StorageBackend` |
| node harness, host | `node-harness/src/host/AnonRpcWorker.ts` | `#queue`, `#inFlight`, `#logs`, `#dead`, the thread | fetch, acceptLog, close; handlers of the thread's events | `NodeCalls` |
| node harness, isolate | `node-harness/src/child/isolate*.ts` | timers, deferreds and their handles | boot, host requests, timers, settling, teardown | `NodeCalls` (calls), `GuestIsolate` |
| guest prelude | `node-harness/src/child/prelude.guest.js` | `inFlight`, streams, sockets | acceptCall, respond, ReadableStream, sockets, fetch, timers, text | `NodeCalls`, `SocketBridge`, `GuestIsolate`, `GuestStream`, `GuestText` |
| socket bridge, policy | `node-harness/src/host/{socket-bridge-host,address-policy}.ts` | live sockets and their chunk queues | connect, read, write, end, close, dispose | `SocketBridge`, `AddressPolicy` |
| fetch bridge | `node-harness/src/host/fetch-bridge-host.ts` | requests in flight | fetch, dispose | `GuestIsolate` |
| extension harness, service worker | `browser-extension-harness/src/background/{AnonRpcWorker,OffscreenWorker}.ts` | `#calls`, `#outbox`, `#port`, `#bodies`, `#failure` | fetch, acceptLog, close; message handlers | `OffscreenCalls`, `ExtensionHarness` |
| extension harness, page | `browser-extension-harness/src/page/PageWorker.ts` | the harness it wraps, what waits for it | fetch, acceptLog, close | `PageWorker`, `ExtensionHarness` |
| streamed bodies | `browser-extension-harness/src/body-stream.ts` | a sender and a receiver for each body | pull, chunk, end, error, cancel | `BodyStream` |
| offscreen document | `browser-extension-harness/src/offscreen/mount.ts` | a cache of workers; per connection its entry, `inFlight`, bodies | boot, fetch, abort, provider.result, close, disconnect, reaper | `OffscreenCalls`, `OffscreenHost` |
| document creation | `browser-extension-harness/src/background/offscreen.ts` | the creation in flight | ensure, close | `OffscreenDocument` |
| demo, service worker | `demo-extension/src/background.ts` | the worker, the session, the log | start, poll, stop, append, clear | `DemoWatcher`, `DemoPopup`, `PopupWatch` |
| demo, popup | `demo-extension/src/popup.ts` | drawn rows, the watch, probes | open, start, stop, poll, draw, pick | `DemoPopup`, `PopupWatch` |
| reference workers | `passthrough-worker/src` | none | a loop of acceptCall and respond | the bundle of `BrowserCalls` |
| superseded process isolation | `node-harness/launcher`, `host/confinement.ts`, `child/worker-host.ts` | none of the calls' | | no (section 6) |
| site, builds, probes | `site/`, `*/probe`, build scripts | | | no (section 6) |

### 1.2 How they interact

The three harnesses implement one interface, and the extension harness is built on
the browser harness:

    host page ── AnonRpcWorker ══ MessageChannel ══ harness code in a worker ── bundle
    node host ── AnonRpcWorker ══ thread port ══ isolate-thread ── prelude ── bundle
    service worker ── OffscreenWorker ══ runtime port ══ serve() ── AnonRpcWorker (browser) ...
    event page ── PageWorker ── AnonRpcWorker (browser) ...

    publisher ── clone ── bundles branch ── raw URL ─┐
    owner ── WorkerSpecifier ── RPC endpoint ────────┴─ specifier.ts ── bundle, in a harness

Ports are FIFO in each direction and unordered between directions. Inside one
context JavaScript runs one task at a time, and drains the microtasks before the
next one: a handler that resumes after an `await` of something already settled runs
before the next message, and after an `await` of I/O at any later time. This is
where the interleavings come from, and the modules keep both kinds of resumption
apart (`replies`, `resuming`).

### 1.3 What is hard here

- A value read before an `await` and relied upon after it: `#failure` in `fetch`,
  `#dead` in the boot, the caps of the bridges, the cached worker of the demo.
- Messages that cross: an abort overtaking the call it is for, a response racing
  an abort, an acceptCall withdrawn while its answer is on its way, a cancel
  crossing a chunk, a `closed` event before the reply that names what it closes.
- A call that changes hands, between `take()` and the next collection: who settles
  it if the worker fails just then?
- The worker, its thread, the service worker or the offscreen document dying at
  any moment, with streams half read, dials pending and locks held.
- Sharing: connections that reuse one worker, replace it or leave it, against a
  timer that closes what nobody uses; contexts that create one document.
- Bounded buffers: the log queue drops entries, a body stays one chunk ahead, a
  socket is paused, the demo's log loses rows in front.
- Two reads of a contract with an update in between; clones that push to one branch.
- Boundaries of data: prefixes that end inside a byte, surrogates, a short ABI
  answer, a compressed bundle, cyclic values.

`PROJECT.json` lists the hazards line by line, with the properties that cover each.

### 1.4 What makes each component correct

| component | correct if |
|---|---|
| calls (all harnesses) | each `fetch` settles once, with an answer the worker gave or for a reason the host can name; no call is lost, doubled or reordered by what either side aborts; an abort reaches the worker; a failure settles everything |
| call queue | arrival order, one taker for each item, withdrawn means never delivered |
| logs | one reader for each entry, in order, newest kept, last words readable after a failure |
| bodies | a body that ends is whole; one chunk ahead of its reader; neither half outlives the other |
| offscreen document | exact references; running workers can be found and are reaped when unused; a boot is answered; a retry boots again |
| page variant | a call goes out in the order it was made, with the entries it was made with |
| sockets, fetch | caps hold; nothing stays open after disposal; bytes are neither lost nor reordered; everything asked settles |
| isolate | a deferred is freed once and before the isolate goes; a cleared timer does not fire |
| KPS | registries hold what is open; the worker is told of what closes |
| storage | a namespace per worker; both backends are the same map |
| supply | what is published boots; only bytes with a hash the contract named boot; a retry is not stuck |
| demo | one worker, no lost row, no stale field, one polling interval |

## 2 The modules

| module | stands for | role |
|---|---|---|
| `CallQueue` | `call-queue.ts` | the queue as operators: an operation gives the queue afterwards and the deliveries it made |
| `CallService` | SPEC 5 and 8, as `fetch` keeps them | the abstract service: `Refuse`, `Issue`, `Register`, `Hand`, `Reply`, `Resolve`, `Reject`, `Die` |
| `BrowserCalls` | browser harness, both ends | composes the queue, two ports and the bundle; implements `CallService` |
| `NodeCalls` | node harness, both ends | the same path with the node harness's protocol |
| `LogQueue`, `WorkerLogs` | `log-queue.ts`, `acceptLog` | the bounded queue, and concurrent readers of it |
| `BodyStream` | `body-stream.ts` | both halves of a body, as operators that give a half and the messages it sends |
| `OffscreenCalls` | `OffscreenWorker.ts`, one connection of `mount.ts` | composes two bodies a call, two ports and both ends; implements `CallService` |
| `PageWorker` | `PageWorker.ts` | a harness in place; composes `WorkerLogs` |
| `ExtensionHarness` | `background/AnonRpcWorker.ts` | composes `OffscreenCalls` and `PageWorker`, one of which is chosen at construction |
| `OffscreenHost` | `mount.ts` across connections | cache, references, reaper, boots, log pumps |
| `BrowserServices`, `StorageBackend` | KPS and storage requests, both ends | proxies, requests and events, registries; the stores |
| `SocketBridge`, `AddressPolicy` | sockets, from the guest's stream to the host's socket | queue, pause, caps, policy |
| `GuestIsolate` | isolate, timers, fetch | requests, deferreds and their handles, termination |
| `GuestStream`, `GuestText`, `PlainValue` | the prelude's `ReadableStream` and text codec; plain values | a stream with concurrent readers; codecs as operators |
| `GuestPlatform` | what a Node worker finds in its isolate | puts the last six together |
| `WorkerSupply` | `publish-worker.mjs`, `specifier.ts` | composes the next four with publishers, an owner and a boot |
| `WorkerSpecifier`, `BundleStore`, `KpsExchange`, `AbiDecode` | contract, branch, KPS fetch, decoding | a component each |
| `DemoWatcher`, `DemoPopup`, `PopupWatch`, `OffscreenDocument` | demo and document creation | a component each |
| `DemoExtension` | the demo extension | puts the last four together |
| `CallQueueTheorems` | | lemmas about the queue's operators, lines of messages and concatenation |
| `BrowserCallsProofs`, `NodeCallsProofs`, `ExtensionHarnessProofs`, `WorkerSupplyProofs` (with the theorems of `OffscreenHost`), `BrowserServicesProofs`, `GuestPlatformProofs`, `DemoExtensionProofs` | | theorems |
| `MC...` | | model values and definitions for the configurations |

Conventions. A state variable is named after the field it models. Every action is a
whole task or a whole microtask: a handler with everything it calls, including the
promise reactions that run before anything else can. Messages are records with
`kind`; payloads are left out unless a property reads them. Where a function has an
`await` of I/O there are two actions, before and after. History variables are
marked as such in the declarations: they record what was entered, handed over or
replied, and no guard of the code's actions depends on them.

A definition named `X_Why` is `X` with a plausible mistake. It is used by no
specification; replacing `X` by it must make the property it is paired with in
`PROJECT.json` fail, which shows that the property can see that mistake.

`GuestPlatform` and `DemoExtension` put together components that share no state in
the code either. A variable `part` picks one of them for a behaviour, so that TLC
explores the sum of their states rather than the product; nothing is lost by it,
as no property relates two parts. `ExtensionHarness` does the same for a reason of
the code's: `#impl` is chosen once.

### 2.1 CallQueue, CallService

`[items, takers]` are `#items` and `#waiters`. `Take`, `Push`, `PushFront` give a
step `[queue, given]`: `given` is the sequence of deliveries, which the caller turns
into resumptions. One of the two sequences is always empty.

`CallService` is what the host sees. It leaves the worker free to hand and answer
calls as it likes and pins down what a promise may do: settle once, resolve only
with an answer, and die all at once. It allows a call to be registered after the
death of the worker, because the code does so (section 5); what it does not promise
is that such a call settles. `Late` are the calls that may be refused when they
cannot be taken back any more (`RefuseSent`): none in the browser harness, those with
a locked stream in the extension's (section 5).

### 2.2 BrowserCalls

| action | code |
|---|---|
| `Fetch`, `NormalizeFails`, `Register`, `RegisterAborted` | `#fetch` to `await normalizeRequest`, its failure, and the rest |
| `AbortEarly`, `HostAbort` | the caller's signal, before and after its listener is attached |
| `OnAccept`, `OnRequeue`, `OnRespond`, `OnReady`, `OnFailed` | the port handlers of the host |
| `PostReply` | the handler of acceptCall resuming after `take()`, and PortRpc posting its result |
| `BootFrame`, `BootInit`, `BootFails`, `WorkerError`, `Close` | the boot's stages, its failure, an uncaught error, `close()` |
| `AcceptCall`, `AbortAccept`, `RespondTo`, `SendSignal` | the bundle calling the API |
| `OnDelivery`, `OnRefusal`, `OnCallAbort`, `OnResponded` | the worker's handlers |

`detached` holds the bodies a post has transferred: a second post of such a call
throws, after the call has left the queue. Bounds: `MaxAborts` (acceptCalls the
bundle aborts) and `Signals` (signals it sends, each at most once).

### 2.3 NodeCalls

As above, with these differences of the code: an aborted acceptCall is withdrawn by
an `abort` message and its late response is dropped; `call.accept` records the call
in `#inFlight` in a microtask of its own, so a handler resumes twice (`take`,
`reply`); answers are events, sent when the prelude has read the body (`reading`);
and the thread's death is an event that arrives after its last messages
(`ThreadExits`, `OnExit`). `quiet` says that the microtasks pending were started by
a message of the guest that settles nothing the host code waits for, so that host
code cannot run between them. `slipped` are the calls that the three windows of
section 5 lose; every property that excludes them says so. Bounds: `MaxAborts`,
`Twice` (calls answered a second time), `Signals`.

### 2.4 LogQueue, WorkerLogs

Entries are numbered. `AcceptLog`, `AbortLog`, `Log`, `Fail` cover every harness
that keeps a log, `acceptLog` being the same few lines in each. The log is checked
behind `PageWorker`, whose `acceptLog` waits for the harness first. Bound:
`MaxEntries`.

### 2.5 BodyStream, OffscreenCalls

A source is a sequence of chunks and a chunk a sequence of pieces, each the size of
a message. A sender is `[left, rest, reading, done]`, a receiver
`[queue, got, waiting, state]`; `got` is what its consumer has read. Reads of a
source are actions of their own, since `reader.read()` is an `await` of I/O.

In `OffscreenCalls` the service worker (`sw...`) and the page each have their
halves: the request's sender and the response's receiver belong to the service
worker, the others to the page. `link` is the port as the service worker sees it,
`page` the connection as the document does. Either context may be killed
(`SwKilled`, `PageGone`); what it sent still arrives, then the port's end. The
browser harness behind the page is a `fetch` that runs, resolves, rejects, and
rejects when it fails, which is what `CallService` says of it; a worker that fails
rejects its fetches before the next message (`Tick`).

`Enter` is what `#fetch` does at the end: it registers the call and its abort
listener, posts the fetch, and takes a streamed body's reader. If the stream is
locked that throws: the promise is rejected, and all the rest stays. The call is
`locked` then: its `outcome` is what `#calls` says of it, `Promise` what the host
sees, and its body has no sender. After its `close` message the document keeps
listening to a port that stays open, and answers "not booted" (`OnUnbooted`).

### 2.6 PageWorker, ExtensionHarness

`inner` is the harness that `PageWorker` constructs when its sandboxed page has
been found, or the failure that stands in for it; `chained` are the calls made
before. The host's `options` object may change at any time. A call carries the
entries it was made with (`made`), unless there were none: nothing is copied then,
and the call goes out with whatever the object has got meanwhile (`Uncopied`,
`Given`), or is refused by the browser harness if that is not plain. The harness
that a call is handed to is `BrowserCalls`; `handed` records what it was given. `ExtensionHarness` has the choice of
`createImpl` in its initial states.

### 2.7 OffscreenHost

A connection boots once and ends once, by its message (`Close`) or its port
(`Detach`). An entry is a worker's cache entry: references, reaper armed, the
connection whose provider reads the specifier, how far `#boot` is (`reading`,
`booting`, `frame`), `ready`, and whether the worker is `live`. A worker that is
closed takes its frame with it, but does not stop a boot that has yet to make one:
it starts all the same (`Starts`), which is `Stray`. Connections have ports of their own and their messages are not ordered, so
every action takes its message at any time. What follows at once from a step - a
worker closed, its waiting boots told, its log readers rejected - is in the same
action (`Dead`, `TellDead`, `Silenced`, `Evicted`). Bound: `MaxLogs`.

### 2.8 BrowserServices, StorageBackend

The n-th request of a worker is `call[n]`, whatever it asks for; a connection or a
stream has the name of the request that made it (`object`, at the host; `proxy`, at
the worker). `running` are the requests whose KPS client has not answered yet: the
client is external, settles or fails at any time, and may close anything at any
time. The registries are what `object` has open and `kept`. Storage has a backend
that is opened by the first request, late, or fails to open and stays failed; `db`
is the one ordered store of all workers under `[address, key]`, and `space` the map
of `MemoryBackend`, which stands in where there is no IndexedDB and which the store
must behave like. An address is a number and a key a sequence of numbers, as the
store's order goes by code units. A cursor's walk is the set of records it visits:
those from the lower bound on that come before every one past the range, in that
order (`Walk`). `Dispose` is `close()`, which disposes of the bridge; `#fail` alone
does not. The port stays open, so what has been posted is handled afterwards, and
answered to nobody: `late` is what was under way or posted as a dial or an
openStream. A worker uses one of the two
services in a behaviour (`uses`): they share the port only. Bounds: `MaxCalls`.

### 2.9 SocketBridge, AddressPolicy

`host` is each socket's `Bridged` and where its connect is, `guest` its promises in
the isolate, `stream` the readable of one of them, `Main`. `Main`'s peer sends
numbered pieces, some of them two to a chunk, so that a chunk is larger than
`chunkBytes` and is split. A read is one message and one reply; the host pauses the
socket while more than one chunk waits. `Dispose` is the worker's failure: sockets
are destroyed and dials stopped, and the Rpc answers nothing more, but it goes on
handling what was posted before and what a thread that still runs posts. A connect
that had not been dialled by then is `late`, whether it was being looked up or had
yet to be handled, and one that passed the cap while another was on its way sets
`overlap`. Since sockets share the cap and nothing else, either `Main` has
traffic or there are others (`Alone`, `Idle`: bounds).
`HostTypeOK` and `GuestTypeOK` are the type invariant's halves: the first bounds the
queues and is part of `SocketsBounded`, the second is part of `StreamIntact`.

`AddressPolicy` compares addresses as the code does: the number of whole bytes of a
prefix, then a mask on the byte in which it ends. `PolicyIsExact` compares the
outcome with intervals written out from the ranges' meaning.

### 2.10 GuestIsolate, GuestStream, GuestText, PlainValue

A request of the isolate is a deferred promise with a handle; `pending` are those
alive, `handles` how many times each is held, and freeing one that has none would
abort the process. `timers` are the thread's, `liveTimers` the guest's. The host may
end the thread at any time, by message, which a closed channel loses, or by
termination. `MaxFetches` is the cap of the fetch bridge. `IsolateSpec` is the isolate
by itself; `GuestPlatform` extends `SocketBridge`, `GuestIsolate` and `GuestStream`
and has their steps as parts of its own.

`GuestStream` has several reads at once: one pulls, the others wait to be woken.
`whole` is a body that `text()` or a collector reads to the end instead.
`GuestText` works on UTF-16 code units and bytes; a property of it is checked for
every string of up to three units out of twelve at the edges. `PlainValue` copies a
heap of objects (shared, nested, cyclic, with holes) to a tree, encodes and decodes
it; it is checked on all heaps of two objects.

### 2.11 WorkerSupply and its components

`publish` is each clone's run of the script: commit, push, check, confirm, deploy,
read back. `remote` and `served` are the branch and what the raw URLs give, which
lags behind (`Propagate`). A bundle is named by its hash, so comparing a hash is
comparing names, and `SizeOf` gives it a size. `contracts` are the specifiers;
`named` what each has ever named. `boot` is one harness: `ReadHash`,
`ReadResolvers`, `Try`, with `Owns` possible between any two. A mirror may serve
anything, a kps server any of `Answers`. `published` and `promised` say what the
script promised: stored, checked and deployed. An ABI answer is decoded in a
behaviour of its own, since nothing else depends on it.

### 2.12 DemoExtension and its components

In `DemoWatcher` a request is a chain of awaits, an action each; it boots one worker
at most, which has the request's name. `DemoPopup` has the log (`append` through a
chain of promises, stored and drawn) and the bootstrap field. `PopupWatch` has the
popup's side of a watch, over a service worker whose own awaits are `DemoWatcher`'s.
An account is the name of the start that saved it; `shown` is the balance on the
card, which is also `lastBalance`: of which account it is, and for which watch it was
asked. Only an answered poll changes it. `revived` says that a request which was under
way at a stop has stored that the session runs, `crossed` that two starts were under
way at a time.
`OffscreenDocument` has several contexts, each with its creation in flight, over one
browser. Bounds: `MaxRequests`, `MaxRows`, `MaxProbes`, `MaxAsks`.

## 3 What is checked

| run | instance | properties | what it shows |
|---|---|---|---|
| `browser_calls` | 2 calls, one with a signal and one whose body is transferred; 2 acceptCalls, 1 abort of them; `failed`; fairness | `TypeOK`, `NoForgottenPromise`, `FailureSettles`, `CallsKept`, `ImplementsService`, `EventuallySettled` | a call is in one place, handed once and in order, its abort arrives, its promise is never forgotten; refinement of `CallService`; nothing starves |
| `node_calls_safety` | 2 calls, 1 with a signal, 2 acceptCalls, 1 abort, `failed`; symmetry | `CallsKept`, `SettlesOnce` | the same for the node harness |
| `node_calls_live` | 2 calls, 2 acceptCalls, one call answered twice, `ready`; fairness | `EventuallySettled` | nothing starves, and an answer given twice does no harm |
| `extension` | offscreen: 1 call, a request of one chunk, a response of two, the first in two pieces; page: 2 calls with changing options, among them none and not plain, 2 log readers, 2 entries, room for 1; fairness | `BodiesWhole`, `AbortsArrive`, `NoHalfOpenBody`, `ImplementsService`, `CallsAsMade`, `LogsKept` | bodies and aborts across the port; calls and logs in a page |
| `offscreen_host` | 3 connections, 2 workers, 1 key, 1 log entry a worker; fairness | `RefsExact`, `RunningIsCached`, `RetryIsReal`, `BootIsAnswered` | sharing of workers |
| `browser_services` | 3 requests, each any operation; 3 keys, neighbours below and above | `RegistryExact`, `HandlesAreShared`, `BackendsAgree` | what is open is registered and its closing told; the backends are one map |
| `guest` | 2 sockets, cap 1, 4 pieces, 2 readers, 20 addresses; 3 timers, intervals or fetches; 3 reads, 4 pulls; all texts and heaps of the samples; fairness | `StreamIntact`, `SocketsBounded`, `PolicyIsExact`, `ClosingSettles`, `TimersAndHandles`, `FetchesBounded`, `StreamDelivers`, `ValuesCross` | what a Node worker finds in its isolate |
| `supply` | 2 clones, 3 runs of the script, 1 act of an owner, 3 bundles one of which is over the cap; symmetry | `PublishedBoots`, `BootsPinned`, `OnlyRacesLose`, `AnswerIntact` | from publisher to boot |
| `demo` | 3 requests of the service worker; 5 rows, room for 2; 3 probes for 3 chains; 4 requests of the popup; 2 contexts; fairness | `OneWorkerUnlessOverlap`, `LogKept`, `FieldHonest`, `WatchInForce`, `LostRaceIsNoFailure`, `EventuallyAnswered` | the demo's overlaps |
| `browser_calls_hang`, `node_calls_lost`, `demo_drawer` | as small as shows it | one each | section 5 |

`CallsKept` is, in `BrowserCalls`, the conjunction of `InOnePlace`, `HandedOnce`,
`OnlyLiveQueued`, `AbortReachesBundle` and `HandedInOrder`; in `NodeCalls`, of the
type invariant, `Accounted`, `FailureSettles`, `HandedInOrder`, `AcceptNotLost` and
`AbortReachesGuest`. Each part is a definition of its own with its comment. The
properties that a hazard of the code really breaks in some window name the window
(`slipped`, `detached`, `locked`, `Uncopied`, `Stray`, `late`, `overlap`, `early`,
`eager`, `revived`, `crossed`) and exclude exactly it; section 5 lists the windows.

### 3.1 Why the bounds are enough

Two calls are what order, overtaking and mixing up calls take; two acceptCalls are
what withdrawing the wrong one takes, and the aborted one with its call put back
meets the other one waiting. One abort of an acceptCall suffices for each of the
races it has with delivery, abort, answer and failure; a second one repeats the
first from a state with fewer calls. Of the calls, only one has a signal: the other
is the one that must not be disturbed.

One call has two bodies, which share nothing with those of another call but the
port's order; the pieces of the response are what splitting, cutting short and
reordering take. Room for one log entry with two readers and two entries overflows,
and is read, before and after the failure. Three connections and two workers of one key
are a worker that is shared, and one that is replaced by a boot without reuse while
its connections are still there, and while it boots; keys do not interact.

With two sockets and a cap of one the cap is met, freed and straddled. Four pieces
fill the host's queue until it pauses and leave one to come after a resume.
Three requests make a connection, a stream of it and an operation on either, and in
storage two writes and what is read between or after; the neighbours' records are on
both sides of the worker's range, where a walk that starts or stops one off finds
them. Three timers or fetches are one that is checked, one in its lookup and one
in flight. Addresses and code units are those on both sides of each boundary.

Three runs by two clones are a race, its retry, and a clone behind by a commit. One
act of an owner falls between any two steps of the boot; a second would give the
boot a pair it reads anyway. Three requests of the demo are two starts that overlap
and a stop; four requests of its popup are an opening, a start, a poll and a stop,
or a second start. Two contexts are one that creates and one that does anything else.

The configurations that disable the deadlock check are those of a system that may
really stop: after the offscreen document is gone or every connection has ended,
when the bounded requests of a worker, a guest or a popup are used up, and when the
harness has booted. The others run with it.

### 3.2 Fairness

Weak fairness of the tasks and messages: an event loop runs what is runnable, and a
port delivers. Of I/O, fairness says only that the boot ends one way or the other
and that a body being read ends. `EventuallySettled` needs the worker's help, and
the two last conjuncts of `Fairness` in `BrowserCalls` and `NodeCalls` are it: the
bundle keeps accepting and answers, which is what `passthrough-worker/src` does (a
loop of `acceptCall` whose every call is responded to). Nothing is assumed about
the host: it need not read a body, abort, or close. In `OffscreenCalls` nobody has
to answer at all; an aborted or failed `fetch` of the worker must reject, which
`BrowserCalls` shows of it. `OffscreenHost` assumes that the provider answers; a
boot whose service worker dies is ended by the document. `SocketBridge` assumes
that both contexts handle their messages and that the operating system reports the
end of what was closed (`Progress`); its peer need not send, nor the guest read.
The demo assumes that storage and endpoints answer (`Proceeds`).

Where what is asked is bounded, "everything asked is settled some day" is written
`[]<>(nothing is pending)`: as requests are finitely many this is the same as a
`~>` for each of them, and cheaper to check.

## 4 What is proved

With TLAPS, for every value of the constants that satisfies the assumptions their
modules state:

- `BrowserCalls`, `NodeCalls`: `Signalled`, `Bodied` and `Twice` are sets of calls,
  `Signals` is a set of signals and `MaxAborts` is a natural number.
- `ExtensionHarness`: there are finitely many calls, `Signalled` are some of them; a
  body's source is a sequence of chunks, each a sequence of one piece or more (the
  code skips empty chunks); the numbers of entries and of fetches are natural numbers,
  and the log retains one entry at least.
- `OffscreenHost`: `Conns` is finite, `MaxLogs` is a natural number, `None` is
  neither a worker nor a key.
- `WorkerSupply`: who publishes has a specifier and is an account; a bundle that can
  be named is a bundle; sizes and the cap are natural numbers; the owner is asked
  for sequences of URLs, and what it may set beside them is a pair with a hash.
- `BrowserServices`: the number of requests is a natural number, an address is a
  natural number and a key a sequence of them, and no record of another worker is
  under this one's address.
- `DemoExtension`: the log has room for one row at least; the settings are a finite
  set that is not empty.
- `GuestIsolate` and `GuestStream`: nothing; `FetchesWithinCap` and `ReadsDeliver` say
  themselves that their bounds are natural numbers.
- `SocketBridge`: there are finitely many sockets, `Main` among them, the cap is at
  least one and the pieces are a natural number; `None` is not a reader.

| theorem | states |
|---|---|
| `BrowserCallsProofs!TypeCorrect` | `Spec => []TypeOK` |
| `BrowserCallsProofs!PromisesKept` | `Spec => []NoForgottenPromise`: a promise is pending exactly while its call is registered |
| `BrowserCallsProofs!FailureSettlesAll` | `Spec => []FailureSettles`: a failure or a close settles all that was registered before |
| `BrowserCallsProofs!CallsInOnePlace`, `NeverTwice`, `QueueIsLive`, `InTheirOrder`, `AbortsReach` | the five parts of `CallsKept`, one by one |
| `BrowserCallsProofs!AllCallsKept` | `Spec => []CallsKept` |
| `BrowserCallsProofs!ServiceImplemented` | `Spec => ImplementsService`: the call path implements `CallService` |
| `NodeCallsProofs!NodeInvariant` | `Spec => []NodeInv`, the inductive invariant below |
| `NodeCallsProofs!NodeKeepsCalls` | `Spec => []CallsKept`: no call is forgotten or doubled, calls come in order, a taker is not lost, an abort reaches the guest |
| `NodeCallsProofs!NodeSettlesOnce` | `Spec => SettlesOnce`: no step changes a settled promise, and an answer resolves only what the guest was handed |
| `ExtensionHarnessProofs!BodiesComeWhole` | `HarnessSpec => []BodiesWhole`: what is read of a body is its beginning, all of it when it closes, with one piece ahead of the reader |
| `ExtensionHarnessProofs!AbortsGetThere` | `HarnessSpec => []AbortsArrive`: the abort of a call that still runs or sends gets to the document |
| `ExtensionHarnessProofs!HarnessServes` | `HarnessSpec => ImplementsService`: the extension's call path implements `CallService`, with calls of a locked stream that may be refused and delivered |
| `ExtensionHarnessProofs!CallsGoAsMade` | `HarnessSpec => []CallsAsMade`: a call in a page goes out in its turn, with the entries it was made with if it had any, and is not refused for a later `close()` |
| `ExtensionHarnessProofs!NoLogLost` | `HarnessSpec => LogsKept`: the log's four invariants and that a reader is rejected only when nothing is retained |
| `WorkerSupplyProofs!HostTypeCorrect` | `HostSpec => []HostTypeOK`: among others, no reference count goes below zero |
| `WorkerSupplyProofs!CountsExact` | `HostSpec => []RefsExact`: a worker's count is the number of its connections |
| `WorkerSupplyProofs!NoWorkerLeaks` | `HostSpec => []RunningIsCached`: a worker that boots or is in a frame is cached under its key only, its reaper armed exactly while it is unused, unless it was closed before its frame was made |
| `WorkerSupplyProofs!RetriesReal` | `HostSpec => []RetryIsReal`: no failed boot is cached, and each connection has been told what became of its boot |
| `WorkerSupplyProofs!SupplyTyped` | `Spec => []TypeOK` |
| `WorkerSupplyProofs!PublishedAlwaysBoots` | `Spec => []PublishedBoots`: a boot from what the script promised fails only over the size cap |
| `WorkerSupplyProofs!BootIsPinned` | `Spec => []BootsPinned`: what boots has a hash that its contract named, and is within the cap |
| `WorkerSupplyProofs!PushesLoseOnlyRaces` | `Spec => []OnlyRacesLose`: a push is refused only to a clone that somebody overtook |
| `BrowserServicesProofs!RegistriesExact` | `Spec => []RegistryExact`: the registries hold what is open, and nothing is open after `close()` but what was under way or posted then |
| `BrowserServicesProofs!HandlesShared` | `Spec => []HandlesAreShared`: a handle is told of its end, and what is open has a handle, or its answer is on the way, or it was given up |
| `BrowserServicesProofs!BackendsAlike` | `Spec => []BackendsAgree`: a worker's namespace in the shared ordered store is what a map of its own would be, under every prefix, and the others' records are untouched |
| `GuestPlatformProofs!SocketsAreBounded` | `Spec => []SocketsBounded`: the cap, outside the window of section 5, the bounded queue, and nothing open after a disposal that had been dialled before |
| `GuestPlatformProofs!StreamStaysIntact` | `Spec => []StreamIntact`: a socket's stream delivers what its peer has sent, in order, and one read at most is out at the host |
| `GuestPlatformProofs!IsolateIsTidy` | `IsolateSpec => []TimersAndHandles`: no handle is left or freed twice, and a cleared timer does not run |
| `GuestPlatformProofs!FetchesWithinCap` | `IsolateSpec => []FetchesBounded`: the cap of the fetch bridge, and no fetch that outlives it unaborted |
| `GuestPlatformProofs!ReadsDeliver` | `StreamSpec => []StreamDelivers`: the guest's streams hand out each chunk once, in order, and strand no read but where section 5 says |
| `DemoExtensionProofs!OneWorker` | `Spec => []OneWorkerUnlessOverlap` |
| `DemoExtensionProofs!NoRowLost` | `Spec => []LogKept`: the log has the last rows in order, whoever appended and cleared meanwhile |
| `DemoExtensionProofs!LosersSucceed` | `Spec => []LostRaceIsNoFailure`: a context that loses the race to create the document does not fail |
| `DemoExtensionProofs!WatchStaysInForce` | `Spec => []WatchInForce`: the popup polls at one interval, runs what was not stopped, and shows of its watch's answers the watched account's balance, outside the windows of section 5 |

### 4.1 The call queue

`CallQueueTheorems` has what the two harnesses' proofs share. Its first half are
the types of the queue's operations (`TakeType`, `PushType`, `RemoveItemType`,
`RejectAllType`): a step of the host gives the queue to one of them, and what it
gives to a lemma on deliveries. Its second half is about lines: sequences of calls,
and sequences of messages that carry calls, in which every earlier element is
related to every later one (`InOrder`, `CarriedInOrder`). Order and uniqueness are
both such a relation, the order of the ids and inequality, so each lemma - an
element joins at the end, leaves from the front, is taken out of the middle, goes
from one line to the next - is proved once, by indices, and serves both. The ports
of the extension harness are lines in an order of their own (4.9), for which
`ConcatOrder`, `TailOrder`, `SingleOrder` and `AnyOrder` say the same.

The last part is about `FlattenSeq`, which folds over a sequence and is what a
body's pieces are: `FlattenCons` says that the pieces of a chunk and of the chunks
after it are those of all. The library's induction theorems cannot be instantiated
by the installed provers, as they take an operator. `InductiveSet` gets by without:
a set of natural numbers that has zero and each successor has them all
(`LeastExists`), and a set can be given. What the fold computes (`FlattenExists`,
`FlattenIs`) and that concatenation associates through it (`Associates`) are proved
with it.

### 4.2 BrowserCalls

`TypeOK` is inductive as it stands. `Promises`, the conjunction of
`NoForgottenPromise` and `FailureSettles`, is inductive over the typed states: the
registration of a call and its promise change together in `Register`, `HostAbort`,
`OnRespond` and `Fail` and nowhere else, and `Fail` is the only step that sets
`failed` (`FailPromises`).

`Lined` says where a call can be: queued, with a handler that is resuming, on its
way to the worker, had by the bundle, or on its way back. `InLine` says that the
first four are one line without repetition; `Back`, that what is going back is not
on it; `Located`, that a registered call is somewhere; `Known`, that only a call
with an id is anywhere. None of these is inductive alone: that a requeued call may
be put at the head of the queue needs `Back`, and that an answer finds its call
registered needs that the bundle has it. `Serving` (items or takers, never both)
and `Quiet` (nothing moves before the frame is up) are what the boot steps need.
With no aborts of acceptCalls nothing goes back, and the line is also in the order
of the ids (`NoReturn`), which is `HandedInOrder`.

`AbortsFollow` says of a call with a signal where its abort is: posted behind the
delivery, or ahead of it and then ahead of the reply that would close the call
(`Ahead`), or recorded with the call. It needs the places of `Lined`.

`ServiceImplemented` maps the host's registered calls, promises, and what was
issued and answered to `CallService`'s variables. The initial states map to the
initial state; each of the actions of `Next` is shown to be one action of the
service or a stutter, by the invariants above: that a reply is that of a call
handed to the bundle, say, is `Back`. A failure is `Die`, however many promises it
rejects.

### 4.3 NodeCalls

A call is queued, taken by a handler that will record it, recorded by one that
will post it, on its way, or had by the guest (`Queued`, `Taken`, `Recorded`,
`Going`, `Had`); the two resumptions of a handler are why there is one place more
than in the browser. `NodeInv` is the conjunction of

- `TypeOK`;
- `Lined`: the queue has items or takers, a call with an id has one, and through all
  five places the calls are in the order of their ids, without repetition;
- `Owed`: a promise is pending exactly while its call is queued, taken or in
  `#inFlight`, and in one of them only. With the uniqueness of `Lined` this is
  `Accounted`;
- `FailureSettles` and `AcceptNotLost`, which are properties themselves;
- `Answered`: an answer comes from a guest that has the call, and what it has not
  answered it either was told to abort or can be;
- `AbortsFollow`: the abort of a call that was posted, or will be, is told, in the
  port, or will be posted with it.

Every step is described first by what it does to the places (`PushMoves`,
`TakeMoves`, `FailMoves`, `AbortMoves`, `RecordMoves`, `PostMoves`,
`DeliveryMoves`), and each part of the invariant is proved from these descriptions
and not from the actions. TLC found `NodeInv` to hold in the configured instances
before it was proved. `SettlesOnce` is an action property and follows from the
invariant and the step: `Owed` says that what is settled is in no place from which
a step could settle it, `Answered` that what is answered was handed over.

### 4.4 OffscreenHost

`WorkerSupplyProofs` extends both components, which share no state, and has these
four theorems in its second half. They come from one inductive invariant, `HostInv`,
because each needs the others. That a count stays a natural number needs
`RefsExact` (a connection that ends was counted). `RefsExact` needs `Placed` (a
connection in use has a constructed worker), or a new worker could have users
before it is booted. That the reaper is armed exactly while unused needs the
counts. That a boot replaces the cached worker and no other needs `CacheKeyed` (a
worker is cached by its key). And a worker closed by its reaper tells nobody, which
is right only because `RefsExact` says nobody is left to wait for it. `Unused` and
`Pending` say that a worker not constructed yet has neither run nor failed, and how
far a boot may be: one frame is made, no worker is ready before it, and one that is
closed has not become ready since, whether its boot goes on or not. Steps that change who is connected
are reduced to three shapes, `Stay`, `Join` and `Leave`, each with a lemma about
the cardinality of `Users`. The configured run has one key; the proof has any
number. TLC found `HostInv`'s parts to hold with two keys before they were proved.

### 4.5 WorkerSupply

`Supply` is inductive. That a published bundle boots is a chain through four
components. Commits only add bundles, in every clone and at the remote (`Stored`),
so what the raw URLs serve is never lost. A run of the script that checks has
passed only URLs that serve its bundle (`Checked`), so what it publishes is served
by a resolver of its pair (`Kept`). A contract's pair is one it was given
(`Named`), and the harness looks for the bundle of such a pair (`Pinned`) although
the owner may write between its two reads; it tries the resolvers in order and
passes the raw URL only when the bundle is too large (`Passed`). `OnlyRacesLose`
rests on `Rebased`: what is pushed begins with what was fetched, so the remote has
moved if it does not.

### 4.6 BrowserServices

What could go wrong is between the two ends of the port: a `closed` event that comes
before the handle it is for, a handle nobody has. `ServicesInv` follows a request on
its one way (`Passage`): it is posted once, the client has it once, it is answered
once, and it makes something only if the answer is "resolved". So while the worker
waits for the answer of what was made, the answer is in the port (`Shared`); and a
`closed` event is behind it (`After`), unless the client closed what it was still
making (`early`, the window of section 5). `Objects` says what the host knows of a
connection or stream, `Apart` that storage's requests make none. The steps of the
KPS client and of the port are cases of three lemmas: a request is taken and
refused, something is closed, something is posted. `Reply` posts one answer for
each of a sequence of requests, so that `ServicesInv` need not follow what storage does.
Since requests are handled after the disposal as before it, what opens then is `late`
only because a request that was posted when the bridge was disposed is `Posted`, and
nothing is posted any more by a worker whose frame is gone.

Storage has an invariant of its own, `StoreInv`: the ordered store, at this worker's
address, has the keys and values of the map, the others' records are as they were
(`Agrees`), and what waits for the database was asked for. Its one hard lemma is
`WalkIs`, that the cursor visits all the records under a prefix and no others. A
record under the prefix is not below the lower bound, and a record of the range that
is past the prefix differs from it at some place: at the least one (`LeastExists`) it
is greater, or it would stand before the bound, so that all records under the prefix
stand before it (`StringOrder`). That is why a walk which stops at the first record
past the prefix stops late enough. A request then does the same to both
(`StoresAgree`), and those that waited do, one after the other, by `InductiveSet`
(`StoresAllAgree`).

### 4.7 SocketBridge, GuestIsolate and GuestStream

`GuestPlatformProofs` proves of each what the run checks of their composition; they
share no state.

Almost every step of the host changes one socket and is `Tame`: it keeps the socket
`Sound`, counts none towards the cap and opens none that was not counted or on its
way. The exceptions are the lookup's and the connect's steps, which are the ones the
cap is about. No step knows of the disposal but `Reply`, so that what is said of open
sockets after it is said of each step. That a connect meets a new socket is an invariant about two parties
(`Calls`): the guest asks for a socket once, and until the host takes that up the
socket is new there. `Sound` bounds a socket's queue by its pause: a socket that is
not paused has room for the chunk that a resumed socket had been holding back.

`PipeInv` follows the pieces of `Main`. Its `Flowing` is what `StreamIntact` says, with
the reasons: nothing stays in the guest's own queue, since a read that pulls takes
what its reply holds or hands it to the one that waited longest (`Settled`), and a
stream with a pulling read has neither failed nor been closed, unless the guest
dropped the socket. Counted are the reads that are out: asked for and not taken up
(`Tally` of the port), waiting at the host (`Out`), answered and not delivered. They
are one while a read pulls and none otherwise, so a read that the host takes up finds
`Bridged.waiter` free, an answer finds a read that pulls, and a second read never
overwrites the first one's waiter. Each step of the host satisfies `HostFlows`: it
moves pieces from the queue to the replies, whatever events come between, and
answers as many reads as it no longer holds. The turns of several readers are a
recursive function, which is taken apart by `InductiveSet` as `FlattenSeq` is
(`TurnsAre`, `TurnsLeave`).

A new request of the isolate is held nowhere, and a timer that was cleared is not
the guest's (`Timed`); the cap has counted what is in flight or looked up and was
not checked beside another (`CountedFetches`), and what a closed bridge may still hear of
was there at its end (`ToCome`).

A stream's queue holds one chunk at most, the last that was enqueued, and while it
does, the read that pulled it has yet to go on and somebody else is about to go
around if anybody waits (`Chunks`, `Pulls`). So nobody overtakes the read that
pulled unless it was under way beside it (`MadeInOrder`, `InTurn`), and whoever
waits in vain does so after an error or a cancel (`NotStranded`). A read of the
whole has its i-th chunk in its i-th read (`Whole`). The three ways around a read's
loop meet in one predicate, `Goes`, from which each outcome of the loop restores
the invariant.

### 4.8 DemoExtension

`Boots` and `Single`: until two boots overlap there is one at a time, with nothing
else alive beside it, and what is ready is cached. `Logged`: the stored rows, and
those an append under way has loaded, are `Apart` - as far apart in number as in
place - and hold all that the limit and the last clear leave; cutting the buffer
keeps that. `OneInterval` has each interval with the click that made it, and `OneAccount`
says that the popup, what it was told and its requests under way agree with the
session on one account unless two starts have crossed. `Balances` orders what was
got, stored, told and shown: a balance is of the account that was watched when it was
asked for, or of a later one, and not later than the session's; with an account as
late as the popup's, whoever asked for it on behalf of the popup's account got its
balance.

### 4.9 OffscreenCalls

One inductive invariant, `IInv` with `FreshCalls` (a signal that has fired belongs
to a call that was made), carries the three theorems. `Sent` is what has been sent
and not handled: the outbox and both ports. The invariant says

- of the ports (`Ports`), that they are lines in `Order`: `boot` comes first, an
  abort comes after its fetch, and of a fetch, a response, a pull or a sender's data
  for one body there is never a second on its way. This is what "a chunk that
  crosses its cancel" and "an abort that overtakes its call" come down to;
- of the contexts (`Connection`), which states of the service worker's `link` and the
  document's `page` go together, and that the end of either is announced to the
  other behind all that was sent;
- of a call, how far the request has come (`Asked`), what the document does for it
  (`Served`), how far the answer has come (`Answered`) and where its abort is
  (`Aborted`). The last gives `AbortsArrive`, with `ListensWhileOpen` and
  `Controllers` (`#calls` and `inFlight` hold a call as long as a body of it is
  being sent);
- of a body (`Body`), with `Taken` what its reader has, read or not, and `Unsent` the
  sender's rest and the chunks of its source: while it is the sender's turn, because
  a pull is on its way or a read is under way or the reader has something to read,
  `Taken \o Unsent` is the source's pieces; while a chunk is on its way, it belongs
  between the two. Exactly one of these holds at a time, which is the backpressure
  of `OneAhead`;
- of its end (`RequestBody`, `AnswerBody`): `body.end` with pieces missing is on its
  way only to a reader who is about to be stopped, because the abort is ahead of the
  end in the port, or because the worker has failed (section 5).

A step is described once by what it does to the halves of a body and to the
messages about it: one lemma for each operation of `BodyStream` says that it keeps
`Body`, for any set of other messages. The other lemmas say what a step leaves
alone, what sending and receiving do to a line, and what stopping all bodies at
once sends (`StopSenders`, `StopReceivers`). Then there is one lemma for each action
(`PreservedBy...`), with a step for each part of the invariant.

`HarnessServes` maps the calls that the document has begun to `CallService`'s
`reached`, and `failed` to `dead`; its other variables are the model's own. A
response resolves a promise that is pending, with an answer that the worker gave, by
`Answered`; a failure is one step of the service however many promises it rejects.
The outcome of a call with a locked stream is `Promise`'s, rejected from the start, so
that what becomes of its entry in `#calls` is no step of the service.

### 4.10 PageWorker and the log

`PageKept` has the types, `LogInv` and `PageInv`.

`LogInv` numbers the entries: what is retained are the last of what was logged, one
number each, and what was read are smaller numbers, in order. So every entry is
read, retained, dropped or refused (`ExactlyOneReader`). A reader waits exactly
while it is in `#waiters`, and nobody waits while something is retained or after the
close. When entries have been dropped and nothing was read, the log is full, which
makes `KeepsNewest` a statement about the newest `Retention` of them. `LastWords`
is an action property, by cases of the step that rejects.

`PageInv` has what waits for `#inner` in `LinkOrder`: calls by number, a close once,
and behind the close only calls that were made after it (`closing`). `CallPlaced`
says of each call whether it waits, what it was made with, whether the host may have
changed it (`changed`) and why it was refused (`Refusable`),
`HandedFirst` that what has been handed was made before all that waits, and
`ClosePlaced` that a `close()` that was asked for waits, or has closed the log, or
had nothing to close. TLC found the parts of both invariants, and of `IInv`, to hold
in the configured instance before they were proved.

### 4.11 What is only model-checked

- Every temporal property that asks for progress, since liveness under fairness and
  `ENABLED` are outside the prover: `EventuallySettled`, `NoHalfOpenBody`,
  `BootIsAnswered`, `ClosingSettles`, `EventuallyAnswered`.
- What depends on the values that a codec or a mask computes, each over a recursive
  definition of its own that would have to be taken apart as `FlattenSeq` was:
  `ValuesCross`, `PolicyIsExact`, `AnswerIntact` (ABI decoding).
- `FieldHonest`, as texts are compared with the text of a number.

## 5 Where the code and its specification differ

Shown by a run each:

- **A fetch that never settles** (`browser_calls_hang`). `#fetch` looks at
  `#failure` before `await normalizeRequest` only. The same shape is in
  `NodeCalls` (`late`) and in `OffscreenWorker.#fetch`.
- **A call consumed by an aborted acceptCall** (`node_calls_lost`).
- **A drawer that stops drawing** (`demo_drawer`). Once the demo's log is full, an
  append drops a row in front, the length stays the same, and `renderLogs` takes
  that for nothing new.

Met while modelling, part of the models, and without a run of their own.

Calls and workers:

- A call whose body was transferred by a first post and which is handed back by an
  aborted acceptCall cannot be posted again: it leaves the queue and is lost
  (`browser-harness/src/protocol.ts:132`; SPEC 8 says that an aborted acceptCall
  does not consume). `detached` in `BrowserCalls`.
- `close()` during the read of the specifier does not stop the boot, which makes a
  frame and a worker for a harness that is closed
  (`browser-harness/src/host/AnonRpcWorker.ts:119`). The node harness looks again. In
  the offscreen document this is a worker that was replaced, left or reaped before its
  frame was made: it starts, uncached and without a reaper (`Stray`), and stays until
  the document goes.
- An acceptCall that is aborted puts its call back behind a later one that has been
  delivered meanwhile (`HandedInOrder` of `BrowserCalls` says "aborts = 0").
- In the node harness the abort of a call between `take()` and `#inFlight` finds it
  nowhere, and a failure there leaves its promise pending; a `call.abort` that
  overtakes its delivery is forgotten. These are `slipped`. A second `respond()`
  does not throw (SPEC 8 says it must), and does no harm.
- `#fail` of the node harness closes its Rpc before it emits `shutdown`, so that the
  thread is not told but terminated (`node-harness/src/host/AnonRpcWorker.ts:367`
  and `:376`, against the comment in between).

The extension harness:

- A fetch whose body is a locked stream is rejected only after it was posted
  (`OffscreenWorker.ts:326`, where `getReader()` throws). Its entry in `#calls` and its
  abort listener stay until an answer, an abort or a failure; the document's receiver
  of the body never hears of a sender; the worker gets the call, and may answer it.
  `locked` in `OffscreenCalls`; `NoHalfOpenBody` excludes the bodies of such calls, and
  `ImplementsService` allows their delivery.
- A fetch in a page that has no forwarded entry is not copied
  (`PageWorker.ts:74`, `forwarded.ts:20-34`): if the host adds entries to its object
  before the asset check is done, the call is sent with them, against the comment at
  `PageWorker.ts:67`, or refused when they are not plain. `CallsAsMade` says so.
- A connection closed by its message answers "not booted" to a fetch that comes after
  it, when `close()` was called before the port was there
  (`OffscreenWorker.ts:349`, `offscreen/mount.ts:191`).
- The log pump of a connection that has ended takes one more entry and drops it
  (`offscreen/mount.ts:303`). `swallowed` in `OffscreenHost`.
- A worker that fails after it was ready stays in the cache of the offscreen
  document, so that later connections are told "ready" and fail on their first call.
- A connection that reuses a worker which still boots depends on the provider of
  the connection that booted it; if that one dies the boot fails for both.
- A boot without `reuse` closes the worker of its key under the connections that
  use it.
- A sender cancelled in the middle of a read sends `body.end` rather than nothing.
  Its receiver is done by then, but for the request body of a worker that has
  failed; nobody reads that one, and it stays until the port ends.
- The service worker does not disconnect its port when the worker fails, so the
  page keeps the connection, and the reference, until the service worker ends.
- An acceptLog whose signal is aborted already still takes a retained entry, and
  resolves with it (`harness-core/src/log-queue.ts:37`); in the model it is an
  acceptLog like any other.

Services:

- The caps of sockets and fetches are checked before a lookup and counted after it,
  so that requests that overlap exceed them; and a worker that fails during the
  lookup leaves what is opened afterwards open
  (`socket-bridge-host.ts:113` and `:132`, `fetch-bridge-host.ts:67` and `:98`).
- The node harness's Rpc handles requests after it was closed as before
  (`node-harness/src/protocol.ts:154-196`), and answers none: a `socket.connect` posted
  before the disposal and handled after it is dialled, registered and stays open.
- A KPS `closed` event posted before the reply that names the connection or stream
  is dropped by the worker, whose `closed` never resolves (`kps-bridge-host.ts:27`;
  SPEC 12 says it must).
- `close()` of the browser harness disposes of the bridge and leaves the port open
  (`browser-harness/src/host/AnonRpcWorker.ts:316`): a dial or openStream that is
  pending, or posted and not handled yet, opens afterwards, is registered and stays
  open. `#fail` by itself does not even dispose.
- The guest's abort of a fetch does not reach the host, which goes on with it
  (against the comment at `fetch-bridge-host.ts:99`).
- The deferred of a cancelled timer stays pending until teardown
  (`child/isolate-thread.ts:116`).
- Concurrent reads of a stream may be served out of order, and one parked behind a
  pull that fails, or a cancel, waits for good (`prelude.guest.js:401-414`).
- A fatal `TextDecoder` refuses a genuine U+FFFD, and a sequence cut short swallows
  the bytes after it (`prelude.guest.js`, `TextDecoder`).
- A second `Content-Encoding` line of a KPS response is ignored
  (`kps-http.ts:213`).

Supply and demo:

- Hash and resolvers are two reads: a boot during an update may try the new
  resolvers for the old hash, and fail. It never boots anything else.
- Publishing does not check the size that harnesses accept
  (`publish-worker.mjs:136`).
- The demo's `ensureWorker` boots two workers for two requests that overlap.
- Neither `start()` nor `stop()` of the popup takes the balance off the card or resets
  `lastBalance` (`popup.ts:328-362`): after a stop and a start on another account the
  old account's balance stays up until the first answer, and the first delta is
  taken between two accounts. A poll of the earlier watch that is answered after the
  start shows the old account's balance until the next answer (`popup.ts:307`).
  `WatchInForce` therefore speaks of balances that the present watch has asked for.
- A request that is under way at a stop and ends after it marks the session as running
  again (`background.ts:358-364`), so that the popup resumes it when it is opened
  next. `revived` in `PopupWatch`.
- A start clicked before the popup is done opening leaves a second interval, one at
  most, which runs until the popup is closed (`eager`).
- A popup that is closed and opened again while its start is still on its way resumes
  or starts another account than the session has in the end. `crossed`.

## 6 Limits

- Data is abstract: headers, urls, encodings, error values and log arguments are
  there only where a property reads them, and a conversion that throws is a call
  that is rejected. `URLSearchParams`, `Headers`, `Request`, `Response` and
  `AbortSignal` of the prelude are not modelled.
- Failure of `postMessage` is modelled where the code handles it: a transferred
  body, a port that is down.
- A context that is killed is killed between tasks.
- `chrome.runtime` ports, `MessageChannel`, threads, IndexedDB, the KPS client, git
  and the chain are external: FIFO and lossless ports while both ends live, with one
  close event after the last message; transactions and calls that are atomic.
- Timers are nondeterministic: the reaper, a timeout or an interval may fire at any
  time after it is armed.
- The isolate's deadlines, its memory limit and its interrupt handler are numbers
  and a native library; what follows from them, a failure at any time, is modelled.
- A behaviour of `WorkerSupply` ends when its harness has booted or failed; the
  retries of a check are one check; a raw URL fails only with "not there"; prompts,
  keys and gas are left out. KPS datagrams carry nothing that a property reads.
- The demo's validation of input, its presets and its alarm are left out, and so is
  everything that is only shown.
- Not modelled: the superseded process isolation and its launcher, which are kernel
  configuration and share no state with calls; the site, the benchmarks, the probes
  and the build scripts, which are tools around the system.

## 7 Plan

Done: the call paths of the three harnesses, logs, bodies, the offscreen document
and its creation, the page variant, sockets, fetch, timers, streams, text, plain
values, KPS, storage, publishing and the specifier, the demo; proofs about
`CallQueue`, `BrowserCalls` and `OffscreenCalls` and their refinements of
`CallService`, `NodeCalls`, `PageWorker`, `WorkerLogs`, `OffscreenHost`,
`WorkerSupply`, `BrowserServices`, `SocketBridge`, `GuestIsolate`, `GuestStream` and
`DemoExtension`.

Next, a proof: a refinement of `CallService` by `NodeCalls` outside `slipped`. Then, to
be modelled: the isolate's deadlines and memory limit as events of `GuestIsolate`; `Headers` and `Response` of the prelude; the demo's saved settings.
