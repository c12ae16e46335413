--------------------------- MODULE ExtensionHarness ---------------------------
(***************************************************************************)
(* An AnonRpcWorker of the extension harness                               *)
(* (browser-extension-harness/src/background/AnonRpcWorker.ts): what the   *)
(* browser provides when it is constructed says, once and for all, whether *)
(* it is an OffscreenWorker (OffscreenCalls) or a PageWorker.              *)
(***************************************************************************)
EXTENDS OffscreenCalls

CONSTANTS Readers, MaxEntries, Retention, MaxFetches, Options   \* see PageWorker

ASSUME RetentionAssumption == Retention \in Nat \ {0}
ASSUME EntriesAssumption == MaxEntries \in Nat
ASSUME FetchesAssumption == MaxFetches \in Nat

VARIABLES
  impl,   \* #impl
  log, reader, logged, refused, read,
  inner, chained, options, call, handed, asked, ended

Page == INSTANCE PageWorker

pageWorkerVars ==
  <<log, reader, logged, refused, read, inner, chained, options, call, handed, asked, ended>>
harnessVars == <<vars, pageWorkerVars, impl>>

\* createImpl: an offscreen document where there can be one, else a page with a DOM
HarnessInit ==
  /\ impl \in {"OffscreenWorker", "PageWorker"}
  /\ Init /\ Page!Init

Offscreen(step) == impl = "OffscreenWorker" /\ step /\ UNCHANGED <<pageWorkerVars, impl>>

HarnessNext ==
  \/ Offscreen(Next)
  \/ impl = "PageWorker" /\ Page!Next /\ UNCHANGED <<vars, impl>>

(***************************************************************************)
(* Both contexts of an OffscreenWorker handle their messages, the boot     *)
(* gets somewhere, reads come back, and the worker's fetch() rejects once  *)
(* it is aborted or the worker is gone.  Nobody has to read a body or to   *)
(* answer a call.                                                          *)
(***************************************************************************)
HarnessFairness ==
  /\ WF_harnessVars(Offscreen(SwReceive)) /\ WF_harnessVars(Offscreen(PageReceive))
  /\ WF_harnessVars(Offscreen(Connect \/ BootFails))
  /\ \A c \in Calls :
       /\ WF_harnessVars(Offscreen(SwSource(c))) /\ WF_harnessVars(Offscreen(PageSource(c)))
       /\ WF_harnessVars(Offscreen((c \in stopped \/ worker = "failed") /\ FetchRejects(c)))

HarnessSpec == HarnessInit /\ [][HarnessNext]_harnessVars /\ HarnessFairness

-----------------------------------------------------------------------------

(***************************************************************************)
(* PageWorker.ts:64-72: each call in a page is sent with the entries it    *)
(* was made with, if it had any, in the order it was made (see             *)
(* PageWorker).                                                            *)
(***************************************************************************)
CallsAsMade == Page!CallsAsMade

(***************************************************************************)
(* SPEC.md 13.1: an entry goes to exactly one reader, oldest first, or is  *)
(* dropped for room, the oldest of them; none is lost to an acceptLog()    *)
(* that was aborted or rejected, none of which waits in vain; and what a   *)
(* worker logged before it failed can still be read.                       *)
(***************************************************************************)
LogsKept == Page!LogsKept

=============================================================================
