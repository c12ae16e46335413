----------------------------- MODULE GuestPlatform -----------------------------
(***************************************************************************)
(* What a worker finds in the node harness's isolate beside its calls:     *)
(* sockets, timers and fetch, streams, text, and plain values from the     *)
(* host.  They share no state, so that a behaviour here is one of one of   *)
(* them (bound: `part`).                                                   *)
(***************************************************************************)
EXTENDS SocketBridge, GuestIsolate, GuestStream

CONSTANTS
  Texts, Heaps   \* the strings and the host's objects that are tried (bounds)

VARIABLES part, sample

Text == INSTANCE GuestText

Plain == INSTANCE PlainValue

platformVars == <<vars, isolateVars, streamVars, part, sample>>

PlatformInit ==
  /\ Init /\ IsolateInit /\ StreamInit
  /\ \/ part \in {"sockets", "isolate", "stream"} /\ sample = <<>>
     \/ part = "text" /\ sample \in Texts
     \/ part = "plain" /\ sample \in Heaps

BySockets(Step) ==
  part = "sockets" /\ Step /\ UNCHANGED <<isolateVars, streamVars, part, sample>>

PlatformNext ==
  \/ BySockets(Next)
  \/ /\ part = "isolate" /\ IsolateNext
     /\ UNCHANGED <<vars, streamVars, part, sample>>
  \/ /\ part = "stream" /\ StreamNext
     /\ UNCHANGED <<vars, isolateVars, part, sample>>

PlatformSpec ==
  PlatformInit /\ [][PlatformNext]_platformVars /\ WF_platformVars(BySockets(Progress))

-----------------------------------------------------------------------------

(***************************************************************************)
(* Text survives TextEncoder and TextDecoder (prelude.guest.js:100-101); a *)
(* plain value crosses to the guest without loss, and what is not one is   *)
(* refused at the host (plain-value.ts:99-103 and 14-15).                  *)
(***************************************************************************)
ValuesCross ==
  /\ part = "text" => Text!Survives(sample)
  /\ part = "plain" => Plain!Crosses(sample, "root")

=============================================================================
