----------------------------- MODULE CallService -----------------------------
(***************************************************************************)
(* What `AnonRpcWorker.fetch` promises its host, whatever the harness does *)
(* to keep it (SPEC.md 5 and 8): a call settles at most once and for good, *)
(* it reaches the worker's code at most once, it is resolved only with an  *)
(* answer the worker gave, and it is rejected only because the request     *)
(* could not be built, the caller aborted, the worker failed the call, or  *)
(* the worker as a whole failed, which rejects every pending call at once. *)
(***************************************************************************)
EXTENDS FiniteSets

CONSTANTS
  Calls,   \* the fetch() calls the host makes
  Late     \* those that may turn out not to be one when they are on their way

VARIABLES
  outcome,   \* what the host's promise for each call says
  entered,   \* the calls that were registered for delivery
  reached,   \* the calls the worker's code has been given
  replied,   \* the calls the worker's code has answered
  dead       \* the worker failed or was closed

vars == <<outcome, entered, reached, replied, dead>>

Unsettled == {"normalizing", "pending"}

Init ==
  /\ outcome = [c \in Calls |-> "idle"]
  /\ entered = {}
  /\ reached = {}
  /\ replied = {}
  /\ dead = FALSE

Refuse(c) ==   \* a request that is not one, or the worker failed before
  /\ outcome[c] = "idle"
  /\ outcome' = [outcome EXCEPT ![c] = "rejected"]
  /\ UNCHANGED <<entered, reached, replied, dead>>

RefuseSent(c) ==   \* or one that cannot be taken back
  /\ ~dead
  /\ c \in Late
  /\ outcome[c] = "idle"
  /\ outcome' = [outcome EXCEPT ![c] = "rejected"]
  /\ entered' = entered \cup {c}
  /\ UNCHANGED <<reached, replied, dead>>

Issue(c) ==   \* the host calls fetch(), and the request takes time to build
  /\ ~dead
  /\ outcome[c] = "idle"
  /\ outcome' = [outcome EXCEPT ![c] = "normalizing"]
  /\ UNCHANGED <<entered, reached, replied, dead>>

IssueAtOnce(c) ==   \* or does not
  /\ ~dead
  /\ outcome[c] = "idle"
  /\ outcome' = [outcome EXCEPT ![c] = "pending"]
  /\ entered' = entered \cup {c}
  /\ UNCHANGED <<reached, replied, dead>>

Register(c) ==   \* the request is ready to be delivered
  /\ outcome[c] = "normalizing"
  /\ outcome' = [outcome EXCEPT ![c] = "pending"]
  /\ entered' = entered \cup {c}
  /\ UNCHANGED <<reached, replied, dead>>

Reject(c) ==   \* a bad request, the caller's abort, or a failure reply
  /\ outcome[c] \in Unsettled
  /\ outcome' = [outcome EXCEPT ![c] = "rejected"]
  /\ UNCHANGED <<entered, reached, replied, dead>>

Hand(c) ==   \* the worker's code gets the call, once
  /\ c \in entered \ reached
  /\ reached' = reached \cup {c}
  /\ UNCHANGED <<outcome, entered, replied, dead>>

Reply(c) ==   \* the worker's code answers a call it was given, once
  /\ c \in reached \ replied
  /\ replied' = replied \cup {c}
  /\ UNCHANGED <<outcome, entered, reached, dead>>

Resolve(c) ==   \* the answer reaches the host's promise
  /\ outcome[c] = "pending"
  /\ c \in replied
  /\ outcome' = [outcome EXCEPT ![c] = "resolved"]
  /\ UNCHANGED <<entered, reached, replied, dead>>

Die ==   \* failure or close: every pending call is rejected in the same step
  /\ ~dead
  /\ dead' = TRUE
  /\ outcome' = [c \in Calls |-> IF outcome[c] = "pending" THEN "rejected" ELSE outcome[c]]
  /\ UNCHANGED <<entered, reached, replied>>

Next ==
  \/ \E c \in Calls :
       \/ Refuse(c) \/ RefuseSent(c) \/ Issue(c) \/ IssueAtOnce(c) \/ Register(c)
       \/ Reject(c) \/ Hand(c) \/ Reply(c) \/ Resolve(c)
  \/ Die

Spec == Init /\ [][Next]_vars

=============================================================================
