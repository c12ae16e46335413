------------------------------ MODULE CallQueue ------------------------------
(***************************************************************************)
(* The inbound-call discipline shared by the harnesses                     *)
(* (harness-core/src/call-queue.ts): items nobody has asked for yet, and   *)
(* takers nobody has served yet, both oldest first.                        *)
(*                                                                         *)
(* The class resolves a promise when it serves a taker.  Here take, push   *)
(* and pushFront return a step: the queue afterwards and the sequence      *)
(* (empty or a singleton) of what was given to whom.  What the taker's     *)
(* continuation does with it is the caller's business.                     *)
(***************************************************************************)
EXTENDS SequencesExt

EmptyQueue == [items |-> <<>>, takers |-> <<>>]

QueueOf(Items, Takers) == [items : Seq(Items), takers : Seq(Takers)]

Nothing(q) == [queue |-> q, given |-> <<>>]

Gives(q, w, x) == [queue |-> q, given |-> <<[taker |-> w, item |-> x]>>]

(***************************************************************************)
(* take(): the oldest item if there is one, else wait.                     *)
(***************************************************************************)
Take(q, w) ==
  IF q.items # <<>>
  THEN Gives([q EXCEPT !.items = Tail(@)], w, Head(q.items))
  ELSE Nothing([q EXCEPT !.takers = Append(@, w)])

(***************************************************************************)
(* push() and pushFront(): the oldest taker is served, else the item waits *)
(* at the back, or at the front when it was taken and came back.           *)
(***************************************************************************)
ServeTaker(q, x) == Gives([q EXCEPT !.takers = Tail(@)], Head(q.takers), x)

PushFront(q, x) ==
  IF q.takers # <<>> THEN ServeTaker(q, x)
                     ELSE Nothing([q EXCEPT !.items = <<x>> \o @])

Push(q, x) ==
  IF q.takers # <<>> THEN ServeTaker(q, x)
                     ELSE Nothing([q EXCEPT !.items = Append(@, x)])

(***************************************************************************)
(* remove() takes back an item not yet delivered; an abort withdraws a     *)
(* taker not yet served.                                                   *)
(***************************************************************************)
IsQueued(q, x) == Contains(q.items, x)

RemoveItem(q, x) == [q EXCEPT !.items = RemoveFirst(@, x)]

WithdrawTaker(q, w) == [q EXCEPT !.takers = RemoveFirst(@, w)]

(***************************************************************************)
(* rejectAll() empties both lists.  The queue is not closed by it: a later *)
(* take() waits and a later push() queues, as in a fresh queue.            *)
(***************************************************************************)
RejectAll(q) == EmptyQueue

=============================================================================
