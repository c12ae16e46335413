------------------------------- MODULE LogQueue -------------------------------
(***************************************************************************)
(* The log retention buffer (harness-core/src/log-queue.ts): entries       *)
(* nobody has read, readers nobody has served, both oldest first, how many *)
(* entries were dropped for want of room, and whether it was closed.       *)
(*                                                                         *)
(* take() and push() return a step: the buffer afterwards, what was given  *)
(* to whom, and the readers rejected.  A definition named X_Why is X with  *)
(* a plausible slip.                                                       *)
(***************************************************************************)
EXTENDS SequencesExt, Naturals

NewLog == [items |-> <<>>, waiters |-> <<>>, closed |-> FALSE, dropped |-> 0]

Quiet(q) == [log |-> q, given |-> <<>>, rejected |-> <<>>]

Serves(q, r, e) == [log |-> q, given |-> <<[reader |-> r, entry |-> e]>>, rejected |-> <<>>]

Rejects(q, rs) == [log |-> q, given |-> <<>>, rejected |-> rs]

\* a closed buffer rejects its readers although it retains entries
Take_ClosedFirst(q, r) ==
  IF q.closed THEN Rejects(q, <<r>>)
  ELSE IF q.items # <<>> THEN Serves([q EXCEPT !.items = Tail(@)], r, Head(q.items))
  ELSE Quiet([q EXCEPT !.waiters = Append(@, r)])

\* take(): a retained entry even of a closed buffer, else rejection, else wait
Take(q, r) ==
  IF q.items # <<>> THEN Serves([q EXCEPT !.items = Tail(@)], r, Head(q.items))
  ELSE IF q.closed THEN Rejects(q, <<r>>)
  ELSE Quiet([q EXCEPT !.waiters = Append(@, r)])

\* an abort withdraws a reader not yet served
Withdraw(q, r) == [q EXCEPT !.waiters = RemoveFirst(@, r)]

\* keep the newest `max` entries
Retain(q, e, max) ==
  IF Len(q.items) < max
  THEN [q EXCEPT !.items = Append(@, e)]
  ELSE [q EXCEPT !.items = Tail(Append(@, e)), !.dropped = @ + 1]

\* push(): ignored once closed; to the oldest reader, else retained
Push(q, e, max) ==
  IF q.closed THEN Quiet(q)
  ELSE IF q.waiters # <<>> THEN Serves([q EXCEPT !.waiters = Tail(@)], Head(q.waiters), e)
  ELSE Quiet(Retain(q, e, max))

\* close(), once: the waiting readers are rejected, the entries stay readable
Close(q) ==
  IF q.closed THEN Quiet(q)
  ELSE Rejects([q EXCEPT !.closed = TRUE, !.waiters = <<>>], q.waiters)

=============================================================================
