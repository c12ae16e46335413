------------------------------ MODULE GuestStream ------------------------------
(***************************************************************************)
(* The ReadableStream a worker finds in the isolate                        *)
(* (node-harness/src/child/prelude.guest.js), read by several reads at     *)
(* once: one of them pulls from the source, the others wait to be woken.   *)
(*                                                                         *)
(* The n-th chunk the source enqueues is n.                                *)
(***************************************************************************)
EXTENDS SequencesExt, Integers

CONSTANTS
  MaxReads,   \* how many reads are ever made (bound)
  MaxPulls    \* how many times the source is asked (bound)

Reads == 1 .. MaxReads

VARIABLES
  reads,     \* where each read is, and what it got
  body,      \* the stream: queue, waiters, closed, errored, and the read that pulls
  source,    \* the pull: idle, running, or how it settled; and the chunks so far
  whole,     \* the reads are those of one reader of the whole body
  overtaken  \* history: the reads that were made while another was under way

streamVars == <<reads, body, source, whole, overtaken>>

StreamInit ==
  /\ reads = [i \in Reads |-> [at |-> "new", got |-> 0]]
  /\ body = [queue |-> <<>>, waiters |-> <<>>, closed |-> FALSE, errored |-> FALSE,
               cancelled |-> FALSE, puller |-> 0]
  /\ source = [pull |-> "idle", chunks |-> 0, pulls |-> 0]
  /\ whole \in BOOLEAN
  /\ overtaken = {}

ReadSettled == {"got", "done", "threw"}
ReadsUnderWay == {i \in Reads : reads[i].at \notin {"new"} \cup ReadSettled}

\* once around the loop of a read: settle, pull, or wait
Around(i, now) ==
  LET settle(where, n) == reads' = [reads EXCEPT ![i] = [at |-> where, got |-> n]]
  IN  CASE now.errored -> settle("threw", 0) /\ body' = now /\ UNCHANGED source
        [] ~now.errored /\ now.queue # <<>> ->
             /\ settle("got", Head(now.queue))
             /\ body' = [now EXCEPT !.queue = Tail(@)]
             /\ UNCHANGED source
        [] ~now.errored /\ now.queue = <<>> /\ now.closed ->
             settle("done", 0) /\ body' = now /\ UNCHANGED source
        [] ~now.errored /\ now.queue = <<>> /\ ~now.closed /\ now.puller = 0 ->
             /\ settle("pulling", 0)
             /\ body' = [now EXCEPT !.puller = i]
             /\ source' = [source EXCEPT !.pull = "running", !.pulls = @ + 1]
        [] OTHER ->
             /\ settle("waiting", 0)
             /\ body' = [now EXCEPT !.waiters = Append(@, i)]
             /\ UNCHANGED source

\* a reader of the whole body reads on only when it got a chunk
ReadsOn(i) == i > 1 => reads[i - 1].at = "got"

\* what it has, its chunks put together
Collected == [n \in {i \in Reads : reads[i].at = "got"} |-> reads[n].got]

\* read()
Begin(i) ==
  /\ whole => ReadsOn(i)
  /\ reads[i].at = "new" /\ \A j \in 1 .. (i - 1) : reads[j].at # "new"
  /\ source.pulls < MaxPulls
  /\ overtaken' = IF ReadsUnderWay = {} THEN overtaken ELSE overtaken \cup ReadsUnderWay \cup {i}
  /\ Around(i, body)
  /\ UNCHANGED whole

\* the read whose pull has settled goes on
Resume(i) ==
  /\ body.puller = i /\ source.pull \in {"pulled", "failed"}
  /\ LET now == [body EXCEPT !.puller = 0, !.errored = @ \/ source.pull = "failed"]
     IN  /\ source.pulls = MaxPulls => now.errored \/ now.queue # <<>> \/ now.closed
         /\ Around(i, now)
  /\ UNCHANGED <<whole, overtaken>>

\* a read that was woken goes around again
Awoken(i) ==
  /\ reads[i].at = "waiting" /\ i \notin ToSet(body.waiters)
  /\ source.pulls = MaxPulls => body.puller # 0 \/ body.errored \/ body.queue # <<>> \/ body.closed
  /\ Around(i, body)
  /\ UNCHANGED <<whole, overtaken>>

PullEnqueues_WakesNone ==
  /\ source.pull = "running"
  /\ IF body.closed
     THEN source' = [source EXCEPT !.pull = "failed"] /\ UNCHANGED body
     ELSE /\ source' = [source EXCEPT !.pull = "pulled", !.chunks = @ + 1]
          /\ body' = [body EXCEPT !.queue = Append(@, source.chunks + 1)]
  /\ UNCHANGED <<reads, whole, overtaken>>

\* the source enqueues a chunk, which wakes one; a stream that is closed takes none
PullEnqueues ==
  /\ source.pull = "running"
  /\ IF body.closed
     THEN source' = [source EXCEPT !.pull = "failed"] /\ UNCHANGED body
     ELSE /\ source' = [source EXCEPT !.pull = "pulled", !.chunks = @ + 1]
          /\ body' = [body EXCEPT !.queue = Append(@, source.chunks + 1),
                          !.waiters = IF @ = <<>> THEN @ ELSE Tail(@)]
  /\ UNCHANGED <<reads, whole, overtaken>>

\* an empty chunk is not enqueued
PullsNothing ==
  /\ source.pull = "running"
  /\ source' = [source EXCEPT !.pull = "pulled"]
  /\ UNCHANGED <<reads, body, whole, overtaken>>

PullCloses ==
  /\ source.pull = "running"
  /\ source' = [source EXCEPT !.pull = "pulled"]
  /\ body' = [body EXCEPT !.closed = TRUE, !.waiters = <<>>]
  /\ UNCHANGED <<reads, whole, overtaken>>

PullFails ==
  /\ source.pull = "running"
  /\ source' = [source EXCEPT !.pull = "failed"]
  /\ UNCHANGED <<reads, body, whole, overtaken>>

\* the reader's cancel, which wakes nobody
Cancel ==
  /\ ~whole /\ ~body.cancelled /\ \E i \in Reads : reads[i].at # "new"
  /\ body' = [body EXCEPT !.closed = TRUE, !.cancelled = TRUE, !.queue = <<>>]
  /\ UNCHANGED <<reads, source, whole, overtaken>>

StreamNext ==
  \/ \E i \in Reads : Begin(i) \/ Resume(i) \/ Awoken(i)
  \/ PullEnqueues \/ PullsNothing \/ PullCloses \/ PullFails \/ Cancel

StreamSpec == StreamInit /\ [][StreamNext]_streamVars

-----------------------------------------------------------------------------

\* the reads that wait with nobody pulling and nobody about to
Stranded ==
  IF body.puller = 0 /\ ~\E i \in Reads : reads[i].at = "waiting" /\ i \notin ToSet(body.waiters)
  THEN ToSet(body.waiters) ELSE {}

(***************************************************************************)
(* Each chunk is got once, or still queued, or was dropped by a cancel;    *)
(* reads that did not overlap got them in order.  A read waits for nobody  *)
(* only when the pull it waited on failed or the stream was cancelled:     *)
(* neither wakes the others (prelude.guest.js:401-405 and 411-414).  What  *)
(* is read as a whole is every chunk, in order.                            *)
(***************************************************************************)
StreamDelivers ==
  LET got == {i \in Reads : reads[i].at = "got"}
  IN  /\ \A i, j \in got : i # j => reads[i].got # reads[j].got
      /\ ~body.cancelled =>
           {reads[i].got : i \in got} \cup ToSet(body.queue) = 1 .. source.chunks
      /\ \A i, j \in got \ overtaken : i < j => reads[i].got < reads[j].got
      /\ Stranded # {} => body.errored \/ body.cancelled
      /\ whole /\ (\E i \in Reads : reads[i].at = "done") =>
           Collected = [n \in 1 .. source.chunks |-> n]

=============================================================================
