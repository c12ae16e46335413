------------------------------ MODULE WorkerLogs ------------------------------
(***************************************************************************)
(* A worker's log entries and the host that reads them: the `log` handler, *)
(* acceptLog() and #fail of both harnesses' AnonRpcWorker.ts over one      *)
(* LogQueue.  Several acceptLog() calls may wait at once, each may be      *)
(* aborted, and the worker may fail at any moment.                         *)
(***************************************************************************)
EXTENDS LogQueue, FiniteSets

CONSTANTS
  Readers,      \* acceptLog() calls that may be outstanding at once
  MaxEntries,   \* how many entries the worker logs (bound)
  Retention     \* LOG_RETENTION

VARIABLES
  log,       \* #logs
  reader,    \* what became of each acceptLog()
  logged,    \* how many entries the worker has logged: entry n is the n-th
  refused,   \* how many of them came after the failure
  read       \* the entries acceptLog() resolved with, in the order it did

logVars == <<log, reader, logged, refused, read>>

Entries == 1 .. MaxEntries

LogsInit ==
  /\ log = NewLog
  /\ reader = [r \in Readers |-> "idle"]
  /\ logged = 0
  /\ refused = 0
  /\ read = <<>>

\* a served reader is free to ask again
LogStep(step) ==
  /\ log' = step.log
  /\ reader' = [r \in Readers |->
       CASE \E g \in ToSet(step.given) : g.reader = r -> "idle"
         [] Contains(step.rejected, r) -> "rejected"
         [] Contains(step.log.waiters, r) -> "waiting"
         [] OTHER -> reader[r]]
  /\ read' = read \o [i \in DOMAIN step.given |-> step.given[i].entry]

AcceptLog(r) ==
  /\ reader[r] = "idle"
  /\ LogStep(Take(log, r))
  /\ UNCHANGED <<logged, refused>>

\* the acceptLog() promise rejects and the caller is withdrawn
AbortLog(r) ==
  /\ reader[r] = "waiting"
  /\ log' = Withdraw(log, r)
  /\ reader' = [reader EXCEPT ![r] = "idle"]
  /\ UNCHANGED <<logged, refused, read>>

Log ==
  /\ logged < MaxEntries
  /\ logged' = logged + 1
  /\ LogStep(Push(log, logged + 1, Retention))
  /\ refused' = IF log.closed THEN refused + 1 ELSE refused

Fail ==
  /\ LogStep(Close(log))
  /\ UNCHANGED <<logged, refused>>

-----------------------------------------------------------------------------

\* an entry goes to one reader, or is retained, or is dropped for want of room or after the failure
ExactlyOneReader ==
  Len(read) + Len(log.items) + log.dropped + refused = logged

\* what is retained is newer than what was read, and both are in the order they were logged in
ReadInOrder ==
  LET seen == read \o log.items
  IN  \A i, j \in DOMAIN seen : i < j => seen[i] < seen[j]

\* no reader waits while there is an entry for it, or after the failure
NoneWaitsInVain ==
  /\ log.items # <<>> \/ log.closed => log.waiters = <<>>
  /\ \A r \in Readers : reader[r] = "waiting" => Contains(log.waiters, r)

\* a host that reads late sees the newest entries
KeepsNewest ==
  /\ Len(log.items) <= Retention
  /\ log.dropped > 0 /\ read = <<>> =>
       log.items = [i \in 1 .. Retention |-> logged - refused - Retention + i]

\* last words: a failure rejects no reader while an entry is retained
LastWords ==
  \A r \in Readers : reader[r] # "rejected" /\ reader'[r] = "rejected" => log.items = <<>>

(***************************************************************************)
(* SPEC.md 13.1: an entry goes to exactly one reader, oldest first, or is  *)
(* dropped for room, the oldest of them; none is lost to an acceptLog()    *)
(* that was aborted or rejected, none of which waits in vain; and what a   *)
(* worker logged before it failed can still be read.                       *)
(***************************************************************************)
LogsKept ==
  /\ [](ExactlyOneReader /\ ReadInOrder /\ NoneWaitsInVain /\ KeepsNewest)
  /\ [][LastWords]_logVars

=============================================================================
