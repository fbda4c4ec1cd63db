------------------------------ MODULE FifoQueue ------------------------------
(***************************************************************************)
(* What the failure queue promises its users: a bounded first-in first-out  *)
(* sequence that refuses a report when it is full, remembers that it did,   *)
(* and is emptied by a (re)initialisation.  The composed model uses these    *)
(* actions; FailureQueue shows that the ring buffer implements them.        *)
(***************************************************************************)
EXTENDS Integers, Sequences

CONSTANTS
  Capacity,       \* FDIR_FAILURE_QUEUE_CAP
  QueueReports,   \* the reports that are put in
  ZeroReport      \* a report with every byte zero

VARIABLES
  queue,            \* the reports accepted and not yet taken, oldest first
  g_full_latched,   \* a report has been refused since the last initialisation
  report            \* the buffer of the one caller of fdir_failure_queue_get

queueVars == <<queue, g_full_latched, report>>

QueueInit ==
  /\ queue = <<>>
  /\ g_full_latched = FALSE
  /\ report = ZeroReport

QueuePut(r) ==
  /\ Len(queue) < Capacity
  /\ queue' = Append(queue, r)
  /\ UNCHANGED <<g_full_latched, report>>

QueueRefuse ==
  /\ Len(queue) >= Capacity
  /\ g_full_latched' = TRUE
  /\ UNCHANGED <<queue, report>>

\* Mutant: the newest report is taken first.
QueueGetNewest ==
  /\ queue # <<>>
  /\ report' = queue[Len(queue)]
  /\ queue' = SubSeq(queue, 1, Len(queue) - 1)
  /\ UNCHANGED g_full_latched

QueueGet ==
  /\ queue # <<>>
  /\ report' = Head(queue)
  /\ queue' = Tail(queue)
  /\ UNCHANGED g_full_latched

QueueClear ==
  /\ queue' = <<>>
  /\ g_full_latched' = FALSE
  /\ UNCHANGED report

QueueNext ==
  \/ \E r \in QueueReports : QueuePut(r)
  \/ QueueRefuse
  \/ QueueGet
  \/ QueueClear

QueueSpec == QueueInit /\ [][QueueNext]_queueVars
=============================================================================
