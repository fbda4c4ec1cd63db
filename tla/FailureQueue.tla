----------------------------- MODULE FailureQueue -----------------------------
(***************************************************************************)
(* The ring buffer of failure_queue.c.  Every operation runs under the port *)
(* lock, so each is one action.  The indices and the count are uint8_t.     *)
(***************************************************************************)
EXTENDS Integers, Sequences

CONSTANTS
  FAILURE_QUEUE_CAP,  \* FDIR_FAILURE_QUEUE_CAP, any positive number
  U8_MAX,             \* largest uint8_t
  QueueReports,       \* the reports callers put in
  ZeroReport          \* what memset leaves in a slot

ASSUME RingAssumption ==
  /\ FAILURE_QUEUE_CAP \in Nat \ {0}
  /\ U8_MAX \in Nat \ {0}
  /\ ZeroReport \in QueueReports

VARIABLES
  g_slots, g_head, g_tail, g_count, g_full_latched,
  out    \* the caller's buffer that fdir_failure_queue_get fills

ringVars == <<g_slots, g_head, g_tail, g_count, g_full_latched, out>>

uint8(n) == n % (U8_MAX + 1)
Slots    == 0 .. FAILURE_QUEUE_CAP - 1

RingTypeOK ==
  /\ g_slots \in [Slots -> QueueReports]
  /\ g_head \in Slots
  /\ g_tail \in Slots
  /\ g_count \in 0 .. U8_MAX /\ g_count <= FAILURE_QUEUE_CAP
  /\ g_full_latched \in BOOLEAN
  /\ out \in QueueReports

RingInit ==
  /\ g_slots = [i \in Slots |-> ZeroReport]
  /\ g_head = 0
  /\ g_tail = 0
  /\ g_count = 0
  /\ g_full_latched = FALSE
  /\ out = ZeroReport

\* Mutant: the write index is not reset.
InitKeepsTail ==
  /\ g_slots' = [i \in Slots |-> ZeroReport]
  /\ g_head' = 0
  /\ g_count' = 0
  /\ g_full_latched' = FALSE
  /\ UNCHANGED <<g_tail, out>>

\* fdir_failure_queue_init, on fdir_init and when supervision is disabled.
failure_queue_init ==
  /\ g_slots' = [i \in Slots |-> ZeroReport]
  /\ g_head' = 0
  /\ g_tail' = 0
  /\ g_count' = 0
  /\ g_full_latched' = FALSE
  /\ UNCHANGED out

\* Mutant: off by one in the test for a full queue.
PutOneTooMany(r) ==
  /\ g_count <= FAILURE_QUEUE_CAP
  /\ g_slots' = [g_slots EXCEPT ![g_tail] = r]
  /\ g_tail' = uint8((g_tail + 1) % FAILURE_QUEUE_CAP)
  /\ g_count' = uint8(g_count + 1)
  /\ UNCHANGED <<g_head, g_full_latched, out>>

\* fdir_failure_queue_put[_unsafe] with room for the report ...
failure_queue_put(r) ==
  /\ g_count < FAILURE_QUEUE_CAP
  /\ g_slots' = [g_slots EXCEPT ![g_tail] = r]
  /\ g_tail' = uint8((g_tail + 1) % FAILURE_QUEUE_CAP)
  /\ g_count' = uint8(g_count + 1)
  /\ UNCHANGED <<g_head, g_full_latched, out>>

\* ... and without.
failure_queue_put_full ==
  /\ g_count >= FAILURE_QUEUE_CAP
  /\ g_full_latched' = TRUE
  /\ UNCHANGED <<g_slots, g_head, g_tail, g_count, out>>

\* Mutants: the read index runs off the array; the write index is read.
GetWithoutWrap ==
  /\ g_count # 0
  /\ out' = g_slots[g_head]
  /\ g_head' = uint8(g_head + 1)
  /\ g_count' = uint8(g_count - 1)
  /\ UNCHANGED <<g_slots, g_tail, g_full_latched>>
GetAtTail ==
  /\ g_count # 0
  /\ out' = g_slots[g_tail]
  /\ g_head' = uint8((g_head + 1) % FAILURE_QUEUE_CAP)
  /\ g_count' = uint8(g_count - 1)
  /\ UNCHANGED <<g_slots, g_tail, g_full_latched>>

\* fdir_failure_queue_get; an empty queue leaves everything alone.
failure_queue_get ==
  /\ g_count # 0
  /\ out' = g_slots[g_head]
  /\ g_head' = uint8((g_head + 1) % FAILURE_QUEUE_CAP)
  /\ g_count' = uint8(g_count - 1)
  /\ UNCHANGED <<g_slots, g_tail, g_full_latched>>

RingNext ==
  \/ \E r \in QueueReports : failure_queue_put(r)
  \/ failure_queue_put_full
  \/ failure_queue_get
  \/ failure_queue_init

RingSpec == RingInit /\ [][RingNext]_ringVars

-----------------------------------------------------------------------------
(***************************************************************************)
(* Refinement mapping: the queue holds the g_count slots from g_head on.    *)
(***************************************************************************)
Contents ==
  [i \in 1 .. g_count |-> g_slots[(g_head + i - 1) % FAILURE_QUEUE_CAP]]

Fifo == INSTANCE FifoQueue WITH
          Capacity <- FAILURE_QUEUE_CAP, queue <- Contents, report <- out

\* The ring buffer of failure_queue.c delivers exactly the accepted reports, in
\* order, refuses exactly when FDIR_FAILURE_QUEUE_CAP are pending, and sets the
\* overflow latch exactly then: it implements the abstract queue.
RingImplementsFifo == Fifo!QueueSpec

\* A report that fdir_failure_queue_put accepts is appended to the pending ones
\* and displaces none of them (types.h: the queue must not drop silently).
AcceptedIsPending ==
  [][\A r \in QueueReports :
       failure_queue_put(r) => Contents' = Append(Contents, r)]_ringVars

\* The write index is the read index plus the pending count, modulo the
\* capacity: a put never overwrites a report that get has not returned yet.
TailFollowsCount == g_tail = (g_head + g_count) % FAILURE_QUEUE_CAP
=============================================================================
