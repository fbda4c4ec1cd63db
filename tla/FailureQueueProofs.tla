-------------------------- MODULE FailureQueueProofs --------------------------
(***************************************************************************)
(* Theorems about the ring buffer for every capacity that its 8-bit count    *)
(* can hold.                                                                *)
(***************************************************************************)
EXTENDS FailureQueue, SequenceTheorems, TLAPS

\* The limit that failure_queue.c needs and does not state.
CapFitsCount == FAILURE_QUEUE_CAP <= U8_MAX

\* The inductive invariant: types, and the write index determined by the other two.
RingInv == RingTypeOK /\ TailFollowsCount

-----------------------------------------------------------------------------
(***************************************************************************)
(* Arithmetic of the indices.                                               *)
(***************************************************************************)
\* The index k places after h.
LEMMA IndexAfter ==
  ASSUME NEW h \in Slots, NEW k \in 0 .. FAILURE_QUEUE_CAP
  PROVE  (h + k) % FAILURE_QUEUE_CAP
           = IF h + k < FAILURE_QUEUE_CAP THEN h + k ELSE h + k - FAILURE_QUEUE_CAP
BY RingAssumption DEF Slots

\* It is an index.
LEMMA IndexRange ==
  ASSUME NEW h \in Slots, NEW k \in 0 .. FAILURE_QUEUE_CAP
  PROVE  (h + k) % FAILURE_QUEUE_CAP \in Slots
BY RingAssumption DEF Slots

\* Fewer than a full turn apart, places do not coincide.
LEMMA IndicesDiffer ==
  ASSUME NEW h \in Slots, NEW j \in 0 .. FAILURE_QUEUE_CAP - 1,
         NEW k \in 0 .. FAILURE_QUEUE_CAP - 1, j # k
  PROVE  (h + j) % FAILURE_QUEUE_CAP # (h + k) % FAILURE_QUEUE_CAP
<1>1. j \in 0 .. FAILURE_QUEUE_CAP /\ k \in 0 .. FAILURE_QUEUE_CAP
  BY RingAssumption
<1>2. /\ (h + j) % FAILURE_QUEUE_CAP
           = IF h + j < FAILURE_QUEUE_CAP THEN h + j ELSE h + j - FAILURE_QUEUE_CAP
      /\ (h + k) % FAILURE_QUEUE_CAP
           = IF h + k < FAILURE_QUEUE_CAP THEN h + k ELSE h + k - FAILURE_QUEUE_CAP
  BY <1>1, IndexAfter
<1> QED BY <1>2, RingAssumption DEF Slots

\* A step of the index and k more are k + 1 places.
LEMMA IndexStep ==
  ASSUME NEW h \in Slots, NEW k \in 0 .. FAILURE_QUEUE_CAP - 1
  PROVE  (((h + 1) % FAILURE_QUEUE_CAP) + k) % FAILURE_QUEUE_CAP
           = (h + (k + 1)) % FAILURE_QUEUE_CAP
<1> DEFINE next == (h + 1) % FAILURE_QUEUE_CAP
<1>0. 1 \in 0 .. FAILURE_QUEUE_CAP
  BY RingAssumption
<1>1. next \in Slots /\ next = IF h + 1 < FAILURE_QUEUE_CAP THEN h + 1 ELSE 0
  <2>1. next = IF h + 1 < FAILURE_QUEUE_CAP THEN h + 1 ELSE h + 1 - FAILURE_QUEUE_CAP
    BY <1>0, IndexAfter
  <2> QED BY <2>1, RingAssumption DEF Slots
<1>2. (next + k) % FAILURE_QUEUE_CAP
        = IF next + k < FAILURE_QUEUE_CAP THEN next + k ELSE next + k - FAILURE_QUEUE_CAP
  BY <1>1, IndexAfter, RingAssumption
<1>3. (h + (k + 1)) % FAILURE_QUEUE_CAP
        = IF h + (k + 1) < FAILURE_QUEUE_CAP THEN h + (k + 1)
          ELSE h + (k + 1) - FAILURE_QUEUE_CAP
  BY IndexAfter, RingAssumption
<1> QED BY <1>1, <1>2, <1>3, RingAssumption DEF Slots

\* The conversion to uint8_t loses nothing below the limit.
LEMMA NoWrap ==
  ASSUME NEW n \in 0 .. U8_MAX PROVE uint8(n) = n
BY RingAssumption DEF uint8

-----------------------------------------------------------------------------
(***************************************************************************)
(* The invariant.                                                           *)
(***************************************************************************)
\* What the operations do to the indices, without conversions.
LEMMA PutEffect ==
  ASSUME CapFitsCount, RingInv, NEW r \in QueueReports, failure_queue_put(r)
  PROVE  /\ g_count' = g_count + 1 /\ g_count + 1 <= FAILURE_QUEUE_CAP
         /\ g_tail' = (g_tail + 1) % FAILURE_QUEUE_CAP /\ g_tail' \in Slots
<1>1. g_count \in Nat /\ g_count < FAILURE_QUEUE_CAP /\ g_tail \in Slots
  BY RingAssumption DEF RingInv, RingTypeOK, failure_queue_put
<1>2. g_count + 1 \in 0 .. U8_MAX
  BY <1>1, RingAssumption DEF CapFitsCount
<1>3. (g_tail + 1) % FAILURE_QUEUE_CAP \in Slots
  BY <1>1, IndexRange, RingAssumption
<1>4. (g_tail + 1) % FAILURE_QUEUE_CAP \in 0 .. U8_MAX
  BY <1>3, RingAssumption DEF CapFitsCount, Slots
<1> QED BY <1>1, <1>2, <1>3, <1>4, NoWrap, RingAssumption DEF failure_queue_put

\* The same for a get.
LEMMA GetEffect ==
  ASSUME CapFitsCount, RingInv, failure_queue_get
  PROVE  /\ g_count' = g_count - 1 /\ g_count \in 1 .. FAILURE_QUEUE_CAP
         /\ g_head' = (g_head + 1) % FAILURE_QUEUE_CAP /\ g_head' \in Slots
<1>1. g_count \in 1 .. FAILURE_QUEUE_CAP /\ g_head \in Slots
  BY RingAssumption DEF RingInv, RingTypeOK, failure_queue_get
<1>2. g_count - 1 \in 0 .. U8_MAX
  BY <1>1, RingAssumption DEF CapFitsCount
<1>3. (g_head + 1) % FAILURE_QUEUE_CAP \in Slots
  BY <1>1, IndexRange, RingAssumption
<1>4. (g_head + 1) % FAILURE_QUEUE_CAP \in 0 .. U8_MAX
  BY <1>3, RingAssumption DEF CapFitsCount, Slots
<1> QED BY <1>1, <1>2, <1>3, <1>4, NoWrap DEF failure_queue_get

\* An index of zero and no pending report satisfy the invariant.
LEMMA ZeroIndices ==
  0 \in Slots /\ (0 + 0) % FAILURE_QUEUE_CAP = 0 /\ 0 \in 0 .. U8_MAX /\ 0 <= FAILURE_QUEUE_CAP
BY RingAssumption DEF Slots

\* memset establishes the invariant.
LEMMA RingInvInit == RingInit => RingInv
<1> SUFFICES ASSUME RingInit PROVE RingInv
  OBVIOUS
<1>1. g_head = 0 /\ g_tail = 0 /\ g_count = 0
  BY DEF RingInit
<1>2. g_slots \in [Slots -> QueueReports] /\ out \in QueueReports /\ g_full_latched \in BOOLEAN
  BY RingAssumption DEF RingInit
<1> QED BY <1>1, <1>2, ZeroIndices DEF RingInv, RingTypeOK, TailFollowsCount

\* Every operation of failure_queue.c preserves it.
LEMMA RingInvNext ==
  ASSUME CapFitsCount, RingInv, [RingNext]_ringVars PROVE RingInv'
<1> USE DEF RingInv, RingTypeOK, TailFollowsCount
<1>1. CASE UNCHANGED ringVars
  BY <1>1 DEF ringVars
<1>2. ASSUME NEW r \in QueueReports, failure_queue_put(r) PROVE RingInv'
  <2>1. g_slots' \in [Slots -> QueueReports] /\ UNCHANGED <<g_head, g_full_latched, out>>
    BY <1>2 DEF failure_queue_put
  <2>2. /\ g_count' = g_count + 1 /\ g_count + 1 <= FAILURE_QUEUE_CAP
        /\ g_tail' = (g_tail + 1) % FAILURE_QUEUE_CAP /\ g_tail' \in Slots
    BY <1>2, PutEffect
  <2>3. g_tail' = (g_head + g_count') % FAILURE_QUEUE_CAP
    <3>0. /\ g_count \in 0 .. FAILURE_QUEUE_CAP /\ g_count + 1 \in 0 .. FAILURE_QUEUE_CAP
          /\ 1 \in 0 .. FAILURE_QUEUE_CAP
      BY <2>2, RingAssumption
    <3>1. /\ g_tail = IF g_head + g_count < FAILURE_QUEUE_CAP THEN g_head + g_count
                      ELSE g_head + g_count - FAILURE_QUEUE_CAP
          /\ (g_tail + 1) % FAILURE_QUEUE_CAP
               = IF g_tail + 1 < FAILURE_QUEUE_CAP THEN g_tail + 1
                 ELSE g_tail + 1 - FAILURE_QUEUE_CAP
      BY <3>0, IndexAfter
    <3>2. (g_head + (g_count + 1)) % FAILURE_QUEUE_CAP
            = IF g_head + (g_count + 1) < FAILURE_QUEUE_CAP THEN g_head + (g_count + 1)
              ELSE g_head + (g_count + 1) - FAILURE_QUEUE_CAP
      BY <3>0, IndexAfter
    <3> QED BY <2>2, <3>1, <3>2, RingAssumption DEF Slots
  <2> QED BY <2>1, <2>2, <2>3, RingAssumption DEF CapFitsCount
<1>3. CASE failure_queue_put_full
  BY <1>3 DEF failure_queue_put_full
<1>4. CASE failure_queue_get
  <2>1. /\ g_count' = g_count - 1 /\ g_count \in 1 .. FAILURE_QUEUE_CAP
        /\ g_head' = (g_head + 1) % FAILURE_QUEUE_CAP /\ g_head' \in Slots
    BY <1>4, GetEffect
  <2>2. UNCHANGED <<g_slots, g_tail, g_full_latched>> /\ out' \in QueueReports
    BY <1>4 DEF failure_queue_get
  <2>3. g_tail' = (g_head' + g_count') % FAILURE_QUEUE_CAP
    <3>0. g_count - 1 \in 0 .. FAILURE_QUEUE_CAP - 1
      BY <2>1, RingAssumption
    <3>1. (((g_head + 1) % FAILURE_QUEUE_CAP) + (g_count - 1)) % FAILURE_QUEUE_CAP
            = (g_head + ((g_count - 1) + 1)) % FAILURE_QUEUE_CAP
      BY <3>0, IndexStep
    <3>2. (g_count - 1) + 1 = g_count
      BY <2>1
    <3> QED BY <2>1, <2>2, <3>1, <3>2
  <2> QED BY <2>1, <2>2, <2>3, RingAssumption DEF CapFitsCount
<1>5. CASE failure_queue_init
  <2>1. g_head' = 0 /\ g_tail' = 0 /\ g_count' = 0
    BY <1>5 DEF failure_queue_init
  <2>2. g_slots' \in [Slots -> QueueReports] /\ out' \in QueueReports /\ g_full_latched' \in BOOLEAN
    BY <1>5, RingAssumption DEF failure_queue_init
  <2> QED BY <2>1, <2>2, ZeroIndices
<1> QED BY <1>1, <1>2, <1>3, <1>4, <1>5 DEF RingNext

\* The indices of failure_queue.c stay inside the array, the slots and the latch keep
\* their types, and the 8-bit count never exceeds the capacity.
THEOREM RingTypeCorrect == CapFitsCount /\ RingSpec => []RingTypeOK
<1> SUFFICES ASSUME CapFitsCount PROVE RingSpec => []RingTypeOK
  OBVIOUS
<1>1. RingInv => RingTypeOK
  BY DEF RingInv
<1> QED BY <1>1, RingInvInit, RingInvNext, PTL DEF RingSpec

\* The write index is always the read index plus the count: no put overwrites a
\* report that is still pending.
THEOREM TailFollowsCountSafe == CapFitsCount /\ RingSpec => []TailFollowsCount
<1> SUFFICES ASSUME CapFitsCount PROVE RingSpec => []TailFollowsCount
  OBVIOUS
<1>1. RingInv => TailFollowsCount
  BY DEF RingInv
<1> QED BY <1>1, RingInvInit, RingInvNext, PTL DEF RingSpec

-----------------------------------------------------------------------------
(***************************************************************************)
(* The refinement.                                                          *)
(***************************************************************************)
\* Any window of the ring is a sequence of reports.
LEMMA WindowType ==
  ASSUME NEW slots \in [Slots -> QueueReports], NEW h \in Slots,
         NEW n \in 0 .. FAILURE_QUEUE_CAP
  PROVE  LET window == [i \in 1 .. n |-> slots[(h + i - 1) % FAILURE_QUEUE_CAP]]
         IN  window \in Seq(QueueReports) /\ Len(window) = n
<1>1. ASSUME NEW i \in 1 .. n PROVE slots[(h + i - 1) % FAILURE_QUEUE_CAP] \in QueueReports
  <2>1. i - 1 \in 0 .. FAILURE_QUEUE_CAP /\ h + (i - 1) = h + i - 1
    BY RingAssumption DEF Slots
  <2>2. (h + (i - 1)) % FAILURE_QUEUE_CAP \in Slots
    BY <2>1, IndexRange
  <2> QED BY <2>1, <2>2
<1> QED BY <1>1

\* The pending reports are a sequence of g_count reports, before and after a step.
LEMMA ContentsType ==
  /\ RingInv => Contents \in Seq(QueueReports) /\ Len(Contents) = g_count
  /\ RingInv' => Contents' \in Seq(QueueReports) /\ Len(Contents') = g_count'
<1>1. ASSUME RingInv PROVE Contents \in Seq(QueueReports) /\ Len(Contents) = g_count
  <2>1. /\ g_count \in 0 .. FAILURE_QUEUE_CAP /\ g_head \in Slots
        /\ g_slots \in [Slots -> QueueReports]
    BY <1>1, RingAssumption DEF RingInv, RingTypeOK, TailFollowsCount
  <2> QED BY <2>1, WindowType DEF Contents
<1>2. ASSUME RingInv' PROVE Contents' \in Seq(QueueReports) /\ Len(Contents') = g_count'
  <2>1. /\ g_count' \in 0 .. FAILURE_QUEUE_CAP /\ g_head' \in Slots
        /\ g_slots' \in [Slots -> QueueReports]
    BY <1>2, RingAssumption DEF RingInv, RingTypeOK, TailFollowsCount
  <2> QED BY <2>1, WindowType DEF Contents
<1> QED BY <1>1, <1>2

\* A put appends to the pending reports and displaces none.
LEMMA PutAppends ==
  ASSUME CapFitsCount, RingInv, NEW r \in QueueReports, failure_queue_put(r)
  PROVE  Contents' = Append(Contents, r)
<1>1. /\ g_count \in 0 .. FAILURE_QUEUE_CAP - 1 /\ g_head \in Slots
      /\ g_tail = (g_head + g_count) % FAILURE_QUEUE_CAP /\ g_tail \in Slots
      /\ g_slots \in [Slots -> QueueReports]
      /\ g_slots' = [g_slots EXCEPT ![g_tail] = r] /\ g_head' = g_head
  BY RingAssumption DEF RingInv, RingTypeOK, TailFollowsCount, failure_queue_put
<1>2. g_count' = g_count + 1
  BY PutEffect
<1>3. /\ Contents \in Seq(QueueReports) /\ Len(Contents) = g_count
      /\ Contents' \in Seq(QueueReports) /\ Len(Contents') = g_count + 1
  BY <1>2, ContentsType, RingInvNext DEF RingNext
<1>4. ASSUME NEW i \in 1 .. g_count + 1 PROVE Contents'[i] = Append(Contents, r)[i]
  <2>0. Contents'[i] = g_slots'[(g_head + i - 1) % FAILURE_QUEUE_CAP]
    BY <1>1, <1>2 DEF Contents
  <2>1. CASE i = g_count + 1
    <3>1. g_head + i - 1 = g_head + g_count
      BY <1>1, <2>1 DEF Slots
    <3> QED BY <1>1, <1>3, <2>0, <2>1, <3>1
  <2>2. CASE i # g_count + 1
    <3>1. /\ i - 1 \in 0 .. FAILURE_QUEUE_CAP - 1 /\ i - 1 \in 0 .. FAILURE_QUEUE_CAP
          /\ i - 1 # g_count /\ i \in 1 .. g_count /\ g_head + i - 1 = g_head + (i - 1)
      BY <1>1, <2>2, RingAssumption DEF Slots
    <3>2. (g_head + (i - 1)) % FAILURE_QUEUE_CAP # g_tail
      BY <1>1, <3>1, IndicesDiffer
    <3>3. (g_head + (i - 1)) % FAILURE_QUEUE_CAP \in Slots
      BY <1>1, <3>1, IndexRange
    <3>4. Contents[i] = g_slots[(g_head + i - 1) % FAILURE_QUEUE_CAP]
      BY <3>1 DEF Contents
    <3>5. Append(Contents, r)[i] = Contents[i]
      BY <1>3, <3>1
    <3> QED BY <1>1, <2>0, <3>1, <3>2, <3>3, <3>4, <3>5
  <2> QED BY <2>1, <2>2
<1>5. Append(Contents, r) \in Seq(QueueReports) /\ Len(Append(Contents, r)) = g_count + 1
  BY <1>3
<1> QED BY <1>3, <1>4, <1>5, SeqEqual

\* A get returns and removes the oldest pending report.
LEMMA GetTakesHead ==
  ASSUME CapFitsCount, RingInv, failure_queue_get
  PROVE  Contents # <<>> /\ out' = Head(Contents) /\ Contents' = Tail(Contents)
<1>1. /\ g_count \in 1 .. FAILURE_QUEUE_CAP /\ g_count' = g_count - 1
      /\ g_head \in Slots /\ g_head' = (g_head + 1) % FAILURE_QUEUE_CAP
      /\ g_slots' = g_slots /\ out' = g_slots[g_head]
  BY GetEffect DEF RingInv, RingTypeOK, failure_queue_get
<1>2. Contents \in Seq(QueueReports) /\ Len(Contents) = g_count
  BY ContentsType
<1>3. Head(Contents) = g_slots[g_head]
  <2>1. (g_head + 1 - 1) % FAILURE_QUEUE_CAP = g_head
    BY <1>1, RingAssumption DEF Slots
  <2>2. Contents[1] = g_slots[g_head]
    BY <1>1, <2>1 DEF Contents
  <2> QED BY <1>1, <1>2, <2>2
<1>4. Contents' \in Seq(QueueReports) /\ Len(Contents') = g_count - 1
  BY <1>1, ContentsType, RingInvNext DEF RingNext
<1>5. Tail(Contents) \in Seq(QueueReports) /\ Len(Tail(Contents)) = g_count - 1
  BY <1>1, <1>2
<1>6. ASSUME NEW i \in 1 .. g_count - 1 PROVE Contents'[i] = Tail(Contents)[i]
  <2>0. i - 1 \in 0 .. FAILURE_QUEUE_CAP - 1
    BY <1>1, RingAssumption
  <2>1. (((g_head + 1) % FAILURE_QUEUE_CAP) + (i - 1)) % FAILURE_QUEUE_CAP
          = (g_head + ((i - 1) + 1)) % FAILURE_QUEUE_CAP
    BY <1>1, <2>0, IndexStep
  <2>2. (g_head' + i - 1) % FAILURE_QUEUE_CAP = (g_head + (i + 1) - 1) % FAILURE_QUEUE_CAP
    <3>1. g_head' \in Int
      BY GetEffect DEF Slots
    <3>2. g_head' + i - 1 = g_head' + (i - 1) /\ g_head + (i + 1) - 1 = g_head + ((i - 1) + 1)
      BY <1>1, <3>1 DEF Slots
    <3> QED BY <1>1, <2>1, <3>2
  <2>3. Tail(Contents)[i] = Contents[i + 1] /\ i + 1 \in 1 .. g_count
    BY <1>1, <1>2
  <2>4. Contents'[i] = g_slots[(g_head' + i - 1) % FAILURE_QUEUE_CAP]
    BY <1>1 DEF Contents
  <2> QED BY <2>2, <2>3, <2>4 DEF Contents
<1> QED BY <1>1, <1>2, <1>3, <1>4, <1>5, <1>6, SeqEqual

\* fdir_failure_queue_put accepts a report only to append it to the pending ones.
THEOREM AcceptedIsPendingSafe == CapFitsCount /\ RingSpec => AcceptedIsPending
<1> SUFFICES ASSUME CapFitsCount PROVE RingSpec => AcceptedIsPending
  OBVIOUS
<1>1. RingInv /\ [RingNext]_ringVars
        => [\A r \in QueueReports :
              failure_queue_put(r) => Contents' = Append(Contents, r)]_ringVars
  BY PutAppends
<1> QED BY <1>1, RingInvInit, RingInvNext, PTL DEF RingSpec, AcceptedIsPending

\* The cleared ring is an empty queue.
LEMMA FifoInit == RingInit => Fifo!QueueInit
<1> SUFFICES ASSUME RingInit PROVE Fifo!QueueInit
  OBVIOUS
<1>1. Contents = <<>>
  BY ContentsType, RingInvInit DEF RingInit
<1> QED BY <1>1 DEF RingInit, Fifo!QueueInit

\* Every operation on the ring is the operation of the same name on the queue.
LEMMA FifoNext ==
  ASSUME CapFitsCount, RingInv, [RingNext]_ringVars
  PROVE  [Fifo!QueueNext]_(Fifo!queueVars)
<1>0. Contents \in Seq(QueueReports) /\ Len(Contents) = g_count
  BY ContentsType
<1>1. CASE UNCHANGED ringVars
  BY <1>1 DEF ringVars, Contents, Fifo!queueVars
<1>2. ASSUME NEW r \in QueueReports, failure_queue_put(r) PROVE Fifo!QueuePut(r)
  BY <1>0, <1>2, PutAppends DEF failure_queue_put, Fifo!QueuePut
<1>3. CASE failure_queue_put_full
  BY <1>0, <1>3 DEF failure_queue_put_full, Fifo!QueueRefuse, Fifo!QueueNext, Contents
<1>4. CASE failure_queue_get
  BY <1>4, GetTakesHead DEF failure_queue_get, Fifo!QueueGet, Fifo!QueueNext
<1>5. CASE failure_queue_init
  <2>1. Contents' = <<>>
    BY <1>5, RingInvNext, ContentsType DEF failure_queue_init, Contents, RingNext
  <2> QED BY <1>5, <2>1 DEF failure_queue_init, Fifo!QueueClear, Fifo!QueueNext
<1> QED BY <1>1, <1>2, <1>3, <1>4, <1>5 DEF RingNext, Fifo!QueueNext

\* The ring buffer implements the abstract queue: reports leave in the order in which
\* they were accepted, each once, and refusal and overflow latch mean a full queue.
THEOREM RingRefinesFifo == CapFitsCount /\ RingSpec => RingImplementsFifo
<1> SUFFICES ASSUME CapFitsCount PROVE RingSpec => Fifo!QueueSpec
  BY DEF RingImplementsFifo
<1> QED BY RingInvInit, RingInvNext, FifoInit, FifoNext, PTL DEF RingSpec, Fifo!QueueSpec
=============================================================================
