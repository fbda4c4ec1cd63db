---------------------------- MODULE FdirQueueProofs ----------------------------
(***************************************************************************)
(* Theorem about the back-pressure of the failure queue: the reports of one *)
(* entity do not pile up.                                                   *)
(***************************************************************************)
EXTENDS FdirRestartProofs

-----------------------------------------------------------------------------
(***************************************************************************)
(* Counting pending reports.                                                *)
(***************************************************************************)
\* An entity has no more reports pending than the queue holds.
LEMMA PendingFinite ==
  ASSUME queue \in Seq(Reports), NEW id
  PROVE  /\ IsFiniteSet(Pending(id)) /\ Pending(id) \subseteq 1 .. Len(queue)
         /\ Cardinality(Pending(id)) \in Nat /\ Cardinality(Pending(id)) <= Len(queue)
<1>1. Pending(id) \in SUBSET (1 .. Len(queue)) /\ Len(queue) \in Nat
  BY DEF Pending
<1>2. IsFiniteSet(1 .. Len(queue)) /\ Cardinality(1 .. Len(queue)) = Len(queue)
  <2>1. 1 \in Int /\ Len(queue) \in Int
    BY <1>1
  <2>2. /\ IsFiniteSet(1 .. Len(queue))
        /\ Cardinality(1 .. Len(queue)) = IF 1 > Len(queue) THEN 0 ELSE Len(queue) - 1 + 1
    BY <2>1, FS_Interval
  <2> QED BY <1>1, <2>2
<1>3. IsFiniteSet(Pending(id)) /\ Cardinality(Pending(id)) <= Len(queue)
  BY <1>1, <1>2, FS_Subset
<1> QED BY <1>1, <1>3, FS_CardinalityType

\* A put adds one to the pending reports of the entity it names.
LEMMA PendingAppended ==
  ASSUME queue \in Seq(Reports), NEW r \in Reports, queue' = Append(queue, r), NEW id
  PROVE  Cardinality(Pending(id)')
           = Cardinality(Pending(id)) + (IF r.entity = id THEN 1 ELSE 0)
<1>1. Len(queue) \in Nat /\ Len(queue) + 1 \notin Pending(id)
  BY DEF Pending
<1>2. DOMAIN queue' = (DOMAIN queue) \cup {Len(queue) + 1} /\ queue'[Len(queue) + 1] = r
  OBVIOUS
<1>3. \A i \in DOMAIN queue : queue'[i] = queue[i]
  OBVIOUS
<1>4. CASE r.entity = id
  <2>1. Pending(id)' = Pending(id) \cup {Len(queue) + 1}
    BY <1>2, <1>3, <1>4 DEF Pending
  <2> QED BY <1>1, <1>4, <2>1, PendingFinite, FS_AddElement
<1>5. CASE r.entity # id
  <2>1. Pending(id)' = Pending(id)
    BY <1>2, <1>3, <1>5 DEF Pending
  <2> QED BY <1>5, <2>1, PendingFinite
<1> QED BY <1>4, <1>5

\* A get takes one from those of the entity whose report was the oldest.
LEMMA PendingRemoved ==
  ASSUME queue \in Seq(Reports), queue # <<>>, queue' = Tail(queue), NEW id
  PROVE  /\ Cardinality(Pending(id)') + (IF Head(queue).entity = id THEN 1 ELSE 0)
              <= Cardinality(Pending(id))
         /\ Cardinality(Pending(id)') \in Nat
<1>0. /\ queue' \in Seq(Reports) /\ Len(queue) \in Nat /\ Len(queue) >= 1
      /\ Len(queue') = Len(queue) - 1 /\ \A i \in 1 .. Len(queue') : queue'[i] = queue[i + 1]
      /\ Head(queue) = queue[1]
  OBVIOUS
<1>1. IsFiniteSet(Pending(id)) /\ Cardinality(Pending(id)) \in Nat
  BY PendingFinite
<1> DEFINE rest == Pending(id) \ {1}
           shift == [i \in Pending(id)' |-> i + 1]
<1>2. ASSUME NEW i \in Pending(id)' PROVE i \in Nat /\ i + 1 \in rest
  BY <1>0 DEF Pending
<1>3. shift \in Injection(Pending(id)', rest)
  BY <1>2 DEF Injection, IsInjective
<1>4. IsFiniteSet(rest) /\ Cardinality(rest) = IF 1 \in Pending(id) THEN Cardinality(Pending(id)) - 1
                                              ELSE Cardinality(Pending(id))
  BY <1>1, FS_RemoveElement
<1>5. IsFiniteSet(Pending(id)') /\ Cardinality(Pending(id)') <= Cardinality(rest)
  BY <1>3, <1>4, FS_Injection
<1>6. Cardinality(Pending(id)') \in Nat
  BY <1>5, FS_CardinalityType
<1>7. Head(queue).entity = id <=> 1 \in Pending(id)
  BY <1>0 DEF Pending
<1> QED BY <1>1, <1>4, <1>5, <1>6, <1>7

\* An empty queue has nothing pending.
LEMMA PendingCleared ==
  ASSUME queue' = <<>>, NEW id PROVE Cardinality(Pending(id)') = 0
<1>1. Pending(id)' = {}
  BY DEF Pending
<1> QED BY <1>1, FS_EmptySet

-----------------------------------------------------------------------------
(***************************************************************************)
(* The invariant.  OneSlotPerEntity is not inductive: the supervisor may    *)
(* restart an entity, which lets it report again, while older reports of it *)
(* are still queued.  What is preserved is a balance: every report that is  *)
(* pending, or that the supervisor took from the queue and has not handled, *)
(* is backed by the FAILED mark it left or by a restart after a watchdog    *)
(* report, which takes that mark away and no report out of the queue.       *)
(***************************************************************************)
\* Reports come from report_fault_impl alone and name registered entities, nobody
\* but the supervisor handles failures, nobody sets health by decree, and the
\* capacity of the queue fits its uint8_t count.
ReportsAreDeduplicated ==
  /\ Calls \cap {"submit_failure", "handle_failure"} = {}
  /\ HealthIsSupervised
  /\ "report_fault" \in Calls => Len(BootEntities) = ENTITY_CAP
  /\ FAILURE_QUEUE_CAP <= U8_MAX

\* The supervisor holds a report that the entity's own code filed.
InHand(id) ==
  pc \in {"handle_check", "handle"} /\ report.entity = id /\ report.reason # REASON_WATCHDOG

Owed(id)   == Cardinality(Pending(id)) + (IF InHand(id) THEN 1 ELSE 0)
Backing(id) == restart_calls[id].watchdog + (IF IsFailed(id) THEN 1 ELSE 0)

\* The balance, as long as the count of watchdog restarts is exact.
Backed(id) == restart_calls[id].watchdog > U8_MAX \/ Owed(id) <= Backing(id)

WorkersRegistered   == \A id \in Ids : worker[id] # "idle" => Registered(id)
ReportersRegistered == "report_fault" \in Calls => g_entity_limit = ENTITY_CAP
QueueBounded        == Len(queue) <= FAILURE_QUEUE_CAP

\* The inductive invariant.
SlotInv ==
  /\ submit = {} /\ QueueBounded /\ WorkersRegistered /\ ReportersRegistered
  /\ \A id \in Ids : Backed(id)

\* Both sides of the balance are numbers.
LEMMA BalanceTypes ==
  ASSUME TypeOK, NEW id \in Ids
  PROVE  /\ restart_calls[id].watchdog \in 0 .. U8_MAX + 1
         /\ Cardinality(Pending(id)) \in Nat /\ U8_MAX \in Nat
<1>1. restart_calls[id] \in [normal : CallCounts, watchdog : CallCounts]
  BY DEF TypeOK, PortType
<1>2. queue \in Seq(Reports)
  BY DEF TypeOK, RecoveryType
<1> QED BY <1>1, <1>2, PendingFinite, CapAssumption DEF CallCounts

\* The balance bounds the pending reports; when the count of restarts saturated, the
\* capacity of the queue does.
LEMMA BackedBounds ==
  ASSUME TypeOK, SlotInv, FAILURE_QUEUE_CAP <= U8_MAX PROVE OneSlotPerEntity
<1> SUFFICES ASSUME NEW id \in Ids
             PROVE  Cardinality(Pending(id)) <= 1 + restart_calls[id].watchdog
  BY DEF OneSlotPerEntity
<1>1. /\ restart_calls[id].watchdog \in 0 .. U8_MAX + 1
      /\ Cardinality(Pending(id)) \in Nat /\ U8_MAX \in Nat
  BY BalanceTypes
<1>2. Cardinality(Pending(id)) <= Len(queue) /\ Len(queue) \in Nat
  BY PendingFinite DEF TypeOK, RecoveryType
<1>3. Len(queue) <= FAILURE_QUEUE_CAP /\ Backed(id)
  BY DEF SlotInv, QueueBounded
<1>4. CASE restart_calls[id].watchdog > U8_MAX
  BY <1>1, <1>2, <1>3, <1>4, CapAssumption
<1>5. CASE Owed(id) <= Backing(id)
  BY <1>1, <1>5 DEF Owed, Backing
<1> QED BY <1>3, <1>4, <1>5 DEF Backed

\* A step that calls no restart(), lifts no FAILED mark and owes no more keeps the
\* balance.
LEMMA BalanceKept ==
  ASSUME TypeOK, NEW id \in Ids, Backed(id), restart_calls' = restart_calls,
         IsFailed(id) => IsFailed(id)', InHand(id)' => InHand(id), queue' = queue
  PROVE  Backed(id)'
<1>1. /\ restart_calls[id].watchdog \in 0 .. U8_MAX + 1
      /\ Cardinality(Pending(id)) \in Nat /\ U8_MAX \in Nat
  BY BalanceTypes
<1>2. Pending(id)' = Pending(id)
  BY DEF Pending
<1>3. Owed(id)' <= Owed(id) /\ Owed(id)' \in Nat /\ Owed(id) \in Nat
  BY <1>1, <1>2 DEF Owed
<1>4. Backing(id) <= Backing(id)' /\ Backing(id)' \in Nat /\ Backing(id) \in Nat
  BY <1>1 DEF Backing
<1> QED BY <1>3, <1>4 DEF Backed

\* fdir_handle_failure keeps the balance: the report in hand is settled, and a restart
\* that lifts the FAILED mark was either asked for by it or counts as one after a
\* watchdog report.
LEMMA HandleBalance ==
  ASSUME TypeOK, NEW r \in Reports, handle_failure(r), report = r, pc = "handle",
         pc' \in {"idle", "drain", "scan"}, queue' = queue, NEW id \in Ids, Backed(id)
  PROVE  Backed(id)'
<1> DEFINE calls == restart_calls[id].watchdog
<1>0. /\ calls \in 0 .. U8_MAX + 1 /\ Cardinality(Pending(id)) \in Nat /\ U8_MAX \in Nat
      /\ Pending(id)' = Pending(id) /\ ~InHand(id)'
  BY BalanceTypes DEF Pending, InHand
<1>1. /\ g_health \in [Ids -> Snapshots] /\ (Registered(r.entity) => r.entity \in Ids)
      /\ REASON_WATCHDOG \in Reasons
  BY RegisteredIsId DEF TypeOK, HealthType, Reports, REASON_WATCHDOG, Reasons
<1>2. g_entity_limit' = g_entity_limit
  BY HandleOutcome
<1>3. ASSUME Counted(r)
      PROVE  restart_calls'[id].watchdog =
               IF id = r.entity /\ r.reason = REASON_WATCHDOG /\ calls < U8_MAX + 1
               THEN calls + 1 ELSE calls
  BY <1>1, <1>3, CountedEffect DEF CallsFor, SameBudget
<1>4. ASSUME IsFailed(id) => IsFailed(id)', Uncounted \/ Counted(r) PROVE Backed(id)'
  <2>1. restart_calls'[id].watchdog \in {calls, calls + 1}
    BY <1>3, <1>4 DEF Uncounted
  <2> QED BY <1>0, <1>4, <2>1 DEF Backed, Owed, Backing
<1>5. CASE (handle_suppressed(r) \/ handle_unknown(r)) /\ Uncounted
  <2>1. UNCHANGED g_health
    BY <1>5 DEF handle_suppressed, handle_unknown, libVars, healthVars
  <2> QED BY <1>2, <1>4, <1>5, <2>1 DEF IsFailed, Registered
<1>6. CASE (\E override : recover_by_restart(r, override)) /\ Counted(r)
  <2>1. r.entity \in Ids /\ g_health' = health_reset_unsafe(r.entity)
    BY <1>1, <1>6 DEF recover_by_restart, Counted
  <2>2. CASE id # r.entity
    BY <1>1, <1>2, <1>4, <1>6, <2>1, <2>2 DEF IsFailed, Registered, health_reset_unsafe
  <2>3. CASE id = r.entity /\ r.reason = REASON_WATCHDOG
    BY <1>0, <1>3, <1>6, <2>3 DEF Backed, Owed, Backing
  <2>4. CASE id = r.entity /\ r.reason # REASON_WATCHDOG
    <3>1. InHand(id) /\ restart_calls'[id].watchdog = calls
      BY <1>3, <1>6, <2>4 DEF InHand
    <3> QED BY <1>0, <3>1 DEF Backed, Owed, Backing
  <2> QED BY <2>2, <2>3, <2>4
<1>7. CASE /\ \E override, action, attempted :
                isolate_and_escalate(r, override, action, attempted)
           /\ Uncounted \/ Counted(r)
  <2>1. g_health' = health_set_unsafe(r.entity, "FAILED")
    BY <1>7 DEF isolate_and_escalate
  <2>2. IsFailed(id) => IsFailed(id)'
    BY <1>1, <1>2, <2>1 DEF health_set_unsafe, IsFailed, Registered, Snapshots
  <2> QED BY <1>4, <1>7, <2>2
<1> QED BY <1>5, <1>6, <1>7, HandleCounts

\* So does a report that report_fault_impl files for a registered entity, or for none:
\* it queues only when the entity is not FAILED, and marks it.
LEMMA ReportBalance ==
  ASSUME TypeOK, NEW e \in AnyId, NEW reason \in FaultReasons, NEW ok,
         report_fault(e, reason, ok), e \in Ids => Registered(e),
         UNCHANGED <<pc, restart_calls>>, QueueBounded
  PROVE  QueueBounded' /\ \A id \in Ids : Backed(id) => Backed(id)'
<1> DEFINE r == [entity |-> e, reason |-> reason]
<1>1. /\ queue \in Seq(Reports) /\ r \in Reports
      /\ g_health \in [Ids -> Snapshots]
  BY ConfigAssumption DEF TypeOK, HealthType, RecoveryType, Reports
<1>2. UNCHANGED <<g_entity_limit, report>> /\ ~IsFailed(e)
  BY DEF report_fault, already_reported, Queue!QueuePut, Queue!QueueRefuse
<1>3. CASE Queue!QueueRefuse /\ UNCHANGED g_health
  <2>1. queue' = queue
    BY <1>3 DEF Queue!QueueRefuse
  <2> QED BY <1>2, <1>3, <2>1, BalanceKept DEF QueueBounded, IsFailed, Registered, InHand
<1>4. CASE Queue!QueuePut(r) /\ g_health' = health_set_unsafe(e, "FAILED")
  <2>1. queue' = Append(queue, r) /\ Len(queue) < FAILURE_QUEUE_CAP
    BY <1>4 DEF Queue!QueuePut
  <2>2. QueueBounded'
    BY <1>1, <2>1, CapAssumption DEF QueueBounded
  <2>3. ASSUME NEW id \in Ids, Backed(id) PROVE Backed(id)'
    <3>0. /\ restart_calls[id].watchdog \in 0 .. U8_MAX + 1
          /\ Cardinality(Pending(id)) \in Nat /\ U8_MAX \in Nat
      BY BalanceTypes
    <3>1. Cardinality(Pending(id)') = Cardinality(Pending(id)) + (IF r.entity = id THEN 1 ELSE 0)
      BY <1>1, <2>1, PendingAppended
    <3>2. InHand(id)' <=> InHand(id)
      BY <1>2 DEF InHand
    <3>3. IF id = e THEN ~IsFailed(id) /\ IsFailed(id)' ELSE IsFailed(id)' <=> IsFailed(id)
      BY <1>1, <1>2, <1>4 DEF IsFailed, Registered, health_set_unsafe
    <3> QED BY <2>3, <3>0, <3>1, <3>2, <3>3 DEF Backed, Owed, Backing
  <2> QED BY <2>2, <2>3
<1> QED BY <1>3, <1>4 DEF report_fault

\* The supervisor's other steps: taking a report out of the queue moves it from the
\* pending ones to the one in hand, a watchdog report was never pending.
LEMMA SupervisorBalance ==
  ASSUME TypeOK, SlotInv, ReportsAreDeduplicated, Supervisor, ~Handle
  PROVE  QueueBounded' /\ \A id \in Ids : Backed(id)'
<1> USE DEF libVars, healthVars, portVars
<1>1. UNCHANGED <<g_health, g_entity_limit, restart_calls>>
  BY DEF Supervisor, SupervisorLoop, TickBegin, DrainGet, DrainEmpty, WatchdogBegin,
     WatchdogReadClock, WatchdogCheck, WatchdogRaise, WatchdogEnd, HandleBegin, HandleCheck,
     OnlySupervisor
<1>2. queue \in Seq(Reports) /\ QueueBounded /\ \A id \in Ids : Backed(id)
  BY DEF SlotInv, TypeOK, RecoveryType
<1>3. CASE DrainGet
  <2>1. /\ queue # <<>> /\ report' = Head(queue) /\ queue' = Tail(queue)
        /\ pc = "drain" /\ pc' = "handle_check"
    BY <1>3 DEF DrainGet, Queue!QueueGet
  <2>2. QueueBounded'
    BY <1>2, <2>1, CapAssumption DEF QueueBounded
  <2>3. ASSUME NEW id \in Ids PROVE Backed(id)'
    <3>0. /\ restart_calls[id].watchdog \in 0 .. U8_MAX + 1
          /\ Cardinality(Pending(id)) \in Nat /\ U8_MAX \in Nat
      BY BalanceTypes
    <3>1. /\ Cardinality(Pending(id)') + (IF Head(queue).entity = id THEN 1 ELSE 0)
               <= Cardinality(Pending(id))
          /\ Cardinality(Pending(id)') \in Nat
      BY <1>2, <2>1, PendingRemoved
    <3>2. ~InHand(id) /\ (InHand(id)' => Head(queue).entity = id)
      BY <2>1 DEF InHand
    <3>3. IsFailed(id)' <=> IsFailed(id)
      BY <1>1 DEF IsFailed, Registered
    <3> QED BY <1>1, <1>2, <3>0, <3>1, <3>2, <3>3 DEF Backed, Owed, Backing
  <2> QED BY <2>2, <2>3
<1>4. CASE ~DrainGet
  <2>1. queue' = queue
    BY <1>4 DEF Supervisor, SupervisorLoop, TickBegin, DrainEmpty, WatchdogBegin,
       WatchdogReadClock, WatchdogCheck, WatchdogRaise, WatchdogEnd, HandleBegin, HandleCheck,
       OnlySupervisor
  <2>2. ret \in {"idle", "drain", "scan"}
    BY DEF TypeOK
  <2>3. ASSUME NEW id \in Ids PROVE InHand(id)' => InHand(id)
    <3>1. CASE WatchdogRaise
      BY <3>1 DEF WatchdogRaise, InHand
    <3>2. CASE HandleBegin
      BY <3>2 DEF HandleBegin, ReportsAreDeduplicated
    <3>3. CASE ~WatchdogRaise /\ ~HandleBegin
      BY <1>4, <2>2, <3>3 DEF Supervisor, SupervisorLoop, TickBegin, DrainEmpty, WatchdogBegin,
         WatchdogReadClock, WatchdogCheck, WatchdogEnd, HandleCheck, ReturnTo, InHand
    <3> QED BY <3>1, <3>2, <3>3
  <2> QED BY <1>1, <1>2, <2>1, <2>3, BalanceKept DEF QueueBounded, IsFailed, Registered
<1> QED BY <1>3, <1>4

\* The workers: only a registered one comes as far as reporting a fault.
LEMMA WorkerBalance ==
  ASSUME TypeOK, SlotInv, ReportsAreDeduplicated, [Next]_vars, ~Handle, ~PlatformReset,
         NEW w \in Ids, Worker(w)
  PROVE  QueueBounded' /\ \A id \in Ids : Backed(id)'
<1> USE DEF libVars, healthVars, portVars, queueVars, supVars
<1>1. QueueBounded /\ WorkersRegistered /\ \A id \in Ids : Backed(id)
  BY DEF SlotInv
<1>2. UNCHANGED <<pc, restart_calls>>
  BY DEF Worker, WorkerReadMode, WorkerSafeHeartbeat, WorkerGate, WorkerDone, WorkerFault, Goto
<1>3. ASSUME UNCHANGED <<queue, report>> PROVE QueueBounded' /\ \A id \in Ids : Backed(id)'
  <2>1. ASSUME NEW id \in Ids PROVE IsFailed(id) => IsFailed(id)'
    BY OthersKeepFailed DEF ReportsAreDeduplicated
  <2>2. ASSUME NEW id \in Ids PROVE InHand(id)' => InHand(id)
    BY <1>2, <1>3 DEF InHand
  <2> QED BY <1>1, <1>2, <1>3, <2>1, <2>2, BalanceKept DEF QueueBounded
<1>4. CASE WorkerFault(w)
  <2>1. Registered(w) /\ w \in AnyId
    BY <1>1, <1>4 DEF WorkerFault, Goto, WorkersRegistered, AnyId
  <2>2. PICK reason \in FaultReasons : \/ \E ok \in BOOLEAN : report_fault(w, reason, ok)
                                       \/ report_fault_ignored(w, reason)
    BY <1>4 DEF WorkerFault
  <2>3. CASE report_fault_ignored(w, reason)
    BY <1>3, <2>3 DEF report_fault_ignored
  <2>4. ASSUME NEW ok \in BOOLEAN, report_fault(w, reason, ok)
        PROVE  QueueBounded' /\ \A id \in Ids : Backed(id)'
    BY <1>1, <1>2, <2>1, <2>4, ReportBalance
  <2> QED BY <2>2, <2>3, <2>4
<1>5. CASE ~WorkerFault(w)
  <2>1. UNCHANGED <<queue, report>>
    BY <1>5 DEF Worker, WorkerReadMode, WorkerSafeHeartbeat, WorkerGate, WorkerDone
  <2> QED BY <1>3, <2>1
<1> QED BY <1>4, <1>5

\* Application and ground: disabling supervision empties the queue.
LEMMA EnvironmentBalance ==
  ASSUME TypeOK, SlotInv, ReportsAreDeduplicated, [Next]_vars, ~Handle, ~PlatformReset,
         Environment
  PROVE  QueueBounded' /\ \A id \in Ids : Backed(id)'
<1> USE DEF libVars, healthVars, portVars, queueVars, supVars
<1>1. QueueBounded /\ ReportersRegistered /\ \A id \in Ids : Backed(id)
  BY DEF SlotInv
<1>2. UNCHANGED <<pc, restart_calls>>
  BY OthersKeepEntities DEF Environment
<1>3. ASSUME NEW id \in Ids PROVE IsFailed(id) => IsFailed(id)'
  BY OthersKeepFailed DEF ReportsAreDeduplicated
<1>4. ASSUME UNCHANGED <<queue, report>> PROVE QueueBounded' /\ \A id \in Ids : Backed(id)'
  <2>1. ASSUME NEW id \in Ids PROVE InHand(id)' => InHand(id)
    BY <1>2, <1>4 DEF InHand
  <2> QED BY <1>1, <1>2, <1>3, <1>4, <2>1, BalanceKept DEF QueueBounded
<1>5. CASE AppReport
  <2>1. PICK e \in AnyId, reason \in FaultReasons, ok \in BOOLEAN :
          /\ (IF e \in Ids THEN "report_fault" ELSE "report_unknown") \in Calls
          /\ report_fault(e, reason, ok)
    BY <1>5 DEF AppReport
  <2>2. e \in Ids => Registered(e)
    BY <1>1, <2>1, CapAssumption DEF ReportersRegistered, Registered, Ids
  <2> QED BY <1>1, <1>2, <2>1, <2>2, ReportBalance
<1>6. CASE GroundSupervision
  <2>1. UNCHANGED <<queue, report>> \/ (queue' = <<>> /\ UNCHANGED report)
    BY <1>6 DEF GroundSupervision, set_supervision_enabled, Queue!QueueClear
  <2>2. CASE queue' = <<>> /\ UNCHANGED report
    <3>1. QueueBounded'
      BY <2>2, CapAssumption DEF QueueBounded
    <3>2. ASSUME NEW id \in Ids PROVE Backed(id)'
      <4>1. /\ restart_calls[id].watchdog \in 0 .. U8_MAX + 1
            /\ Cardinality(Pending(id)) \in Nat /\ U8_MAX \in Nat
        BY BalanceTypes
      <4>2. Cardinality(Pending(id)') = 0
        BY <2>2, PendingCleared
      <4>3. InHand(id)' <=> InHand(id)
        BY <1>2, <2>2 DEF InHand
      <4> QED BY <1>1, <1>2, <1>3, <4>1, <4>2, <4>3 DEF Backed, Owed, Backing
    <3> QED BY <3>1, <3>2
  <2> QED BY <1>4, <2>1, <2>2
<1>7. CASE ~AppReport /\ ~GroundSupervision
  <2>1. UNCHANGED <<queue, report>>
    BY <1>7 DEF Environment, AppHealth, AppRegister, GroundLowerMode, GroundRaiseMode,
       GroundReboot, GroundMark
  <2> QED BY <1>4, <2>1
<1> QED BY <1>5, <1>6, <1>7

\* The parts of the invariant that are not about the queue.
LEMMA ReportersStay ==
  ASSUME TypeOK, SlotInv, ReportsAreDeduplicated, [Next]_vars
  PROVE  submit' = {} /\ WorkersRegistered' /\ ReportersRegistered'
<1>0. /\ submit = {} /\ WorkersRegistered /\ ReportersRegistered
      /\ worker \in [Ids -> WorkerPcs] /\ ENTITY_CAP \in 1 .. 128
      /\ g_entity_limit \in 0 .. ENTITY_CAP
  BY CapAssumption DEF SlotInv, TypeOK, HealthType
<1>1. CASE PlatformReset
  BY <1>1 DEF PlatformReset, WorkersRegistered, ReportersRegistered, ReportsAreDeduplicated
<1>2. CASE ~PlatformReset
  <2>1. submit' = {}
    BY <1>0, <1>2 DEF Next, vars, Supervisor, SupervisorLoop, TickBegin, DrainGet, DrainEmpty,
       WatchdogBegin, WatchdogReadClock, WatchdogCheck, WatchdogRaise, WatchdogEnd, HandleBegin,
       HandleCheck, Handle, OnlySupervisor, Worker, WorkerReadMode, WorkerSafeHeartbeat,
       WorkerGate, WorkerDone, WorkerFault, Goto, SubmitCheck, SubmitPut, Environment,
       ReportsAreDeduplicated
  <2>2. ASSUME NEW id \in Ids, Registered(id) PROVE Registered(id)'
    BY <1>2, <2>2, PolicyKept
  <2>3. ASSUME NEW id \in Ids, worker'[id] # "idle" PROVE Registered(id)
    <3>1. \/ worker' = worker
          \/ \E w \in Ids : Worker(w)
      BY <1>2 DEF Next, vars, Supervisor, SupervisorLoop, TickBegin, DrainGet, DrainEmpty,
         WatchdogBegin, WatchdogReadClock, WatchdogCheck, WatchdogRaise, WatchdogEnd, HandleBegin,
         HandleCheck, Handle, OnlySupervisor, SubmitCheck, SubmitPut, Environment
    <3>2. ASSUME NEW w \in Ids, Worker(w), id = w PROVE Registered(id)
      BY <1>0, <3>2 DEF WorkersRegistered, Worker, WorkerReadMode, WorkerSafeHeartbeat,
         WorkerGate, WorkerDone, WorkerFault, Goto
    <3>3. ASSUME NEW w \in Ids, Worker(w), id # w PROVE worker'[id] = worker[id]
      BY <1>0, <3>3 DEF Worker, WorkerReadMode, WorkerSafeHeartbeat, WorkerGate, WorkerDone,
         WorkerFault, Goto
    <3> QED BY <1>0, <2>3, <3>1, <3>2, <3>3 DEF WorkersRegistered
  <2>4. ReportersRegistered'
    <3> SUFFICES ASSUME "report_fault" \in Calls PROVE g_entity_limit' = ENTITY_CAP
      BY DEF ReportersRegistered
    <3>1. g_entity_limit = ENTITY_CAP
      BY <1>0 DEF ReportersRegistered
    <3>2. CASE Handle
      <4>1. report \in Reports /\ handle_failure(report)
        BY <3>2 DEF Handle, TypeOK, RecoveryType
      <4> QED BY <3>1, <4>1, HandleOutcome
    <3>3. CASE ~Handle
      BY <1>0, <1>2, <3>1, <3>3, OthersKeepEntities DEF entity_register
    <3> QED BY <3>2, <3>3
  <2> QED BY <2>1, <2>2, <2>3, <2>4 DEF WorkersRegistered
<1> QED BY <1>1, <1>2

\* A state with an empty queue, an idle supervisor and no restart yet is balanced.
LEMMA FreshIsBalanced ==
  /\ Init => QueueBounded /\ \A id \in Ids : Backed(id)
  /\ PlatformReset => (QueueBounded /\ \A id \in Ids : Backed(id))'
<1>1. ASSUME NEW id, queue = <<>> PROVE Cardinality(Pending(id)) = 0
  <2>1. Pending(id) = {}
    BY <1>1 DEF Pending
  <2> QED BY <2>1, FS_EmptySet
<1>2. ASSUME Init PROVE QueueBounded /\ \A id \in Ids : Backed(id)
  <2>1. queue = <<>> /\ pc = "idle"
    BY <1>2 DEF Init, Queue!QueueInit
  <2>2. \A id \in Ids : restart_calls[id].watchdog = 0
    BY <1>2 DEF Init, PortInit
  <2>3. ASSUME NEW id \in Ids PROVE Backed(id)
    <3>1. Cardinality(Pending(id)) = 0 /\ ~InHand(id)
      BY <1>1, <2>1 DEF InHand
    <3> QED BY <2>2, <3>1 DEF Backed, Owed, Backing
  <2> QED BY <2>1, <2>3, CapAssumption DEF QueueBounded
<1>3. ASSUME PlatformReset PROVE (QueueBounded /\ \A id \in Ids : Backed(id))'
  <2>1. queue' = <<>> /\ pc' = "idle"
    BY <1>3 DEF PlatformReset
  <2>2. \A id \in Ids : restart_calls'[id].watchdog = 0
    BY <1>3 DEF PlatformReset
  <2>3. ASSUME NEW id \in Ids PROVE Backed(id)'
    <3>1. Cardinality(Pending(id)') = 0 /\ ~InHand(id)'
      BY <2>1, PendingCleared DEF InHand
    <3> QED BY <2>2, <3>1 DEF Backed, Owed, Backing
  <2> QED BY <2>1, <2>3, CapAssumption DEF QueueBounded
<1> QED BY <1>2, <1>3

\* Every step preserves the invariant.
LEMMA SlotNext ==
  ASSUME TypeOK, SlotInv, ReportsAreDeduplicated, [Next]_vars PROVE SlotInv'
<1>0. QueueBounded /\ \A id \in Ids : Backed(id)
  BY DEF SlotInv
<1>1. QueueBounded' /\ \A id \in Ids : Backed(id)'
  <2>1. CASE UNCHANGED vars
    <3>1. UNCHANGED <<queue, report, pc, restart_calls, g_health, g_entity_limit>>
      BY <2>1 DEF vars, portVars, libVars, healthVars, supVars
    <3> QED BY <1>0, <3>1, BalanceKept DEF QueueBounded, InHand, IsFailed, Registered
  <2>2. CASE PlatformReset
    BY <2>2, FreshIsBalanced
  <2>3. CASE Handle
    <3>1. /\ report \in Reports /\ handle_failure(report) /\ pc = "handle" /\ queue' = queue
          /\ pc' \in {"idle", "drain", "scan"}
      BY <2>3 DEF Handle, ReturnTo, TypeOK, RecoveryType
    <3> QED BY <1>0, <3>1, HandleBalance DEF QueueBounded
  <2>4. CASE Supervisor /\ ~Handle
    BY <2>4, SupervisorBalance
  <2>5. CASE (\E w \in Ids : Worker(w)) /\ ~Handle /\ ~PlatformReset
    BY <2>5, WorkerBalance
  <2>6. CASE SubmitCheck \/ SubmitPut
    BY <2>6 DEF SubmitCheck, SubmitPut, SlotInv, ReportsAreDeduplicated
  <2>7. CASE Environment /\ ~Handle /\ ~PlatformReset
    BY <2>7, EnvironmentBalance
  <2> QED BY <2>1, <2>2, <2>3, <2>4, <2>5, <2>6, <2>7 DEF Next
<1> QED BY <1>1, ReportersStay DEF SlotInv

\* The reports of one entity take one slot of the failure queue, plus one for every
\* restart after a watchdog report that overtook the entity's own, whatever the
\* interleaving of workers, application, ground and supervisor.
THEOREM OneSlotSafe == ReportsAreDeduplicated /\ Spec => []OneSlotPerEntity
<1> SUFFICES ASSUME ReportsAreDeduplicated PROVE Spec => []OneSlotPerEntity
  OBVIOUS
<1>1. Init => SlotInv
  BY FreshIsBalanced DEF Init, SlotInv, WorkersRegistered, ReportersRegistered,
     ReportsAreDeduplicated
<1>2. TypeOK /\ SlotInv /\ [Next]_vars => SlotInv'
  BY SlotNext
<1>3. TypeOK /\ SlotInv => OneSlotPerEntity
  BY BackedBounds DEF ReportsAreDeduplicated
<1> QED BY <1>1, <1>2, <1>3, TypeCorrect, PTL DEF Spec
=============================================================================
