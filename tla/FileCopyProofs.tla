---------------------------- MODULE FileCopyProofs ----------------------------
(***************************************************************************)
(* Theorems about examples/filecopy: its type invariant, where every file   *)
(* of the walk is (EachFileOnceSafe), the join under the port lock          *)
(* (JoinNeedsNoLockSafe), and what a run without failed copies has copied,  *)
(* before a watchdog can fire (CleanRunSafe) and at any time (CalmRunSafe). *)
(***************************************************************************)
EXTENDS FileCopy, SequenceTheorems, TLAPS

\* A thread, which holds a job when it copies, and the table of the workers' threads.
Thread == {t \in [pc : ThreadPcs, job : 0 .. JOBS] : t.pc = "copy" => t.job # NO_JOB}
ThreadTable == [Workers -> Seq(Thread) \ {<<>>}]

\* The library's part: what the supervisor handles names a known entity.
LibraryFacts ==
  /\ queue \in Seq(Reports) /\ report \in Reports /\ scan \in 0 .. ENTITY_CAP
  /\ g_entity_limit = Len(BootEntities)

\* main waits for a thread that exists.
MainFacts ==
  /\ main \in [pc : MainPcs, walked : 0 .. JOBS, i : 0 .. Len(BootEntities), gen : Nat]
  /\ main.pc = "join" => main.i \in Workers /\ main.gen \in DOMAIN threads[main.i]

-----------------------------------------------------------------------------
(***************************************************************************)
(* What the operations on the thread table return.                          *)
(***************************************************************************)
\* Same threads, in other places.
SameThreads(tt, new) == \A id \in Workers : DOMAIN new[id] = DOMAIN tt[id]

\* The table in which thread g of worker id is x, or has moved on.
Put(tt, id, g, x)   == [tt EXCEPT ![id][g] = x]
Move(tt, id, g, to) == [tt EXCEPT ![id][g].pc = to]

\* new is tt but for thread g of worker id, which is x.
DiffersAt(tt, new, id, g, x) ==
  /\ new \in ThreadTable /\ SameThreads(tt, new)
  /\ \A other \in Workers : \A k \in DOMAIN tt[other] :
       new[other][k] = IF other = id /\ k = g THEN x ELSE tt[other][k]

\* Replacing one thread of the table.
LEMMA Replaced ==
  ASSUME NEW tt \in ThreadTable, NEW id \in Workers, NEW g \in DOMAIN tt[id], NEW x \in Thread
  PROVE  DiffersAt(tt, Put(tt, id, g, x), id, g, x)
<1> DEFINE s == [tt[id] EXCEPT ![g] = x]
           new == Put(tt, id, g, x)
<1>0. tt[id] \in Seq(Thread) /\ g \in 1 .. Len(tt[id]) /\ tt[id] # <<>>
  BY DEF ThreadTable
<1>1. s \in Seq(Thread) /\ Len(s) = Len(tt[id])
  BY <1>0, ExceptSeq
<1>2. s # <<>> /\ DOMAIN s = DOMAIN tt[id]
  BY <1>0, <1>1
<1>3. new = [tt EXCEPT ![id] = s]
  BY DEF ThreadTable, Put
<1>4. new \in ThreadTable /\ SameThreads(tt, new)
  BY <1>1, <1>2, <1>3 DEF ThreadTable, SameThreads
<1>5. ASSUME NEW other \in Workers, NEW k \in DOMAIN tt[other]
      PROVE  new[other][k] = IF other = id /\ k = g THEN x ELSE tt[other][k]
  <2>1. CASE other # id
    BY <1>3, <2>1 DEF ThreadTable
  <2>2. CASE other = id
    <3>1. new[other] = s
      BY <1>3, <2>2 DEF ThreadTable
    <3>2. s[k] = IF k = g THEN x ELSE tt[id][k]
      BY <1>0, <2>2, ExceptSeq
    <3> QED BY <2>2, <3>1, <3>2
  <2> QED BY <2>1, <2>2
<1> QED BY <1>4, <1>5 DEF DiffersAt

\* A thread of the table.
LEMMA ThreadOf ==
  ASSUME NEW tt \in ThreadTable, NEW id \in Workers, NEW g \in DOMAIN tt[id]
  PROVE  tt[id][g] \in Thread
<1>1. tt[id] \in Seq(Thread)
  BY DEF ThreadTable
<1> QED BY <1>1

\* A thread that moves on to a place where it needs no job.
LEMMA Placed ==
  ASSUME NEW tt \in ThreadTable, NEW id \in Workers, NEW g \in DOMAIN tt[id],
         NEW to \in ThreadPcs \ {"copy"}
  PROVE  DiffersAt(tt, Move(tt, id, g, to), id, g, [tt[id][g] EXCEPT !.pc = to])
<1> DEFINE x == [tt[id][g] EXCEPT !.pc = to]
<1>1. tt[id][g] \in Thread
  BY ThreadOf
<1>2. x \in Thread
  BY <1>1 DEF Thread
<1>3. Move(tt, id, g, to) = Put(tt, id, g, x)
  BY DEF Move, Put
<1> QED BY <1>2, <1>3, Replaced

\* Some threads that slept on not_empty test the loop condition again.
Woken(tt, new) ==
  /\ new \in ThreadTable /\ SameThreads(tt, new)
  /\ \A id \in Workers : \A k \in DOMAIN tt[id] :
       \/ new[id][k] = tt[id][k]
       \/ tt[id][k].pc = "wait" /\ new[id][k] = [tt[id][k] EXCEPT !.pc = "pop"]

\* pthread_cond_signal does no more than that.
LEMMA WakeOneWakes ==
  ASSUME NEW tt \in ThreadTable, NEW new \in WakeOne(tt) PROVE Woken(tt, new)
<1> DEFINE asleep(id) == {<<id, g>> : g \in {k \in DOMAIN tt[id] : tt[id][k].pc = "wait"}}
<1>1. CASE new = tt
  BY <1>1 DEF Woken, SameThreads
<1>2. ASSUME NEW t \in UNION {asleep(id) : id \in Workers},
             new = [tt EXCEPT ![t[1]][t[2]].pc = "pop"]
      PROVE  Woken(tt, new)
  <2>1. PICK id \in Workers : t \in asleep(id)
    BY <1>2
  <2>2. PICK g \in DOMAIN tt[id] : t = <<id, g>> /\ tt[id][g].pc = "wait"
    BY <2>1
  <2>3. new = Move(tt, id, g, "pop") /\ "pop" \in ThreadPcs \ {"copy"}
    BY <1>2, <2>2 DEF ThreadPcs, Move
  <2>4. DiffersAt(tt, new, id, g, [tt[id][g] EXCEPT !.pc = "pop"])
    BY <2>3, Placed
  <2> QED BY <2>2, <2>4 DEF Woken, DiffersAt
<1>3. \/ new = tt
      \/ \E t \in UNION {asleep(id) : id \in Workers} : new = [tt EXCEPT ![t[1]][t[2]].pc = "pop"]
  BY DEF WakeOne
<1> QED BY <1>1, <1>2, <1>3

\* Neither does pthread_cond_broadcast.
LEMMA WakeAllWakes ==
  ASSUME NEW tt \in ThreadTable PROVE Woken(tt, WakeAll(tt))
<1> DEFINE new == WakeAll(tt)
<1>1. ASSUME NEW id \in Workers
      PROVE  /\ new[id] \in Seq(Thread) /\ new[id] # <<>> /\ DOMAIN new[id] = DOMAIN tt[id]
             /\ \A k \in DOMAIN tt[id] :
                  \/ new[id][k] = tt[id][k]
                  \/ tt[id][k].pc = "wait" /\ new[id][k] = [tt[id][k] EXCEPT !.pc = "pop"]
  <2> DEFINE woken(g) == IF tt[id][g].pc = "wait" THEN [tt[id][g] EXCEPT !.pc = "pop"]
                                                  ELSE tt[id][g]
             n == Len(tt[id])
  <2>1. tt[id] \in Seq(Thread) /\ n \in Nat /\ tt[id] # <<>> /\ DOMAIN tt[id] = 1 .. n
    BY DEF ThreadTable
  <2>2. ASSUME NEW g \in 1 .. n PROVE woken(g) \in Thread
    <3>1. tt[id][g] \in Thread
      BY <2>1
    <3> QED BY <3>1 DEF Thread, ThreadPcs
  <2>3. new[id] = [g \in 1 .. n |-> woken(g)]
    BY DEF WakeAll
  <2>4. n # 0
    BY <2>1
  <2> HIDE DEF woken, n, new
  <2>5. new[id] \in Seq(Thread) /\ new[id] # <<>>
    BY <2>1, <2>2, <2>3, <2>4
  <2> QED BY <2>1, <2>3, <2>5 DEF woken
<1>2. new \in ThreadTable
  BY <1>1 DEF ThreadTable, WakeAll
<1> QED BY <1>1, <1>2 DEF Woken, SameThreads

-----------------------------------------------------------------------------
(***************************************************************************)
(* The type invariant.                                                      *)
(***************************************************************************)
\* The part of the type invariant that is not about threads and main.
ProgramType ==
  /\ g_fdir_mutex \in {"free", "restart"}
  /\ active \in [Workers -> BOOLEAN]
  /\ jobs \in Seq(1 .. JOBS) /\ Len(jobs) <= JOB_QUEUE_CAP
  /\ producer_done \in BOOLEAN
  /\ copied \in SUBSET (1 .. JOBS) /\ failed \in SUBSET (1 .. JOBS)
  /\ g_running \in BOOLEAN
  /\ sup \in {"top", "tick", "ended"}

\* The inductive invariant.  The supervisor keeps its reason to restart for as long as
\* it keeps the port lock in the restart callback.
FileCopyInv ==
  /\ ProgramType /\ LibraryFacts /\ MainFacts
  /\ threads \in ThreadTable
  /\ ~MutexFree => RestartDue

\* The workers are entities, the ones that are registered.
LEMMA WorkersAreIds ==
  /\ Len(BootEntities) \in 0 .. ENTITY_CAP /\ ENTITY_CAP \in 1 .. 128
  /\ Workers \subseteq Ids /\ Workers \subseteq AnyId
  /\ JOBS \in Nat /\ JOB_QUEUE_CAP \in Nat \ {0}
<1>1. Len(BootEntities) \in 0 .. ENTITY_CAP /\ ENTITY_CAP \in 1 .. 128
  BY BootAssumption, CapAssumption
<1> QED BY <1>1, FileCopyAssumption DEF Workers, Ids, AnyId

\* The invariant is stronger than the type invariant.
LEMMA InvIsTyped == FileCopyInv => FileCopyType
<1> SUFFICES ASSUME FileCopyInv PROVE FileCopyType
  OBVIOUS
<1>1. threads \in [Workers -> Seq([pc : ThreadPcs, job : 0 .. JOBS])]
  <2>1. Thread \subseteq [pc : ThreadPcs, job : 0 .. JOBS]
    BY DEF Thread
  <2> DEFINE S == [pc : ThreadPcs, job : 0 .. JOBS]
  <2> HIDE DEF S
  <2>2. ASSUME NEW s \in Seq(Thread) PROVE s \in Seq(S)
    <3>1. Len(s) \in Nat /\ s \in [1 .. Len(s) -> Thread]
      OBVIOUS
    <3>2. s \in [1 .. Len(s) -> S]
      BY <2>1, <3>1 DEF S
    <3> QED BY <3>1, <3>2, SeqDef
  <2> QED BY <2>2 DEF FileCopyInv, ThreadTable, S
<1>2. main \in [pc : MainPcs, walked : 0 .. JOBS, i : 0 .. Len(BootEntities), gen : Nat]
  BY DEF FileCopyInv, MainFacts
<1> QED BY <1>1, <1>2 DEF FileCopyInv, ProgramType, FileCopyType

\* main keeps waiting for the same thread.
LEMMA MainKept ==
  ASSUME MainFacts, main' = main, SameThreads(threads, threads') PROVE MainFacts'
BY DEF MainFacts, SameThreads

\* The program starts well formed.
LEMMA FileCopyStarts == FileCopyInit => FileCopyInv
<1> SUFFICES ASSUME FileCopyInit PROVE FileCopyInv
  OBVIOUS
<1>1. NewThread \in Thread
  BY WorkersAreIds DEF NewThread, Thread, ThreadPcs, NO_JOB
<1>2. threads \in ThreadTable
  <2>1. <<NewThread>> \in Seq(Thread) \ {<<>>}
    BY <1>1
  <2> QED BY <2>1 DEF FileCopyInit, ThreadTable
<1>3. LibraryFacts
  <2>1. ZERO_REPORT \in Reports
    BY WorkersAreIds DEF ZERO_REPORT, Reports, AnyId, Ids, Reasons, REASON_INIT_FAILED
  <2> QED BY <2>1, WorkersAreIds DEF FileCopyInit, Init, Queue!QueueInit, LibraryFacts
<1>4. MainFacts
  BY WorkersAreIds DEF FileCopyInit, MainFacts, MainPcs
<1>5. ProgramType
  <2>1. jobs \in Seq(1 .. JOBS) /\ Len(jobs) <= JOB_QUEUE_CAP
    BY WorkersAreIds DEF FileCopyInit
  <2> QED BY <2>1 DEF FileCopyInit, ProgramType
<1> QED BY <1>2, <1>3, <1>4, <1>5 DEF FileCopyInit, FileCopyInv, MutexFree

\* The critical sections of the library that a worker thread runs through.
LEMMA LibraryCallTyped ==
  ASSUME FileCopyInv, NEW id \in Workers, NEW g \in DOMAIN threads[id],
         \/ ThreadReadMode(id, g) \/ ThreadMayRun(id, g)
         \/ ThreadHeartbeat(id, g) \/ ThreadReport(id, g)
  PROVE  FileCopyInv'
<1>0. /\ ProgramType /\ LibraryFacts /\ MainFacts /\ threads \in ThreadTable
      /\ LibraryCall /\ MutexFree
  BY DEF FileCopyInv, ThreadReadMode, ThreadMayRun, ThreadHeartbeat, ThreadReport, LibraryCall
<1>1. \E to \in ThreadPcs \ {"copy"} : threads' = Move(threads, id, g, to)
  <2>1. {"mode", "gate", "safe", "pop", "exit"} \subseteq ThreadPcs \ {"copy"}
    BY DEF ThreadPcs
  <2>2. \E to \in {"mode", "gate", "safe", "pop", "exit"} : threads' = Move(threads, id, g, to)
    <3>1. CASE ThreadReadMode(id, g)
      BY <3>1 DEF ThreadReadMode, Step, Move
    <3>2. CASE ThreadMayRun(id, g)
      BY <3>2 DEF ThreadMayRun, Step, Move
    <3>3. CASE ThreadHeartbeat(id, g) \/ ThreadReport(id, g)
      BY <3>3 DEF ThreadHeartbeat, ThreadReport, Step, Move
    <3> QED BY <3>1, <3>2, <3>3
  <2> QED BY <2>1, <2>2
<1>2. threads' \in ThreadTable /\ SameThreads(threads, threads')
  <2>1. PICK to \in ThreadPcs \ {"copy"} : threads' = Move(threads, id, g, to)
    BY <1>1
  <2>2. DiffersAt(threads, threads', id, g, [threads[id][g] EXCEPT !.pc = to])
    BY <1>0, <2>1, Placed
  <2> QED BY <2>2 DEF DiffersAt
<1>3. LibraryFacts'
  <2>1. CASE ThreadReport(id, g)
    <3>0. [entity |-> id, reason |-> REASON_IO_ERROR] \in Reports
      BY WorkersAreIds DEF Reports, REASON_IO_ERROR, Reasons
    <3>1. UNCHANGED <<scan, report, g_entity_limit>>
      BY <2>1 DEF ThreadReport, supVars, report_fault, report_fault_ignored, libVars,
         healthVars, queueVars, Queue!QueuePut, Queue!QueueRefuse
    <3>2. queue' \in {queue, Append(queue, [entity |-> id, reason |-> REASON_IO_ERROR])}
      BY <2>1 DEF ThreadReport, report_fault, report_fault_ignored, queueVars,
         Queue!QueuePut, Queue!QueueRefuse
    <3> QED BY <1>0, <3>0, <3>1, <3>2 DEF LibraryFacts
  <2>2. CASE ~ThreadReport(id, g)
    <3>1. UNCHANGED <<scan, report, queue, g_entity_limit>>
      BY <2>2 DEF ThreadReadMode, ThreadMayRun, ThreadHeartbeat, Heartbeat, heartbeat_notify,
         vars, supVars, libVars, healthVars, queueVars
    <3> QED BY <1>0, <3>1 DEF LibraryFacts
  <2> QED BY <2>1, <2>2
<1>4. ProgramType' /\ MainFacts' /\ MutexFree'
  BY <1>0, <1>2, MainKept DEF LibraryCall, ProgramType, MutexFree
<1> QED BY <1>2, <1>3, <1>4 DEF FileCopyInv

\* A step outside the library leaves the supervisor's reason to restart alone.
LEMMA LibraryKept ==
  ASSUME FileCopyInv, UNCHANGED <<vars, g_fdir_mutex>>
  PROVE  LibraryFacts' /\ (~MutexFree => RestartDue)'
<1>1. UNCHANGED <<queue, report, scan, pc, g_entity_limit, g_latched_reason, g_entities>>
  BY DEF vars, libVars, healthVars, supVars
<1> QED BY <1>1 DEF FileCopyInv, LibraryFacts, MutexFree, RestartDue, Registered, fault_is_latched

\* A worker thread outside the library: the job queue, the copy, the end.
LEMMA WorkTyped ==
  ASSUME FileCopyInv, NEW id \in Workers, NEW g \in DOMAIN threads[id],
         job_queue_pop(id, g) \/ copy_file(id, g) \/ ThreadExit(id, g)
  PROVE  FileCopyInv'
<1>0. /\ ProgramType /\ MainFacts /\ threads \in ThreadTable
      /\ UNCHANGED <<vars, g_fdir_mutex>>
      /\ threads[id][g] \in Thread /\ JOBS \in Nat
  BY ThreadOf, WorkersAreIds DEF FileCopyInv, job_queue_pop, copy_file, ThreadExit
<1>1. LibraryFacts' /\ (~MutexFree => RestartDue)'
  BY <1>0, LibraryKept
<1>2. ASSUME threads' \in ThreadTable, SameThreads(threads, threads'), main' = main, ProgramType'
      PROVE  FileCopyInv'
  BY <1>0, <1>1, <1>2, MainKept DEF FileCopyInv
<1>3. ASSUME NEW to \in ThreadPcs \ {"copy"}
      PROVE  Move(threads, id, g, to) \in ThreadTable /\ SameThreads(threads, Move(threads, id, g, to))
  BY <1>0, Placed DEF DiffersAt
<1>4. CASE job_queue_pop(id, g)
  <2>1. CASE pop_take(id, g)
    <3> DEFINE x == [pc |-> "copy", job |-> Head(jobs)]
    <3>1. /\ Head(jobs) \in 1 .. JOBS /\ Tail(jobs) \in Seq(1 .. JOBS)
          /\ Len(Tail(jobs)) <= JOB_QUEUE_CAP
      BY <1>0, <2>1, WorkersAreIds DEF pop_take, ProgramType
    <3>2. x \in Thread
      BY <1>0, <3>1 DEF Thread, ThreadPcs, NO_JOB
    <3>3. threads' = Put(threads, id, g, x) /\ jobs' = Tail(jobs) /\ main' = WakeWalker
      BY <2>1 DEF pop_take, Put
    <3>4. threads' \in ThreadTable /\ SameThreads(threads, threads')
      BY <1>0, <3>2, <3>3, Replaced DEF DiffersAt
    <3>5. ProgramType'
      BY <1>0, <1>4, <3>1, <3>3 DEF job_queue_pop, ProgramType
    <3>6. MainFacts'
      <4>1. CASE main.pc = "full"
        BY <1>0, <3>3, <4>1 DEF WakeWalker, MainFacts, MainPcs
      <4>2. CASE main.pc # "full"
        BY <1>0, <3>3, <3>4, <4>2, MainKept DEF WakeWalker
      <4> QED BY <4>1, <4>2
    <3> QED BY <1>1, <3>4, <3>5, <3>6 DEF FileCopyInv
  <2>2. CASE pop_sleep(id, g)
    <3>1. threads' = Move(threads, id, g, "wait") /\ "wait" \in ThreadPcs \ {"copy"}
      BY <2>2 DEF pop_sleep, Move, ThreadPcs
    <3>2. main' = main /\ ProgramType'
      BY <1>0, <1>4, <2>2 DEF job_queue_pop, pop_sleep, ProgramType
    <3> QED BY <1>2, <1>3, <3>1, <3>2
  <2>3. CASE pop_leave(id, g)
    <3> DEFINE tt == Move(threads, id, g, "exit")
    <3>1. threads' = WakeAll(tt) /\ "exit" \in ThreadPcs \ {"copy"}
      BY <2>3 DEF pop_leave, Move, ThreadPcs
    <3>2. tt \in ThreadTable /\ SameThreads(threads, tt)
      BY <1>3, <3>1
    <3> HIDE DEF tt
    <3>3. threads' \in ThreadTable /\ SameThreads(threads, threads')
      BY <3>1, <3>2, WakeAllWakes DEF Woken, SameThreads
    <3>4. main' = main /\ ProgramType'
      BY <1>0, <1>4, <2>3 DEF job_queue_pop, pop_leave, ProgramType
    <3> QED BY <1>2, <3>3, <3>4
  <2> QED BY <1>4, <2>1, <2>2, <2>3 DEF job_queue_pop
<1>5. CASE copy_file(id, g)
  <2> DEFINE job == threads[id][g].job
  <2>1. job \in 1 .. JOBS
    BY <1>0, <1>5 DEF copy_file, At, Thread, NO_JOB
  <2>2. \E p \in {"beat", "report"} : threads' = Put(threads, id, g, [pc |-> p, job |-> NO_JOB])
    BY <1>5 DEF copy_file, Put
  <2>3. PICK p \in {"beat", "report"} : threads' = Put(threads, id, g, [pc |-> p, job |-> NO_JOB])
    BY <2>2
  <2>4. [pc |-> p, job |-> NO_JOB] \in Thread
    BY <1>0 DEF Thread, ThreadPcs, NO_JOB
  <2>5. threads' \in ThreadTable /\ SameThreads(threads, threads')
    BY <1>0, <2>3, <2>4, Replaced DEF DiffersAt
  <2>6. main' = main /\ UNCHANGED <<g_fdir_mutex, active, jobs, producer_done, g_running, sup>>
    BY <1>5 DEF copy_file
  <2>7. copied' \in {copied, copied \cup {job}} /\ failed' \in {failed, failed \cup {job}}
    BY <1>5 DEF copy_file
  <2>8. ProgramType'
    BY <1>0, <2>1, <2>6, <2>7 DEF ProgramType
  <2> QED BY <1>2, <2>5, <2>6, <2>8
<1>6. CASE ThreadExit(id, g)
  <2>1. threads' = Move(threads, id, g, "exited") /\ "exited" \in ThreadPcs \ {"copy"}
    BY <1>6 DEF ThreadExit, Step, Move, ThreadPcs
  <2>2. main' = main /\ ProgramType'
    BY <1>0, <1>6 DEF ThreadExit, ProgramType
  <2> QED BY <1>2, <1>3, <2>1, <2>2
<1> QED BY <1>4, <1>5, <1>6

\* main.
LEMMA MainTyped ==
  ASSUME FileCopyInv, MainThread PROVE FileCopyInv'
<1>0. /\ ProgramType /\ MainFacts /\ threads \in ThreadTable
      /\ UNCHANGED <<vars, g_fdir_mutex, active, copied, failed, sup>>
      /\ JOBS \in Nat /\ JOB_QUEUE_CAP \in Nat \ {0} /\ Len(BootEntities) \in Nat
  BY WorkersAreIds DEF FileCopyInv, MainThread, MainOnly, walk_cb, MainWalkEnds,
     worker_wait_all, MainJoinReturns, MainStops, MainExits
<1>1. LibraryFacts' /\ (~MutexFree => RestartDue)'
  BY <1>0, LibraryKept
<1>2. main \in [pc : MainPcs, walked : 0 .. JOBS, i : 0 .. Len(BootEntities), gen : Nat]
  BY <1>0 DEF MainFacts
<1>3. CASE walk_cb
  <2>0. /\ main.walked + 1 \in 1 .. JOBS
        /\ main.pc = "walk" /\ UNCHANGED <<producer_done, g_running>>
    BY <1>0, <1>2, <1>3 DEF walk_cb
  <2>1. CASE /\ Len(jobs) < JOB_QUEUE_CAP
             /\ jobs' = Append(jobs, main.walked + 1)
             /\ threads' \in WakeOne(threads)
             /\ main' = [main EXCEPT !.walked = main.walked + 1]
    <3>1. jobs' \in Seq(1 .. JOBS) /\ Len(jobs') <= JOB_QUEUE_CAP
      BY <1>0, <2>0, <2>1 DEF ProgramType
    <3>2. ProgramType'
      BY <1>0, <2>0, <3>1 DEF ProgramType
    <3>3. MainFacts'
      BY <1>2, <2>0, <2>1 DEF MainFacts
    <3>4. threads' \in ThreadTable
      BY <1>0, <2>1, WakeOneWakes DEF Woken
    <3> QED BY <1>1, <3>2, <3>3, <3>4 DEF FileCopyInv
  <2>2. CASE /\ main' = [main EXCEPT !.pc = "full"]
             /\ UNCHANGED <<jobs, threads>>
    <3>1. MainFacts'
      BY <1>2, <2>2 DEF MainFacts, MainPcs
    <3> QED BY <1>0, <1>1, <2>0, <2>2, <3>1 DEF FileCopyInv, ProgramType
  <2> QED BY <1>3, <2>1, <2>2 DEF walk_cb, job_queue_push
<1>4. CASE MainWalkEnds
  <2>1. /\ threads' = WakeAll(threads) /\ producer_done' = TRUE /\ UNCHANGED <<jobs, g_running>>
        /\ main' = [main EXCEPT !.pc = "wait_all"]
    BY <1>4 DEF MainWalkEnds, job_queue_finish
  <2>2. threads' \in ThreadTable
    BY <1>0, <2>1, WakeAllWakes DEF Woken
  <2>3. MainFacts'
    BY <1>2, <2>1 DEF MainFacts, MainPcs
  <2> QED BY <1>0, <1>1, <2>1, <2>2, <2>3 DEF FileCopyInv, ProgramType
<1>5. CASE worker_wait_all
  <2>1. UNCHANGED <<threads, jobs, producer_done, g_running>> /\ main.i \in Workers
    BY <1>5 DEF worker_wait_all
  <2>2. MainFacts'
    <3> DEFINE g == Len(threads[main.i])
    <3>0. threads[main.i] \in Seq(Thread) /\ threads[main.i] # <<>>
      BY <1>0, <2>1 DEF ThreadTable
    <3>1. g \in Nat /\ g \in DOMAIN threads[main.i]
      BY <3>0
    <3>2. main.i + 1 \in 0 .. Len(BootEntities) /\ main.pc = "wait_all"
      BY <1>0, <1>5, <2>1 DEF Workers, worker_wait_all
    <3>3. \/ main' = [main EXCEPT !.pc = "join", !.gen = g]
          \/ main' = [main EXCEPT !.i = main.i + 1]
      BY <1>5 DEF worker_wait_all
    <3>4. CASE main' = [main EXCEPT !.pc = "join", !.gen = g]
      <4>1. main' \in [pc : MainPcs, walked : 0 .. JOBS, i : 0 .. Len(BootEntities), gen : Nat]
        BY <1>2, <3>1, <3>4 DEF MainPcs
      <4>2. main'.i = main.i /\ main'.gen = g
        BY <1>2, <3>4
      <4> QED BY <2>1, <3>1, <4>1, <4>2 DEF MainFacts
    <3>5. CASE main' = [main EXCEPT !.i = main.i + 1]
      BY <1>2, <3>2, <3>5 DEF MainFacts, MainPcs
    <3> QED BY <3>3, <3>4, <3>5
  <2> QED BY <1>0, <1>1, <2>1, <2>2 DEF FileCopyInv, ProgramType
<1>6. CASE MainJoinReturns
  <2>1. /\ threads' = Move(threads, main.i, main.gen, "joined")
        /\ main' = [main EXCEPT !.pc = "wait_all", !.i = main.i + 1, !.gen = 0]
        /\ UNCHANGED <<jobs, producer_done, g_running>>
    BY <1>6 DEF MainJoinReturns, Step, Move
  <2>2. main.i \in Workers /\ main.gen \in DOMAIN threads[main.i]
    BY <1>0, <1>6 DEF MainFacts, MainJoinReturns
  <2>3. "joined" \in ThreadPcs \ {"copy"}
    BY DEF ThreadPcs
  <2>4. threads' \in ThreadTable
    BY <1>0, <2>1, <2>2, <2>3, Placed DEF DiffersAt
  <2>5. main.i + 1 \in 0 .. Len(BootEntities)
    BY <1>0, <2>2 DEF Workers
  <2>6. MainFacts'
    BY <1>2, <2>1, <2>5 DEF MainFacts, MainPcs
  <2> QED BY <1>0, <1>1, <2>1, <2>4, <2>6 DEF FileCopyInv, ProgramType
<1>7. CASE MainStops \/ MainExits
  <2>1. /\ UNCHANGED <<threads, jobs, producer_done>> /\ g_running' \in {g_running, FALSE}
        /\ \E p \in {"join_sup", "exited"} : main' = [main EXCEPT !.pc = p]
    BY <1>7 DEF MainStops, MainExits
  <2>2. MainFacts'
    BY <1>2, <2>1 DEF MainFacts, MainPcs
  <2> QED BY <1>0, <1>1, <2>1, <2>2 DEF FileCopyInv, ProgramType
<1> QED BY <1>3, <1>4, <1>5, <1>6, <1>7 DEF MainThread

\* What a step of the supervisor takes in hand names an entity or none.
LEMMA SupervisorFacts ==
  ASSUME LibraryFacts, SupervisorLoop PROVE LibraryFacts'
<1> USE DEF libVars, healthVars
<1>0. /\ Len(BootEntities) \in 0 .. ENTITY_CAP /\ ENTITY_CAP \in 1 .. 128
      /\ queue \in Seq(Reports) /\ report \in Reports /\ scan \in 0 .. ENTITY_CAP
      /\ g_entity_limit = Len(BootEntities)
  BY WorkersAreIds DEF LibraryFacts
<1>1. ZERO_REPORT \in Reports
  BY <1>0 DEF ZERO_REPORT, Reports, AnyId, Ids, Reasons, REASON_INIT_FAILED
<1>2. CASE DrainGet
  BY <1>0, <1>2 DEF DrainGet, Queue!QueueGet, LibraryFacts
<1>3. CASE WatchdogRaise
  <2>1. PICK id \in watchdog_due : /\ report' = [entity |-> id, reason |-> REASON_WATCHDOG]
                                   /\ scan' = id + 1
    BY <1>3 DEF WatchdogRaise
  <2>2. id \in Ids /\ id + 1 \in 0 .. ENTITY_CAP
    BY <1>0, <2>1 DEF watchdog_due, Ids
  <2>3. report' \in Reports /\ scan' \in 0 .. ENTITY_CAP
    BY <2>1, <2>2 DEF Reports, AnyId, REASON_WATCHDOG, Reasons
  <2> QED BY <1>0, <1>3, <2>3 DEF WatchdogRaise, OnlySupervisor, LibraryFacts
<1>4. CASE Handle
  <2>1. g_entity_limit' = g_entity_limit
    BY <1>4 DEF Handle, handle_failure, handle_suppressed, handle_unknown, handle_registered,
       recover_by_restart, isolate_and_escalate
  <2>2. queue' = queue /\ report' = ZERO_REPORT /\ scan' \in {scan, 0}
    BY <1>4 DEF Handle, ReturnTo
  <2> QED BY <1>0, <1>1, <2>1, <2>2 DEF LibraryFacts
<1>5. CASE TickBegin \/ DrainEmpty \/ WatchdogReadClock \/ WatchdogCheck \/ WatchdogEnd \/ HandleCheck
  <2>1. OnlySupervisor /\ report' \in {report, ZERO_REPORT} /\ scan' \in {scan, 0}
    BY <1>5 DEF TickBegin, DrainEmpty, WatchdogReadClock, WatchdogCheck, WatchdogEnd,
       HandleCheck, ReturnTo
  <2> QED BY <1>0, <1>1, <2>1 DEF OnlySupervisor, LibraryFacts
<1> QED BY <1>2, <1>3, <1>4, <1>5 DEF SupervisorLoop

\* The restart callback: it joins the worker's last thread and appends a new one.
LEMMA RestartTyped ==
  ASSUME FileCopyInv, worker_restart_cb PROVE FileCopyInv'
<1>0. /\ ProgramType /\ LibraryFacts /\ MainFacts /\ threads \in ThreadTable /\ RestartDue
      /\ Len(BootEntities) \in 0 .. ENTITY_CAP /\ ENTITY_CAP \in 1 .. 128 /\ JOBS \in Nat
  BY WorkersAreIds DEF FileCopyInv, worker_restart_cb
<1> DEFINE id == report.entity
           g == Len(threads[id])
           left == IF At(id, g, "exited") /\ ~MainJoins(id, g)
                   THEN Move(threads, id, g, "joined") ELSE threads
<1>1. id \in Workers
  BY <1>0 DEF RestartDue, Registered, LibraryFacts, Reports, AnyId, Ids, ENTITY_NONE, Workers
<1>2. g \in DOMAIN threads[id]
  <2>1. threads[id] \in Seq(Thread) /\ threads[id] # <<>>
    BY <1>0, <1>1 DEF ThreadTable
  <2> QED BY <2>1
<1>3. left \in ThreadTable /\ SameThreads(threads, left)
  <2>1. "joined" \in ThreadPcs \ {"copy"}
    BY DEF ThreadPcs
  <2>2. Move(threads, id, g, "joined") \in ThreadTable
        /\ SameThreads(threads, Move(threads, id, g, "joined"))
    <3> HIDE DEF id, g
    <3>1. DiffersAt(threads, Move(threads, id, g, "joined"), id, g,
                    [threads[id][g] EXCEPT !.pc = "joined"])
      BY <1>0, <1>1, <1>2, <2>1, Placed
    <3> QED BY <3>1 DEF DiffersAt
  <2> QED BY <1>0, <2>2 DEF SameThreads
<1>4. threads' \in {left, [left EXCEPT ![id] = Append(@, NewThread)]}
  BY DEF worker_restart_cb, Move
<1>5. NewThread \in Thread
  BY <1>0 DEF NewThread, Thread, ThreadPcs, NO_JOB
<1> HIDE DEF left
<1>6. /\ threads' \in ThreadTable
      /\ \A w \in Workers : DOMAIN threads[w] \subseteq DOMAIN threads'[w]
  <2>1. CASE threads' = left
    BY <1>3, <2>1 DEF SameThreads
  <2>2. CASE threads' = [left EXCEPT ![id] = Append(@, NewThread)]
    <3>1. left[id] \in Seq(Thread)
      BY <1>1, <1>3 DEF ThreadTable
    <3>2. Append(left[id], NewThread) \in Seq(Thread) \ {<<>>}
      <4>1. /\ Append(left[id], NewThread) \in Seq(Thread)
            /\ Len(Append(left[id], NewThread)) = Len(left[id]) + 1 /\ Len(left[id]) \in Nat
        BY <1>5, <3>1
      <4> QED BY <4>1
    <3>3. DOMAIN left[id] \subseteq DOMAIN Append(left[id], NewThread)
      BY <3>1
    <3>4. threads' \in ThreadTable
      BY <1>3, <2>2, <3>2 DEF ThreadTable
    <3>5. ASSUME NEW w \in Workers PROVE DOMAIN left[w] \subseteq DOMAIN threads'[w]
      BY <1>3, <2>2, <3>3 DEF ThreadTable
    <3> QED BY <1>3, <3>4, <3>5 DEF SameThreads
  <2> QED BY <1>4, <2>1, <2>2
<1>7. MainFacts'
  BY <1>0, <1>6 DEF MainFacts, worker_restart_cb
<1>8. LibraryFacts'
  <2>1. /\ queue' = queue /\ report' = ZERO_REPORT /\ scan' \in {scan, 0}
        /\ g_entity_limit' = g_entity_limit
    BY DEF worker_restart_cb, ReturnTo, recover_by_restart, isolate_and_escalate
  <2>2. ZERO_REPORT \in Reports
    BY <1>0 DEF ZERO_REPORT, Reports, AnyId, Ids, Reasons, REASON_INIT_FAILED
  <2> QED BY <1>0, <2>1, <2>2 DEF LibraryFacts
<1>9. ProgramType' /\ MutexFree'
  BY <1>0, <1>1 DEF worker_restart_cb, ProgramType, MutexFree
<1> QED BY <1>6, <1>7, <1>8, <1>9 DEF FileCopyInv

\* The supervisor thread.
LEMMA SupervisorTyped ==
  ASSUME FileCopyInv, supervisor_thread PROVE FileCopyInv'
<1>0. ProgramType /\ LibraryFacts /\ MainFacts /\ threads \in ThreadTable
  BY DEF FileCopyInv
<1>1. CASE SupervisorTick \/ SupervisorStep
  <2>1. /\ SupervisorLoop /\ ~RestartDue
        /\ UNCHANGED <<active, jobs, producer_done, copied, failed, main, g_running,
                       g_fdir_mutex, threads>>
        /\ sup' \in {"tick", sup}
    BY <1>1 DEF SupervisorTick, SupervisorStep, SupervisorOnly, SupervisorLoop, TickBegin,
       RestartDue
  <2>2. LibraryFacts'
    BY <1>0, <2>1, SupervisorFacts
  <2>3. MutexFree'
    BY <2>1 DEF FileCopyInv, MutexFree
  <2>4. ProgramType' /\ MainFacts'
    BY <1>0, <2>1 DEF ProgramType, MainFacts
  <2> QED BY <1>0, <2>1, <2>2, <2>3, <2>4 DEF FileCopyInv
<1>2. CASE RestartCall
  <2>1. UNCHANGED <<queue, report, scan, pc, g_entity_limit, g_latched_reason, g_entities>>
    BY <1>2 DEF RestartCall, vars, libVars, healthVars, supVars
  <2>2. LibraryFacts' /\ RestartDue'
    BY <1>0, <1>2, <2>1 DEF RestartCall, LibraryFacts, RestartDue, Registered, fault_is_latched
  <2>3. ProgramType' /\ MainFacts' /\ threads' \in ThreadTable
    BY <1>0, <1>2 DEF RestartCall, SupervisorOnly, ProgramType, MainFacts
  <2> QED BY <2>2, <2>3 DEF FileCopyInv
<1>3. CASE SupervisorReadMode
  <2>0. UNCHANGED <<vars, g_fdir_mutex, active, jobs, copied, failed, main>>
    BY <1>3 DEF SupervisorReadMode
  <2>1. /\ threads' \in {threads, WakeAll(threads)} /\ producer_done' \in {producer_done, TRUE}
        /\ g_running' \in {g_running, FALSE} /\ sup' \in {"ended", "top"}
    BY <1>3 DEF SupervisorReadMode, job_queue_finish
  <2>2. threads' \in ThreadTable /\ SameThreads(threads, threads')
    BY <1>0, <2>1, WakeAllWakes DEF Woken, SameThreads
  <2>3. ProgramType' /\ MainFacts'
    BY <1>0, <2>0, <2>1, <2>2, MainKept DEF ProgramType
  <2> QED BY <2>0, <2>2, <2>3, LibraryKept DEF FileCopyInv
<1>4. CASE SupervisorEnd
  <2>1. ProgramType' /\ MainFacts' /\ threads' \in ThreadTable
    BY <1>0, <1>4 DEF SupervisorEnd, SupervisorOnly, ProgramType, MainFacts
  <2> QED BY <1>4, <2>1, LibraryKept DEF FileCopyInv, SupervisorEnd
<1> QED BY <1>1, <1>2, <1>3, <1>4, RestartTyped DEF supervisor_thread

\* Every step, the passing of time included, keeps the invariant.
LEMMA FileCopyStep ==
  ASSUME FileCopyInv, [FileCopyNext \/ TimePasses]_fcVars PROVE FileCopyInv'
<1>0. ProgramType /\ LibraryFacts /\ MainFacts /\ threads \in ThreadTable
  BY DEF FileCopyInv
<1>1. CASE UNCHANGED fcVars
  <2>1. ProgramType' /\ MainFacts' /\ threads' \in ThreadTable
    BY <1>0, <1>1 DEF fcVars, ProgramType, MainFacts
  <2> QED BY <1>1, <2>1, LibraryKept DEF FileCopyInv, fcVars
<1>2. CASE TimePasses
  <2>1. /\ UNCHANGED <<queue, report, scan, pc, g_entity_limit, g_latched_reason, g_entities>>
        /\ UNCHANGED <<g_fdir_mutex, threads>>
    BY <1>2 DEF TimePasses, libVars, healthVars, queueVars, supVars
  <2>2. LibraryFacts' /\ (~MutexFree => RestartDue)'
    BY <2>1 DEF FileCopyInv, LibraryFacts, MutexFree, RestartDue, Registered, fault_is_latched
  <2>3. ProgramType' /\ MainFacts' /\ threads' \in ThreadTable
    BY <1>0, <1>2 DEF TimePasses, SupervisorOnly, ProgramType, MainFacts
  <2> QED BY <2>2, <2>3 DEF FileCopyInv
<1>3. CASE SpuriousWakeup
  <2>0. UNCHANGED <<vars, g_fdir_mutex, active, copied, failed, sup, jobs, producer_done, g_running>>
    BY <1>3 DEF SpuriousWakeup, MainOnly
  <2>1. CASE main' = WakeWalker /\ UNCHANGED threads
    <3>1. MainFacts'
      BY <1>0, <2>1 DEF WakeWalker, MainFacts, MainPcs
    <3> QED BY <1>0, <2>0, <2>1, <3>1, LibraryKept DEF FileCopyInv, ProgramType
  <2>2. ASSUME NEW id \in Workers, NEW g \in DOMAIN threads[id],
               Step(id, g, "wait", "pop"), UNCHANGED main
        PROVE  FileCopyInv'
    <3>1. threads' = Move(threads, id, g, "pop") /\ "pop" \in ThreadPcs \ {"copy"}
      BY <2>2 DEF Step, Move, ThreadPcs
    <3>2. threads' \in ThreadTable /\ SameThreads(threads, threads')
      BY <1>0, <2>2, <3>1, Placed DEF DiffersAt
    <3>3. MainFacts'
      BY <1>0, <2>2, <3>2, MainKept
    <3> QED BY <1>0, <2>0, <3>2, <3>3, LibraryKept DEF FileCopyInv, ProgramType
  <2> QED BY <1>3, <2>1, <2>2 DEF SpuriousWakeup
<1>4. ASSUME NEW id \in Workers, WorkerThreads(id) PROVE FileCopyInv'
  <2>1. PICK g \in DOMAIN threads[id] : worker_thread(id, g)
    BY <1>4 DEF WorkerThreads
  <2> QED BY <2>1, LibraryCallTyped, WorkTyped DEF worker_thread
<1> QED BY <1>1, <1>2, <1>3, <1>4, MainTyped, SupervisorTyped DEF FileCopyNext

\* The variables of the program keep their types whatever copies, restarts and
\* pthread_create calls fail and however long it runs: the job queue holds files of
\* the walk, at most JOB_QUEUE_CAP of them, and main's indices stay in range.
THEOREM FileCopyTypeCorrect == TimedFileCopySpec => []FileCopyType
BY FileCopyStarts, FileCopyStep, InvIsTyped, PTL DEF TimedFileCopySpec
-----------------------------------------------------------------------------
(***************************************************************************)
(* A clean run: no copy has failed.                                         *)
(***************************************************************************)
\* The library has had nothing to do: its state is the one that main set up.
LibraryIdle ==
  /\ g_health = BootedHealth /\ g_latched_reason = NoLatches
  /\ g_mode = FDIR_MODE_NOMINAL /\ g_supervision_enabled
  /\ queue = <<>> /\ clock = 0
  /\ pc \notin {"handle_check", "handle"}
  /\ pc = "scan" \/ pc = "wd_check" => now_ms = BOOT_MS

\* Every worker still has its first thread, which is over only when all is done.
FirstThreads ==
  /\ MutexFree
  /\ \A id \in Workers :
       /\ Len(threads[id]) = 1
       /\ threads[id][1].pc # "report"
       /\ threads[id][1].pc \in {"exit", "exited", "joined"} => jobs = <<>> /\ producer_done
       /\ ~active[id] => threads[id][1].pc \in {"exited", "joined"}

Copying == {id \in Workers : threads[id][1].pc = "copy"}

\* A file that the walk has found is queued, copied, or in the hands of a worker.
JobsAccounted ==
  \A job \in 1 .. main.walked :
    \/ \E i \in DOMAIN jobs : jobs[i] = job
    \/ job \in copied
    \/ \E id \in Copying : threads[id][1].job = job

\* main is past the walk only when the walk is over, and past a worker that ended.
MainInOrder ==
  /\ producer_done <=> main.pc \notin {"walk", "full"}
  /\ producer_done => main.walked = JOBS
  /\ \A id \in Workers : id < main.i => threads[id][1].pc \in {"exited", "joined"}
  /\ main.pc \in {"join_sup", "exited"} => main.i = Len(BootEntities)

ProgramClean == FirstThreads /\ JobsAccounted /\ MainInOrder

\* Together with FileCopyInv this is the inductive invariant.
CleanInv == failed = {} => LibraryIdle /\ ProgramClean

\* A process that exits from a clean run has copied everything.
LEMMA CleanIsComplete ==
  ASSUME FileCopyInv, failed = {} => ProgramClean, Len(BootEntities) > 0
  PROVE  CleanRunCopiesAll
<1> SUFFICES ASSUME main.pc = "exited", failed = {} PROVE copied = 1 .. JOBS
  BY DEF CleanRunCopiesAll
<1>1. FirstThreads /\ JobsAccounted /\ MainInOrder
  BY DEF ProgramClean
<1>2. producer_done /\ main.walked = JOBS /\ main.i = Len(BootEntities)
  BY <1>1 DEF MainInOrder
<1>3. \A id \in Workers : threads[id][1].pc \in {"exited", "joined"}
  BY <1>1, <1>2, WorkersAreIds DEF MainInOrder, Workers
<1>4. 0 \in Workers
  BY WorkersAreIds DEF Workers
<1>5. jobs = <<>> /\ Copying = {}
  BY <1>1, <1>3, <1>4 DEF FirstThreads, Copying
<1>6. 1 .. JOBS \subseteq copied
  BY <1>1, <1>2, <1>5 DEF JobsAccounted
<1>7. copied \subseteq 1 .. JOBS
  BY DEF FileCopyInv, ProgramType
<1> QED BY <1>6, <1>7

\* Failures are never forgotten, so that a clean run has been clean all the time.
LEMMA FailuresStay ==
  ASSUME [FileCopyNext \/ TimePasses]_fcVars PROVE failed \subseteq failed'
<1>1. CASE UNCHANGED fcVars
  BY <1>1 DEF fcVars
<1>2. ASSUME NEW id \in Workers, WorkerThreads(id) PROVE failed \subseteq failed'
  <2>1. PICK g \in DOMAIN threads[id] : worker_thread(id, g)
    BY <1>2 DEF WorkerThreads
  <2> QED BY <2>1 DEF worker_thread, ThreadReadMode, ThreadMayRun, ThreadHeartbeat, ThreadReport,
         ThreadExit, job_queue_pop, copy_file, LibraryCall
<1>3. CASE MainThread \/ SpuriousWakeup
  BY <1>3 DEF MainThread, MainOnly, walk_cb, MainWalkEnds, worker_wait_all, MainJoinReturns,
     MainStops, MainExits, SpuriousWakeup
<1>4. CASE supervisor_thread
  BY <1>4 DEF supervisor_thread, SupervisorOnly, SupervisorTick, SupervisorStep, RestartCall,
     worker_restart_cb, SupervisorReadMode, SupervisorEnd
<1>5. CASE TimePasses
  BY <1>5 DEF TimePasses, SupervisorOnly
<1> QED BY <1>1, <1>2, <1>3, <1>4, <1>5 DEF FileCopyNext

\* The clock stands still, so that a heartbeat changes nothing.
LEMMA HeartbeatIdles ==
  ASSUME LibraryIdle, NEW id \in Workers, heartbeat_notify(id) PROVE g_health' = g_health
<1>1. fdir_get_now_ms = BOOT_MS
  BY ClockAssumption DEF LibraryIdle, fdir_get_now_ms
<1>2. g_health[id] = [health |-> "OK", last_heartbeat_ms |-> BOOT_MS] /\ id \in Ids
  BY WorkersAreIds DEF LibraryIdle, BootedHealth, Workers
<1>3. g_health' = [g_health EXCEPT ![id] = g_health[id]]
  BY <1>1, <1>2 DEF heartbeat_notify
<1>4. g_health = [i \in Ids |-> g_health[i]]
  BY DEF LibraryIdle, BootedHealth
<1> QED BY <1>2, <1>3, <1>4

\* As long as the clock stands still no heartbeat is stale.
LEMMA NothingStale ==
  ASSUME LibraryFacts, now_ms = BOOT_MS,
         \A id \in Workers : g_health[id].last_heartbeat_ms = BOOT_MS
  PROVE  watchdog_due = {}
<1>0. fdir_heartbeat_max_age_ms \in Nat
  BY ConfigAssumption, ClockAssumption DEF fdir_heartbeat_max_age_ms, Times
<1>1. ASSUME NEW id \in watchdog_due PROVE FALSE
  <2>1. id \in Workers /\ is_stale(id, now_ms, fdir_heartbeat_max_age_ms)
    BY WorkersAreIds DEF watchdog_due, LibraryFacts, Workers
  <2>2. g_health[id].last_heartbeat_ms = BOOT_MS /\ now_ms = BOOT_MS
    BY <2>1
  <2>3. (BOOT_MS - BOOT_MS) % TIME_MOD = 0
    BY ClockAssumption
  <2> QED BY <1>0, <2>1, <2>2, <2>3 DEF is_stale
<1> QED BY <1>1

\* In a clean run nothing is due.
LEMMA NothingDue ==
  ASSUME LibraryIdle, LibraryFacts, pc = "scan" PROVE watchdog_due = {}
<1>1. \A id \in Workers : g_health[id].last_heartbeat_ms = BOOT_MS
  BY WorkersAreIds DEF LibraryIdle, BootedHealth, Workers
<1> QED BY <1>1, NothingStale DEF LibraryIdle

\* The supervisor's loop finds nothing to do.
LEMMA LoopIdles ==
  ASSUME LibraryIdle, LibraryFacts, SupervisorLoop PROVE LibraryIdle'
<1> USE DEF libVars, healthVars, portVars
<1>0. /\ queue = <<>> /\ pc \notin {"handle_check", "handle"} /\ g_supervision_enabled
      /\ fdir_get_now_ms = BOOT_MS
  BY ClockAssumption DEF LibraryIdle, fdir_get_now_ms
<1>1. ~DrainGet /\ ~HandleCheck /\ ~Handle
  BY <1>0 DEF DrainGet, Queue!QueueGet, HandleCheck, Handle
<1>2. ~WatchdogRaise
  BY NothingDue DEF WatchdogRaise
<1>3. TickBegin \/ DrainEmpty \/ WatchdogReadClock \/ WatchdogCheck \/ WatchdogEnd
  BY <1>1, <1>2 DEF SupervisorLoop
<1>4. UNCHANGED <<g_health, g_latched_reason, g_mode, g_supervision_enabled, queue, clock>>
  BY <1>3 DEF TickBegin, DrainEmpty, WatchdogReadClock, WatchdogCheck, WatchdogEnd, OnlySupervisor
<1>5. /\ pc' \in {"drain", "wd_now", "wd_check", "scan", "idle"}
      /\ pc' \in {"scan", "wd_check"} => now_ms' = BOOT_MS
  BY <1>0, <1>3 DEF TickBegin, DrainEmpty, WatchdogReadClock, WatchdogCheck, WatchdogEnd,
     ReturnTo, LibraryIdle
<1> QED BY <1>4, <1>5 DEF LibraryIdle

\* Nor do the other threads disturb the library.
LEMMA LibraryStaysIdle ==
  ASSUME FileCopyInv, LibraryIdle, FirstThreads, [FileCopyNext]_fcVars PROVE LibraryIdle'
<1>1. ASSUME UNCHANGED vars PROVE LibraryIdle'
  BY <1>1 DEF LibraryIdle, vars, portVars, libVars, healthVars, supVars
<1>2. CASE UNCHANGED fcVars \/ MainThread \/ SpuriousWakeup
  BY <1>1, <1>2 DEF fcVars, MainThread, MainOnly, walk_cb, MainWalkEnds, worker_wait_all,
     MainJoinReturns, MainStops, MainExits, SpuriousWakeup
<1>3. CASE supervisor_thread
  <2>1. ~RestartCall /\ ~worker_restart_cb
    BY DEF RestartCall, RestartDue, worker_restart_cb, LibraryIdle, FirstThreads
  <2>2. CASE SupervisorTick \/ SupervisorStep
    BY <2>2, LoopIdles DEF SupervisorTick, SupervisorStep, SupervisorLoop, FileCopyInv
  <2>3. CASE SupervisorReadMode \/ SupervisorEnd
    BY <1>1, <2>3 DEF SupervisorReadMode, SupervisorEnd
  <2> QED BY <1>3, <2>1, <2>2, <2>3 DEF supervisor_thread
<1>4. ASSUME NEW id \in Workers, WorkerThreads(id) PROVE LibraryIdle'
  <2>1. PICK g \in DOMAIN threads[id] : worker_thread(id, g)
    BY <1>4 DEF WorkerThreads
  <2>2. g = 1
    <3>1. Len(threads[id]) = 1 /\ threads[id] \in Seq(Thread)
      BY DEF FirstThreads, FileCopyInv, ThreadTable
    <3> QED BY <3>1
  <2>3. ~ThreadReport(id, g)
    BY <2>2 DEF ThreadReport, Step, At, FirstThreads
  <2>4. ASSUME Heartbeat(id) PROVE LibraryIdle'
    <3>1. g_health' = g_health
      BY <2>4, HeartbeatIdles DEF Heartbeat
    <3>2. UNCHANGED <<g_latched_reason, clock, g_mode, g_supervision_enabled, queue, pc, now_ms>>
      BY <2>4 DEF Heartbeat, heartbeat_notify, portVars, queueVars, supVars
    <3> QED BY <3>1, <3>2 DEF LibraryIdle
  <2>5. UNCHANGED vars \/ Heartbeat(id)
    BY <2>1, <2>3 DEF worker_thread, ThreadReadMode, ThreadMayRun, ThreadHeartbeat, ThreadExit,
       job_queue_pop, copy_file
  <2> QED BY <1>1, <2>4, <2>5
<1> QED BY <1>2, <1>3, <1>4 DEF FileCopyNext

\* Places where a thread neither holds a job nor has left its loop.
Looping == {"mode", "gate", "safe", "pop", "wait", "beat"}

\* Only places in the loop changed.
OnlyLooping ==
  \A id \in Workers :
    /\ Len(threads'[id]) = 1
    /\ \/ threads'[id][1] = threads[id][1]
       \/ threads'[id][1].pc \in Looping /\ threads[id][1].pc \in Looping

\* main has moved on, but not to another worker or file.
MainInPlace ==
  /\ main'.walked = main.walked /\ main'.i = main.i
  /\ main'.pc \in {"walk", "full"} <=> main.pc \in {"walk", "full"}
  /\ main'.pc \in {"join_sup", "exited"} => main.i = Len(BootEntities)

\* A step that does no more than that keeps the run clean.
LEMMA QuietProgram ==
  ASSUME ProgramClean, OnlyLooping, MainInPlace,
         UNCHANGED <<jobs, producer_done, copied, active, g_fdir_mutex>>
  PROVE  ProgramClean'
<1>1. FirstThreads'
  BY DEF ProgramClean, FirstThreads, OnlyLooping, Looping, MutexFree
<1>2. MainInOrder'
  BY DEF ProgramClean, MainInOrder, OnlyLooping, MainInPlace, Looping
<1>3. JobsAccounted'
  <2>1. \A id \in Copying : id \in Copying' /\ threads'[id][1] = threads[id][1]
    BY DEF Copying, OnlyLooping, Looping
  <2> QED BY <2>1 DEF ProgramClean, JobsAccounted, MainInPlace
<1> QED BY <1>1, <1>2, <1>3 DEF ProgramClean

\* The first threads after a change of one of them.
LEMMA FirstAfterPut ==
  ASSUME FileCopyInv, FirstThreads, NEW id \in Workers, NEW g \in DOMAIN threads[id], NEW x,
         DiffersAt(threads, threads', id, g, x)
  PROVE  /\ g = 1
         /\ \A w \in Workers : /\ Len(threads'[w]) = 1
                               /\ threads'[w][1] = IF w = id THEN x ELSE threads[w][1]
<1>1. ASSUME NEW w \in Workers
      PROVE  /\ DOMAIN threads[w] = {1} /\ DOMAIN threads'[w] = {1} /\ Len(threads'[w]) = 1
  <2>1. Len(threads[w]) = 1 /\ threads[w] \in Seq(Thread) /\ threads'[w] \in Seq(Thread)
    BY DEF FirstThreads, FileCopyInv, DiffersAt, ThreadTable
  <2>2. DOMAIN threads'[w] = DOMAIN threads[w]
    BY DEF DiffersAt, SameThreads
  <2> QED BY <2>1, <2>2
<1>2. g = 1
  BY <1>1
<1> QED BY <1>1, <1>2 DEF DiffersAt

\* The first threads after a wake-up.
LEMMA FirstAfterWake ==
  ASSUME FileCopyInv, FirstThreads, NEW tt \in ThreadTable, Woken(tt, threads'),
         SameThreads(threads, tt)
  PROVE  \A w \in Workers :
           /\ Len(threads'[w]) = 1
           /\ \/ threads'[w][1] = tt[w][1]
              \/ threads'[w][1].pc = "pop" /\ tt[w][1].pc = "wait"
<1> SUFFICES ASSUME NEW w \in Workers
             PROVE  /\ Len(threads'[w]) = 1
                    /\ \/ threads'[w][1] = tt[w][1]
                       \/ threads'[w][1].pc = "pop" /\ tt[w][1].pc = "wait"
  OBVIOUS
<1>1. /\ Len(threads[w]) = 1 /\ threads[w] \in Seq(Thread) /\ tt[w] \in Seq(Thread)
      /\ threads'[w] \in Seq(Thread)
  BY DEF FirstThreads, FileCopyInv, Woken, ThreadTable
<1>2. DOMAIN tt[w] = DOMAIN threads[w] /\ DOMAIN threads'[w] = DOMAIN tt[w]
  BY DEF Woken, SameThreads
<1>3. 1 \in DOMAIN tt[w] /\ Len(threads'[w]) = 1
  BY <1>1, <1>2
<1>4. tt[w][1] \in Thread
  BY <1>1, <1>3
<1>5. [tt[w][1] EXCEPT !.pc = "pop"].pc = "pop"
  BY <1>4 DEF Thread
<1> QED BY <1>3, <1>5 DEF Woken

\* The steps of a worker keep the run clean, unless its copy fails.
LEMMA WorkerClean ==
  ASSUME FileCopyInv, ProgramClean, NEW id \in Workers, NEW g \in DOMAIN threads[id],
         worker_thread(id, g), failed' = {}
  PROVE  ProgramClean'
<1>0. /\ FirstThreads /\ JobsAccounted /\ MainInOrder /\ threads \in ThreadTable
      /\ threads[id][g] \in Thread /\ jobs \in Seq(1 .. JOBS)
  BY ThreadOf DEF ProgramClean, FileCopyInv, ProgramType
<1>1. g = 1 /\ \A w \in Workers : Len(threads[w]) = 1
  <2>1. Len(threads[id]) = 1 /\ threads[id] \in Seq(Thread)
    BY <1>0 DEF FirstThreads, ThreadTable
  <2> QED BY <1>0, <2>1 DEF FirstThreads
<1>2. ASSUME NEW to \in ThreadPcs \ {"copy"}, threads' = Move(threads, id, g, to)
      PROVE  \A w \in Workers :
               /\ Len(threads'[w]) = 1
               /\ w # id => threads'[w][1] = threads[w][1]
               /\ w = id => threads'[w][1].pc = to
  <2>1. DiffersAt(threads, threads', id, g, [threads[id][g] EXCEPT !.pc = to])
    BY <1>0, <1>2, Placed
  <2>2. [threads[id][g] EXCEPT !.pc = to].pc = to
    BY <1>0 DEF Thread
  <2>3. \A w \in Workers :
          /\ Len(threads'[w]) = 1
          /\ threads'[w][1] = IF w = id THEN [threads[id][g] EXCEPT !.pc = to] ELSE threads[w][1]
    BY <1>0, <2>1, FirstAfterPut
  <2> QED BY <2>2, <2>3
<1>3. CASE \/ ThreadReadMode(id, g) \/ ThreadMayRun(id, g) \/ ThreadHeartbeat(id, g)
           \/ job_queue_pop(id, g) /\ pop_sleep(id, g)
  <2>1. /\ \E to \in Looping : threads' = Move(threads, id, g, to)
        /\ threads[id][g].pc \in Looping
    <3>1. CASE ThreadReadMode(id, g)
      BY <3>1 DEF ThreadReadMode, Step, At, Move, Looping
    <3>2. CASE ThreadMayRun(id, g)
      BY <3>2 DEF ThreadMayRun, Step, At, Move, Looping
    <3>3. CASE ThreadHeartbeat(id, g)
      BY <3>3 DEF ThreadHeartbeat, Step, At, Move, Looping
    <3>4. CASE job_queue_pop(id, g) /\ pop_sleep(id, g)
      BY <3>4 DEF job_queue_pop, pop_sleep, At, Move, Looping
    <3> QED BY <1>3, <3>1, <3>2, <3>3, <3>4
  <2>2. PICK to \in Looping : threads' = Move(threads, id, g, to)
    BY <2>1
  <2>3. OnlyLooping
    BY <1>1, <1>2, <2>1, <2>2 DEF OnlyLooping, Looping, ThreadPcs
  <2>4. UNCHANGED <<jobs, producer_done, copied, active, g_fdir_mutex, main>>
    BY <1>3 DEF ThreadReadMode, ThreadMayRun, ThreadHeartbeat, LibraryCall, job_queue_pop, pop_sleep
  <2> QED BY <1>0, <2>3, <2>4, QuietProgram DEF MainInPlace, MainInOrder
<1>4. ~ThreadReport(id, g)
  BY <1>0, <1>1 DEF ThreadReport, Step, At, FirstThreads
<1>5. CASE ThreadExit(id, g)
  <2>1. threads' = Move(threads, id, g, "exited") /\ threads[id][1].pc = "exit"
    BY <1>1, <1>5 DEF ThreadExit, Step, At, Move
  <2>2. \A w \in Workers : /\ Len(threads'[w]) = 1
                           /\ w # id => threads'[w][1] = threads[w][1]
                           /\ w = id => threads'[w][1].pc = "exited"
    BY <1>2, <2>1 DEF ThreadPcs
  <2>3. /\ UNCHANGED <<jobs, producer_done, copied, g_fdir_mutex, main>>
        /\ active' = [active EXCEPT ![id] = FALSE] /\ active \in [Workers -> BOOLEAN]
    BY <1>5 DEF ThreadExit, FileCopyInv, ProgramType
  <2>4. FirstThreads'
    BY <1>0, <2>1, <2>2, <2>3 DEF FirstThreads, MutexFree
  <2>5. JobsAccounted'
    <3>1. \A w \in Copying : w \in Copying' /\ threads'[w][1] = threads[w][1]
      BY <2>1, <2>2 DEF Copying
    <3> QED BY <1>0, <2>3, <3>1 DEF JobsAccounted
  <2>6. MainInOrder'
    BY <1>0, <2>2, <2>3 DEF MainInOrder
  <2> QED BY <2>4, <2>5, <2>6 DEF ProgramClean
<1>6. CASE copy_file(id, g)
  <2> DEFINE job == threads[id][1].job
             x == [pc |-> "beat", job |-> NO_JOB]
  <2>1. /\ copied' = copied \cup {job} /\ threads' = Put(threads, id, g, x)
        /\ threads[id][1].pc = "copy"
        /\ UNCHANGED <<jobs, producer_done, active, g_fdir_mutex, main>>
    BY <1>1, <1>6 DEF copy_file, At, Put
  <2>2. x \in Thread
    BY WorkersAreIds DEF Thread, ThreadPcs, NO_JOB
  <2>3. \A w \in Workers : /\ Len(threads'[w]) = 1
                           /\ threads'[w][1] = IF w = id THEN x ELSE threads[w][1]
    <3>1. DiffersAt(threads, threads', id, g, x)
      BY <1>0, <2>1, <2>2, Replaced
    <3> QED BY <1>0, <3>1, FirstAfterPut
  <2>4. FirstThreads'
    BY <1>0, <2>1, <2>3 DEF FirstThreads, MutexFree
  <2>5. JobsAccounted'
    <3>1. \A w \in Copying : w # id => w \in Copying' /\ threads'[w][1] = threads[w][1]
      BY <2>3 DEF Copying
    <3> QED BY <1>0, <2>1, <3>1 DEF JobsAccounted
  <2>6. MainInOrder'
    BY <1>0, <2>1, <2>3 DEF MainInOrder
  <2> QED BY <2>4, <2>5, <2>6 DEF ProgramClean
<1>7. CASE job_queue_pop(id, g) /\ pop_take(id, g)
  <2> DEFINE x == [pc |-> "copy", job |-> Head(jobs)]
  <2>1. /\ jobs # <<>> /\ jobs' = Tail(jobs) /\ threads' = Put(threads, id, g, x)
        /\ main' = WakeWalker /\ threads[id][1].pc = "pop"
        /\ UNCHANGED <<copied, producer_done, active, g_fdir_mutex>>
    BY <1>1, <1>7 DEF job_queue_pop, pop_take, At, Put
  <2>2. x \in Thread
    <3>0. jobs \in Seq(1 .. JOBS) /\ jobs # <<>>
      BY <1>0, <2>1
    <3>1. Head(jobs) \in 1 .. JOBS
      BY <3>0, WorkersAreIds
    <3> QED BY <3>1, WorkersAreIds DEF Thread, ThreadPcs, NO_JOB
  <2>3. \A w \in Workers : /\ Len(threads'[w]) = 1
                           /\ threads'[w][1] = IF w = id THEN x ELSE threads[w][1]
    <3>1. DiffersAt(threads, threads', id, g, x)
      BY <1>0, <2>1, <2>2, Replaced
    <3> QED BY <1>0, <3>1, FirstAfterPut
  <2>4. MainInPlace
    <3>1. main \in [pc : MainPcs, walked : 0 .. JOBS, i : 0 .. Len(BootEntities), gen : Nat]
      BY DEF FileCopyInv, MainFacts
    <3> QED BY <1>0, <2>1, <3>1 DEF WakeWalker, MainInPlace, MainInOrder
  <2>5. FirstThreads'
    BY <1>0, <2>1, <2>3 DEF FirstThreads, MutexFree
  <2>6. JobsAccounted'
    <3> SUFFICES ASSUME NEW job \in 1 .. main.walked
                 PROVE  \/ \E i \in DOMAIN jobs' : jobs'[i] = job
                        \/ job \in copied'
                        \/ \E w \in Copying' : threads'[w][1].job = job
      BY <2>4 DEF JobsAccounted, MainInPlace
    <3>1. CASE job \in copied
      BY <2>1, <3>1
    <3>2. ASSUME NEW w \in Copying, threads[w][1].job = job
          PROVE  \E v \in Copying' : threads'[v][1].job = job
      <4>1. w \in Workers /\ w # id
        BY <2>1, <3>2 DEF Copying
      <4>2. threads'[w][1] = threads[w][1]
        BY <2>3, <4>1
      <4> QED BY <3>2, <4>1, <4>2 DEF Copying
    <3>3. ASSUME NEW i \in DOMAIN jobs, jobs[i] = job
          PROVE  \/ \E k \in DOMAIN jobs' : jobs'[k] = job
                 \/ \E v \in Copying' : threads'[v][1].job = job
      <4>1. CASE i = 1
        BY <2>3, <3>3, <4>1 DEF Copying
      <4>2. CASE i # 1
        <5>1. i - 1 \in DOMAIN Tail(jobs) /\ Tail(jobs)[i - 1] = jobs[i]
          BY <1>0, <2>1, <4>2
        <5> QED BY <2>1, <3>3, <5>1
      <4> QED BY <4>1, <4>2
    <3> QED BY <1>0, <3>1, <3>2, <3>3 DEF JobsAccounted
  <2>7. MainInOrder'
    BY <1>0, <2>1, <2>3, <2>4 DEF MainInOrder, MainInPlace
  <2> QED BY <2>5, <2>6, <2>7 DEF ProgramClean
<1>8. CASE job_queue_pop(id, g) /\ pop_leave(id, g)
  <2> DEFINE tt == Move(threads, id, g, "exit")
  <2>1. /\ jobs = <<>> /\ producer_done /\ threads' = WakeAll(tt) /\ threads[id][1].pc = "pop"
        /\ UNCHANGED <<jobs, main, copied, producer_done, active, g_fdir_mutex>>
    BY <1>1, <1>8 DEF job_queue_pop, pop_leave, At, Move
  <2>2. DiffersAt(threads, tt, id, g, [threads[id][g] EXCEPT !.pc = "exit"])
    <3>1. "exit" \in ThreadPcs \ {"copy"}
      BY DEF ThreadPcs
    <3> QED BY <1>0, <3>1, Placed
  <2> HIDE DEF tt
  <2>3. tt \in ThreadTable /\ SameThreads(threads, tt) /\ Woken(tt, threads')
    BY <2>1, <2>2, WakeAllWakes DEF DiffersAt
  <2>4. \A w \in Workers : IF w = id THEN tt[w][1].pc = "exit" ELSE tt[w][1] = threads[w][1]
    <3>1. [threads[id][g] EXCEPT !.pc = "exit"].pc = "exit"
      BY <1>0 DEF Thread
    <3>2. ASSUME NEW w \in Workers PROVE 1 \in DOMAIN threads[w]
      <4>1. threads[w] \in Seq(Thread) /\ Len(threads[w]) = 1
        BY <1>0, <1>1 DEF ThreadTable
      <4> QED BY <4>1
    <3> QED BY <1>1, <2>2, <3>1, <3>2 DEF DiffersAt
  <2>5. \A w \in Workers :
          /\ Len(threads'[w]) = 1
          /\ IF w = id THEN threads'[w][1].pc = "exit"
             ELSE \/ threads'[w][1] = threads[w][1]
                  \/ threads'[w][1].pc = "pop" /\ threads[w][1].pc = "wait"
    <3>1. \A w \in Workers :
            /\ Len(threads'[w]) = 1
            /\ \/ threads'[w][1] = tt[w][1]
               \/ threads'[w][1].pc = "pop" /\ tt[w][1].pc = "wait"
      BY <1>0, <2>3, FirstAfterWake
    <3> QED BY <2>4, <3>1
  <2>6. FirstThreads'
    BY <1>0, <2>1, <2>5 DEF FirstThreads, MutexFree
  <2>7. JobsAccounted'
    <3>1. \A w \in Copying : w \in Copying' /\ threads'[w][1] = threads[w][1]
      BY <2>1, <2>5 DEF Copying
    <3> QED BY <1>0, <2>1, <3>1 DEF JobsAccounted
  <2>8. MainInOrder'
    BY <1>0, <2>1, <2>5 DEF MainInOrder
  <2> QED BY <2>6, <2>7, <2>8 DEF ProgramClean
<1>9. CASE job_queue_pop(id, g)
  BY <1>3, <1>7, <1>8, <1>9 DEF job_queue_pop
<1> QED BY <1>3, <1>4, <1>5, <1>6, <1>9 DEF worker_thread

\* So do those of main: it passes a worker only when its thread has ended.
LEMMA MainClean ==
  ASSUME FileCopyInv, ProgramClean, MainThread PROVE ProgramClean'
<1>0. /\ FirstThreads /\ JobsAccounted /\ MainInOrder /\ threads \in ThreadTable
      /\ main \in [pc : MainPcs, walked : 0 .. JOBS, i : 0 .. Len(BootEntities), gen : Nat]
      /\ jobs \in Seq(1 .. JOBS)
      /\ UNCHANGED <<active, g_fdir_mutex, copied>>
      /\ Len(BootEntities) \in Nat
  BY WorkersAreIds DEF ProgramClean, FileCopyInv, ProgramType, MainFacts, MainThread, MainOnly,
     walk_cb, MainWalkEnds, worker_wait_all, MainJoinReturns, MainStops, MainExits
<1>1. ASSUME Woken(threads, threads')
      PROVE  \A w \in Workers :
               /\ Len(threads'[w]) = 1
               /\ \/ threads'[w][1] = threads[w][1]
                  \/ threads'[w][1].pc = "pop" /\ threads[w][1].pc = "wait"
  <2>1. SameThreads(threads, threads)
    BY DEF SameThreads
  <2> QED BY <1>0, <1>1, <2>1, FirstAfterWake
<1>2. CASE walk_cb
  <2>0. main.pc = "walk" /\ UNCHANGED producer_done
    BY <1>2 DEF walk_cb
  <2>1. CASE /\ jobs' = Append(jobs, main.walked + 1)
             /\ threads' \in WakeOne(threads)
             /\ main' = [main EXCEPT !.walked = main.walked + 1]
    <3>1. \A w \in Workers :
            /\ Len(threads'[w]) = 1
            /\ \/ threads'[w][1] = threads[w][1]
               \/ threads'[w][1].pc = "pop" /\ threads[w][1].pc = "wait"
      BY <1>0, <1>1, <2>1, WakeOneWakes
    <3>2. ~producer_done
      BY <1>0, <2>0 DEF MainInOrder
    <3>3. FirstThreads'
      BY <1>0, <2>0, <3>1, <3>2 DEF FirstThreads, MutexFree
    <3>4. main'.walked = main.walked + 1 /\ main'.i = main.i /\ main'.pc = main.pc
      BY <1>0, <2>1
    <3>5. MainInOrder'
      BY <1>0, <2>0, <3>1, <3>2, <3>4 DEF MainInOrder
    <3>6. ASSUME NEW job \in 1 .. main'.walked
          PROVE  \/ \E i \in DOMAIN jobs' : jobs'[i] = job
                 \/ job \in copied'
                 \/ \E w \in Copying' : threads'[w][1].job = job
      <4>0. \A i \in DOMAIN jobs : i \in DOMAIN jobs' /\ jobs'[i] = jobs[i]
        BY <1>0, <2>1
      <4>1. CASE job = main.walked + 1
        <5>1. Len(jobs) + 1 \in DOMAIN jobs' /\ jobs'[Len(jobs) + 1] = job
          BY <1>0, <2>1, <4>1
        <5> QED BY <5>1
      <4>2. CASE job # main.walked + 1
        <5>1. job \in 1 .. main.walked
          BY <1>0, <3>4, <4>2
        <5>2. \A w \in Copying : w \in Copying' /\ threads'[w][1] = threads[w][1]
          BY <3>1 DEF Copying
        <5>3. \/ \E i \in DOMAIN jobs : jobs[i] = job
              \/ job \in copied
              \/ \E w \in Copying : threads[w][1].job = job
          BY <1>0, <5>1 DEF JobsAccounted
        <5> QED BY <1>0, <4>0, <5>2, <5>3
      <4> QED BY <4>1, <4>2
    <3> QED BY <3>3, <3>5, <3>6 DEF ProgramClean, JobsAccounted
  <2>2. CASE /\ main' = [main EXCEPT !.pc = "full"]
             /\ UNCHANGED <<jobs, threads>>
    <3>1. OnlyLooping
      BY <1>0, <2>2 DEF OnlyLooping, FirstThreads
    <3>2. MainInPlace
      BY <1>0, <2>0, <2>2 DEF MainInPlace
    <3> QED BY <1>0, <2>0, <2>2, <3>1, <3>2, QuietProgram
  <2> QED BY <1>2, <2>1, <2>2 DEF walk_cb, job_queue_push
<1>3. CASE MainWalkEnds
  <2>1. /\ main.pc = "walk" /\ main.walked = JOBS /\ producer_done' = TRUE
        /\ threads' = WakeAll(threads) /\ jobs' = jobs
        /\ main' = [main EXCEPT !.pc = "wait_all"]
    BY <1>3 DEF MainWalkEnds, job_queue_finish
  <2>2. \A w \in Workers :
          /\ Len(threads'[w]) = 1
          /\ \/ threads'[w][1] = threads[w][1]
             \/ threads'[w][1].pc = "pop" /\ threads[w][1].pc = "wait"
    BY <1>0, <1>1, <2>1, WakeAllWakes
  <2>3. main'.walked = JOBS /\ main'.i = main.i /\ main'.pc = "wait_all"
    BY <1>0, <2>1
  <2>4. FirstThreads'
    BY <1>0, <2>1, <2>2 DEF FirstThreads, MutexFree
  <2>5. MainInOrder'
    BY <1>0, <2>1, <2>2, <2>3 DEF MainInOrder
  <2>6. JobsAccounted'
    <3>1. \A w \in Copying : w \in Copying' /\ threads'[w][1] = threads[w][1]
      BY <2>2 DEF Copying
    <3>2. UNCHANGED <<jobs, copied>> /\ main'.walked = main.walked
      BY <1>0, <2>1, <2>3
    <3> QED BY <1>0, <3>1, <3>2 DEF JobsAccounted
  <2> QED BY <2>4, <2>5, <2>6 DEF ProgramClean
<1>4. ASSUME \A w \in Workers :
               /\ Len(threads'[w]) = 1
               /\ \/ threads'[w][1] = threads[w][1]
                  \/ threads'[w][1].pc = "joined" /\ threads[w][1].pc = "exited",
             main'.walked = main.walked, main'.i = main.i + 1, main'.pc = "wait_all",
             main.pc \in {"wait_all", "join"}, main.i \in Workers,
             threads[main.i][1].pc \in {"exited", "joined"}, UNCHANGED <<jobs, producer_done>>
      PROVE  ProgramClean'
  <2>1. FirstThreads'
    BY <1>0, <1>4 DEF FirstThreads, MutexFree
  <2>2. MainInOrder'
    <3>1. ASSUME NEW w \in Workers, w < main'.i PROVE threads[w][1].pc \in {"exited", "joined"}
      <4>1. w < main.i \/ w = main.i
        BY <1>0, <1>4, <3>1 DEF Workers
      <4> QED BY <1>0, <1>4, <4>1 DEF MainInOrder
    <3> QED BY <1>0, <1>4, <3>1 DEF MainInOrder
  <2>3. JobsAccounted'
    <3>1. \A w \in Copying : w \in Copying' /\ threads'[w][1] = threads[w][1]
      BY <1>4 DEF Copying
    <3> QED BY <1>0, <1>4, <3>1 DEF JobsAccounted
  <2> QED BY <2>1, <2>2, <2>3 DEF ProgramClean
<1>5. CASE worker_wait_all
  <2> DEFINE g == Len(threads[main.i])
  <2>1. /\ UNCHANGED <<threads, jobs, producer_done>> /\ main.i \in Workers /\ main.pc = "wait_all"
    BY <1>5 DEF worker_wait_all
  <2>2. OnlyLooping /\ g = 1 /\ ~SupervisorJoins(main.i, g)
    BY <1>0, <2>1 DEF OnlyLooping, FirstThreads, SupervisorJoins
  <2>3. CASE active[main.i] /\ ~At(main.i, g, "joined")
    <3>1. main' = [main EXCEPT !.pc = "join", !.gen = g]
      BY <1>5, <2>2, <2>3 DEF worker_wait_all
    <3>2. MainInPlace
      BY <1>0, <2>1, <3>1 DEF MainInPlace
    <3> QED BY <1>0, <2>1, <2>2, <3>2, QuietProgram
  <2>4. CASE ~active[main.i] \/ At(main.i, g, "joined")
    <3>1. main' = [main EXCEPT !.i = main.i + 1]
      BY <1>5, <2>2, <2>4 DEF worker_wait_all
    <3>2. threads[main.i][1].pc \in {"exited", "joined"}
      BY <1>0, <2>1, <2>2, <2>4 DEF FirstThreads, At
    <3>3. main'.walked = main.walked /\ main'.i = main.i + 1 /\ main'.pc = "wait_all"
      BY <1>0, <2>1, <3>1
    <3>4. \A w \in Workers : Len(threads'[w]) = 1 /\ threads'[w][1] = threads[w][1]
      BY <1>0, <2>1 DEF FirstThreads
    <3> QED BY <1>4, <2>1, <3>2, <3>3, <3>4
  <2> QED BY <2>3, <2>4
<1>6. CASE MainJoinReturns
  <2>1. /\ threads' = Move(threads, main.i, main.gen, "joined") /\ main.pc = "join"
        /\ main' = [main EXCEPT !.pc = "wait_all", !.i = main.i + 1, !.gen = 0]
        /\ UNCHANGED <<jobs, producer_done>>
        /\ threads[main.i][main.gen].pc = "exited"
    BY <1>6 DEF MainJoinReturns, Step, At, Move
  <2>2. main.i \in Workers /\ main.gen \in DOMAIN threads[main.i]
    BY <2>1 DEF FileCopyInv, MainFacts
  <2> DEFINE x == [threads[main.i][main.gen] EXCEPT !.pc = "joined"]
  <2>3. DiffersAt(threads, threads', main.i, main.gen, x)
    <3>1. "joined" \in ThreadPcs \ {"copy"}
      BY DEF ThreadPcs
    <3> QED BY <1>0, <2>1, <2>2, <3>1, Placed
  <2>4. x.pc = "joined"
    <3>1. threads[main.i][main.gen] \in Thread
      BY <1>0, <2>2, ThreadOf
    <3> QED BY <3>1 DEF Thread
  <2> HIDE DEF x
  <2>5. /\ main.gen = 1
        /\ \A w \in Workers : /\ Len(threads'[w]) = 1
                              /\ threads'[w][1] = IF w = main.i THEN x ELSE threads[w][1]
    BY <1>0, <2>2, <2>3, FirstAfterPut
  <2>6. main'.walked = main.walked /\ main'.i = main.i + 1 /\ main'.pc = "wait_all"
    BY <1>0, <2>1
  <2>7. \A w \in Workers :
          /\ Len(threads'[w]) = 1
          /\ \/ threads'[w][1] = threads[w][1]
             \/ threads'[w][1].pc = "joined" /\ threads[w][1].pc = "exited"
    BY <2>1, <2>4, <2>5
  <2>8. threads[main.i][1].pc \in {"exited", "joined"}
    BY <2>1, <2>5
  <2> QED BY <1>4, <2>1, <2>2, <2>6, <2>7, <2>8
<1>7. CASE MainStops \/ MainExits
  <2>1. UNCHANGED <<threads, jobs, producer_done>>
    BY <1>7 DEF MainStops, MainExits
  <2>2. OnlyLooping
    BY <1>0, <2>1 DEF OnlyLooping, FirstThreads
  <2>3. MainInPlace
    <3>1. CASE MainStops
      <4>1. main.i = Len(BootEntities)
        BY <1>0, <3>1 DEF MainStops, Workers
      <4> QED BY <1>0, <3>1, <4>1 DEF MainStops, MainInPlace
    <3>2. CASE MainExits
      BY <1>0, <3>2 DEF MainExits, MainInPlace, MainInOrder
    <3> QED BY <1>7, <3>1, <3>2
  <2> QED BY <1>0, <2>1, <2>2, <2>3, QuietProgram
<1> QED BY <1>2, <1>3, <1>5, <1>6, <1>7 DEF MainThread

\* A step without failed copy and without restart leaves the program clean, as long as
\* the mode tells the supervisor to go on.
LEMMA ProgramStaysClean ==
  ASSUME FileCopyInv, ProgramClean, [FileCopyNext \/ TimePasses]_fcVars, failed' = {},
         ~RestartCall, ~worker_restart_cb, g_mode = FDIR_MODE_NOMINAL
  PROVE  ProgramClean'
<1>0. ProgramClean /\ FirstThreads /\ MainInOrder
  BY DEF ProgramClean
<1>2. ASSUME UNCHANGED <<jobs, producer_done, copied, active, g_fdir_mutex, main, threads>>
      PROVE  ProgramClean'
  BY <1>0, <1>2, QuietProgram DEF OnlyLooping, MainInPlace, FirstThreads, MainInOrder
<1>3. CASE UNCHANGED fcVars
  BY <1>2, <1>3 DEF fcVars
<1>4. CASE supervisor_thread
  <2>1. ~(g_mode >= FDIR_MODE_SAFE)
    BY DEF FDIR_MODE_NOMINAL, FDIR_MODE_SAFE
  <2> QED BY <1>2, <1>4, <2>1 DEF supervisor_thread, SupervisorTick, SupervisorStep,
         SupervisorReadMode, SupervisorEnd, SupervisorOnly
<1>5. CASE SpuriousWakeup
  <2>1. UNCHANGED <<active, copied, jobs, producer_done, g_fdir_mutex>>
    BY <1>5 DEF SpuriousWakeup, MainOnly
  <2>2. CASE main' = WakeWalker /\ UNCHANGED threads
    <3>1. main \in [pc : MainPcs, walked : 0 .. JOBS, i : 0 .. Len(BootEntities), gen : Nat]
      BY DEF FileCopyInv, MainFacts
    <3>2. MainInPlace
      BY <1>0, <2>2, <3>1 DEF WakeWalker, MainInPlace, MainInOrder
    <3> QED BY <1>0, <2>1, <2>2, <3>2, QuietProgram DEF OnlyLooping, FirstThreads
  <2>3. ASSUME NEW id \in Workers, NEW g \in DOMAIN threads[id],
               Step(id, g, "wait", "pop"), UNCHANGED main
        PROVE  ProgramClean'
    <3>1. /\ threads' = Move(threads, id, g, "pop") /\ "pop" \in ThreadPcs \ {"copy"}
          /\ threads[id][g].pc = "wait" /\ threads \in ThreadTable
      BY <2>3 DEF Step, At, Move, ThreadPcs, FileCopyInv
    <3> DEFINE x == [threads[id][g] EXCEPT !.pc = "pop"]
    <3>2. DiffersAt(threads, threads', id, g, x)
      BY <2>3, <3>1, Placed
    <3>3. x.pc = "pop"
      <4>1. threads[id][g] \in Thread
        BY <2>3, <3>1, ThreadOf
      <4> QED BY <4>1 DEF Thread
    <3> HIDE DEF x
    <3>4. /\ g = 1
          /\ \A w \in Workers : /\ Len(threads'[w]) = 1
                                /\ threads'[w][1] = IF w = id THEN x ELSE threads[w][1]
      BY <1>0, <2>3, <3>2, FirstAfterPut
    <3>5. OnlyLooping
      BY <3>1, <3>3, <3>4 DEF OnlyLooping, Looping
    <3>6. MainInPlace
      BY <1>0, <2>3 DEF MainInPlace, MainInOrder
    <3> QED BY <1>0, <2>1, <3>5, <3>6, QuietProgram
  <2> QED BY <1>5, <2>2, <2>3 DEF SpuriousWakeup
<1>6. ASSUME NEW id \in Workers, WorkerThreads(id) PROVE ProgramClean'
  <2>1. PICK g \in DOMAIN threads[id] : worker_thread(id, g)
    BY <1>6 DEF WorkerThreads
  <2> QED BY <1>0, <2>1, WorkerClean
<1>7. CASE MainThread
  BY <1>0, <1>7, MainClean
<1>8. CASE TimePasses
  BY <1>2, <1>8 DEF TimePasses, SupervisorOnly
<1> QED BY <1>3, <1>4, <1>5, <1>6, <1>7, <1>8 DEF FileCopyNext

\* Every step of a clean run that does not fail a copy leaves it clean.
LEMMA CleanStep ==
  ASSUME FileCopyInv, CleanInv, [FileCopyNext]_fcVars PROVE CleanInv'
<1> SUFFICES ASSUME failed' = {} PROVE LibraryIdle' /\ ProgramClean'
  BY DEF CleanInv
<1>0. LibraryIdle /\ ProgramClean /\ FirstThreads
  BY FailuresStay DEF CleanInv, ProgramClean
<1>1. LibraryIdle'
  BY <1>0, LibraryStaysIdle
<1>2. ~RestartCall /\ ~worker_restart_cb /\ g_mode = FDIR_MODE_NOMINAL
  BY <1>0 DEF RestartCall, RestartDue, worker_restart_cb, LibraryIdle, FirstThreads
<1> QED BY <1>0, <1>1, <1>2, ProgramStaysClean

\* The run starts clean.
LEMMA CleanStart == FileCopyInit => CleanInv
<1> SUFFICES ASSUME FileCopyInit PROVE LibraryIdle /\ ProgramClean
  BY DEF CleanInv
<1>1. LibraryIdle
  BY DEF FileCopyInit, Init, PortInit, Queue!QueueInit, LibraryIdle
<1>2. \A id \in Workers : Len(threads[id]) = 1 /\ threads[id][1].pc = "mode"
  BY DEF FileCopyInit, NewThread
<1>3. FirstThreads
  BY <1>2 DEF FileCopyInit, FirstThreads, MutexFree
<1>4. JobsAccounted
  BY DEF FileCopyInit, JobsAccounted
<1>5. MainInOrder
  BY DEF FileCopyInit, MainInOrder, Workers
<1> QED BY <1>1, <1>3, <1>4, <1>5 DEF ProgramClean

\* A run that ends before a watchdog can fire, with at least one worker (main.c checks
\* this) and no failed copy, has copied every file of the walk when the process exits,
\* however walker, workers and supervisor interleave and whichever of the sleeping
\* threads a signal wakes.
THEOREM CleanRunSafe == Len(BootEntities) > 0 /\ FileCopySpec => []CleanRunCopiesAll
<1> SUFFICES ASSUME Len(BootEntities) > 0 PROVE FileCopySpec => []CleanRunCopiesAll
  OBVIOUS
<1>1. FileCopyInv /\ CleanInv => CleanRunCopiesAll
  BY CleanIsComplete DEF CleanInv
<1>2. FileCopyInv /\ [FileCopyNext]_fcVars => FileCopyInv'
  BY FileCopyStep
<1>3. FileCopyInv /\ CleanInv /\ [FileCopyNext]_fcVars => CleanInv'
  BY CleanStep
<1> QED BY <1>1, <1>2, <1>3, FileCopyStarts, CleanStart, PTL DEF FileCopySpec

-----------------------------------------------------------------------------
(***************************************************************************)
(* Where the files are.  The walk numbers them and the queue keeps them in  *)
(* order, so that the queue holds the last of the files found and the       *)
(* workers have had the others.                                             *)
(***************************************************************************)
HandedOut == main.walked - Len(jobs)

\* The inductive invariant.
FilesInv ==
  /\ Len(jobs) <= main.walked
  /\ \A i \in DOMAIN jobs : jobs[i] = HandedOut + i
  /\ Held \cup copied \cup failed = 1 .. HandedOut
  /\ Held \cap (copied \cup failed) = {} /\ copied \cap failed = {}
  /\ SoleCopier

\* The files of a queue in order, above the ones that were handed out.
LEMMA FilesInOrder ==
  ASSUME FileCopyInv, FilesInv PROVE EachFileOnce
<1>0. /\ jobs \in Seq(1 .. JOBS) /\ Len(jobs) \in Nat /\ DOMAIN jobs = 1 .. Len(jobs)
      /\ main.walked \in Nat /\ HandedOut \in Nat /\ main.walked = HandedOut + Len(jobs)
  BY WorkersAreIds DEF FileCopyInv, ProgramType, MainFacts, FilesInv, HandedOut
<1>1. Queued = HandedOut + 1 .. main.walked
  <2>1. ASSUME NEW job \in HandedOut + 1 .. main.walked PROVE job \in Queued
    <3>1. job - HandedOut \in DOMAIN jobs /\ jobs[job - HandedOut] = job
      BY <1>0 DEF FilesInv
    <3> QED BY <3>1 DEF Queued
  <2>2. ASSUME NEW job \in Queued PROVE job \in HandedOut + 1 .. main.walked
    BY <1>0 DEF Queued, FilesInv
  <2> QED BY <2>1, <2>2
<1>2. /\ (HandedOut + 1 .. main.walked) \cup (1 .. HandedOut) = 1 .. main.walked
      /\ (HandedOut + 1 .. main.walked) \cap (1 .. HandedOut) = {}
  BY <1>0
<1>3. ASSUME NEW i \in DOMAIN jobs, NEW j \in DOMAIN jobs, jobs[i] = jobs[j] PROVE i = j
  BY <1>0, <1>3 DEF FilesInv
<1> QED BY <1>1, <1>2, <1>3 DEF FilesInv, EachFileOnce

\* The threads that copy are the same in both tables.
CopiersKept(tt, new) ==
  \A id \in Workers :
    /\ DOMAIN tt[id] \subseteq DOMAIN new[id]
    /\ \A k \in DOMAIN tt[id] :
         tt[id][k].pc = "copy" \/ new[id][k].pc = "copy" => new[id][k] = tt[id][k]
    /\ \A k \in DOMAIN new[id] \ DOMAIN tt[id] : new[id][k].pc # "copy"

\* They hold the same files.
LEMMA HeldKept ==
  ASSUME CopiersKept(threads, threads') PROVE Held' = Held /\ (SoleCopier => SoleCopier')
<1>1. ASSUME NEW id \in Workers, NEW k \in DOMAIN threads'[id], threads'[id][k].pc = "copy"
      PROVE  k \in DOMAIN threads[id] /\ threads'[id][k] = threads[id][k]
  BY <1>1 DEF CopiersKept
<1>2. ASSUME NEW id \in Workers, NEW k \in DOMAIN threads[id], threads[id][k].pc = "copy"
      PROVE  k \in DOMAIN threads'[id] /\ threads'[id][k] = threads[id][k]
  BY <1>2 DEF CopiersKept
<1>3. Held' \subseteq Held
  BY <1>1 DEF Held, Copies
<1>4. Held \subseteq Held'
  BY <1>2 DEF Held, Copies
<1>5. ASSUME SoleCopier PROVE SoleCopier'
  <2> SUFFICES ASSUME NEW id \in Workers, NEW other \in Workers,
                      NEW g \in DOMAIN threads'[id], NEW k \in DOMAIN threads'[other],
                      threads'[id][g].pc = "copy", threads'[other][k].pc = "copy",
                      threads'[id][g].job = threads'[other][k].job
               PROVE  id = other /\ g = k
    BY DEF SoleCopier, Copies
  <2>1. g \in DOMAIN threads[id] /\ threads'[id][g] = threads[id][g]
    BY <1>1
  <2>2. k \in DOMAIN threads[other] /\ threads'[other][k] = threads[other][k]
    BY <1>1
  <2> QED BY <1>5, <2>1, <2>2 DEF SoleCopier, Copies
<1> QED BY <1>3, <1>4, <1>5

\* A step that moves no file keeps the invariant.
LEMMA FilesKept ==
  ASSUME FilesInv, CopiersKept(threads, threads'), UNCHANGED <<jobs, copied, failed>>,
         main'.walked = main.walked
  PROVE  FilesInv'
BY HeldKept DEF FilesInv, HandedOut

\* A thread that moves from one place to another and copies in neither.
LEMMA MoverKeeps ==
  ASSUME NEW tt, NEW new, NEW id \in Workers, NEW g \in DOMAIN tt[id], NEW x,
         DiffersAt(tt, new, id, g, x), tt[id][g].pc # "copy", x.pc # "copy"
  PROVE  CopiersKept(tt, new)
BY DEF DiffersAt, SameThreads, CopiersKept

\* A thread that wakes up.
LEMMA WakerKeeps ==
  ASSUME NEW tt \in ThreadTable, NEW new, Woken(tt, new) PROVE CopiersKept(tt, new)
<1> SUFFICES ASSUME NEW id \in Workers, NEW k \in DOMAIN tt[id],
                    tt[id][k].pc = "copy" \/ new[id][k].pc = "copy"
             PROVE  new[id][k] = tt[id][k]
  BY DEF Woken, SameThreads, CopiersKept
<1>1. tt[id][k] \in Thread
  BY ThreadOf
<1>2. [tt[id][k] EXCEPT !.pc = "pop"].pc = "pop"
  BY <1>1 DEF Thread
<1> QED BY <1>2 DEF Woken

\* One step after the other.
LEMMA KeepersCompose ==
  ASSUME NEW a, NEW b, NEW c, CopiersKept(a, b), CopiersKept(b, c) PROVE CopiersKept(a, c)
<1> SUFFICES ASSUME NEW id \in Workers
             PROVE  /\ DOMAIN a[id] \subseteq DOMAIN c[id]
                    /\ \A k \in DOMAIN a[id] :
                         a[id][k].pc = "copy" \/ c[id][k].pc = "copy" => c[id][k] = a[id][k]
                    /\ \A k \in DOMAIN c[id] \ DOMAIN a[id] : c[id][k].pc # "copy"
  BY DEF CopiersKept
<1>1. DOMAIN a[id] \subseteq DOMAIN b[id] /\ DOMAIN b[id] \subseteq DOMAIN c[id]
  BY DEF CopiersKept
<1>2. ASSUME NEW k \in DOMAIN a[id], a[id][k].pc = "copy" \/ c[id][k].pc = "copy"
      PROVE  c[id][k] = a[id][k]
  BY <1>1, <1>2 DEF CopiersKept
<1>3. ASSUME NEW k \in DOMAIN c[id] \ DOMAIN a[id], c[id][k].pc = "copy" PROVE FALSE
  <2>1. k \in DOMAIN b[id] /\ b[id][k].pc = "copy"
    BY <1>3 DEF CopiersKept
  <2> QED BY <1>3, <2>1 DEF CopiersKept
<1> QED BY <1>1, <1>2, <1>3

\* A thread leaves a place in its loop, or its loop, without a file.
LEMMA MoveKeeps ==
  ASSUME NEW tt \in ThreadTable, NEW id \in Workers, NEW g \in DOMAIN tt[id],
         NEW to \in ThreadPcs \ {"copy"}, tt[id][g].pc # "copy"
  PROVE  CopiersKept(tt, Move(tt, id, g, to)) /\ Move(tt, id, g, to) \in ThreadTable
<1>1. DiffersAt(tt, Move(tt, id, g, to), id, g, [tt[id][g] EXCEPT !.pc = to])
  BY Placed
<1>2. [tt[id][g] EXCEPT !.pc = to].pc # "copy"
  <2>1. tt[id][g] \in Thread
    BY ThreadOf
  <2> QED BY <2>1 DEF Thread
<1>3. CopiersKept(tt, Move(tt, id, g, to))
  BY <1>1, <1>2, MoverKeeps
<1> QED BY <1>1, <1>3 DEF DiffersAt

\* The files in the hands of the threads after one of them has changed from x to y.
LEMMA HandedOver ==
  ASSUME FileCopyInv, SoleCopier, NEW id \in Workers, NEW g \in DOMAIN threads[id],
         NEW y \in Thread, threads' = Put(threads, id, g, y)
  PROVE  /\ \A job \in 1 .. JOBS :
              job \in Held' <=> \/ y.pc = "copy" /\ y.job = job
                                \/ job \in Held /\ ~(Copies(id, g) /\ threads[id][g].job = job)
         /\ (y.pc = "copy" => y.job \notin Held) => SoleCopier'
<1>0. threads \in ThreadTable
  BY DEF FileCopyInv
<1>1. DiffersAt(threads, threads', id, g, y)
  BY <1>0, Replaced
<1>2. \A w \in Workers : /\ DOMAIN threads'[w] = DOMAIN threads[w]
                         /\ \A k \in DOMAIN threads[w] :
                              threads'[w][k] = IF w = id /\ k = g THEN y ELSE threads[w][k]
  BY <1>1 DEF DiffersAt, SameThreads
<1>3. ASSUME NEW job \in 1 .. JOBS, job \in Held'
      PROVE  \/ y.pc = "copy" /\ y.job = job
             \/ job \in Held /\ ~(Copies(id, g) /\ threads[id][g].job = job)
  <2>1. PICK w \in Workers : \E k \in DOMAIN threads'[w] :
               threads'[w][k].pc = "copy" /\ threads'[w][k].job = job
    BY <1>3 DEF Held, Copies
  <2>2. PICK k \in DOMAIN threads[w] : threads'[w][k].pc = "copy" /\ threads'[w][k].job = job
    BY <1>2, <2>1
  <2>3. CASE w = id /\ k = g
    BY <1>2, <2>2, <2>3
  <2>4. CASE ~(w = id /\ k = g)
    <3>1. Copies(w, k) /\ threads[w][k].job = job
      BY <1>2, <2>2, <2>4 DEF Copies
    <3> QED BY <2>4, <3>1 DEF Held, SoleCopier
  <2> QED BY <2>3, <2>4
<1>4. ASSUME NEW job \in 1 .. JOBS,
             \/ y.pc = "copy" /\ y.job = job
             \/ job \in Held /\ ~(Copies(id, g) /\ threads[id][g].job = job)
      PROVE  job \in Held'
  <2> SUFFICES \E w \in Workers : \E k \in DOMAIN threads[w] :
                 threads'[w][k].pc = "copy" /\ threads'[w][k].job = job
    BY <1>2 DEF Held, Copies
  <2>1. CASE y.pc = "copy" /\ y.job = job
    BY <1>2, <2>1
  <2>2. CASE job \in Held /\ ~(Copies(id, g) /\ threads[id][g].job = job)
    <3>1. PICK w \in Workers : \E k \in DOMAIN threads[w] : Copies(w, k) /\ threads[w][k].job = job
      BY <2>2 DEF Held
    <3>2. PICK k \in DOMAIN threads[w] : Copies(w, k) /\ threads[w][k].job = job
      BY <3>1
    <3>3. ~(w = id /\ k = g)
      BY <2>2, <3>2
    <3> QED BY <1>2, <3>2, <3>3 DEF Copies
  <2> QED BY <1>4, <2>1, <2>2
<1>5. ASSUME y.pc = "copy" => y.job \notin Held PROVE SoleCopier'
  <2> SUFFICES ASSUME NEW v \in Workers, NEW w \in Workers,
                      NEW j \in DOMAIN threads[v], NEW k \in DOMAIN threads[w],
                      threads'[v][j].pc = "copy", threads'[w][k].pc = "copy",
                      threads'[v][j].job = threads'[w][k].job
               PROVE  v = w /\ j = k
    BY <1>2 DEF SoleCopier, Copies
  <2>0. ASSUME NEW a \in Workers, NEW b \in DOMAIN threads[a], Copies(a, b)
        PROVE  threads[a][b].job \in Held
    <3>1. threads[a][b] \in Thread
      BY <1>0, ThreadOf
    <3>2. threads[a][b].job \in 1 .. JOBS
      BY <2>0, <3>1, WorkersAreIds DEF Thread, Copies, NO_JOB
    <3> QED BY <2>0, <3>2 DEF Held
  <2>1. CASE v = id /\ j = g
    <3>1. CASE w = id /\ k = g
      BY <2>1, <3>1
    <3>2. CASE ~(w = id /\ k = g)
      <4>1. Copies(w, k) /\ threads[w][k].job = y.job /\ y.pc = "copy"
        BY <1>2, <2>1, <3>2 DEF Copies
      <4> QED BY <1>5, <2>0, <4>1
    <3> QED BY <3>1, <3>2
  <2>2. CASE ~(v = id /\ j = g)
    <3>0. Copies(v, j) /\ threads'[v][j] = threads[v][j]
      BY <1>2, <2>2 DEF Copies
    <3>1. CASE w = id /\ k = g
      <4>1. threads[v][j].job = y.job /\ y.pc = "copy"
        BY <1>2, <3>0, <3>1
      <4> QED BY <1>5, <2>0, <3>0, <4>1
    <3>2. CASE ~(w = id /\ k = g)
      <4>1. Copies(w, k) /\ threads'[w][k] = threads[w][k]
        BY <1>2, <3>2 DEF Copies
      <4> QED BY <3>0, <4>1 DEF SoleCopier
    <3> QED BY <3>1, <3>2
  <2> QED BY <2>1, <2>2
<1> QED BY <1>3, <1>4, <1>5

\* pop_take hands out the first file of the queue, which nobody has had before.
LEMMA TakeKeepsFiles ==
  ASSUME FileCopyInv, FilesInv, NEW id \in Workers, NEW g \in DOMAIN threads[id],
         job_queue_pop(id, g), pop_take(id, g)
  PROVE  FilesInv'
<1> DEFINE y == [pc |-> "copy", job |-> Head(jobs)]
           n == HandedOut
<1>0. /\ jobs \in Seq(1 .. JOBS) /\ Len(jobs) \in Nat /\ DOMAIN jobs = 1 .. Len(jobs)
      /\ main.walked \in Nat /\ n \in Nat /\ JOBS \in Nat
      /\ main \in [pc : MainPcs, walked : 0 .. JOBS, i : 0 .. Len(BootEntities), gen : Nat]
  BY WorkersAreIds DEF FileCopyInv, ProgramType, MainFacts, FilesInv, HandedOut
<1>1. /\ jobs # <<>> /\ jobs' = Tail(jobs) /\ threads' = Put(threads, id, g, y)
      /\ main' = WakeWalker /\ threads[id][g].pc = "pop" /\ UNCHANGED <<copied, failed>>
  BY DEF pop_take, job_queue_pop, At, Put
<1>2. main'.walked = main.walked
  BY <1>0, <1>1 DEF WakeWalker
<1>3. Head(jobs) = n + 1 /\ Head(jobs) \in 1 .. JOBS
  <2>1. 1 \in DOMAIN jobs /\ Head(jobs) = jobs[1] /\ jobs[1] \in 1 .. JOBS
    BY <1>0, <1>1
  <2> QED BY <2>1 DEF FilesInv
<1>4. y \in Thread
  BY <1>0, <1>3 DEF Thread, ThreadPcs, NO_JOB
<1>5. Len(jobs') = Len(jobs) - 1 /\ HandedOut' = n + 1
  <2>1. Len(jobs') = Len(jobs) - 1
    BY <1>0, <1>1
  <2> QED BY <1>0, <1>2, <2>1 DEF HandedOut
<1>6. Held \subseteq 1 .. n /\ copied \subseteq 1 .. n /\ failed \subseteq 1 .. n /\ SoleCopier
  BY DEF FilesInv
<1>7. n + 1 \notin Held \cup copied \cup failed
  BY <1>0, <1>6
<1>8. /\ \A job \in 1 .. JOBS : job \in Held' <=> job = n + 1 \/ job \in Held
      /\ SoleCopier'
  <2>1. ~Copies(id, g)
    BY <1>1 DEF Copies
  <2>2. y.pc = "copy" /\ y.job = n + 1
    BY <1>3
  <2> HIDE DEF y, n
  <2>3. /\ \A job \in 1 .. JOBS :
             job \in Held' <=> \/ y.pc = "copy" /\ y.job = job
                               \/ job \in Held /\ ~(Copies(id, g) /\ threads[id][g].job = job)
        /\ (y.pc = "copy" => y.job \notin Held) => SoleCopier'
    BY <1>1, <1>4, <1>6, HandedOver
  <2> QED BY <1>7, <2>1, <2>2, <2>3
<1>9. Held' = Held \cup {n + 1}
  BY <1>3, <1>8 DEF Held
<1>10. \A i \in DOMAIN jobs' : jobs'[i] = n + 1 + i
  <2>1. ASSUME NEW i \in DOMAIN jobs' PROVE jobs'[i] = n + 1 + i
    <3>1. i + 1 \in DOMAIN jobs /\ jobs'[i] = jobs[i + 1] /\ i \in Nat
      BY <1>0, <1>1
    <3>2. jobs[i + 1] = n + (i + 1)
      BY <3>1 DEF FilesInv
    <3> QED BY <1>0, <3>1, <3>2
  <2> QED BY <2>1
<1>11. 1 .. n + 1 = (1 .. n) \cup {n + 1}
  BY <1>0
<1>12. Len(jobs') <= main'.walked
  BY <1>0, <1>2, <1>5 DEF FilesInv
<1>13. (Held \cup copied \cup failed)' = 1 .. HandedOut'
  BY <1>1, <1>5, <1>9, <1>11 DEF FilesInv
<1>14. (Held \cap (copied \cup failed))' = {} /\ (copied \cap failed)' = {}
  BY <1>1, <1>7, <1>9 DEF FilesInv
<1> QED BY <1>5, <1>8, <1>10, <1>12, <1>13, <1>14 DEF FilesInv

\* copy_file gives the file up, and nobody else had it.
LEMMA CopyKeepsFiles ==
  ASSUME FileCopyInv, FilesInv, NEW id \in Workers, NEW g \in DOMAIN threads[id],
         copy_file(id, g)
  PROVE  FilesInv'
<1> DEFINE job == threads[id][g].job
<1>0. threads[id][g] \in Thread /\ threads[id][g].pc = "copy" /\ JOBS \in Nat
  BY ThreadOf, WorkersAreIds DEF FileCopyInv, copy_file, At
<1>1. job \in 1 .. JOBS /\ job \in Held /\ Copies(id, g)
  <2>1. job \in 1 .. JOBS
    BY <1>0 DEF Thread, NO_JOB
  <2> QED BY <1>0, <2>1 DEF Held, Copies
<1>2. /\ \/ copied' = copied \cup {job} /\ failed' = failed
         \/ failed' = failed \cup {job} /\ copied' = copied
      /\ UNCHANGED <<jobs, main>>
  BY DEF copy_file
<1>3. PICK p \in {"beat", "report"} : threads' = Put(threads, id, g, [pc |-> p, job |-> NO_JOB])
  BY DEF copy_file, Put
<1>4. [pc |-> p, job |-> NO_JOB] \in Thread /\ [pc |-> p, job |-> NO_JOB].pc # "copy"
  BY <1>0 DEF Thread, ThreadPcs, NO_JOB
<1>5. /\ \A j \in 1 .. JOBS : j \in Held' <=> j \in Held /\ j # job
      /\ SoleCopier'
  BY <1>1, <1>3, <1>4, HandedOver DEF FilesInv
<1>6. Held' = Held \ {job}
  BY <1>1, <1>5 DEF Held
<1>7. job \notin copied \cup failed
  BY <1>1 DEF FilesInv
<1>8. HandedOut' = HandedOut
  BY <1>2 DEF HandedOut
<1>9. (Held \cup copied \cup failed)' = Held \cup copied \cup failed
  BY <1>1, <1>2, <1>6
<1>10. (Held \cap (copied \cup failed))' = {} /\ (copied \cap failed)' = {}
  BY <1>2, <1>6, <1>7 DEF FilesInv
<1> QED BY <1>2, <1>5, <1>8, <1>9, <1>10 DEF FilesInv

\* job_queue_push appends the next file of the walk.
LEMMA PushKeepsFiles ==
  ASSUME FileCopyInv, FilesInv, walk_cb PROVE FilesInv'
<1> DEFINE n == HandedOut
<1>0. /\ jobs \in Seq(1 .. JOBS) /\ Len(jobs) \in Nat /\ DOMAIN jobs = 1 .. Len(jobs)
      /\ main.walked \in Nat /\ n \in Nat /\ threads \in ThreadTable
      /\ main \in [pc : MainPcs, walked : 0 .. JOBS, i : 0 .. Len(BootEntities), gen : Nat]
      /\ UNCHANGED <<copied, failed>>
  BY WorkersAreIds DEF FileCopyInv, ProgramType, MainFacts, FilesInv, HandedOut, walk_cb, MainOnly
<1>1. CASE /\ jobs' = Append(jobs, main.walked + 1)
           /\ threads' \in WakeOne(threads)
           /\ main' = [main EXCEPT !.walked = main.walked + 1]
  <2>1. Held' = Held /\ (SoleCopier => SoleCopier')
    BY <1>0, <1>1, WakeOneWakes, WakerKeeps, HeldKept
  <2>2. main'.walked = main.walked + 1 /\ Len(jobs') = Len(jobs) + 1
    BY <1>0, <1>1
  <2>3. HandedOut' = n
    BY <1>0, <2>2 DEF HandedOut
  <2>4. ASSUME NEW i \in DOMAIN jobs' PROVE jobs'[i] = n + i
    <3>1. CASE i \in DOMAIN jobs
      <4>1. jobs'[i] = jobs[i]
        BY <1>0, <1>1, <3>1
      <4> QED BY <3>1, <4>1 DEF FilesInv
    <3>2. CASE i \notin DOMAIN jobs
      <4>1. i = Len(jobs) + 1 /\ jobs'[i] = main.walked + 1
        BY <1>0, <1>1, <3>2
      <4> QED BY <1>0, <4>1 DEF HandedOut
    <3> QED BY <3>1, <3>2
  <2>5. Len(jobs') <= main'.walked
    BY <1>0, <2>2 DEF FilesInv
  <2> QED BY <1>0, <2>1, <2>3, <2>4, <2>5 DEF FilesInv
<1>2. CASE main' = [main EXCEPT !.pc = "full"] /\ UNCHANGED <<jobs, threads>>
  <2>1. CopiersKept(threads, threads')
    BY <1>2 DEF CopiersKept
  <2>2. main'.walked = main.walked
    BY <1>0, <1>2
  <2> QED BY <1>0, <1>2, <2>1, <2>2, FilesKept
<1> QED BY <1>1, <1>2 DEF walk_cb, job_queue_push

\* No file goes from hand to hand, and main stays in its place.
NoFileMoves == CopiersKept(threads, threads') /\ UNCHANGED <<jobs, copied, failed, main>>

\* The steps of a worker thread between files.
LEMMA WorkerBetweenFiles ==
  ASSUME FileCopyInv, NEW id \in Workers, NEW g \in DOMAIN threads[id], worker_thread(id, g),
         ~(job_queue_pop(id, g) /\ pop_take(id, g)), ~copy_file(id, g)
  PROVE  NoFileMoves
<1>0. threads \in ThreadTable
  BY DEF FileCopyInv
<1>1. CASE \/ ThreadReadMode(id, g) \/ ThreadMayRun(id, g) \/ ThreadHeartbeat(id, g)
           \/ ThreadReport(id, g) \/ ThreadExit(id, g)
           \/ job_queue_pop(id, g) /\ pop_sleep(id, g)
  <2>1. /\ \E to \in {"mode", "gate", "safe", "pop", "exit", "exited", "wait"} :
             threads' = Move(threads, id, g, to)
        /\ threads[id][g].pc # "copy"
    <3>1. CASE ThreadReadMode(id, g)
      BY <3>1 DEF ThreadReadMode, Step, At, Move
    <3>2. CASE ThreadMayRun(id, g)
      BY <3>2 DEF ThreadMayRun, Step, At, Move
    <3>3. CASE ThreadHeartbeat(id, g) \/ ThreadReport(id, g) \/ ThreadExit(id, g)
      BY <3>3 DEF ThreadHeartbeat, ThreadReport, ThreadExit, Step, At, Move
    <3>4. CASE job_queue_pop(id, g) /\ pop_sleep(id, g)
      BY <3>4 DEF job_queue_pop, pop_sleep, At, Move
    <3> QED BY <1>1, <3>1, <3>2, <3>3, <3>4
  <2>2. PICK to \in ThreadPcs \ {"copy"} : threads' = Move(threads, id, g, to)
    BY <2>1 DEF ThreadPcs
  <2>3. CopiersKept(threads, threads')
    BY <1>0, <2>1, <2>2, MoveKeeps
  <2>4. UNCHANGED <<jobs, copied, failed, main>>
    BY <1>1 DEF ThreadReadMode, ThreadMayRun, ThreadHeartbeat, ThreadReport, ThreadExit,
       LibraryCall, job_queue_pop, pop_sleep
  <2> QED BY <2>3, <2>4 DEF NoFileMoves
<1>2. CASE job_queue_pop(id, g) /\ pop_leave(id, g)
  <2> DEFINE tt == Move(threads, id, g, "exit")
  <2>1. /\ threads' = WakeAll(tt) /\ threads[id][g].pc # "copy"
        /\ "exit" \in ThreadPcs \ {"copy"} /\ UNCHANGED <<jobs, copied, failed, main>>
    BY <1>2 DEF job_queue_pop, pop_leave, At, Move, ThreadPcs
  <2>2. CopiersKept(threads, tt) /\ tt \in ThreadTable
    BY <1>0, <2>1, MoveKeeps
  <2> HIDE DEF tt
  <2>3. CopiersKept(tt, threads')
    BY <2>1, <2>2, WakeAllWakes, WakerKeeps
  <2> QED BY <2>1, <2>2, <2>3, KeepersCompose DEF NoFileMoves
<1>3. job_queue_pop(id, g) => pop_sleep(id, g) \/ pop_leave(id, g)
  BY DEF job_queue_pop
<1>4. \/ ThreadReadMode(id, g) \/ ThreadMayRun(id, g) \/ ThreadHeartbeat(id, g)
      \/ ThreadReport(id, g) \/ ThreadExit(id, g) \/ job_queue_pop(id, g)
  BY DEF worker_thread
<1> QED BY <1>1, <1>2, <1>3, <1>4

\* The restart callback: an ended thread is joined, and a new one has no file yet.
LEMMA RestartBetweenFiles ==
  ASSUME FileCopyInv, worker_restart_cb PROVE CopiersKept(threads, threads')
<1>0. threads \in ThreadTable /\ RestartDue /\ LibraryFacts
  BY DEF FileCopyInv, worker_restart_cb
<1> DEFINE id == report.entity
           g == Len(threads[id])
           left == IF At(id, g, "exited") /\ ~MainJoins(id, g)
                   THEN Move(threads, id, g, "joined") ELSE threads
<1>1. id \in Workers
  BY <1>0, WorkersAreIds
     DEF RestartDue, Registered, LibraryFacts, Reports, AnyId, Ids, ENTITY_NONE, Workers
<1>2. threads' \in {left, [left EXCEPT ![id] = Append(@, NewThread)]}
  BY DEF worker_restart_cb, Move
<1>3. threads[id] \in Seq(Thread) /\ g \in DOMAIN threads[id]
  <2>1. threads[id] \in Seq(Thread) /\ threads[id] # <<>>
    BY <1>0, <1>1 DEF ThreadTable
  <2> QED BY <2>1
<1> HIDE DEF id, g
<1>4. CopiersKept(threads, left) /\ left \in ThreadTable
  <2>1. CASE At(id, g, "exited")
    <3>1. "joined" \in ThreadPcs \ {"copy"} /\ threads[id][g].pc # "copy"
      BY <2>1 DEF ThreadPcs, At
    <3>2. CopiersKept(threads, Move(threads, id, g, "joined"))
          /\ Move(threads, id, g, "joined") \in ThreadTable
      BY <1>0, <1>1, <1>3, <3>1, MoveKeeps
    <3> QED BY <1>0, <3>2 DEF CopiersKept
  <2>2. CASE ~At(id, g, "exited")
    BY <1>0, <2>2 DEF CopiersKept
  <2> QED BY <2>1, <2>2
<1> HIDE DEF left
<1>5. CASE threads' = left
  BY <1>4, <1>5
<1>6. CASE threads' = [left EXCEPT ![id] = Append(@, NewThread)]
  <2>1. left[id] \in Seq(Thread) /\ Len(left[id]) \in Nat /\ NewThread \in Thread
    BY <1>1, <1>4, WorkersAreIds DEF ThreadTable, NewThread, Thread, ThreadPcs, NO_JOB
  <2> DEFINE s == Append(left[id], NewThread)
             last == Len(left[id]) + 1
  <2>2. /\ DOMAIN left[id] \subseteq DOMAIN s
        /\ \A k \in DOMAIN left[id] : s[k] = left[id][k]
        /\ \A k \in DOMAIN s \ DOMAIN left[id] : s[k] = NewThread
    BY <2>1
  <2>3. \A w \in Workers : threads'[w] = IF w = id THEN s ELSE left[w]
    BY <1>4, <1>6 DEF ThreadTable
  <2>4. NewThread.pc # "copy"
    BY DEF NewThread
  <2> HIDE DEF s
  <2>5. CopiersKept(left, threads')
    BY <1>1, <2>2, <2>3, <2>4 DEF CopiersKept
  <2> QED BY <1>4, <2>5, KeepersCompose
<1> QED BY <1>2, <1>5, <1>6

\* Every step keeps the files in their places.
LEMMA FilesStep ==
  ASSUME FileCopyInv, FilesInv, [FileCopyNext \/ TimePasses]_fcVars PROVE FilesInv'
<1>0. /\ threads \in ThreadTable
      /\ main \in [pc : MainPcs, walked : 0 .. JOBS, i : 0 .. Len(BootEntities), gen : Nat]
      /\ CopiersKept(threads, threads)
  BY DEF FileCopyInv, MainFacts, CopiersKept
<1>1. ASSUME threads' = threads, UNCHANGED <<jobs, copied, failed>>, main'.walked = main.walked
      PROVE  FilesInv'
  BY <1>0, <1>1, FilesKept
<1>2. ASSUME threads' = WakeAll(threads), UNCHANGED <<jobs, copied, failed>>,
             main'.walked = main.walked
      PROVE  FilesInv'
  BY <1>0, <1>2, WakeAllWakes, WakerKeeps, FilesKept
<1>3. CASE UNCHANGED fcVars
  BY <1>1, <1>3 DEF fcVars
<1>4. CASE TimePasses
  BY <1>1, <1>4 DEF TimePasses, SupervisorOnly
<1>5. ASSUME NEW id \in Workers, WorkerThreads(id) PROVE FilesInv'
  <2>1. PICK g \in DOMAIN threads[id] : worker_thread(id, g)
    BY <1>5 DEF WorkerThreads
  <2> QED BY <2>1, TakeKeepsFiles, CopyKeepsFiles, WorkerBetweenFiles, FilesKept DEF NoFileMoves
<1>6. CASE SpuriousWakeup
  <2>0. UNCHANGED <<jobs, copied, failed>>
    BY <1>6 DEF SpuriousWakeup, MainOnly
  <2>1. CASE main' = WakeWalker /\ UNCHANGED threads
    <3>1. main'.walked = main.walked
      BY <1>0, <2>1 DEF WakeWalker
    <3> QED BY <1>1, <2>0, <2>1, <3>1
  <2>2. ASSUME NEW id \in Workers, NEW g \in DOMAIN threads[id],
               Step(id, g, "wait", "pop"), UNCHANGED main
        PROVE  FilesInv'
    <3>1. /\ threads' = Move(threads, id, g, "pop") /\ "pop" \in ThreadPcs \ {"copy"}
          /\ threads[id][g].pc # "copy"
      BY <2>2 DEF Step, At, Move, ThreadPcs
    <3>2. CopiersKept(threads, threads')
      BY <1>0, <2>2, <3>1, MoveKeeps
    <3> QED BY <2>0, <2>2, <3>2, FilesKept
  <2> QED BY <1>6, <2>1, <2>2 DEF SpuriousWakeup
<1>7. CASE MainThread
  <2>1. CASE walk_cb
    BY <2>1, PushKeepsFiles
  <2>2. CASE MainWalkEnds
    <3>1. main'.walked = main.walked
      BY <1>0, <2>2 DEF MainWalkEnds
    <3> QED BY <1>2, <2>2, <3>1 DEF MainWalkEnds, job_queue_finish, MainOnly
  <2>3. CASE MainJoinReturns
    <3>1. /\ threads' = Move(threads, main.i, main.gen, "joined") /\ main'.walked = main.walked
          /\ threads[main.i][main.gen].pc # "copy" /\ "joined" \in ThreadPcs \ {"copy"}
          /\ UNCHANGED <<jobs, copied, failed>>
      BY <1>0, <2>3 DEF MainJoinReturns, Step, At, Move, ThreadPcs, MainOnly
    <3>2. main.i \in Workers /\ main.gen \in DOMAIN threads[main.i]
      BY <2>3 DEF MainJoinReturns, FileCopyInv, MainFacts
    <3>3. CopiersKept(threads, threads')
      BY <1>0, <3>1, <3>2, MoveKeeps
    <3> QED BY <3>1, <3>3, FilesKept
  <2>4. CASE worker_wait_all \/ MainStops \/ MainExits
    <3>1. main'.walked = main.walked
      BY <1>0, <2>4 DEF worker_wait_all, MainStops, MainExits
    <3> QED BY <1>1, <2>4, <3>1 DEF worker_wait_all, MainStops, MainExits, MainOnly
  <2> QED BY <1>7, <2>1, <2>2, <2>3, <2>4 DEF MainThread
<1>8. CASE supervisor_thread
  <2>1. CASE worker_restart_cb
    BY <2>1, RestartBetweenFiles, FilesKept DEF worker_restart_cb
  <2>2. CASE SupervisorReadMode
    BY <1>1, <1>2, <2>2 DEF SupervisorReadMode, job_queue_finish
  <2>3. CASE SupervisorTick \/ SupervisorStep \/ RestartCall \/ SupervisorEnd
    BY <1>1, <2>3 DEF SupervisorTick, SupervisorStep, RestartCall, SupervisorEnd, SupervisorOnly
  <2> QED BY <1>8, <2>1, <2>2, <2>3 DEF supervisor_thread
<1> QED BY <1>3, <1>4, <1>5, <1>6, <1>7, <1>8 DEF FileCopyNext

\* At the start there are no files.
LEMMA FilesStart == FileCopyInit => FilesInv
<1> SUFFICES ASSUME FileCopyInit PROVE FilesInv
  OBVIOUS
<1>1. jobs = <<>> /\ copied = {} /\ failed = {} /\ main.walked = 0
  BY DEF FileCopyInit
<1>2. HandedOut = 0 /\ Len(jobs) = 0 /\ 1 .. HandedOut = {} /\ DOMAIN jobs = {}
  <2>1. Len(jobs) = 0 /\ DOMAIN jobs = {}
    BY <1>1
  <2>2. main.walked = 0
    BY <1>1
  <2>3. HandedOut = 0
    BY <2>1, <2>2 DEF HandedOut
  <2> QED BY <2>1, <2>3
<1>3. ASSUME NEW id \in Workers, NEW g \in DOMAIN threads[id] PROVE ~Copies(id, g)
  <2>1. threads[id] = <<NewThread>> /\ DOMAIN <<NewThread>> = {1}
    BY DEF FileCopyInit
  <2> QED BY <2>1 DEF Copies, NewThread
<1>4. Held = {} /\ SoleCopier
  BY <1>3 DEF Held, SoleCopier
<1> QED BY <1>1, <1>2, <1>4 DEF FilesInv

\* Whatever copies and restarts fail, whichever threads a signal wakes and however often
\* the watchdog replaces a thread, every file that nftw found is queued once, copied by
\* one thread, copied or failed: job_queue_pop gives no file to two threads and none gets
\* lost with a thread that ends.
THEOREM EachFileOnceSafe == TimedFileCopySpec => []EachFileOnce
<1>1. FileCopyInv /\ FilesInv => EachFileOnce
  BY FilesInOrder
<1>2. FileCopyInv /\ [FileCopyNext \/ TimePasses]_fcVars => FileCopyInv'
  BY FileCopyStep
<1>3. FileCopyInv /\ FilesInv /\ [FileCopyNext \/ TimePasses]_fcVars => FilesInv'
  BY FilesStep
<1> QED BY <1>1, <1>2, <1>3, FileCopyStarts, FilesStart, PTL DEF TimedFileCopySpec

-----------------------------------------------------------------------------
(***************************************************************************)
(* The join under the port lock.  As long as no watchdog fires, every       *)
(* report comes from a thread that has left its loop, and the supervisor    *)
(* replaces a worker's thread only on such a report.                        *)
(***************************************************************************)
Leaving  == {"exit", "exited", "joined"}
Handling == pc \in {"handle_check", "handle"}

\* The clock stands still, and no watchdog report is in hand.
Standstill ==
  /\ clock = 0 /\ g_health \in [Ids -> Snapshots]
  /\ \A id \in Workers : g_health[id].last_heartbeat_ms = BOOT_MS
  /\ pc \in {"wd_check", "scan"} => now_ms = BOOT_MS
  /\ Handling => ret = "drain"

FailedWorkers == {id \in Workers : IsFailed(id)}

\* A worker that is reported is FAILED, and is reported once until it is handled.
ReportsOfFailed ==
  /\ \A i \in DOMAIN queue : queue[i].entity \in FailedWorkers
  /\ \A i, j \in DOMAIN queue : queue[i].entity = queue[j].entity => i = j
  /\ Handling => /\ report.entity \in FailedWorkers
                 /\ \A i \in DOMAIN queue : queue[i].entity # report.entity

\* Only the last thread of a worker runs its loop, and none does when it is FAILED.
EndedThreads ==
  \A id \in Workers : \A g \in DOMAIN threads[id] :
    g < Len(threads[id]) \/ id \in FailedWorkers => threads[id][g].pc \in Leaving

\* Together with FileCopyInv this is the inductive invariant.
JoinInv == Standstill /\ ReportsOfFailed /\ EndedThreads

\* It says what the property asks for.
LEMMA JoinerHasEnded == FileCopyInv /\ JoinInv => JoinNeedsNoLock
<1> SUFFICES ASSUME FileCopyInv, JoinInv, ~MutexFree
             PROVE  threads[report.entity][Len(threads[report.entity])].pc \in Leaving
  BY DEF JoinNeedsNoLock, Leaving
<1>1. report.entity \in Workers /\ report.entity \in FailedWorkers
  BY DEF FileCopyInv, RestartDue, JoinInv, ReportsOfFailed, Handling, FailedWorkers
<1>2. threads[report.entity] \in Seq(Thread) /\ threads[report.entity] # <<>>
  BY <1>1 DEF FileCopyInv, ThreadTable
<1>3. Len(threads[report.entity]) \in DOMAIN threads[report.entity]
  BY <1>2
<1> QED BY <1>1, <1>3 DEF JoinInv, EndedThreads

\* Threads that have left their loop do not come back.
StillLeaving(tt, new) ==
  /\ SameThreads(tt, new)
  /\ \A id \in Workers : \A k \in DOMAIN tt[id] :
       tt[id][k].pc \in Leaving => new[id][k].pc \in Leaving

\* A move out of the loop or within it.
LEMMA MoveLeaves ==
  ASSUME NEW tt \in ThreadTable, NEW id \in Workers, NEW g \in DOMAIN tt[id],
         NEW to \in ThreadPcs \ {"copy"}, tt[id][g].pc \notin Leaving \/ to \in Leaving
  PROVE  StillLeaving(tt, Move(tt, id, g, to)) /\ Move(tt, id, g, to) \in ThreadTable
<1>1. DiffersAt(tt, Move(tt, id, g, to), id, g, [tt[id][g] EXCEPT !.pc = to])
  BY Placed
<1>2. [tt[id][g] EXCEPT !.pc = to].pc = to
  <2>1. tt[id][g] \in Thread
    BY ThreadOf
  <2> QED BY <2>1 DEF Thread
<1>3. StillLeaving(tt, Move(tt, id, g, to))
  BY <1>1, <1>2 DEF DiffersAt, StillLeaving
<1> QED BY <1>1, <1>3 DEF DiffersAt

\* A wake-up.
LEMMA WakeLeaves ==
  ASSUME NEW tt \in ThreadTable, NEW new, Woken(tt, new) PROVE StillLeaving(tt, new)
BY DEF Woken, StillLeaving, Leaving

\* A step in which threads move and no worker becomes FAILED.
LEMMA EndedKept ==
  ASSUME FileCopyInv, EndedThreads, StillLeaving(threads, threads'), threads' \in ThreadTable,
         FailedWorkers' \subseteq FailedWorkers
  PROVE  EndedThreads'
<1> SUFFICES ASSUME NEW id \in Workers, NEW g \in DOMAIN threads'[id],
                    g < Len(threads'[id]) \/ id \in FailedWorkers'
             PROVE  threads'[id][g].pc \in Leaving
  BY DEF EndedThreads
<1>1. g \in DOMAIN threads[id]
  BY DEF StillLeaving, SameThreads
<1>2. Len(threads'[id]) = Len(threads[id])
  <2>1. threads[id] \in Seq(Thread) /\ threads'[id] \in Seq(Thread)
    BY DEF FileCopyInv, ThreadTable
  <2>2. DOMAIN threads'[id] = DOMAIN threads[id]
    BY DEF StillLeaving, SameThreads
  <2> QED BY <2>1, <2>2
<1>3. threads[id][g].pc \in Leaving
  BY <1>1, <1>2 DEF EndedThreads
<1> QED BY <1>1, <1>3 DEF StillLeaving

\* The registered entities are the workers.
LEMMA WorkersRegistered ==
  ASSUME LibraryFacts PROVE \A id \in Workers : Registered(id) /\ id \in Ids
BY WorkersAreIds DEF LibraryFacts, Registered, Workers, Ids

\* What a step does to the reports when it changes neither the queue nor who is FAILED.
LEMMA ReportsKept ==
  ASSUME ReportsOfFailed, queue' = queue,
         FailedWorkers' = FailedWorkers,
         Handling' => Handling /\ report' = report
  PROVE  ReportsOfFailed'
BY DEF ReportsOfFailed

\* A step outside the library.
LEMMA JoinOutside ==
  ASSUME FileCopyInv, JoinInv, UNCHANGED vars, StillLeaving(threads, threads'),
         threads' \in ThreadTable
  PROVE  JoinInv'
<1>1. UNCHANGED <<clock, g_health, g_entity_limit, queue, report, pc, ret, now_ms>>
  BY DEF vars, portVars, libVars, healthVars, supVars
<1>2. FailedWorkers' = FailedWorkers
  BY <1>1 DEF FailedWorkers, IsFailed, Registered
<1>3. Standstill' /\ ReportsOfFailed'
  BY <1>1, <1>2, ReportsKept DEF JoinInv, Standstill, Handling
<1> QED BY <1>2, <1>3, EndedKept DEF JoinInv

\* A heartbeat renews a time stamp that is as old as the clock.
LEMMA JoinHeartbeat ==
  ASSUME FileCopyInv, JoinInv, NEW id \in Workers, Heartbeat(id),
         StillLeaving(threads, threads'), threads' \in ThreadTable
  PROVE  JoinInv'
<1>0. /\ Registered(id) /\ id \in Ids /\ g_health \in [Ids -> Snapshots] /\ Workers \subseteq Ids
  BY WorkersRegistered, WorkersAreIds DEF FileCopyInv, JoinInv, Standstill
<1>1. UNCHANGED <<clock, g_entity_limit, queue, report, pc, ret, now_ms>>
  BY DEF Heartbeat, heartbeat_notify, portVars, queueVars, supVars
<1>2. fdir_get_now_ms = BOOT_MS /\ BOOT_MS \in Times
  BY ClockAssumption DEF JoinInv, Standstill, fdir_get_now_ms, Times
<1> DEFINE x == [health |-> IF g_health[id].health = "FAILED" THEN "FAILED" ELSE "OK",
                 last_heartbeat_ms |-> BOOT_MS]
<1>3. g_health' = [g_health EXCEPT ![id] = x]
  BY <1>2 DEF Heartbeat, heartbeat_notify
<1>4. x \in Snapshots /\ x.last_heartbeat_ms = BOOT_MS
      /\ (x.health = "FAILED" <=> g_health[id].health = "FAILED")
  BY <1>2 DEF Snapshots, HealthStates
<1> HIDE DEF x
<1>5. /\ g_health' \in [Ids -> Snapshots]
      /\ \A w \in Workers : g_health'[w] = IF w = id THEN x ELSE g_health[w]
  BY <1>0, <1>3, <1>4
<1>6. FailedWorkers' = FailedWorkers
  BY <1>1, <1>4, <1>5 DEF FailedWorkers, IsFailed, Registered
<1>7. Standstill'
  BY <1>1, <1>4, <1>5 DEF JoinInv, Standstill, Handling
<1>8. ReportsOfFailed'
  BY <1>1, <1>6, ReportsKept DEF JoinInv, Handling
<1> QED BY <1>6, <1>7, <1>8, EndedKept DEF JoinInv

\* A worker that reports its fault is not FAILED yet, hence not reported; it leaves.
LEMMA JoinReport ==
  ASSUME FileCopyInv, JoinInv, NEW id \in Workers, NEW g \in DOMAIN threads[id],
         ThreadReport(id, g)
  PROVE  JoinInv'
<1>0. /\ Registered(id) /\ id \in Ids /\ g_health \in [Ids -> Snapshots] /\ Workers \subseteq Ids
      /\ queue \in Seq(Reports) /\ threads \in ThreadTable
  BY WorkersRegistered, WorkersAreIds DEF FileCopyInv, LibraryFacts, JoinInv, Standstill
<1>1. /\ threads' = Move(threads, id, g, "exit") /\ threads[id][g].pc = "report"
      /\ "exit" \in ThreadPcs \ {"copy"} /\ "exit" \in Leaving
  BY DEF ThreadReport, Step, At, Move, ThreadPcs, Leaving
<1>2. StillLeaving(threads, threads') /\ threads' \in ThreadTable
  BY <1>0, <1>1, MoveLeaves
<1>3. UNCHANGED <<clock, g_entity_limit, report, pc, ret, now_ms>>
  BY DEF ThreadReport, portVars, supVars, report_fault, report_fault_ignored, libVars,
     healthVars, queueVars, Queue!QueuePut, Queue!QueueRefuse
<1>4. CASE UNCHANGED <<g_health, queue>>
  <2>1. FailedWorkers' = FailedWorkers
    BY <1>3, <1>4 DEF FailedWorkers, IsFailed, Registered
  <2>2. Standstill' /\ ReportsOfFailed'
    BY <1>3, <1>4, <2>1, ReportsKept DEF JoinInv, Standstill, Handling
  <2> QED BY <1>2, <2>1, <2>2, EndedKept DEF JoinInv
<1>5. CASE /\ ~IsFailed(id) /\ g_health' = health_set_unsafe(id, "FAILED")
           /\ queue' = Append(queue, [entity |-> id, reason |-> REASON_IO_ERROR])
  <2> DEFINE x == [g_health[id] EXCEPT !.health = "FAILED"]
             r == [entity |-> id, reason |-> REASON_IO_ERROR]
             n == Len(queue) + 1
  <2>1. g_health' = [g_health EXCEPT ![id] = x]
    BY <1>0, <1>5 DEF health_set_unsafe
  <2>2. /\ x \in Snapshots /\ x.health = "FAILED"
        /\ x.last_heartbeat_ms = g_health[id].last_heartbeat_ms
    <3>1. g_health[id] \in Snapshots
      BY <1>0
    <3> QED BY <3>1 DEF Snapshots, HealthStates
  <2> HIDE DEF x
  <2>3. /\ g_health' \in [Ids -> Snapshots]
        /\ \A w \in Workers : g_health'[w] = IF w = id THEN x ELSE g_health[w]
    BY <1>0, <2>1, <2>2
  <2>4. FailedWorkers' = FailedWorkers \cup {id}
    BY <1>0, <1>3, <2>2, <2>3 DEF FailedWorkers, IsFailed, Registered
  <2>5. Standstill'
    BY <1>3, <2>2, <2>3 DEF JoinInv, Standstill, Handling
  <2>6. /\ DOMAIN queue' = DOMAIN queue \cup {n} /\ queue'[n] = r /\ n \notin DOMAIN queue
        /\ \A i \in DOMAIN queue : queue'[i] = queue[i]
    BY <1>0, <1>5
  <2>7. r.entity = id
    OBVIOUS
  <2> HIDE DEF r, n
  <2>8. ReportsOfFailed
    BY DEF JoinInv
  <2>9. id \notin FailedWorkers
    BY <1>5 DEF FailedWorkers
  <2>10. \A i \in DOMAIN queue' : queue'[i].entity \in FailedWorkers'
    BY <2>4, <2>6, <2>7, <2>8 DEF ReportsOfFailed
  <2>11. \A i, j \in DOMAIN queue' : queue'[i].entity = queue'[j].entity => i = j
    BY <2>6, <2>7, <2>8, <2>9 DEF ReportsOfFailed
  <2>12. Handling' => /\ report'.entity \in FailedWorkers'
                      /\ \A i \in DOMAIN queue' : queue'[i].entity # report'.entity
    <3> SUFFICES ASSUME Handling
                 PROVE  /\ report.entity \in FailedWorkers'
                        /\ \A i \in DOMAIN queue' : queue'[i].entity # report.entity
      BY <1>3 DEF Handling
    <3>1. /\ report.entity \in FailedWorkers /\ report.entity # id
          /\ \A i \in DOMAIN queue : queue[i].entity # report.entity
      BY <2>8, <2>9 DEF ReportsOfFailed
    <3> QED BY <2>4, <2>6, <2>7, <3>1
  <2>13. ReportsOfFailed'
    BY <2>10, <2>11, <2>12 DEF ReportsOfFailed
  <2>14. EndedThreads'
    <3> SUFFICES ASSUME NEW w \in Workers, NEW k \in DOMAIN threads'[w],
                        k < Len(threads'[w]) \/ w \in FailedWorkers'
                 PROVE  threads'[w][k].pc \in Leaving
      BY DEF EndedThreads
    <3>1. k \in DOMAIN threads[w]
      BY <1>2 DEF StillLeaving, SameThreads
    <3>2. /\ Len(threads'[w]) = Len(threads[w]) /\ DOMAIN threads[w] = 1 .. Len(threads[w])
          /\ Len(threads[w]) \in Nat
      <4>1. threads[w] \in Seq(Thread) /\ threads'[w] \in Seq(Thread)
        BY <1>0, <1>2 DEF ThreadTable
      <4>2. DOMAIN threads'[w] = DOMAIN threads[w]
        BY <1>2 DEF StillLeaving, SameThreads
      <4> QED BY <4>1, <4>2
    <3>3. CASE k < Len(threads[w]) \/ w \in FailedWorkers
      <4>1. threads[w][k].pc \in Leaving
        BY <3>1, <3>3 DEF JoinInv, EndedThreads
      <4> QED BY <1>2, <3>1, <4>1 DEF StillLeaving
    <3>4. CASE w = id /\ k = Len(threads[w])
      <4>1. g = k
        <5>1. g \in 1 .. Len(threads[id]) /\ ~(g < Len(threads[id]))
          BY <1>1, <3>2, <3>4 DEF JoinInv, EndedThreads, Leaving
        <5> QED BY <3>2, <3>4, <5>1
      <4>2. DiffersAt(threads, threads', id, g, [threads[id][g] EXCEPT !.pc = "exit"])
        BY <1>0, <1>1, Placed
      <4>3. [threads[id][g] EXCEPT !.pc = "exit"].pc = "exit"
        <5>1. threads[id][g] \in Thread
          BY <1>0, ThreadOf
        <5> QED BY <5>1 DEF Thread
      <4> QED BY <3>1, <3>4, <4>1, <4>2, <4>3 DEF DiffersAt, Leaving
    <3> QED BY <2>4, <3>1, <3>2, <3>3, <3>4
  <2> QED BY <2>5, <2>13, <2>14 DEF JoinInv
<1>6. \/ UNCHANGED <<g_health, queue>>
      \/ /\ ~IsFailed(id) /\ g_health' = health_set_unsafe(id, "FAILED")
         /\ queue' = Append(queue, [entity |-> id, reason |-> REASON_IO_ERROR])
  BY DEF ThreadReport, report_fault, report_fault_ignored, already_reported, libVars, healthVars,
     queueVars, Queue!QueuePut, Queue!QueueRefuse
<1> QED BY <1>4, <1>5, <1>6

\* Recovery lets the worker of the report start afresh, or leaves it FAILED.
LEMMA JoinRecovery ==
  ASSUME FileCopyInv, JoinInv, Handling, g_entity_limit' = g_entity_limit,
         g_health' \in {g_health, health_reset_unsafe(report.entity),
                        health_set_unsafe(report.entity, "FAILED")}
  PROVE  /\ g_health' \in [Ids -> Snapshots]
         /\ \A w \in Workers : g_health'[w].last_heartbeat_ms = BOOT_MS
         /\ FailedWorkers' \in {FailedWorkers, FailedWorkers \ {report.entity}}
         /\ g_health' = health_reset_unsafe(report.entity) =>
              FailedWorkers' = FailedWorkers \ {report.entity}
<1> DEFINE id == report.entity
           x == [health |-> "OK", last_heartbeat_ms |-> BOOT_MS]
<1>0. /\ id \in Workers /\ id \in Ids /\ Registered(id) /\ g_health[id].health = "FAILED"
      /\ g_health \in [Ids -> Snapshots] /\ Workers \subseteq Ids
  BY WorkersRegistered, WorkersAreIds
     DEF FileCopyInv, JoinInv, Standstill, ReportsOfFailed, FailedWorkers, IsFailed
<1>1. fdir_get_now_ms = BOOT_MS /\ BOOT_MS \in Times
  BY ClockAssumption DEF JoinInv, Standstill, fdir_get_now_ms, Times
<1>2. health_set_unsafe(id, "FAILED") = g_health
  <2>1. g_health[id] \in Snapshots
    BY <1>0
  <2>2. [g_health[id] EXCEPT !.health = "FAILED"] = g_health[id]
    BY <1>0, <2>1 DEF Snapshots
  <2>3. [g_health EXCEPT ![id].health = "FAILED"] = [g_health EXCEPT ![id] = g_health[id]]
    BY <2>2
  <2>4. [g_health EXCEPT ![id] = g_health[id]] = g_health
    BY <1>0
  <2> QED BY <1>0, <2>3, <2>4 DEF health_set_unsafe
<1>3. health_reset_unsafe(id) = [g_health EXCEPT ![id] = x]
  BY <1>1 DEF health_reset_unsafe
<1>4. x \in Snapshots /\ x.last_heartbeat_ms = BOOT_MS /\ x.health # "FAILED"
  BY <1>1 DEF Snapshots, HealthStates
<1> HIDE DEF x, id
<1>5. CASE g_health' = g_health
  <2>1. FailedWorkers' = FailedWorkers
    BY <1>5 DEF FailedWorkers, IsFailed, Registered
  <2>2. g_health # health_reset_unsafe(id)
    BY <1>0, <1>3, <1>4
  <2> QED BY <1>0, <1>5, <2>1, <2>2 DEF JoinInv, Standstill, id
<1>6. CASE g_health' = health_reset_unsafe(id)
  <2>1. /\ g_health' \in [Ids -> Snapshots]
        /\ \A w \in Workers : g_health'[w] = IF w = id THEN x ELSE g_health[w]
    BY <1>0, <1>3, <1>4, <1>6
  <2>2. FailedWorkers' = FailedWorkers \ {id}
    BY <1>4, <2>1 DEF FailedWorkers, IsFailed, Registered
  <2> QED BY <1>4, <2>1, <2>2 DEF JoinInv, Standstill, id
<1> QED BY <1>2, <1>5, <1>6 DEF id

\* The reports after the one in hand has been handled.
LEMMA ReportsAfterRecovery ==
  ASSUME ReportsOfFailed, Handling, ~Handling', queue' = queue,
         FailedWorkers' \in {FailedWorkers, FailedWorkers \ {report.entity}}
  PROVE  ReportsOfFailed'
BY DEF ReportsOfFailed

\* The supervisor's loop: what it takes in hand comes from the queue.
LEMMA JoinLoop ==
  ASSUME FileCopyInv, JoinInv, SupervisorLoop, threads' = threads PROVE JoinInv'
<1> USE DEF libVars, healthVars, portVars
<1>0. /\ LibraryFacts /\ queue \in Seq(Reports) /\ Standstill /\ ReportsOfFailed /\ EndedThreads
      /\ clock = 0 /\ fdir_get_now_ms = BOOT_MS /\ threads \in ThreadTable
  BY ClockAssumption DEF FileCopyInv, LibraryFacts, JoinInv, Standstill, fdir_get_now_ms
<1>1. StillLeaving(threads, threads')
  BY DEF StillLeaving, SameThreads
<1>2. ASSUME UNCHANGED <<clock, g_health, g_entity_limit, queue>>,
             Handling' => Handling /\ report' = report /\ ret' = ret,
             pc' \in {"wd_check", "scan"} => now_ms' = BOOT_MS
      PROVE  JoinInv'
  <2>1. FailedWorkers' = FailedWorkers
    BY <1>2 DEF FailedWorkers, IsFailed, Registered
  <2>2. Standstill'
    BY <1>0, <1>2 DEF Standstill
  <2> QED BY <1>0, <1>1, <1>2, <2>1, <2>2, EndedKept, ReportsKept DEF JoinInv
<1>3. CASE TickBegin \/ DrainEmpty \/ WatchdogReadClock \/ WatchdogCheck \/ WatchdogEnd
  <2>1. UNCHANGED <<clock, g_health, g_entity_limit, queue>>
    BY <1>3 DEF TickBegin, DrainEmpty, WatchdogReadClock, WatchdogCheck, WatchdogEnd, OnlySupervisor
  <2>2. /\ ~Handling'
        /\ pc' \in {"wd_check", "scan"} => now_ms' = BOOT_MS
    BY <1>0, <1>3 DEF TickBegin, DrainEmpty, WatchdogReadClock, WatchdogCheck, WatchdogEnd,
       ReturnTo, Standstill, Handling
  <2> QED BY <1>2, <2>1, <2>2
<1>4. CASE HandleCheck
  <2>1. UNCHANGED <<clock, g_health, g_entity_limit, queue>> /\ Handling
    BY <1>4 DEF HandleCheck, OnlySupervisor, Handling
  <2>2. ret = "drain"
    BY <1>0, <2>1 DEF Standstill
  <2>3. \/ pc' = "handle" /\ report' = report /\ ret' = ret
        \/ pc' = "drain"
    BY <1>4, <2>2 DEF HandleCheck, ReturnTo
  <2> QED BY <1>2, <2>1, <2>3 DEF Handling
<1>5. CASE DrainGet
  <2>1. /\ queue # <<>> /\ report' = Head(queue) /\ queue' = Tail(queue)
        /\ pc' = "handle_check" /\ ret' = "drain"
        /\ UNCHANGED <<clock, g_health, g_entity_limit>>
    BY <1>5 DEF DrainGet, Queue!QueueGet
  <2>2. FailedWorkers' = FailedWorkers
    BY <2>1 DEF FailedWorkers, IsFailed, Registered
  <2>3. 1 \in DOMAIN queue /\ report' = queue[1]
    BY <1>0, <2>1
  <2>4. \A i \in DOMAIN queue' : i + 1 \in DOMAIN queue /\ queue'[i] = queue[i + 1] /\ i \in Nat \ {0}
    BY <1>0, <2>1
  <2>5. \A i \in DOMAIN queue' : queue'[i].entity \in FailedWorkers'
    BY <1>0, <2>2, <2>4 DEF ReportsOfFailed
  <2>6. ASSUME NEW i \in DOMAIN queue', NEW j \in DOMAIN queue',
               queue'[i].entity = queue'[j].entity
        PROVE  i = j
    <3>1. i + 1 = j + 1
      BY <1>0, <2>4, <2>6 DEF ReportsOfFailed
    <3> QED BY <2>4, <3>1
  <2>7. ASSUME NEW i \in DOMAIN queue' PROVE queue'[i].entity # report'.entity
    <3>1. i + 1 # 1
      BY <2>4
    <3> QED BY <1>0, <2>3, <2>4, <3>1 DEF ReportsOfFailed
  <2>8. report'.entity \in FailedWorkers'
    BY <1>0, <2>2, <2>3 DEF ReportsOfFailed
  <2>9. ReportsOfFailed'
    BY <2>5, <2>6, <2>7, <2>8 DEF ReportsOfFailed
  <2>10. Standstill'
    BY <1>0, <2>1 DEF Standstill
  <2> QED BY <1>0, <1>1, <2>2, <2>9, <2>10, EndedKept DEF JoinInv
<1>6. CASE Handle
  <2>1. /\ Handling /\ ret = "drain"
    BY <1>0, <1>6 DEF Handle, Handling, Standstill
  <2>2. pc' = "drain" /\ UNCHANGED <<clock, queue>>
    BY <1>6, <2>1 DEF Handle, ReturnTo
  <2>3. /\ g_entity_limit' = g_entity_limit
        /\ g_health' \in {g_health, health_reset_unsafe(report.entity),
                          health_set_unsafe(report.entity, "FAILED")}
    BY <1>6 DEF Handle, handle_failure, handle_suppressed, handle_unknown, handle_registered,
       recover_by_restart, isolate_and_escalate
  <2>4. /\ g_health' \in [Ids -> Snapshots]
        /\ \A w \in Workers : g_health'[w].last_heartbeat_ms = BOOT_MS
        /\ FailedWorkers' \in {FailedWorkers, FailedWorkers \ {report.entity}}
    BY <2>1, <2>3, JoinRecovery
  <2>5. Standstill'
    BY <1>0, <2>2, <2>4 DEF Standstill, Handling
  <2>6. ReportsOfFailed'
    <3>1. ~Handling'
      BY <2>2 DEF Handling
    <3> QED BY <1>0, <2>1, <2>2, <2>4, <3>1, ReportsAfterRecovery
  <2>7. FailedWorkers' \subseteq FailedWorkers
    BY <2>4
  <2> QED BY <1>0, <1>1, <2>5, <2>6, <2>7, EndedKept DEF JoinInv
<1>7. ~WatchdogRaise
  BY <1>0, NothingStale DEF WatchdogRaise, Standstill
<1> QED BY <1>3, <1>4, <1>5, <1>6, <1>7 DEF SupervisorLoop

\* The restart callback: the new thread of the worker is the only one in its loop.
LEMMA JoinRestart ==
  ASSUME FileCopyInv, JoinInv, worker_restart_cb PROVE JoinInv'
<1>0. /\ threads \in ThreadTable /\ RestartDue /\ LibraryFacts /\ Handling
      /\ Standstill /\ ReportsOfFailed /\ EndedThreads
  BY DEF FileCopyInv, worker_restart_cb, RestartDue, Handling, JoinInv
<1> DEFINE id == report.entity
           g == Len(threads[id])
           left == IF At(id, g, "exited") /\ ~MainJoins(id, g)
                   THEN Move(threads, id, g, "joined") ELSE threads
<1>1. id \in Workers /\ id \in FailedWorkers
  BY <1>0 DEF ReportsOfFailed, FailedWorkers
<1>2. \/ threads' = left
      \/ /\ threads' = [left EXCEPT ![id] = Append(@, NewThread)]
         /\ g_health' = health_reset_unsafe(id)
  BY DEF worker_restart_cb, Move, recover_by_restart
<1>3. /\ g_entity_limit' = g_entity_limit
      /\ g_health' \in {g_health, health_reset_unsafe(id), health_set_unsafe(id, "FAILED")}
      /\ UNCHANGED <<clock, queue>> /\ pc' = ret
  BY DEF worker_restart_cb, recover_by_restart, isolate_and_escalate, ReturnTo
<1>4. threads[id] \in Seq(Thread) /\ g \in DOMAIN threads[id]
  <2>1. threads[id] \in Seq(Thread) /\ threads[id] # <<>>
    BY <1>0, <1>1 DEF ThreadTable
  <2> QED BY <2>1
<1>5. /\ g_health' \in [Ids -> Snapshots]
      /\ \A w \in Workers : g_health'[w].last_heartbeat_ms = BOOT_MS
      /\ FailedWorkers' \in {FailedWorkers, FailedWorkers \ {id}}
      /\ g_health' = health_reset_unsafe(id) => FailedWorkers' = FailedWorkers \ {id}
  BY <1>0, <1>3, JoinRecovery
<1>6. pc' = "drain"
  BY <1>0, <1>3 DEF Standstill
<1>7. Standstill'
  BY <1>0, <1>3, <1>5, <1>6 DEF Standstill, Handling
<1>8. ReportsOfFailed'
  <2>1. ~Handling'
    BY <1>6 DEF Handling
  <2> QED BY <1>0, <1>3, <1>5, <2>1, ReportsAfterRecovery
<1> HIDE DEF id, g
<1>9. StillLeaving(threads, left) /\ left \in ThreadTable
  <2>1. "joined" \in ThreadPcs \ {"copy"} /\ "joined" \in Leaving
    BY DEF ThreadPcs, Leaving
  <2>2. /\ StillLeaving(threads, Move(threads, id, g, "joined"))
        /\ Move(threads, id, g, "joined") \in ThreadTable
    BY <1>0, <1>1, <1>4, <2>1, MoveLeaves
  <2>3. StillLeaving(threads, threads)
    BY DEF StillLeaving, SameThreads
  <2> QED BY <1>0, <2>2, <2>3
<1> HIDE DEF left
<1>10. CASE threads' = left
  <2>1. FailedWorkers' \subseteq FailedWorkers
    BY <1>5
  <2> QED BY <1>0, <1>7, <1>8, <1>9, <1>10, <2>1, EndedKept DEF JoinInv
<1>11. CASE /\ threads' = [left EXCEPT ![id] = Append(@, NewThread)]
            /\ g_health' = health_reset_unsafe(id)
  <2>1. left[id] \in Seq(Thread) /\ Len(left[id]) \in Nat
    BY <1>1, <1>9 DEF ThreadTable
  <2> DEFINE s == Append(left[id], NewThread)
  <2>2. \A k \in DOMAIN s : k < Len(s) => k \in DOMAIN left[id] /\ s[k] = left[id][k]
    BY <2>1
  <2>3. \A w \in Workers : threads'[w] = IF w = id THEN s ELSE left[w]
    BY <1>9, <1>11 DEF ThreadTable
  <2> HIDE DEF s
  <2>4. ASSUME NEW w \in Workers, NEW k \in DOMAIN left[w],
               k < Len(left[w]) \/ w \in FailedWorkers
        PROVE  left[w][k].pc \in Leaving
    <3>1. k \in DOMAIN threads[w]
      BY <1>9 DEF StillLeaving, SameThreads
    <3>2. Len(left[w]) = Len(threads[w])
      <4>1. threads[w] \in Seq(Thread) /\ left[w] \in Seq(Thread)
        BY <1>0, <1>9 DEF ThreadTable
      <4>2. DOMAIN left[w] = DOMAIN threads[w]
        BY <1>9 DEF StillLeaving, SameThreads
      <4> QED BY <4>1, <4>2
    <3>3. threads[w][k].pc \in Leaving
      BY <1>0, <2>4, <3>1, <3>2 DEF EndedThreads
    <3> QED BY <1>9, <3>1, <3>3 DEF StillLeaving
  <2>5. EndedThreads'
    <3> SUFFICES ASSUME NEW w \in Workers, NEW k \in DOMAIN threads'[w],
                        k < Len(threads'[w]) \/ w \in FailedWorkers'
                 PROVE  threads'[w][k].pc \in Leaving
      BY DEF EndedThreads
    <3>1. FailedWorkers' = FailedWorkers \ {id}
      BY <1>5, <1>11
    <3>2. CASE w = id
      <4>1. k \in DOMAIN left[id] /\ threads'[w][k] = left[id][k]
        BY <2>2, <2>3, <3>1, <3>2
      <4> QED BY <1>1, <2>4, <3>2, <4>1
    <3>3. CASE w # id
      BY <2>3, <2>4, <3>1, <3>3
    <3> QED BY <3>2, <3>3
  <2> QED BY <1>7, <1>8, <2>5 DEF JoinInv
<1> QED BY <1>2, <1>10, <1>11

\* The steps of a worker thread.
LEMMA JoinWorker ==
  ASSUME FileCopyInv, JoinInv, NEW id \in Workers, NEW g \in DOMAIN threads[id],
         worker_thread(id, g)
  PROVE  JoinInv'
<1>0. threads \in ThreadTable
  BY DEF FileCopyInv
<1>1. CASE ThreadReadMode(id, g) \/ ThreadMayRun(id, g) \/ ThreadHeartbeat(id, g)
  <2>1. /\ threads[id][g].pc \notin Leaving
        /\ \E to \in {"mode", "gate", "safe", "pop"} : threads' = Move(threads, id, g, to)
    <3>1. CASE ThreadReadMode(id, g)
      BY <3>1 DEF ThreadReadMode, Step, At, Move, Leaving
    <3>2. CASE ThreadMayRun(id, g)
      BY <3>2 DEF ThreadMayRun, Step, At, Move, Leaving
    <3>3. CASE ThreadHeartbeat(id, g)
      BY <3>3 DEF ThreadHeartbeat, Step, At, Move, Leaving
    <3> QED BY <1>1, <3>1, <3>2, <3>3
  <2>2. PICK to \in ThreadPcs \ {"copy"} : threads' = Move(threads, id, g, to)
    BY <2>1 DEF ThreadPcs
  <2>3. StillLeaving(threads, threads') /\ threads' \in ThreadTable
    BY <1>0, <2>1, <2>2, MoveLeaves
  <2>4. UNCHANGED vars \/ Heartbeat(id)
    BY <1>1 DEF ThreadReadMode, ThreadMayRun, ThreadHeartbeat
  <2> QED BY <2>3, <2>4, JoinOutside, JoinHeartbeat
<1>2. CASE ThreadReport(id, g)
  BY <1>2, JoinReport
<1>3. CASE ThreadExit(id, g)
  <2>1. /\ threads' = Move(threads, id, g, "exited") /\ "exited" \in ThreadPcs \ {"copy"}
        /\ "exited" \in Leaving
    BY <1>3 DEF ThreadExit, Step, Move, ThreadPcs, Leaving
  <2>2. StillLeaving(threads, threads') /\ threads' \in ThreadTable
    BY <1>0, <2>1, MoveLeaves
  <2> QED BY <1>3, <2>2, JoinOutside DEF ThreadExit
<1>4. CASE copy_file(id, g)
  <2>1. PICK p \in {"beat", "report"} : threads' = Put(threads, id, g, [pc |-> p, job |-> NO_JOB])
    BY <1>4 DEF copy_file, Put
  <2>2. [pc |-> p, job |-> NO_JOB] \in Thread
    BY WorkersAreIds DEF Thread, ThreadPcs, NO_JOB
  <2>3. DiffersAt(threads, threads', id, g, [pc |-> p, job |-> NO_JOB])
    BY <1>0, <2>1, <2>2, Replaced
  <2>4. threads[id][g].pc \notin Leaving
    BY <1>4 DEF copy_file, At, Leaving
  <2>5. StillLeaving(threads, threads') /\ threads' \in ThreadTable
    BY <2>3, <2>4 DEF DiffersAt, StillLeaving
  <2> QED BY <1>4, <2>5, JoinOutside DEF copy_file
<1>5. CASE job_queue_pop(id, g)
  <2>0. UNCHANGED vars /\ threads[id][g].pc \notin Leaving
    BY <1>5 DEF job_queue_pop, At, Leaving
  <2>1. CASE pop_take(id, g)
    <3> DEFINE y == [pc |-> "copy", job |-> Head(jobs)]
    <3>1. jobs \in Seq(1 .. JOBS) /\ jobs # <<>> /\ threads' = Put(threads, id, g, y)
      BY <2>1 DEF FileCopyInv, ProgramType, pop_take, Put
    <3>2. Head(jobs) \in 1 .. JOBS
      BY <3>1, WorkersAreIds
    <3>3. y \in Thread
      BY <3>2, WorkersAreIds DEF Thread, ThreadPcs, NO_JOB
    <3> HIDE DEF y
    <3>4. DiffersAt(threads, threads', id, g, y)
      BY <1>0, <3>1, <3>3, Replaced
    <3>5. StillLeaving(threads, threads') /\ threads' \in ThreadTable
      BY <2>0, <3>4 DEF DiffersAt, StillLeaving
    <3> QED BY <2>0, <3>5, JoinOutside
  <2>2. CASE pop_sleep(id, g)
    <3>1. threads' = Move(threads, id, g, "wait") /\ "wait" \in ThreadPcs \ {"copy"}
      BY <2>2 DEF pop_sleep, Move, ThreadPcs
    <3>2. StillLeaving(threads, threads') /\ threads' \in ThreadTable
      BY <1>0, <2>0, <3>1, MoveLeaves
    <3> QED BY <2>0, <3>2, JoinOutside
  <2>3. CASE pop_leave(id, g)
    <3> DEFINE tt == Move(threads, id, g, "exit")
    <3>1. threads' = WakeAll(tt) /\ "exit" \in ThreadPcs \ {"copy"}
      BY <2>3 DEF pop_leave, Move, ThreadPcs
    <3>2. StillLeaving(threads, tt) /\ tt \in ThreadTable
      BY <1>0, <2>0, <3>1, MoveLeaves
    <3> HIDE DEF tt
    <3>3. Woken(tt, threads') /\ StillLeaving(tt, threads')
      BY <3>1, <3>2, WakeAllWakes, WakeLeaves
    <3>4. StillLeaving(threads, threads') /\ threads' \in ThreadTable
      BY <3>2, <3>3 DEF StillLeaving, SameThreads, Woken
    <3> QED BY <2>0, <3>4, JoinOutside
  <2> QED BY <1>5, <2>1, <2>2, <2>3 DEF job_queue_pop
<1> QED BY <1>1, <1>2, <1>3, <1>4, <1>5 DEF worker_thread

\* Every step but the passing of time keeps the invariant.
LEMMA JoinStep ==
  ASSUME FileCopyInv, JoinInv, [FileCopyNext]_fcVars PROVE JoinInv'
<1>0. threads \in ThreadTable /\ StillLeaving(threads, threads)
  BY DEF FileCopyInv, StillLeaving, SameThreads
<1>1. ASSUME UNCHANGED <<vars, threads>> PROVE JoinInv'
  BY <1>0, <1>1, JoinOutside
<1>2. ASSUME UNCHANGED vars, Woken(threads, threads') PROVE JoinInv'
  BY <1>0, <1>2, WakeLeaves, JoinOutside DEF Woken
<1>3. CASE UNCHANGED fcVars
  BY <1>1, <1>3 DEF fcVars
<1>4. ASSUME NEW id \in Workers, WorkerThreads(id) PROVE JoinInv'
  <2>1. PICK g \in DOMAIN threads[id] : worker_thread(id, g)
    BY <1>4 DEF WorkerThreads
  <2> QED BY <2>1, JoinWorker
<1>5. CASE SpuriousWakeup
  <2>0. UNCHANGED vars
    BY <1>5 DEF SpuriousWakeup, MainOnly
  <2>1. ASSUME NEW id \in Workers, NEW g \in DOMAIN threads[id], Step(id, g, "wait", "pop")
        PROVE  JoinInv'
    <3>1. /\ threads' = Move(threads, id, g, "pop") /\ "pop" \in ThreadPcs \ {"copy"}
          /\ threads[id][g].pc \notin Leaving
      BY <2>1 DEF Step, At, Move, ThreadPcs, Leaving
    <3>2. StillLeaving(threads, threads') /\ threads' \in ThreadTable
      BY <1>0, <2>1, <3>1, MoveLeaves
    <3> QED BY <2>0, <3>2, JoinOutside
  <2> QED BY <1>1, <1>5, <2>0, <2>1 DEF SpuriousWakeup
<1>6. CASE MainThread
  <2>0. UNCHANGED vars
    BY <1>6 DEF MainThread, MainOnly, walk_cb, MainWalkEnds, worker_wait_all, MainJoinReturns,
       MainStops, MainExits
  <2>1. CASE walk_cb
    <3>1. threads' = threads \/ threads' \in WakeOne(threads)
      BY <2>1 DEF walk_cb, job_queue_push
    <3> QED BY <1>0, <1>1, <1>2, <2>0, <3>1, WakeOneWakes
  <2>2. CASE MainWalkEnds
    BY <1>0, <1>2, <2>0, <2>2, WakeAllWakes DEF MainWalkEnds, job_queue_finish
  <2>3. CASE MainJoinReturns
    <3>1. /\ threads' = Move(threads, main.i, main.gen, "joined")
          /\ "joined" \in ThreadPcs \ {"copy"} /\ "joined" \in Leaving
      BY <2>3 DEF MainJoinReturns, Step, Move, ThreadPcs, Leaving
    <3>2. main.i \in Workers /\ main.gen \in DOMAIN threads[main.i]
      BY <2>3 DEF MainJoinReturns, FileCopyInv, MainFacts
    <3>3. StillLeaving(threads, threads') /\ threads' \in ThreadTable
      BY <1>0, <3>1, <3>2, MoveLeaves
    <3> QED BY <2>0, <3>3, JoinOutside
  <2>4. CASE worker_wait_all \/ MainStops \/ MainExits
    BY <1>1, <2>0, <2>4 DEF worker_wait_all, MainStops, MainExits
  <2> QED BY <1>6, <2>1, <2>2, <2>3, <2>4 DEF MainThread
<1>7. CASE supervisor_thread
  <2>1. CASE SupervisorTick \/ SupervisorStep
    BY <2>1, JoinLoop DEF SupervisorTick, SupervisorStep, SupervisorLoop
  <2>2. CASE RestartCall \/ SupervisorEnd
    BY <1>1, <2>2 DEF RestartCall, SupervisorEnd
  <2>3. CASE SupervisorReadMode
    <3>1. UNCHANGED vars /\ (threads' = threads \/ threads' = WakeAll(threads))
      BY <2>3 DEF SupervisorReadMode, job_queue_finish
    <3> QED BY <1>0, <1>1, <1>2, <3>1, WakeAllWakes
  <2> QED BY <1>7, <2>1, <2>2, <2>3, JoinRestart DEF supervisor_thread
<1> QED BY <1>3, <1>4, <1>5, <1>6, <1>7 DEF FileCopyNext

\* It holds at the start, when nobody has failed and every worker has one thread.
LEMMA JoinStart == FileCopyInit => JoinInv
<1> SUFFICES ASSUME FileCopyInit PROVE JoinInv
  OBVIOUS
<1>0. g_health = BootedHealth /\ pc = "idle" /\ queue = <<>> /\ clock = 0
  BY DEF FileCopyInit, Init, PortInit, Queue!QueueInit
<1>1. FailedWorkers = {}
  BY <1>0, WorkersAreIds DEF FailedWorkers, IsFailed, BootedHealth
<1>2. Standstill
  <2>1. g_health \in [Ids -> Snapshots]
    BY <1>0, ClockAssumption DEF BootedHealth, Snapshots, HealthStates, Times
  <2>2. \A id \in Workers : g_health[id].last_heartbeat_ms = BOOT_MS
    BY <1>0, WorkersAreIds DEF BootedHealth, Workers
  <2> QED BY <1>0, <2>1, <2>2 DEF Standstill, Handling
<1>3. ReportsOfFailed
  <2>1. DOMAIN queue = {}
    BY <1>0
  <2> QED BY <1>0, <2>1 DEF ReportsOfFailed, Handling
<1>4. EndedThreads
  <2>1. ASSUME NEW id \in Workers, NEW g \in DOMAIN threads[id] PROVE ~(g < Len(threads[id]))
    <3>1. threads[id] = <<NewThread>>
      BY DEF FileCopyInit
    <3>2. g \in {1} /\ Len(threads[id]) = 1
      BY <3>1
    <3> QED BY <3>2
  <2> QED BY <1>1, <2>1 DEF EndedThreads
<1> QED BY <1>2, <1>3, <1>4 DEF JoinInv

\* In a run that ends before a watchdog can fire, pthread_join in worker_restart_cb waits
\* only for a thread that needs the port lock no more, whatever copies, queue entries and
\* pthread_create calls fail and whichever of main and the supervisor joins first: the
\* supervisor may keep the lock over the join, as it does.
THEOREM JoinNeedsNoLockSafe == FileCopySpec => []JoinNeedsNoLock
<1>1. FileCopyInv /\ JoinInv => JoinNeedsNoLock
  BY JoinerHasEnded
<1>2. FileCopyInv /\ [FileCopyNext]_fcVars => FileCopyInv'
  BY FileCopyStep
<1>3. FileCopyInv /\ JoinInv /\ [FileCopyNext]_fcVars => JoinInv'
  BY JoinStep
<1> QED BY <1>1, <1>2, <1>3, FileCopyStarts, JoinStart, PTL DEF FileCopySpec

-----------------------------------------------------------------------------
(***************************************************************************)
(* A calm run: time passes, but no copy and no worker has failed and no     *)
(* restart was called.                                                      *)
(***************************************************************************)
NoCalls == [normal |-> 0, watchdog |-> 0]
CallTable == [Ids -> [normal : CallCounts, watchdog : CallCounts]]
NobodyFailed == FailedWorkers = {} /\ \A id \in Workers : restart_calls[id] = NoCalls

\* What holds in every run: the tables have their types, and the supervisor thread is in
\* fdir_supervisor_tick when the library says so and has ended when main exits.
RunFacts ==
  /\ restart_calls \in CallTable /\ g_health \in [Ids -> Snapshots] /\ clock \in Nat
  /\ sup # "tick" => pc = "idle"
  /\ main.pc = "exited" => sup = "ended"

\* A step that calls restart() counts it; the other steps heal nobody and do not let go
\* of the port lock that the restart callback holds.
Counted ==
  \E id \in Workers : \E reason \in Reasons : restart_calls' = CountRestart(id, reason)
Uncounted ==
  /\ restart_calls' = restart_calls /\ FailedWorkers \subseteq FailedWorkers'
  /\ MutexFree' => MutexFree

\* A restart that was counted is not forgotten.
LEMMA CountShows ==
  ASSUME restart_calls \in CallTable, NEW id \in Workers, NEW reason
  PROVE  /\ CountRestart(id, reason) \in CallTable
         /\ CountRestart(id, reason)[id] # NoCalls
<1>0. id \in Ids /\ U8_MAX \in Nat \ {0}
  BY WorkersAreIds, CapAssumption
<1> DEFINE calls == restart_calls[id]
           more(n) == IF n < U8_MAX + 1 THEN n + 1 ELSE n
           x == IF reason = REASON_WATCHDOG THEN [calls EXCEPT !.watchdog = more(calls.watchdog)]
                                            ELSE [calls EXCEPT !.normal = more(calls.normal)]
<1>1. calls \in [normal : CallCounts, watchdog : CallCounts]
  BY <1>0 DEF CallTable
<1>2. \A n \in CallCounts : more(n) \in CallCounts /\ more(n) # 0
  BY <1>0 DEF CallCounts
<1>3. CountRestart(id, reason) = [restart_calls EXCEPT ![id] = x]
  BY <1>0 DEF CountRestart, CallTable
<1> HIDE DEF more, calls
<1>4. x \in [normal : CallCounts, watchdog : CallCounts] /\ x # NoCalls
  BY <1>1, <1>2 DEF NoCalls
<1> HIDE DEF x
<1> QED BY <1>0, <1>3, <1>4 DEF CallTable

\* One entry of the health table changes.
LEMMA HealthMoves ==
  ASSUME g_health \in [Ids -> Snapshots], NEW id \in Ids, NEW x \in Snapshots,
         g_health' = [g_health EXCEPT ![id] = x], g_entity_limit' = g_entity_limit
  PROVE  /\ g_health' \in [Ids -> Snapshots]
         /\ (g_health[id].health = "FAILED" => x.health = "FAILED") =>
              FailedWorkers \subseteq FailedWorkers'
<1>1. \A w \in Ids : g_health'[w] = IF w = id THEN x ELSE g_health[w]
  OBVIOUS
<1>2. Workers \subseteq Ids
  BY WorkersAreIds
<1> QED BY <1>1, <1>2 DEF FailedWorkers, IsFailed, Registered

\* The three ways in which the library writes it.
LEMMA HealthWrites ==
  ASSUME g_health \in [Ids -> Snapshots], clock \in Nat, NEW id \in Ids,
         g_entity_limit' = g_entity_limit
  PROVE  /\ heartbeat_notify(id) =>
              g_health' \in [Ids -> Snapshots] /\ FailedWorkers \subseteq FailedWorkers'
         /\ g_health' = health_set_unsafe(id, "FAILED") =>
              /\ g_health' \in [Ids -> Snapshots] /\ FailedWorkers \subseteq FailedWorkers'
              /\ Registered(id) /\ id \in Workers => id \in FailedWorkers'
         /\ g_health' = health_reset_unsafe(id) => g_health' \in [Ids -> Snapshots]
<1>0. fdir_get_now_ms \in Times /\ g_health[id] \in Snapshots
  BY ClockAssumption DEF fdir_get_now_ms, Times
<1>1. ASSUME heartbeat_notify(id)
      PROVE  g_health' \in [Ids -> Snapshots] /\ FailedWorkers \subseteq FailedWorkers'
  <2> DEFINE x == [health |-> IF g_health[id].health = "FAILED" THEN "FAILED" ELSE "OK",
                   last_heartbeat_ms |-> fdir_get_now_ms]
  <2>1. x \in Snapshots /\ (g_health[id].health = "FAILED" => x.health = "FAILED")
    BY <1>0 DEF Snapshots, HealthStates
  <2>2. g_health' = [g_health EXCEPT ![id] = x]
    BY <1>1 DEF heartbeat_notify
  <2> HIDE DEF x
  <2> QED BY <2>1, <2>2, HealthMoves
<1>2. ASSUME g_health' = health_set_unsafe(id, "FAILED")
      PROVE  /\ g_health' \in [Ids -> Snapshots] /\ FailedWorkers \subseteq FailedWorkers'
             /\ Registered(id) /\ id \in Workers => id \in FailedWorkers'
  <2> DEFINE x == [g_health[id] EXCEPT !.health = "FAILED"]
  <2>1. x \in Snapshots /\ x.health = "FAILED"
    BY <1>0 DEF Snapshots, HealthStates
  <2>2. CASE Registered(id)
    <3>1. g_health' = [g_health EXCEPT ![id] = x]
      BY <1>2, <2>2 DEF health_set_unsafe
    <3> HIDE DEF x
    <3>2. g_health'[id] = x
      BY <3>1
    <3>3. id \in Workers => id \in FailedWorkers'
      BY <2>1, <2>2, <3>2 DEF FailedWorkers, IsFailed, Registered
    <3> QED BY <2>1, <3>1, <3>3, HealthMoves
  <2>3. CASE ~Registered(id)
    <3>1. g_health' = g_health
      BY <1>2, <2>3 DEF health_set_unsafe
    <3>2. FailedWorkers' = FailedWorkers
      BY <3>1 DEF FailedWorkers, IsFailed, Registered
    <3> QED BY <2>3, <3>1, <3>2
  <2> QED BY <2>2, <2>3
<1>3. ASSUME g_health' = health_reset_unsafe(id) PROVE g_health' \in [Ids -> Snapshots]
  <2> DEFINE x == [health |-> "OK", last_heartbeat_ms |-> fdir_get_now_ms]
  <2>1. x \in Snapshots
    BY <1>0 DEF Snapshots, HealthStates
  <2>2. g_health' = [g_health EXCEPT ![id] = x]
    BY <1>3 DEF health_reset_unsafe
  <2> HIDE DEF x
  <2> QED BY <2>1, <2>2, HealthMoves
<1> QED BY <1>1, <1>2, <1>3

\* Recovery of a worker: it is counted as a restart, or leaves the worker FAILED.
LEMMA RecoveryCounts ==
  ASSUME RunFacts, NEW id \in Workers, NEW reason \in Reasons, NEW override, NEW action,
         NEW attempted, NEW r, r.entity = id, r.reason = reason, LibraryFacts,
         recover_by_restart(r, override) \/ isolate_and_escalate(r, override, action, attempted)
  PROVE  /\ restart_calls' \in CallTable /\ g_health' \in [Ids -> Snapshots]
         /\ g_entity_limit' = g_entity_limit
         /\ Counted \/ /\ restart_calls' = restart_calls /\ FailedWorkers \subseteq FailedWorkers'
                       /\ id \in FailedWorkers'
<1>0. id \in Ids /\ Registered(id)
  BY WorkersRegistered
<1>1. g_entity_limit' = g_entity_limit
  BY DEF recover_by_restart, isolate_and_escalate
<1>2. CASE recover_by_restart(r, override)
  <2>1. restart_calls' = CountRestart(id, reason) /\ g_health' = health_reset_unsafe(id)
    BY <1>2 DEF recover_by_restart
  <2>2. Counted
    BY <2>1 DEF Counted
  <2>3. restart_calls' \in CallTable
    BY <2>1, CountShows DEF RunFacts
  <2>4. g_health' \in [Ids -> Snapshots]
    BY <1>0, <1>1, <2>1, HealthWrites DEF RunFacts
  <2> QED BY <1>1, <2>2, <2>3, <2>4
<1>3. CASE isolate_and_escalate(r, override, action, attempted)
  <2>1. /\ restart_calls' \in {CountRestart(id, reason), restart_calls}
        /\ g_health' = health_set_unsafe(id, "FAILED")
    BY <1>3 DEF isolate_and_escalate
  <2>2. /\ g_health' \in [Ids -> Snapshots] /\ FailedWorkers \subseteq FailedWorkers'
        /\ id \in FailedWorkers'
    BY <1>0, <1>1, <2>1, HealthWrites DEF RunFacts
  <2>3. CASE restart_calls' = CountRestart(id, reason)
    <3>1. Counted
      BY <2>3 DEF Counted
    <3>2. restart_calls' \in CallTable
      BY <2>3, CountShows DEF RunFacts
    <3> QED BY <1>1, <2>2, <3>1, <3>2
  <2>4. CASE restart_calls' = restart_calls
    BY <1>1, <2>2, <2>4 DEF RunFacts
  <2> QED BY <2>1, <2>3, <2>4
<1> QED BY <1>2, <1>3

\* A step outside the library.
LEMMA RunOutside ==
  ASSUME RunFacts, UNCHANGED <<restart_calls, g_health, g_entity_limit, pc>>, clock' \in Nat,
         sup' # "tick" => pc = "idle", main'.pc = "exited" => sup' = "ended",
         MutexFree' => MutexFree
  PROVE  RunFacts' /\ Uncounted
<1>1. FailedWorkers' = FailedWorkers
  BY DEF FailedWorkers, IsFailed, Registered
<1> QED BY <1>1 DEF RunFacts, Uncounted

\* Handling a report.
LEMMA RunHandles ==
  ASSUME FileCopyInv, RunFacts, Handle
  PROVE  /\ restart_calls' \in CallTable /\ g_health' \in [Ids -> Snapshots]
         /\ \/ Counted
            \/ restart_calls' = restart_calls /\ FailedWorkers \subseteq FailedWorkers'
<1>0. LibraryFacts /\ report \in Reports
  BY DEF FileCopyInv, LibraryFacts
<1>1. CASE UNCHANGED <<restart_calls, g_health, g_entity_limit>>
  BY <1>1 DEF RunFacts, FailedWorkers, IsFailed, Registered
<1>2. CASE handle_registered(report)
  <2>1. report.entity \in Workers /\ report.reason \in Reasons
    BY <1>0, <1>2, WorkersAreIds DEF handle_registered, Registered, LibraryFacts, Reports, AnyId,
       Ids, ENTITY_NONE, Workers
  <2>2. \E override, action, attempted :
          \/ recover_by_restart(report, override)
          \/ isolate_and_escalate(report, override, action, attempted)
    BY <1>2 DEF handle_registered
  <2> QED BY <1>0, <2>1, <2>2, RecoveryCounts
<1>3. handle_suppressed(report) \/ handle_unknown(report) =>
        UNCHANGED <<restart_calls, g_health, g_entity_limit>>
  BY DEF handle_suppressed, handle_unknown, libVars, healthVars
<1> QED BY <1>1, <1>2, <1>3 DEF Handle, handle_failure

\* A critical section of the library that a worker thread runs through.
LEMMA RunWorker ==
  ASSUME FileCopyInv, RunFacts, NEW id \in Workers, NEW g, worker_thread(id, g)
  PROVE  RunFacts' /\ Uncounted
<1> USE DEF libVars, healthVars, portVars, supVars
<1>0. id \in Ids /\ Registered(id) /\ main.pc # "exited"
  BY WorkersRegistered DEF FileCopyInv, worker_thread, Alive
<1>1. UNCHANGED <<sup, g_fdir_mutex>> /\ main'.pc # "exited"
  <2>1. main' \in {main, WakeWalker} /\ UNCHANGED <<sup, g_fdir_mutex>>
    BY DEF worker_thread, ThreadReadMode, ThreadMayRun, ThreadHeartbeat, ThreadReport, ThreadExit,
       job_queue_pop, pop_take, pop_sleep, pop_leave, copy_file, LibraryCall
  <2>2. main \in [pc : MainPcs, walked : 0 .. JOBS, i : 0 .. Len(BootEntities), gen : Nat]
    BY DEF FileCopyInv, MainFacts
  <2> QED BY <1>0, <2>1, <2>2 DEF WakeWalker
<1>2. CASE UNCHANGED vars
  BY <1>1, <1>2, RunOutside DEF vars, RunFacts, MutexFree
<1>3. ASSUME UNCHANGED <<restart_calls, clock, g_entity_limit, pc>>,
             g_health' \in [Ids -> Snapshots], FailedWorkers \subseteq FailedWorkers'
      PROVE  RunFacts' /\ Uncounted
  BY <1>1, <1>3 DEF RunFacts, Uncounted, MutexFree
<1>4. CASE Heartbeat(id)
  <2>1. UNCHANGED <<restart_calls, clock, g_entity_limit, pc>> /\ heartbeat_notify(id)
    BY <1>4 DEF Heartbeat, heartbeat_notify
  <2> QED BY <1>0, <1>3, <2>1, HealthWrites DEF RunFacts
<1>5. CASE ThreadReport(id, g)
  <2>1. /\ UNCHANGED <<restart_calls, clock, g_entity_limit, pc>>
        /\ g_health' = health_set_unsafe(id, "FAILED") \/ g_health' = g_health
    BY <1>5 DEF ThreadReport, report_fault, report_fault_ignored
  <2>2. CASE g_health' = g_health
    BY <1>3, <2>1, <2>2 DEF RunFacts, FailedWorkers, IsFailed, Registered
  <2>3. CASE g_health' = health_set_unsafe(id, "FAILED")
    BY <1>0, <1>3, <2>1, <2>3, HealthWrites DEF RunFacts
  <2> QED BY <2>1, <2>2, <2>3
<1> QED BY <1>2, <1>4, <1>5 DEF worker_thread, ThreadReadMode, ThreadMayRun, ThreadHeartbeat,
       ThreadExit, job_queue_pop, copy_file

\* The end of a restart that was called.
LEMMA RunRestart ==
  ASSUME FileCopyInv, RunFacts, worker_restart_cb PROVE RunFacts' /\ Counted
<1>0. RestartDue /\ LibraryFacts
  BY DEF FileCopyInv, worker_restart_cb
<1>1. report.entity \in Workers /\ report.reason \in Reasons
  BY <1>0 DEF RestartDue, Registered, LibraryFacts, Reports, AnyId, Ids, ENTITY_NONE, Workers
<1>2. \/ recover_by_restart(report, FALSE)
      \/ isolate_and_escalate(report, FALSE, fallback(g_entities[report.entity]), TRUE)
  BY DEF worker_restart_cb
<1>3. restart_calls' \in CallTable /\ g_health' \in [Ids -> Snapshots]
  BY <1>0, <1>1, <1>2, RecoveryCounts
<1>4. restart_calls' = CountRestart(report.entity, report.reason)
  BY <1>2 DEF recover_by_restart, isolate_and_escalate
<1>5. Counted
  BY <1>1, <1>4 DEF Counted
<1>6. sup = "tick" /\ UNCHANGED <<sup, main, clock>>
  BY <1>0 DEF RunFacts, RestartDue, worker_restart_cb
<1> QED BY <1>3, <1>5, <1>6 DEF RunFacts

\* The supervisor thread.
LEMMA RunSupervisor ==
  ASSUME FileCopyInv, RunFacts, supervisor_thread PROVE RunFacts' /\ (Counted \/ Uncounted)
<1> USE DEF libVars, healthVars, portVars, supVars
<1>0. main.pc # "exited" /\ sup \in {"top", "tick", "ended"}
  BY DEF supervisor_thread, Alive, FileCopyInv, ProgramType
<1>1. CASE RestartCall \/ SupervisorReadMode \/ SupervisorEnd
  <2>1. UNCHANGED vars /\ main' = main /\ (MutexFree' => MutexFree)
    BY <1>1 DEF RestartCall, SupervisorReadMode, SupervisorEnd, SupervisorOnly, MutexFree
  <2>2. sup' # "tick" => pc = "idle"
    BY <1>0, <1>1 DEF RunFacts, RestartCall, SupervisorReadMode, SupervisorEnd
  <2>3. UNCHANGED <<restart_calls, g_health, g_entity_limit, pc, clock>>
    BY <2>1 DEF vars
  <2> QED BY <1>0, <2>1, <2>2, <2>3, RunOutside DEF RunFacts
<1>2. CASE SupervisorTick \/ SupervisorStep
  <2>1. SupervisorLoop /\ sup' = "tick" /\ UNCHANGED <<main, g_fdir_mutex>> /\ clock' = clock
    BY <1>2 DEF SupervisorTick, SupervisorStep, SupervisorOnly, SupervisorLoop, TickBegin, DrainGet,
       DrainEmpty, WatchdogReadClock, WatchdogCheck, WatchdogRaise, WatchdogEnd, HandleCheck, Handle,
       OnlySupervisor
  <2>2. CASE Handle
    BY <1>0, <2>1, <2>2, RunHandles DEF RunFacts, Uncounted, MutexFree
  <2>3. CASE UNCHANGED <<restart_calls, g_health, g_entity_limit>>
    <3>1. FailedWorkers' = FailedWorkers
      BY <2>3 DEF FailedWorkers, IsFailed, Registered
    <3> QED BY <1>0, <2>1, <2>3, <3>1 DEF RunFacts, Uncounted, MutexFree
  <2> QED BY <2>1, <2>2, <2>3 DEF SupervisorLoop, TickBegin, DrainGet,
         DrainEmpty, WatchdogReadClock, WatchdogCheck, WatchdogRaise, WatchdogEnd, HandleCheck,
         OnlySupervisor
<1> QED BY <1>1, <1>2, RunRestart DEF supervisor_thread

\* Every step.
LEMMA RunStep ==
  ASSUME FileCopyInv, RunFacts, [FileCopyNext \/ TimePasses]_fcVars
  PROVE  RunFacts' /\ (Counted \/ Uncounted)
<1> USE DEF libVars, healthVars, portVars, supVars
<1>0. main \in [pc : MainPcs, walked : 0 .. JOBS, i : 0 .. Len(BootEntities), gen : Nat]
  BY DEF FileCopyInv, MainFacts
<1>1. CASE UNCHANGED fcVars
  BY <1>1, RunOutside DEF fcVars, vars, RunFacts, MutexFree
<1>2. CASE MainThread \/ SpuriousWakeup
  <2>1. UNCHANGED <<vars, g_fdir_mutex, sup>>
    BY <1>2 DEF MainThread, MainOnly, walk_cb, MainWalkEnds, worker_wait_all, MainJoinReturns,
       MainStops, MainExits, SpuriousWakeup
  <2>2. UNCHANGED <<restart_calls, g_health, g_entity_limit, pc, clock>>
    BY <2>1 DEF vars
  <2>3. main'.pc = "exited" => sup = "ended"
    BY <1>0, <1>2 DEF MainThread, walk_cb, job_queue_push, MainWalkEnds, worker_wait_all,
       MainJoinReturns, MainStops, MainExits, SpuriousWakeup, WakeWalker, RunFacts
  <2> QED BY <2>1, <2>2, <2>3, RunOutside DEF RunFacts, MutexFree
<1>3. ASSUME NEW id \in Workers, WorkerThreads(id) PROVE RunFacts' /\ Uncounted
  BY <1>3, RunWorker DEF WorkerThreads
<1>4. CASE TimePasses
  <2>1. /\ UNCHANGED <<restart_calls, g_health, g_entity_limit, pc, sup, main, g_fdir_mutex>>
        /\ clock' \in Nat
    BY <1>4 DEF TimePasses, ClockTick, SupervisorOnly, RunFacts
  <2> QED BY <2>1, RunOutside DEF RunFacts, MutexFree
<1> QED BY <1>1, <1>2, <1>3, <1>4, RunSupervisor DEF FileCopyNext

\* The program starts like this.
LEMMA RunStart == FileCopyInit => RunFacts
<1> SUFFICES ASSUME FileCopyInit PROVE RunFacts
  OBVIOUS
<1>1. restart_calls \in CallTable /\ clock \in Nat
  BY CapAssumption DEF FileCopyInit, Init, PortInit, CallTable, CallCounts
<1>2. g_health \in [Ids -> Snapshots]
  <2>1. 0 \in Times /\ BOOT_MS \in Times
    BY ClockAssumption DEF Times
  <2> QED BY <2>1 DEF FileCopyInit, Init, BootedHealth, Snapshots, HealthStates
<1>3. pc = "idle" /\ main.pc = "walk"
  BY DEF FileCopyInit, Init
<1> QED BY <1>1, <1>2, <1>3 DEF RunFacts

\* No copy and no worker has failed, no restart was called and none is under way.
Calm == failed = {} /\ MutexFree /\ NobodyFailed

\* A run that is calm has been calm all the time.
LEMMA CalmStays ==
  ASSUME FileCopyInv, RunFacts, [FileCopyNext \/ TimePasses]_fcVars, Calm' PROVE Calm /\ ~Counted
<1>1. ~Counted
  <2> SUFFICES ASSUME NEW id \in Workers, NEW reason, restart_calls' = CountRestart(id, reason)
               PROVE  FALSE
    BY DEF Counted
  <2>1. restart_calls'[id] # NoCalls
    BY CountShows DEF RunFacts
  <2> QED BY <2>1 DEF Calm, NobodyFailed, NoCalls
<1>2. Uncounted
  BY <1>1, RunStep
<1>3. failed = {}
  BY FailuresStay DEF Calm
<1> QED BY <1>1, <1>2, <1>3 DEF Calm, NobodyFailed, Uncounted, NoCalls

\* Then the library has at most a stale worker in hand, which it has not handled yet.
LibraryCalm ==
  /\ g_latched_reason = NoLatches /\ g_mode = FDIR_MODE_NOMINAL
  /\ queue = <<>> /\ g_supervision_enabled
  /\ Handling => report.entity \in Workers

\* Together with FileCopyInv and RunFacts this is the inductive invariant.
CalmInv == Calm => LibraryCalm /\ ProgramClean

\* To handle a report is the end of a calm run.
LEMMA NothingHandled ==
  ASSUME FileCopyInv, RunFacts, LibraryCalm, Handle, ~Counted, Calm' PROVE FALSE
<1>0. LibraryFacts /\ report \in Reports /\ report.entity \in Workers
  BY DEF FileCopyInv, LibraryFacts, LibraryCalm, Handling, Handle
<1>1. report.reason \in Reasons /\ report.entity \in Ids /\ Registered(report.entity)
  BY <1>0, WorkersRegistered DEF Reports
<1>2. ~handle_unknown(report)
  BY <1>1 DEF handle_unknown
<1>3. ~handle_suppressed(report)
  <2>1. ~fault_is_latched(report.entity, report.reason)
    BY <1>1 DEF fault_is_latched, LibraryCalm, NoLatches, NO_REASON, Reasons
  <2> QED BY <2>1 DEF handle_suppressed
<1>4. handle_registered(report)
  BY <1>2, <1>3 DEF Handle, handle_failure
<1>5. \E override, action, attempted :
        \/ recover_by_restart(report, override)
        \/ isolate_and_escalate(report, override, action, attempted)
  BY <1>4 DEF handle_registered
<1>6. report.entity \in FailedWorkers'
  BY <1>0, <1>1, <1>5, RecoveryCounts
<1> QED BY <1>6 DEF Calm, NobodyFailed

\* The library in a step of a calm run.
LEMMA LibraryStaysCalm ==
  ASSUME FileCopyInv, RunFacts, LibraryCalm, FirstThreads, ~Counted, Calm',
         [FileCopyNext \/ TimePasses]_fcVars
  PROVE  LibraryCalm'
<1> USE DEF libVars, healthVars, portVars, supVars
<1>1. ASSUME UNCHANGED <<g_latched_reason, g_mode, queue, g_supervision_enabled, report, pc>> PROVE LibraryCalm'
  BY <1>1 DEF LibraryCalm, Handling
<1>2. CASE UNCHANGED fcVars \/ MainThread \/ SpuriousWakeup \/ TimePasses
  BY <1>1, <1>2 DEF fcVars, vars, MainThread, MainOnly, walk_cb, MainWalkEnds, worker_wait_all,
     MainJoinReturns, MainStops, MainExits, SpuriousWakeup, TimePasses, queueVars
<1>3. CASE supervisor_thread
  <2>1. CASE SupervisorTick \/ SupervisorStep
    <3>1. SupervisorLoop
      BY <2>1 DEF SupervisorTick, SupervisorStep, SupervisorLoop
    <3>2. ~Handle /\ ~DrainGet
      BY NothingHandled DEF DrainGet, Queue!QueueGet, LibraryCalm
    <3>3. CASE WatchdogRaise
      <4>1. PICK id \in watchdog_due : report' = [entity |-> id, reason |-> REASON_WATCHDOG]
        BY <3>3 DEF WatchdogRaise
      <4>2. id \in Workers
        BY WorkersAreIds DEF watchdog_due, FileCopyInv, LibraryFacts, Workers
      <4>3. UNCHANGED <<g_latched_reason, g_mode, queue, g_supervision_enabled>>
        BY <3>3 DEF WatchdogRaise, OnlySupervisor
      <4> QED BY <4>1, <4>2, <4>3 DEF LibraryCalm
    <3>4. CASE TickBegin \/ DrainEmpty \/ WatchdogReadClock \/ WatchdogCheck \/ WatchdogEnd
      <4>1. UNCHANGED <<g_latched_reason, g_mode, queue, g_supervision_enabled>>
        BY <3>4 DEF TickBegin, DrainEmpty, WatchdogReadClock, WatchdogCheck, WatchdogEnd,
           OnlySupervisor
      <4>2. pc' \in {"drain", "wd_now", "wd_check", "scan", "idle"}
        BY <3>4 DEF TickBegin, DrainEmpty, WatchdogReadClock, WatchdogCheck, WatchdogEnd, ReturnTo
      <4> QED BY <4>1, <4>2 DEF LibraryCalm, Handling
    <3>5. CASE HandleCheck
      <4>1. UNCHANGED <<g_latched_reason, g_mode, queue, g_supervision_enabled>>
        BY <3>5 DEF HandleCheck, OnlySupervisor
      <4>2. pc = "handle_check" /\ report' = report
        BY <3>5 DEF HandleCheck, LibraryCalm
      <4> QED BY <4>1, <4>2 DEF LibraryCalm, Handling
    <3> QED BY <3>1, <3>2, <3>3, <3>4, <3>5 DEF SupervisorLoop
  <2>2. CASE RestartCall \/ SupervisorReadMode \/ SupervisorEnd
    BY <1>1, <2>2 DEF vars, RestartCall, SupervisorReadMode, SupervisorEnd
  <2>3. ~worker_restart_cb
    BY DEF worker_restart_cb, FirstThreads
  <2> QED BY <1>3, <2>1, <2>2, <2>3 DEF supervisor_thread
<1>4. ASSUME NEW id \in Workers, WorkerThreads(id) PROVE LibraryCalm'
  <2>1. PICK g \in DOMAIN threads[id] : worker_thread(id, g)
    BY <1>4 DEF WorkerThreads
  <2>2. g = 1
    <3>1. Len(threads[id]) = 1 /\ threads[id] \in Seq(Thread)
      BY DEF FirstThreads, FileCopyInv, ThreadTable
    <3> QED BY <3>1
  <2>3. ~ThreadReport(id, g)
    BY <2>2 DEF ThreadReport, Step, At, FirstThreads
  <2>4. UNCHANGED vars \/ Heartbeat(id)
    BY <2>1, <2>3 DEF worker_thread, ThreadReadMode, ThreadMayRun, ThreadHeartbeat, ThreadExit,
       job_queue_pop, copy_file
  <2> QED BY <1>1, <2>4 DEF vars, Heartbeat, heartbeat_notify, queueVars
<1> QED BY <1>2, <1>3, <1>4 DEF FileCopyNext

\* So the program stays clean.
LEMMA CalmStep ==
  ASSUME FileCopyInv, RunFacts, CalmInv, [FileCopyNext \/ TimePasses]_fcVars PROVE CalmInv'
<1> SUFFICES ASSUME Calm' PROVE LibraryCalm' /\ ProgramClean'
  BY DEF CalmInv
<1>1. Calm /\ ~Counted /\ LibraryCalm /\ ProgramClean
  BY CalmStays DEF CalmInv
<1>2. LibraryCalm'
  BY <1>1, LibraryStaysCalm DEF ProgramClean
<1>3. ~RestartCall /\ ~worker_restart_cb /\ failed' = {} /\ g_mode = FDIR_MODE_NOMINAL
  BY <1>1 DEF RestartCall, worker_restart_cb, Calm, MutexFree, LibraryCalm
<1> QED BY <1>1, <1>2, <1>3, ProgramStaysClean

\* It starts clean.
LEMMA CalmStart == FileCopyInit => CalmInv
<1> SUFFICES ASSUME FileCopyInit PROVE LibraryCalm /\ ProgramClean
  BY DEF CalmInv
<1>1. ProgramClean
  BY CleanStart DEF CleanInv, FileCopyInit
<1> QED BY <1>1 DEF FileCopyInit, Init, Queue!QueueInit, LibraryCalm, Handling

\* However long it runs: when no copy has failed, no worker is FAILED and no restart was
\* called, a process that exits has copied every file.  Time alone, with the watchdog
\* scans it brings, makes no worker give up early and no join return too soon.
THEOREM CalmRunSafe ==
  Len(BootEntities) > 0 /\ TimedFileCopySpec => [](NobodyFailed => CleanRunCopiesAll)
<1> SUFFICES ASSUME Len(BootEntities) > 0
             PROVE  TimedFileCopySpec => [](NobodyFailed => CleanRunCopiesAll)
  OBVIOUS
<1>1. FileCopyInv /\ RunFacts /\ CalmInv => (NobodyFailed => CleanRunCopiesAll)
  <2> SUFFICES ASSUME FileCopyInv, RunFacts, CalmInv, NobodyFailed, main.pc = "exited"
               PROVE  CleanRunCopiesAll
    BY DEF CleanRunCopiesAll
  <2>1. MutexFree
    BY DEF RunFacts, FileCopyInv, RestartDue
  <2>2. failed = {} => ProgramClean
    BY <2>1 DEF CalmInv, Calm
  <2> QED BY <2>2, CleanIsComplete
<1>2. FileCopyInv /\ [FileCopyNext \/ TimePasses]_fcVars => FileCopyInv'
  BY FileCopyStep
<1>3. FileCopyInv /\ RunFacts /\ [FileCopyNext \/ TimePasses]_fcVars => RunFacts'
  BY RunStep
<1>4. FileCopyInv /\ RunFacts /\ CalmInv /\ [FileCopyNext \/ TimePasses]_fcVars => CalmInv'
  BY CalmStep
<1> QED BY <1>1, <1>2, <1>3, <1>4, FileCopyStarts, RunStart, CalmStart, PTL
       DEF TimedFileCopySpec
=============================================================================
