------------------------------- MODULE FileCopy -------------------------------
(***************************************************************************)
(* examples/filecopy: a program that uses the library from several threads.  *)
(* main walks a tree and pushes copy jobs, worker threads pop them, a        *)
(* supervisor thread calls fdir_supervisor_tick, and the restart callback    *)
(* joins the old worker thread and creates a new one while the supervisor    *)
(* holds the port lock.  The supervisor's steps are those of Fdir; its worker *)
(* and submit variables are not used here.                                  *)
(***************************************************************************)
EXTENDS Fdir

CONSTANTS
  JOBS,            \* the files that nftw finds
  JOB_QUEUE_CAP    \* 4096 in the code

ASSUME FileCopyAssumption ==
  /\ JOBS \in Nat
  /\ JOB_QUEUE_CAP \in Nat \ {0}
  \* main.c registers its workers without subsystem and without decide hook.
  /\ \A i \in DOMAIN BootEntities :
       /\ BootEntities[i].linked_subsystem = SUBSYSTEM_NONE
       /\ BootEntities[i].restart /\ BootEntities[i].decide = {"NONE"}

VARIABLES
  g_fdir_mutex,    \* "restart" while the supervisor is in worker_restart_cb
  threads,         \* per worker: its threads, oldest first; ctx->thread is the last
  active,          \* per worker: ctx->active
  jobs,            \* job_queue_t: the jobs, head first
  producer_done,
  copied, failed,  \* outcome of copy_file per job
  main,            \* main's place; worker i and thread gen that it waits for
  g_running,
  sup              \* the supervisor thread: "top" of its loop, in a "tick", "ended"

fcVars == <<vars, g_fdir_mutex, threads, active, jobs, producer_done, copied, failed,
            main, g_running, sup>>

Workers == 0 .. Len(BootEntities) - 1
NO_JOB  == 0
ThreadPcs == {"mode", "gate", "safe", "pop", "wait", "copy", "beat", "report",
              "exit", "exited", "joined"}
MainPcs   == {"walk", "full", "wait_all", "join", "join_sup", "exited"}

NewThread == [pc |-> "mode", job |-> NO_JOB]

FileCopyType ==
  /\ g_fdir_mutex \in {"free", "restart"}
  /\ threads \in [Workers -> Seq([pc : ThreadPcs, job : 0 .. JOBS])]
  /\ active \in [Workers -> BOOLEAN]
  /\ jobs \in Seq(1 .. JOBS) /\ Len(jobs) <= JOB_QUEUE_CAP
  /\ producer_done \in BOOLEAN
  /\ copied \in SUBSET (1 .. JOBS) /\ failed \in SUBSET (1 .. JOBS)
  /\ main.pc \in MainPcs /\ main.walked \in 0 .. JOBS
  /\ main.i \in 0 .. Len(BootEntities) /\ main.gen \in Nat
  /\ g_running \in BOOLEAN
  /\ sup \in {"top", "tick", "ended"}

\* fdir_init, the registrations, and worker_start for every worker.
FileCopyInit ==
  /\ Init
  /\ g_fdir_mutex = "free"
  /\ threads = [id \in Workers |-> <<NewThread>>]
  /\ active = [id \in Workers |-> TRUE]
  /\ jobs = <<>> /\ producer_done = FALSE
  /\ copied = {} /\ failed = {}
  /\ main = [pc |-> "walk", walked |-> 0, i |-> 0, gen |-> 0]
  /\ g_running = TRUE
  /\ sup = "top"

-----------------------------------------------------------------------------
(***************************************************************************)
(* Condition variables.  A thread at "wait" sleeps on not_empty, main at     *)
(* "full" on not_full; to wake up is to test the loop condition again.       *)
(***************************************************************************)
WakeOne(ths) ==       \* what pthread_cond_signal(&q->not_empty) may leave
  LET sleeping == UNION {{<<id, g>> : g \in {k \in DOMAIN ths[id] : ths[id][k].pc = "wait"}}
                           : id \in Workers}
  IN  IF sleeping = {} THEN {ths}
      ELSE {[ths EXCEPT ![t[1]][t[2]].pc = "pop"] : t \in sleeping}

WakeAll(ths) ==       \* pthread_cond_broadcast(&q->not_empty)
  [id \in Workers |-> [g \in 1 .. Len(ths[id]) |->
     IF ths[id][g].pc = "wait" THEN [ths[id][g] EXCEPT !.pc = "pop"] ELSE ths[id][g]]]

\* Mutant: the sleeping workers are not told.
FinishUnheard == producer_done' = TRUE /\ UNCHANGED threads
job_queue_finish == producer_done' = TRUE /\ threads' = WakeAll(threads)

WakeWalker == IF main.pc = "full" THEN [main EXCEPT !.pc = "walk"] ELSE main

-----------------------------------------------------------------------------
(***************************************************************************)
(* worker_thread.  A call of the library waits for the port lock.           *)
(***************************************************************************)
MutexFree == g_fdir_mutex = "free"

At(id, g, p) == g <= Len(threads[id]) /\ threads[id][g].pc = p
Step(id, g, from, to) ==
  At(id, g, from) /\ threads' = [threads EXCEPT ![id][g].pc = to]

\* A library call of the thread: nothing of the program but its place changes.
LibraryCall ==
  /\ MutexFree
  /\ UNCHANGED <<g_fdir_mutex, active, jobs, producer_done, copied, failed, main,
                 g_running, sup>>
Heartbeat(id) ==
  /\ heartbeat_notify(id)
  /\ UNCHANGED <<portVars, subVars, g_mode, g_supervision_enabled, g_entities,
                 queueVars, supVars, worker, submit>>

ThreadReadMode(id, g) ==
  /\ LibraryCall
  /\ Step(id, g, "mode", IF g_mode >= FDIR_MODE_SAFE THEN "safe" ELSE "gate")
  /\ UNCHANGED vars

ThreadMayRun(id, g) ==
  /\ LibraryCall
  /\ IF At(id, g, "safe")
     THEN Step(id, g, "safe", "mode") /\ Heartbeat(id)
     ELSE /\ Step(id, g, "gate", IF entity_may_run(id) THEN "pop" ELSE "mode")
          /\ UNCHANGED vars

ThreadHeartbeat(id, g) ==
  LibraryCall /\ Step(id, g, "beat", "mode") /\ Heartbeat(id)

\* Mutant: the thread goes on after its fault.
ReportAndGoOn(id, g) ==
  /\ LibraryCall
  /\ Step(id, g, "report", "mode")
  /\ \/ \E ok \in BOOLEAN : report_fault(id, REASON_IO_ERROR, ok)
     \/ report_fault_ignored(id, REASON_IO_ERROR)
  /\ UNCHANGED <<portVars, supVars, worker, submit>>

ThreadReport(id, g) ==
  /\ LibraryCall
  /\ Step(id, g, "report", "exit")
  /\ \/ \E ok \in BOOLEAN : report_fault(id, REASON_IO_ERROR, ok)
     \/ report_fault_ignored(id, REASON_IO_ERROR)
  /\ UNCHANGED <<portVars, supVars, worker, submit>>

\* The three ways through job_queue_pop: take a job and signal not_full, sleep on
\* not_empty, or leave with 0 and tell the others.  Mutants: nobody signals the
\* walker; the head of the queue is not advanced; a worker leaves as soon as the walk
\* is over.
TakeUnheard(id, g) ==
  /\ jobs # <<>>
  /\ threads' = [threads EXCEPT ![id][g] = [pc |-> "copy", job |-> Head(jobs)]]
  /\ jobs' = Tail(jobs)
  /\ UNCHANGED main
TakeWithoutRemoving(id, g) ==
  /\ jobs # <<>>
  /\ threads' = [threads EXCEPT ![id][g] = [pc |-> "copy", job |-> Head(jobs)]]
  /\ main' = WakeWalker
  /\ UNCHANGED jobs
pop_take(id, g) ==
  /\ jobs # <<>>
  /\ threads' = [threads EXCEPT ![id][g] = [pc |-> "copy", job |-> Head(jobs)]]
  /\ jobs' = Tail(jobs)
  /\ main' = WakeWalker
pop_sleep(id, g) ==
  /\ jobs = <<>> /\ ~producer_done
  /\ threads' = [threads EXCEPT ![id][g].pc = "wait"]
  /\ UNCHANGED <<jobs, main>>
LeaveEarly(id, g) ==
  /\ producer_done
  /\ threads' = WakeAll([threads EXCEPT ![id][g].pc = "exit"])
  /\ UNCHANGED <<jobs, main>>
pop_leave(id, g) ==
  /\ jobs = <<>> /\ producer_done
  /\ threads' = WakeAll([threads EXCEPT ![id][g].pc = "exit"])
  /\ UNCHANGED <<jobs, main>>

job_queue_pop(id, g) ==
  /\ At(id, g, "pop")
  /\ pop_take(id, g) \/ pop_sleep(id, g) \/ pop_leave(id, g)
  /\ UNCHANGED <<vars, g_fdir_mutex, active, producer_done, copied, failed,
                 g_running, sup>>

copy_file(id, g) ==
  /\ At(id, g, "copy")
  /\ LET job == threads[id][g].job
     IN  \/ /\ copied' = copied \cup {job} /\ UNCHANGED failed
            /\ threads' = [threads EXCEPT ![id][g] = [pc |-> "beat", job |-> NO_JOB]]
         \/ /\ failed' = failed \cup {job} /\ UNCHANGED copied
            /\ threads' = [threads EXCEPT ![id][g] = [pc |-> "report", job |-> NO_JOB]]
  /\ UNCHANGED <<vars, g_fdir_mutex, active, jobs, producer_done, main, g_running, sup>>

ThreadExit(id, g) ==
  /\ Step(id, g, "exit", "exited")
  /\ active' = [active EXCEPT ![id] = FALSE]
  /\ UNCHANGED <<vars, g_fdir_mutex, jobs, producer_done, copied, failed, main,
                 g_running, sup>>

Alive == main.pc # "exited"         \* the process exists

worker_thread(id, g) ==
  /\ Alive
  /\ \/ ThreadReadMode(id, g) \/ ThreadMayRun(id, g) \/ ThreadHeartbeat(id, g)
     \/ ThreadReport(id, g) \/ ThreadExit(id, g)
     \/ job_queue_pop(id, g) \/ copy_file(id, g)

-----------------------------------------------------------------------------
(***************************************************************************)
(* main: the walk, worker_wait_all, the end.                                *)
(***************************************************************************)
MainOnly == UNCHANGED <<vars, g_fdir_mutex, active, copied, failed, sup>>

\* Mutant: the walker does not wait for room.
PushAnyway(job) ==
  /\ jobs' = Append(jobs, job)
  /\ threads' \in WakeOne(threads)
  /\ main' = [main EXCEPT !.walked = job]

job_queue_push(job) ==
  \/ /\ Len(jobs) < JOB_QUEUE_CAP
     /\ jobs' = Append(jobs, job)
     /\ threads' \in WakeOne(threads)
     /\ main' = [main EXCEPT !.walked = job]
  \/ /\ Len(jobs) = JOB_QUEUE_CAP
     /\ main' = [main EXCEPT !.pc = "full"]
     /\ UNCHANGED <<jobs, threads>>

walk_cb ==
  /\ main.pc = "walk" /\ main.walked < JOBS
  /\ job_queue_push(main.walked + 1)
  /\ MainOnly /\ UNCHANGED <<producer_done, g_running>>

MainWalkEnds ==
  /\ main.pc = "walk" /\ main.walked = JOBS
  /\ job_queue_finish
  /\ main' = [main EXCEPT !.pc = "wait_all"]
  /\ MainOnly /\ UNCHANGED <<jobs, g_running>>

\* pthread_join blocks only when nobody else joins or has joined the thread; the
\* results of the other cases, which POSIX leaves undefined, are ignored.
SupervisorJoins(id, g) == ~MutexFree /\ report.entity = id /\ g = Len(threads[id])
MainJoins(id, g) == main.pc = "join" /\ main.i = id /\ main.gen = g

worker_wait_all ==
  /\ main.pc = "wait_all" /\ main.i \in Workers
  /\ LET g == Len(threads[main.i])
     IN  main' = IF /\ active[main.i]
                    /\ ~At(main.i, g, "joined")
                    /\ ~SupervisorJoins(main.i, g)
                 THEN [main EXCEPT !.pc = "join", !.gen = g]
                 ELSE [main EXCEPT !.i = @ + 1]
  /\ MainOnly /\ UNCHANGED <<threads, jobs, producer_done, g_running>>

MainJoinReturns ==
  /\ main.pc = "join"
  /\ Step(main.i, main.gen, "exited", "joined")
  /\ main' = [main EXCEPT !.pc = "wait_all", !.i = @ + 1, !.gen = 0]
  /\ MainOnly /\ UNCHANGED <<jobs, producer_done, g_running>>

MainStops ==
  /\ main.pc = "wait_all" /\ main.i \notin Workers
  /\ g_running' = FALSE
  /\ main' = [main EXCEPT !.pc = "join_sup"]
  /\ MainOnly /\ UNCHANGED <<threads, jobs, producer_done>>

\* The exit status is 1 if the mode is SAFE or beyond, as g_mode still tells.
MainExits ==
  /\ main.pc = "join_sup" /\ sup = "ended"
  /\ main' = [main EXCEPT !.pc = "exited"]
  /\ MainOnly /\ UNCHANGED <<threads, jobs, producer_done, g_running>>

MainThread ==
  \/ walk_cb \/ MainWalkEnds
  \/ worker_wait_all \/ MainJoinReturns \/ MainStops \/ MainExits

-----------------------------------------------------------------------------
(***************************************************************************)
(* supervisor_thread, with fdir_handle_failure split where it calls          *)
(* worker_restart_cb: the supervisor keeps the port lock while it waits.     *)
(***************************************************************************)
SupervisorOnly ==
  UNCHANGED <<active, jobs, producer_done, copied, failed, main, g_running>>

SupervisorTick ==
  /\ sup = "top" /\ g_running
  /\ TickBegin
  /\ sup' = "tick"
  /\ SupervisorOnly /\ UNCHANGED <<g_fdir_mutex, threads>>

\* The report in hand leads to a call of the restart callback.
RestartDue ==
  /\ pc = "handle"
  /\ Registered(report.entity)
  /\ ~fault_is_latched(report.entity, report.reason)
  /\ default_decide(g_entities[report.entity], report.reason) = "RESTART"

SupervisorStep ==
  /\ sup = "tick" /\ pc # "idle" /\ ~RestartDue
  /\ SupervisorLoop
  /\ SupervisorOnly /\ UNCHANGED <<g_fdir_mutex, threads, sup>>

RestartCall ==
  /\ RestartDue /\ MutexFree
  /\ g_fdir_mutex' = "restart"
  /\ SupervisorOnly /\ UNCHANGED <<vars, threads, sup>>

\* pthread_join returns, then worker_start, then the rest of the critical section.
worker_restart_cb ==
  LET id == report.entity  g == Len(threads[id])
      left == IF At(id, g, "exited") /\ ~MainJoins(id, g)
              THEN [threads EXCEPT ![id][g].pc = "joined"] ELSE threads
  IN  /\ ~MutexFree
      /\ At(id, g, "exited") \/ At(id, g, "joined") \/ MainJoins(id, g)
      /\ active' = [active EXCEPT ![id] = TRUE]
      /\ \/ /\ threads' = [left EXCEPT ![id] = Append(@, NewThread)]
            /\ recover_by_restart(report, FALSE)
         \/ /\ threads' = left       \* pthread_create fails
            /\ isolate_and_escalate(report, FALSE, fallback(g_entities[id]), TRUE)
      /\ ReturnTo(ret)
      /\ g_fdir_mutex' = "free"
      /\ UNCHANGED <<clock, queue, g_full_latched, worker, submit,
                     jobs, producer_done, copied, failed, main, g_running, sup>>

SupervisorReadMode ==
  /\ sup = "tick" /\ pc = "idle"
  /\ IF g_mode >= FDIR_MODE_SAFE
     THEN sup' = "ended" /\ g_running' = FALSE /\ job_queue_finish
     ELSE sup' = "top" /\ UNCHANGED <<g_running, producer_done, threads>>
  /\ UNCHANGED <<vars, g_fdir_mutex, active, jobs, copied, failed, main>>

SupervisorEnd ==
  /\ sup = "top" /\ ~g_running
  /\ sup' = "ended"
  /\ SupervisorOnly /\ UNCHANGED <<vars, g_fdir_mutex, threads>>

supervisor_thread ==
  /\ Alive
  /\ \/ SupervisorTick \/ SupervisorStep \/ RestartCall \/ worker_restart_cb
     \/ SupervisorReadMode \/ SupervisorEnd

-----------------------------------------------------------------------------
\* pthread_cond_wait may return without a signal.
SpuriousWakeup ==
  /\ Alive
  /\ \/ \E id \in Workers : \E g \in DOMAIN threads[id] :
          Step(id, g, "wait", "pop") /\ UNCHANGED main
     \/ main.pc = "full" /\ main' = WakeWalker /\ UNCHANGED threads
  /\ MainOnly /\ UNCHANGED <<jobs, producer_done, g_running>>

\* Time passes.  Without it no heartbeat ever looks stale.
TimePasses ==
  /\ Alive
  /\ ClockTick
  /\ UNCHANGED <<libVars, queueVars, supVars, worker, submit>>
  /\ SupervisorOnly /\ UNCHANGED <<g_fdir_mutex, threads, sup>>

WorkerThreads(id) == \E g \in DOMAIN threads[id] : worker_thread(id, g)

FileCopyNext ==
  \/ \E id \in Workers : WorkerThreads(id)
  \/ MainThread
  \/ supervisor_thread
  \/ SpuriousWakeup

\* main and the supervisor run when they can, and so does one at least of the threads
\* of each worker; nothing forces a wake-up without signal, or the clock.
FileCopyFairness ==
  /\ WF_fcVars(MainThread) /\ WF_fcVars(supervisor_thread)
  /\ \A id \in Workers : WF_fcVars(WorkerThreads(id))

\* Runs that end before a watchdog can fire, and runs of any length.
FileCopySpec == FileCopyInit /\ [][FileCopyNext]_fcVars /\ FileCopyFairness
TimedFileCopySpec ==
  FileCopyInit /\ [][FileCopyNext \/ TimePasses]_fcVars /\ FileCopyFairness

-----------------------------------------------------------------------------
\* If every copy succeeds, the process ends with every file copied: no worker gives
\* up while jobs are queued, and main waits for the ones that still copy.
CleanRunCopiesAll ==
  main.pc = "exited" /\ failed = {} => copied = 1 .. JOBS

\* Every file that the walk has found is in one place: queued once, in the hands of one
\* thread, copied or failed.  No thread takes a file that another has, and none is
\* lost when threads fail, are replaced or are woken for nothing.
Copies(id, g) == threads[id][g].pc = "copy"
Queued == {jobs[i] : i \in DOMAIN jobs}
Held == {job \in 1 .. JOBS : \E id \in Workers : \E g \in DOMAIN threads[id] :
                                Copies(id, g) /\ threads[id][g].job = job}
SoleCopier ==
  \A id, other \in Workers : \A g \in DOMAIN threads[id], k \in DOMAIN threads[other] :
    Copies(id, g) /\ Copies(other, k) /\ threads[id][g].job = threads[other][k].job
      => id = other /\ g = k
EachFileOnce ==
  /\ Queued \cup Held \cup copied \cup failed = 1 .. main.walked
  /\ Queued \cap (Held \cup copied \cup failed) = {}
  /\ Held \cap (copied \cup failed) = {} /\ copied \cap failed = {}
  /\ \A i, j \in DOMAIN jobs : jobs[i] = jobs[j] => i = j
  /\ SoleCopier

\* While the supervisor waits in worker_restart_cb and keeps the port lock, the thread
\* it waits for has left its loop and takes that lock no more.
JoinNeedsNoLock ==
  ~MutexFree =>
    LET old == threads[report.entity]
    IN  old[Len(old)].pc \in {"exit", "exited", "joined"}

\* pthread_join in worker_restart_cb returns, as the comment there says: the thread
\* has stopped, and does not wait for the port lock that the supervisor keeps.
JoinReturns == ~MutexFree ~> MutexFree

\* Once the walk is over the process ends: every sleeping worker hears of it, every
\* join returns, the supervisor sees g_running.
ShutdownEnds == producer_done ~> ~Alive

\* A walker that waits for room gets it, unless every worker is isolated for good.
WalkerServed ==
  main.pc = "full" ~> main.pc # "full" \/ \A id \in Workers : g_latched_reason[id] # NO_REASON
=============================================================================
