-------------------------------- MODULE Sched --------------------------------
(***************************************************************************)
(* The kernel threads and their scheduler (kernel/proc/thread.c and        *)
(* kernel/proc/proc.c) on one core.                                        *)
(*                                                                         *)
(* The scheduler runs with interrupts disabled and gives the processor to  *)
(* one thread at a time; a thread runs with interrupts enabled and goes    *)
(* back to the scheduler when it yields or when the APIC timer fires.      *)
(* Both use vector 38 (k_proc_PreemptThread_a).  Every step below is a     *)
(* group of instructions between two points at which the code publishes    *)
(* something another thread or the scheduler can observe; the timer may    *)
(* fire at any control point of TimerPoints.                               *)
(*                                                                         *)
(* All lists are threaded through the one field queue_next of a thread,    *)
(* so a thread that were on two lists at once would tie them together.     *)
(***************************************************************************)
EXTENDS Naturals, Sequences

CONSTANTS
  Threads,     \* the slots of the pages of the thread pool
  Main,        \* the thread k_main creates before RunScheduler (the shell)
  FreeThreads, \* the other slots, in the order of the pool's free list
  Conds,       \* conditions that do not belong to a thread (devices, streams)
  Scheduler,   \* k_proc_core_state.scheduler_thread
  Cleaner,     \* k_proc_core_state.cleanup_thread
  None,        \* NULL
  TimerPoints  \* the control points at which the timer interrupt may arrive

(***************************************************************************)
(* Where a thread can be: in code of its own ("user") or inside an         *)
(* operation of thread.c, named for what the thread is about to do.        *)
(***************************************************************************)
ThreadPoints ==
  {"user",
   "create_pop", "create_queue", "create_unlock",
   "wait_cond", "wait_block", "wait_yield", "wait_read",
   "detach", "detach_check", "detach_mark", "detach_push", "detach_unlock",
   "term_detached", "term_mark", "term_return", "term_signal", "term_yield"}

(* The control points of k_proc_CleanupThread. *)
CleanerPoints == {"clean_try", "clean_take", "clean_unlock", "clean_destroy"}

ListNames == {"ready", "waiting", "scan", "resume", "deletes", "doomed", "pool"}

States == {"COND_WAIT", "TERMINATED", "RUNNING", "CREATED", "READY",
           "DETACHED", "INVALID"}

(* The thread slots and the scheduler's own threads are different objects. *)
ASSUME ThreadsAssumption ==
  /\ Main \in Threads
  /\ Threads \cap Conds = {}
  /\ {Scheduler, Cleaner, None} \cap (Threads \cup Conds) = {}
  /\ Scheduler # Cleaner /\ Scheduler # None /\ Cleaner # None

(* The pool's free list holds every slot but Main's, each once. *)
ASSUME PoolAssumption ==
  /\ FreeThreads \in Seq(Threads \ {Main})
  /\ \A i, j \in DOMAIN FreeThreads : FreeThreads[i] = FreeThreads[j] => i = j
  /\ \A t \in Threads \ {Main} : \E i \in DOMAIN FreeThreads : FreeThreads[i] = t

ASSUME TimerAssumption == TimerPoints \subseteq ThreadPoints \cup CleanerPoints

VARIABLES
  cur,      \* k_proc_core_state.current_thread
  ran,      \* the thread RunThread switched to last (its parameter)
  spc,      \* where the scheduler is, or resumes when it gets the processor
  list,     \* the threads on each list, head first
  lock,     \* the holder of each spinlock, or None
  pc,       \* where each thread is
  cpc,      \* where the cleanup thread is
  arg,      \* the thread or condition a thread's operation is about
  state,    \* thread->state
  detached, \* thread->flags & K_PROC_THREAD_FLAG_DETACHED
  cond,     \* thread->condition, and the other conditions
  wait,     \* thread->wait_condition: whose condition it points at
  ret,      \* whether return_data holds the thread function's return value
  owner     \* the thread that holds the handle to wait for or to detach t

vars == <<cur, ran, spc, list, lock, pc, cpc, arg, state, detached, cond, wait,
          ret, owner>>

-----------------------------------------------------------------------------
(* The thread t is on the list l of the family of lists L. *)
In(L, l, t) == \E i \in DOMAIN L[l] : L[l][i] = t

On(l, t) == In(list, l, t)

(* No thread is on two lists of the family L, or twice on one. *)
Exclusive(L) ==
  \A l, m \in ListNames :
    \A i \in DOMAIN L[l], j \in DOMAIN L[m] :
      L[l][i] = L[m][j] => l = m /\ i = j

(* Mutant: every list is a stack. *)
Queued_Front(l, t) == <<t>> \o list[l]

(* QueueReadyThread and QueueWaitingThread append a thread to their list;  *)
(* QueueDetachedThread puts it in front.                                   *)
Queued(l, t) == IF l = "deletes" THEN <<t>> \o list[l] ELSE Append(list[l], t)

(* k_rt_SpinLock gets through only while nobody holds the lock. *)
Free(l) == lock[l] = None

(* Mutant: the switch takes a NULL next_thread as it is. *)
SwitchToScheduler_NoNullTest == cur' = None

(* k_proc_YieldThread and the timer: vector 38 with next_thread NULL. *)
SwitchToScheduler == cur' = Scheduler

(* k_proc_Init, then k_main creating the shell and calling RunScheduler. *)
Init ==
  /\ cur = Scheduler
  /\ ran = Main
  /\ spc = "wake"
  /\ list = [l \in ListNames |-> IF l = "ready" THEN <<Main>>
                                 ELSE IF l = "pool" THEN FreeThreads ELSE <<>>]
  /\ lock = [l \in {"ready", "deletes", "pool"} |-> None]
  /\ pc = [t \in Threads |-> "user"]
  /\ cpc = "clean_try"
  /\ arg = [t \in Threads |-> None]
  /\ state = [t \in Threads |-> IF t = Main THEN "READY" ELSE "INVALID"]
  /\ detached = [t \in Threads |-> FALSE]
  /\ cond = [c \in Threads \cup Conds |-> FALSE]
  /\ wait = [t \in Threads |-> None]
  /\ ret = [t \in Threads |-> FALSE]
  /\ owner = [t \in Threads |-> None]

-----------------------------------------------------------------------------
(***************************************************************************)
(* The scheduler.  Nothing interrupts it: when a lock it needs is held,    *)
(* the holder is not running and the scheduler spins for good.             *)
(***************************************************************************)

(* RunScheduler's loop starts by taking the whole list of waiting threads. *)
SchedTakeWaiting ==
  /\ cur = Scheduler
  /\ spc = "wake"
  /\ list' = [list EXCEPT !["scan"] = list["waiting"], !["waiting"] = <<>>]
  /\ spc' = "scan"
  /\ UNCHANGED <<cur, ran, lock, pc, cpc, arg, state, detached, cond, wait, ret, owner>>

(* One turn of the loop over the taken list: a thread whose condition is   *)
(* signalled goes to the front of the resume list, another one waits on.   *)
SchedTestWaiting ==
  /\ cur = Scheduler
  /\ spc = "scan"
  /\ list["scan"] # <<>>
  /\ LET t == Head(list["scan"])
     IN  \/ /\ cond[wait[t]]
            /\ list' = [list EXCEPT !["scan"] = Tail(@), !["resume"] = <<t>> \o @]
         \/ /\ ~cond[wait[t]]
            /\ list' = [list EXCEPT !["scan"] = Tail(@), !["waiting"] = Queued("waiting", t)]
  /\ UNCHANGED <<cur, ran, spc, lock, pc, cpc, arg, state, detached, cond, wait, ret, owner>>

(* QueueReadyThread(resume_thread) appends the whole chain under the ready *)
(* lock (not called for an empty chain); then RunThread(cleanup_thread).   *)
SchedResume ==
  /\ cur = Scheduler
  /\ spc = "scan"
  /\ list["scan"] = <<>>
  /\ list["resume"] # <<>> => Free("ready")
  /\ list' = [list EXCEPT !["ready"] = @ \o list["resume"], !["resume"] = <<>>]
  /\ state' = [t \in Threads |-> IF On("resume", t) THEN "READY" ELSE state[t]]
  /\ cur' = Cleaner
  /\ spc' = "pick"
  /\ UNCHANGED <<ran, lock, pc, cpc, arg, detached, cond, wait, ret, owner>>

(* The ready list's head, if there is one, is removed and run. *)
SchedPick ==
  /\ cur = Scheduler
  /\ spc = "pick"
  /\ Free("ready")
  /\ \/ /\ list["ready"] = <<>>
        /\ spc' = "wake"
        /\ UNCHANGED <<cur, ran, list, state>>
     \/ /\ list["ready"] # <<>>
        /\ LET t == Head(list["ready"])
           IN  /\ list' = [list EXCEPT !["ready"] = Tail(@)]
               /\ state' = [state EXCEPT ![t] = "RUNNING"]
               /\ cur' = t
               /\ ran' = t
        /\ spc' = "requeue"
  /\ UNCHANGED <<lock, pc, cpc, arg, detached, cond, wait, ret, owner>>

(* Mutant: a thread that blocked is not queued. *)
RequeueList_NoWaiting(s) ==
  CASE s = "DETACHED" -> "deletes" [] s = "RUNNING" -> "ready" [] OTHER -> "none"

(* Mutant: a thread that TERMINATED is queued like one that was preempted. *)
RequeueList_Terminated(s) ==
  CASE s = "DETACHED" -> "deletes" [] s = "COND_WAIT" -> "waiting" [] OTHER -> "ready"

(* RunThread's switch on the state the thread left behind: a TERMINATED    *)
(* thread is put on no list.                                               *)
RequeueList(s) ==
  CASE s = "DETACHED"  -> "deletes"
    [] s = "COND_WAIT" -> "waiting"
    [] s = "RUNNING"   -> "ready"
    [] OTHER           -> "none"

(* RunThread after the switch back. *)
SchedRequeue ==
  /\ cur = Scheduler
  /\ spc = "requeue"
  /\ LET l == RequeueList(state[ran])
     IN  \/ /\ l = "none"
            /\ UNCHANGED <<list, state>>
         \/ /\ l # "none"
            /\ l \in DOMAIN lock => Free(l)
            /\ list' = [list EXCEPT ![l] = Queued(l, ran)]
            /\ state' = [state EXCEPT ![ran] = IF l = "ready" THEN "READY" ELSE @]
  /\ spc' = "wake"
  /\ UNCHANGED <<cur, ran, lock, pc, cpc, arg, detached, cond, wait, ret, owner>>

SchedStep ==
  SchedTakeWaiting \/ SchedTestWaiting \/ SchedResume \/ SchedPick \/ SchedRequeue

-----------------------------------------------------------------------------
(***************************************************************************)
(* The cleanup thread, run once in every turn of the scheduler.            *)
(***************************************************************************)

(* TrySpinLock(pool): a turn in which a creator holds the lock is skipped. *)
CleanTry ==
  /\ cur = Cleaner
  /\ cpc = "clean_try"
  /\ \/ /\ Free("pool")
        /\ lock' = [lock EXCEPT !["pool"] = Cleaner]
        /\ cpc' = "clean_take"
        /\ UNCHANGED cur
     \/ /\ ~Free("pool")
        /\ SwitchToScheduler
        /\ UNCHANGED <<lock, cpc>>
  /\ UNCHANGED <<ran, spc, list, pc, arg, state, detached, cond, wait, ret, owner>>

(* The whole delete list is taken under its lock. *)
CleanTake ==
  /\ cur = Cleaner
  /\ cpc = "clean_take"
  /\ Free("deletes")
  /\ lock' = [lock EXCEPT !["deletes"] = Cleaner]
  /\ list' = [list EXCEPT !["doomed"] = list["deletes"], !["deletes"] = <<>>]
  /\ cpc' = "clean_unlock"
  /\ UNCHANGED <<cur, ran, spc, pc, arg, state, detached, cond, wait, ret, owner>>

CleanUnlock ==
  /\ cur = Cleaner
  /\ cpc = "clean_unlock"
  /\ lock' = [lock EXCEPT !["deletes"] = None]
  /\ cpc' = "clean_destroy"
  /\ UNCHANGED <<cur, ran, spc, list, pc, arg, state, detached, cond, wait, ret, owner>>

(* k_proc_DestroyThread: the stack is unmapped and freed and the slot goes *)
(* back to the pool.                                                       *)
DestroyThread ==
  /\ cur = Cleaner
  /\ cpc = "clean_destroy"
  /\ list["doomed"] # <<>>
  /\ LET t == Head(list["doomed"])
     IN  /\ list' = [list EXCEPT !["doomed"] = Tail(@), !["pool"] = <<t>> \o @]
         /\ state' = [state EXCEPT ![t] = "INVALID"]
  /\ UNCHANGED <<cur, ran, spc, lock, pc, cpc, arg, detached, cond, wait, ret, owner>>

(* Mutant: the pool stays locked. *)
CleanDone_KeepLock ==
  /\ cur = Cleaner
  /\ cpc = "clean_destroy"
  /\ list["doomed"] = <<>>
  /\ cpc' = "clean_try"
  /\ SwitchToScheduler
  /\ UNCHANGED <<ran, spc, list, lock, pc, arg, state, detached, cond, wait, ret, owner>>

(* The last slot is back: the pool is unlocked and the thread yields. *)
CleanDone ==
  /\ cur = Cleaner
  /\ cpc = "clean_destroy"
  /\ list["doomed"] = <<>>
  /\ lock' = [lock EXCEPT !["pool"] = None]
  /\ cpc' = "clean_try"
  /\ SwitchToScheduler
  /\ UNCHANGED <<ran, spc, list, pc, arg, state, detached, cond, wait, ret, owner>>

CleanStep == CleanTry \/ CleanTake \/ CleanUnlock \/ DestroyThread \/ CleanDone

-----------------------------------------------------------------------------
(***************************************************************************)
(* Threads.                                                                *)
(***************************************************************************)

Running(t, p) == cur = t /\ pc[t] = p

Goto(t, p) == pc' = [pc EXCEPT ![t] = p]

(* CreateThread up to the pool's lock.  A thread that finds the lock held  *)
(* spins where it is until the timer takes the processor away.             *)
CreateThread(t) ==
  /\ Running(t, "user")
  /\ list["pool"] # <<>>
  /\ Free("pool")
  /\ lock' = [lock EXCEPT !["pool"] = t]
  /\ Goto(t, "create_pop")
  /\ UNCHANGED <<cur, ran, spc, list, cpc, arg, state, detached, cond, wait, ret, owner>>

(* The pool's head is taken, the pool unlocked and the slot initialised;   *)
(* return_data keeps whatever the slot's last user left there.             *)
CreatePop(t) ==
  /\ Running(t, "create_pop")
  /\ LET u == Head(list["pool"])
     IN  /\ list' = [list EXCEPT !["pool"] = Tail(@)]
         /\ state' = [state EXCEPT ![u] = "CREATED"]
         /\ detached' = [detached EXCEPT ![u] = FALSE]
         /\ cond' = [cond EXCEPT ![u] = FALSE]
         /\ wait' = [wait EXCEPT ![u] = None]
         /\ ret' = [ret EXCEPT ![u] = FALSE]
         /\ arg' = [arg EXCEPT ![t] = u, ![u] = None]
         /\ pc' = [pc EXCEPT ![t] = "create_queue", ![u] = "user"]
         /\ owner' = [owner EXCEPT ![u] = None]
  /\ lock' = [lock EXCEPT !["pool"] = None]
  /\ UNCHANGED <<cur, ran, spc, cpc>>

(* QueueReadyThread(thread) up to the release of the ready lock. *)
CreateQueue(t) ==
  /\ Running(t, "create_queue")
  /\ Free("ready")
  /\ lock' = [lock EXCEPT !["ready"] = t]
  /\ list' = [list EXCEPT !["ready"] = Queued("ready", arg[t])]
  /\ state' = [state EXCEPT ![arg[t]] = "READY"]
  /\ Goto(t, "create_unlock")
  /\ UNCHANGED <<cur, ran, spc, cpc, arg, detached, cond, wait, ret, owner>>

(* Mutant: the ready lock is not released. *)
CreateUnlock_KeepLock(t) ==
  /\ Running(t, "create_unlock")
  /\ owner' = [owner EXCEPT ![arg[t]] = t]
  /\ Goto(t, "user")
  /\ UNCHANGED <<cur, ran, spc, list, lock, cpc, arg, state, detached, cond, wait, ret>>

(* The ready lock is released and the caller gets the new thread's handle. *)
CreateUnlock(t) ==
  /\ Running(t, "create_unlock")
  /\ lock' = [lock EXCEPT !["ready"] = None]
  /\ owner' = [owner EXCEPT ![arg[t]] = t]
  /\ Goto(t, "user")
  /\ UNCHANGED <<cur, ran, spc, list, cpc, arg, state, detached, cond, wait, ret>>

(* WaitThread: nothing to wait for when the thread has TERMINATED.  The    *)
(* calls that return a status at once (invalid, detached) change nothing.  *)
WaitThread(t, u) ==
  /\ Running(t, "user")
  /\ owner[u] = t
  /\ state[u] # "INVALID" /\ u # t /\ ~detached[u]
  /\ arg' = [arg EXCEPT ![t] = u]
  /\ Goto(t, IF state[u] # "TERMINATED" THEN "wait_cond" ELSE "wait_read")
  /\ UNCHANGED <<cur, ran, spc, list, lock, cpc, state, detached, cond, wait, ret, owner>>

(* WaitCondition on a condition of a device, a stream or a command. *)
WaitCondition(t, c) ==
  /\ Running(t, "user")
  /\ arg' = [arg EXCEPT ![t] = c]
  /\ Goto(t, "wait_cond")
  /\ UNCHANGED <<cur, ran, spc, list, lock, cpc, state, detached, cond, wait, ret, owner>>

(* Where a wait returns to: WaitThread goes on, a plain wait is over. *)
AfterWait(t) == IF arg[t] \in Conds THEN "user" ELSE "wait_read"

(* Mutant: WaitCondition returns without blocking. *)
WaitTest_NoBlock(t) ==
  /\ Running(t, "wait_cond")
  /\ Goto(t, AfterWait(t))
  /\ UNCHANGED <<cur, ran, spc, list, lock, cpc, arg, state, detached, cond, wait, ret, owner>>

(* WaitCondition tests the condition before it blocks ... *)
WaitTest(t) ==
  /\ Running(t, "wait_cond")
  /\ \/ /\ cond[arg[t]]
        /\ Goto(t, AfterWait(t))
        /\ UNCHANGED wait
     \/ /\ ~cond[arg[t]]
        /\ wait' = [wait EXCEPT ![t] = arg[t]]
        /\ Goto(t, "wait_block")
  /\ UNCHANGED <<cur, ran, spc, list, lock, cpc, arg, state, detached, cond, ret, owner>>

(* ... sets its state ... *)
WaitBlock(t) ==
  /\ Running(t, "wait_block")
  /\ state' = [state EXCEPT ![t] = "COND_WAIT"]
  /\ Goto(t, "wait_yield")
  /\ UNCHANGED <<cur, ran, spc, list, lock, cpc, arg, detached, cond, wait, ret, owner>>

(* ... and yields; it does not test the condition again when it is resumed. *)
WaitYield(t) ==
  /\ Running(t, "wait_yield")
  /\ SwitchToScheduler
  /\ Goto(t, AfterWait(t))
  /\ UNCHANGED <<ran, spc, list, lock, cpc, arg, state, detached, cond, wait, ret, owner>>

(* WaitThread copies return_data and then detaches the thread. *)
WaitRead(t) ==
  /\ Running(t, "wait_read")
  /\ wait' = [wait EXCEPT ![t] = None]
  /\ Goto(t, "detach")
  /\ UNCHANGED <<cur, ran, spc, list, lock, cpc, arg, state, detached, cond, ret, owner>>

(* A call of DetachThread by the holder of the handle. *)
DetachThread(t, u) ==
  /\ Running(t, "user")
  /\ owner[u] = t
  /\ arg' = [arg EXCEPT ![t] = u]
  /\ Goto(t, "detach")
  /\ UNCHANGED <<cur, ran, spc, list, lock, cpc, state, detached, cond, wait, ret, owner>>

(* The call returns: the handle must not be used again. *)
DropHandle(t) ==
  /\ owner' = [owner EXCEPT ![arg[t]] = None]
  /\ Goto(t, "user")

DetachFlag(t) ==
  /\ Running(t, "detach")
  /\ \/ /\ detached[arg[t]]
        /\ DropHandle(t)
        /\ UNCHANGED detached
     \/ /\ ~detached[arg[t]]
        /\ detached' = [detached EXCEPT ![arg[t]] = TRUE]
        /\ Goto(t, "detach_check")
        /\ UNCHANGED owner
  /\ UNCHANGED <<cur, ran, spc, list, lock, cpc, arg, state, cond, wait, ret>>

(* Mutant: DetachThread queues the thread whether or not it has ended. *)
DetachCheck_NoTest(t) ==
  /\ Running(t, "detach_check")
  /\ Goto(t, "detach_mark")
  /\ UNCHANGED <<cur, ran, spc, list, lock, cpc, arg, state, detached, cond, wait, ret, owner>>

DetachCheck(t) ==
  /\ Running(t, "detach_check")
  /\ \/ /\ state[arg[t]] = "TERMINATED"
        /\ Goto(t, "detach_mark")
        /\ UNCHANGED owner
     \/ /\ state[arg[t]] # "TERMINATED"
        /\ DropHandle(t)
  /\ UNCHANGED <<cur, ran, spc, list, lock, cpc, arg, state, detached, cond, wait, ret>>

DetachMark(t) ==
  /\ Running(t, "detach_mark")
  /\ state' = [state EXCEPT ![arg[t]] = "DETACHED"]
  /\ Goto(t, "detach_push")
  /\ UNCHANGED <<cur, ran, spc, list, lock, cpc, arg, detached, cond, wait, ret, owner>>

(* QueueDetachedThread up to the release of the delete list's lock; it     *)
(* ignores a thread that is not DETACHED.                                  *)
DetachPush(t) ==
  /\ Running(t, "detach_push")
  /\ IF state[arg[t]] = "DETACHED"
     THEN /\ Free("deletes")
          /\ lock' = [lock EXCEPT !["deletes"] = t]
          /\ list' = [list EXCEPT !["deletes"] = Queued("deletes", arg[t])]
          /\ Goto(t, "detach_unlock")
          /\ UNCHANGED owner
     ELSE /\ DropHandle(t)
          /\ UNCHANGED <<list, lock>>
  /\ UNCHANGED <<cur, ran, spc, cpc, arg, state, detached, cond, wait, ret>>

DetachUnlock(t) ==
  /\ Running(t, "detach_unlock")
  /\ lock' = [lock EXCEPT !["deletes"] = None]
  /\ DropHandle(t)
  /\ UNCHANGED <<cur, ran, spc, list, cpc, arg, state, detached, cond, wait, ret>>

(* Mutant: every thread ends as if it were detached. *)
TerminateThread_NoFlag(t) ==
  /\ Running(t, "user")
  /\ Goto(t, "term_detached")
  /\ owner' = [u \in Threads |-> IF owner[u] = t THEN None ELSE owner[u]]
  /\ UNCHANGED <<cur, ran, spc, list, lock, cpc, arg, state, detached, cond, wait, ret>>

(* TerminateThread reads the flags once; what it held handles of stays as  *)
(* it is, with nobody left to wait for it.                                 *)
TerminateThread(t) ==
  /\ Running(t, "user")
  /\ Goto(t, IF detached[t] THEN "term_detached" ELSE "term_mark")
  /\ owner' = [u \in Threads |-> IF owner[u] = t THEN None ELSE owner[u]]
  /\ UNCHANGED <<cur, ran, spc, list, lock, cpc, arg, state, detached, cond, wait, ret>>

TermDetached(t) ==
  /\ Running(t, "term_detached")
  /\ state' = [state EXCEPT ![t] = "DETACHED"]
  /\ Goto(t, "term_signal")
  /\ UNCHANGED <<cur, ran, spc, list, lock, cpc, arg, detached, cond, wait, ret, owner>>

TermMark(t) ==
  /\ Running(t, "term_mark")
  /\ state' = [state EXCEPT ![t] = "TERMINATED"]
  /\ Goto(t, "term_return")
  /\ UNCHANGED <<cur, ran, spc, list, lock, cpc, arg, detached, cond, wait, ret, owner>>

TermReturn(t) ==
  /\ Running(t, "term_return")
  /\ ret' = [ret EXCEPT ![t] = TRUE]
  /\ Goto(t, "term_signal")
  /\ UNCHANGED <<cur, ran, spc, list, lock, cpc, arg, state, detached, cond, wait, owner>>

(* Mutant: the end of the thread is not signalled. *)
TermSignal_Lost(t) ==
  /\ Running(t, "term_signal")
  /\ Goto(t, "term_yield")
  /\ UNCHANGED <<cur, ran, spc, list, lock, cpc, arg, state, detached, cond, wait, ret, owner>>

TermSignal(t) ==
  /\ Running(t, "term_signal")
  /\ cond' = [cond EXCEPT ![t] = TRUE]
  /\ Goto(t, "term_yield")
  /\ UNCHANGED <<cur, ran, spc, list, lock, cpc, arg, state, detached, wait, ret, owner>>

TermYield(t) ==
  /\ Running(t, "term_yield")
  /\ SwitchToScheduler
  /\ UNCHANGED <<ran, spc, list, lock, pc, cpc, arg, state, detached, cond, wait, ret, owner>>

(* A thread that has nothing to do yields. *)
YieldThread(t) ==
  /\ Running(t, "user")
  /\ SwitchToScheduler
  /\ UNCHANGED <<ran, spc, list, lock, pc, cpc, arg, state, detached, cond, wait, ret, owner>>

(* k_rt_SignalCondition, by an interrupt handler or by the running thread: *)
(* either way interrupts are enabled and the scheduler is not running.     *)
SignalCondition(c) ==
  /\ cur # Scheduler
  /\ cond' = [cond EXCEPT ![c] = TRUE]
  /\ UNCHANGED <<cur, ran, spc, list, lock, pc, cpc, arg, state, detached, wait, ret, owner>>

(* k_rt_ClearCondition, by the thread that is about to start a transfer or *)
(* has taken everything there was to take.                                 *)
ClearCondition(t, c) ==
  /\ Running(t, "user")
  /\ cond' = [cond EXCEPT ![c] = FALSE]
  /\ UNCHANGED <<cur, ran, spc, list, lock, pc, cpc, arg, state, detached, wait, ret, owner>>

(* The APIC timer's interrupt: the running thread resumes later where it is. *)
Timer ==
  /\ \/ cur = Cleaner /\ cpc \in TimerPoints
     \/ cur \in Threads /\ pc[cur] \in TimerPoints
  /\ SwitchToScheduler
  /\ UNCHANGED <<ran, spc, list, lock, pc, cpc, arg, state, detached, cond, wait, ret, owner>>

-----------------------------------------------------------------------------
(* What a thread does on its own, once it is inside an operation. *)
KernelStep(t) ==
  \/ CreatePop(t) \/ CreateQueue(t) \/ CreateUnlock(t)
  \/ WaitTest(t) \/ WaitBlock(t) \/ WaitYield(t) \/ WaitRead(t)
  \/ DetachFlag(t) \/ DetachCheck(t) \/ DetachMark(t) \/ DetachPush(t) \/ DetachUnlock(t)
  \/ TermDetached(t) \/ TermMark(t) \/ TermReturn(t) \/ TermSignal(t) \/ TermYield(t)

(* What a thread's code may call. *)
Call(t) ==
  \/ CreateThread(t)
  \/ \E u \in Threads : WaitThread(t, u) \/ DetachThread(t, u)
  \/ \E c \in Conds : WaitCondition(t, c) \/ ClearCondition(t, c)
  \/ TerminateThread(t)
  \/ YieldThread(t)

Next ==
  \/ SchedStep
  \/ CleanStep
  \/ \E t \in Threads : KernelStep(t) \/ Call(t)
  \/ \E c \in Conds : SignalCondition(c)
  \/ Timer

Spec == Init /\ [][Next]_vars

-----------------------------------------------------------------------------
(* Every variable holds a value of its C type. *)
TypeOK ==
  /\ cur \in Threads \cup {Scheduler, Cleaner}
  /\ ran \in Threads
  /\ spc \in {"wake", "scan", "pick", "requeue"}
  /\ list \in [ListNames -> Seq(Threads)]
  /\ lock \in [{"ready", "deletes", "pool"} -> Threads \cup {Cleaner, None}]
  /\ pc \in [Threads -> ThreadPoints]
  /\ cpc \in CleanerPoints
  /\ arg \in [Threads -> Threads \cup Conds \cup {None}]
  /\ state \in [Threads -> States]
  /\ detached \in [Threads -> BOOLEAN]
  /\ cond \in [Threads \cup Conds -> BOOLEAN]
  /\ wait \in [Threads -> Threads \cup Conds \cup {None}]
  /\ ret \in [Threads -> BOOLEAN]
  /\ owner \in [Threads -> Threads \cup {None}]

(* A thread is on at most one list, and at most once: the lists share the  *)
(* field queue_next, so a second insertion would tie two lists together or *)
(* close one into a loop.                                                  *)
OneList == Exclusive(list)

(* The lists a thread in a given state may be on. *)
ListsOf(s) ==
  CASE s = "READY"     -> {"ready"}
    [] s = "COND_WAIT" -> {"waiting", "scan", "resume"}
    [] s = "DETACHED"  -> {"deletes", "doomed"}
    [] s = "INVALID"   -> {"pool"}
    [] OTHER           -> {}

(* The threads that are off the lists because somebody is working on them: *)
(* the thread that has the processor or that RunThread is about to queue,  *)
(* and the thread a DetachThread is about to put on the delete list.       *)
InTransit(t) ==
  \/ spc = "requeue" /\ ran = t
  \/ \E u \in Threads : pc[u] = "detach_push" /\ arg[u] = t

(* A thread is on a list exactly when its state says so: no thread that is *)
(* ready, waiting or to be destroyed is lost, and none is run, resumed or  *)
(* destroyed that should not be.                                           *)
ListsMatchStates ==
  \A t \in Threads :
    /\ \A l \in ListNames : On(l, t) => l \in ListsOf(state[t])
    /\ ListsOf(state[t]) # {} /\ ~InTransit(t)
         => \E l \in ListsOf(state[t]) : On(l, t)

(* A thread blocked in WaitThread points into the thread it waits for:     *)
(* that slot is not destroyed, nor on its way to be, under the waiter.     *)
WaitedThreadLives ==
  \A t \in Threads :
    (\E l \in {"waiting", "scan", "resume"} : On(l, t)) /\ wait[t] \in Threads
      => state[wait[t]] \notin {"INVALID", "DETACHED", "CREATED"}

(* WaitThread returns the value the thread function returned. *)
WaitReturnsValue ==
  \A t \in Threads : Running(t, "wait_read") => ret[arg[t]]

(* The states a thread may go through, whoever changes its state.  In      *)
(* particular a thread that has TERMINATED never runs again, and a slot is *)
(* destroyed and given out again only after it was DETACHED.               *)
NextStates(s) ==
  CASE s = "INVALID"    -> {"CREATED"}
    [] s = "CREATED"    -> {"READY"}
    [] s = "READY"      -> {"RUNNING"}
    [] s = "RUNNING"    -> {"READY", "COND_WAIT", "TERMINATED", "DETACHED"}
    [] s = "COND_WAIT"  -> {"READY"}
    [] s = "TERMINATED" -> {"DETACHED"}
    [] s = "DETACHED"   -> {"INVALID"}

Lifecycle ==
  [][\A t \in Threads : state'[t] # state[t] => state'[t] \in NextStates(state[t])]_vars

-----------------------------------------------------------------------------
(***************************************************************************)
(* Progress.  The scheduler's steps are instructions of the one core.  A   *)
(* thread inside an operation and the cleanup thread go on whenever they   *)
(* are given the processor often enough: a time slice (0x1fff ticks) is    *)
(* longer than one of their steps.  The timer counts down whatever the     *)
(* running thread does.  Nothing makes a thread call anything.             *)
(***************************************************************************)
Fairness ==
  /\ WF_vars(SchedStep)
  /\ SF_vars(CleanStep)
  /\ \A t \in Threads : SF_vars(KernelStep(t))
  /\ SF_vars(Timer)

FairSpec == Spec /\ Fairness

(* The scheduler gets every lock it spins on, and gives the processor away. *)
SchedulerGetsLock == (cur = Scheduler) ~> (cur # Scheduler)

(* No ready thread is starved: the ready list is first in, first out. *)
ReadyRuns == \A t \in Threads : (state[t] = "READY") ~> (cur = t)

(* A thread blocked in WaitThread runs again once the thread it waits for  *)
(* has called TerminateThread.                                             *)
JoinerResumes ==
  \A t, u \in Threads :
    (state[t] = "COND_WAIT" /\ wait[t] = u /\ pc[u] = "term_mark") ~> (cur = t)

(* The slot of a thread that is detached and has ended is given back. *)
DetachedReclaimed ==
  \A t \in Threads :
    (detached[t] /\ pc[t] = "term_yield") ~> (state[t] = "INVALID")

=============================================================================
